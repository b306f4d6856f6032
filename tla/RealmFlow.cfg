\* From /authorize to tokens, refresh and logout in one realm.
SPECIFICATION Spec
CONSTANTS
    c1 = c1
    u1 = u1
    u2 = u2
    b1 = b1
    b2 = b2
    s1 = s1
    t1 = t1
    t2 = t2
    read = read
    SPAClients = {c1}
    ServiceClients = {s1}
    Users = {u1, u2}
    AppScopes = {read}
    AllowedScopes <- MCAllowed
    Permissions <- MCPermissions
    Requested <- MCRequested
    Hints <- MCHints
    Browsers = {b1, b2}
    LoginThreads = {t1}
    TokenThreads = {t2}
    SelectMode = FALSE
    AuthTTL = 1
    AccessTTL = 1
    RefreshTTL = 1
    maxPendingAuthRequests = 1
    HashSlots = 1
    MaxTime = 2
    MaxRequests = 1
    MaxPosts = 3
    MaxCalls = 2
    MaxLogouts = 1
SYMMETRY BrowserSymmetry
INVARIANTS
    TokenOfSigner
    TokenScopesAllowed
PROPERTY ImplementsGrants
