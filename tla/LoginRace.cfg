\* Two browsers submit the login form of the same request.
SPECIFICATION Spec
CONSTANTS
    c1 = c1
    u1 = u1
    u2 = u2
    b1 = b1
    b2 = b2
    t1 = t1
    t2 = t2
    read = read
    SPAClients = {c1}
    ServiceClients = {}
    Users = {u1, u2}
    AppScopes = {read}
    AllowedScopes <- MCAllowed
    Permissions <- MCPermissions
    Requested <- MCRequested
    Hints <- MCHinted
    Browsers = {b1, b2}
    Threads = {t1, t2}
    SelectMode = FALSE
    AuthTTL = 2
    AccessTTL = 2
    RefreshTTL = 3
    maxPendingAuthRequests = 1
    HashSlots = 1
    MaxTime = 4
    MaxRequests = 1
    MaxPosts = 4
SYMMETRY LoginSymmetry
INVARIANTS
    OneSignInPerRequest
    CodeReachesSigner
    SecretPassesOnce
    CodesFollowRequests
PROPERTIES
    SignInWithinLifetime
