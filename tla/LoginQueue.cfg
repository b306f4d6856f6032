\* Authorization requests compete for the places of the store, in a
\* realm that selects identities without a password.
SPECIFICATION Spec
CONSTANTS
    c1 = c1
    u1 = u1
    u2 = u2
    b1 = b1
    b2 = b2
    t1 = t1
    t2 = t2
    read = read
    SPAClients = {c1}
    ServiceClients = {}
    Users = {u1, u2}
    AppScopes = {read}
    AllowedScopes <- MCAllowed
    Permissions <- MCPermissions
    Requested <- MCRequested
    Hints <- MCHints
    Browsers = {b1}
    Threads = {t1, t2}
    SelectMode = TRUE
    AuthTTL = 2
    AccessTTL = 2
    RefreshTTL = 3
    maxPendingAuthRequests = 2
    HashSlots = 1
    MaxTime = 4
    MaxRequests = 3
    MaxPosts = 2
SYMMETRY LoginSymmetry
INVARIANTS
    CacheIsTransparent
    OneSignInPerRequest
PROPERTIES
    RefusedOnlyWhenFull
