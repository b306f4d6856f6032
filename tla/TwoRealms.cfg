\* Two realms that log in at the same time, one slot.
SPECIFICATION FairSpec
CONSTANTS
    c1 = c1
    u1 = u1
    b1 = b1
    t1 = t1
    t2 = t2
    SPAClients = {c1}
    ServiceClients = {}
    Users = {u1}
    AppScopes = {}
    AllowedScopes <- MCAllowed
    Permissions <- MCPermissions
    Requested <- MCRequested
    Hints <- MCHints
    Browsers = {b1}
    ThreadsA = {t1}
    ThreadsB = {t2}
    SelectMode = FALSE
    AuthTTL = 1
    AccessTTL = 1
    RefreshTTL = 1
    maxPendingAuthRequests = 1
    HashSlots = 1
    MaxTime = 2
    MaxRequests = 1
    MaxPosts = 2
INVARIANT SlotsCountBothRealms
PROPERTY CallsReturn
