\* Two requests at a time against one sign-in, and a service beside it.
SPECIFICATION Spec
CONSTANTS
    c1 = c1
    c2 = c2
    s1 = s1
    u1 = u1
    u2 = u2
    t1 = t1
    t2 = t2
    read = read
    SPAClients = {c1}
    ServiceClients = {s1}
    Users = {u1}
    AppScopes = {read}
    AllowedScopes <- MCAllowed
    Permissions <- MCPermissions
    Threads = {t1, t2}
    Grants <- MCGrants
    Sessions = 1
    AuthTTL = 2
    AccessTTL = 2
    RefreshTTL = 3
    maxPendingAuthRequests = 2
    HashSlots = 1
    MaxTime = 5
    MaxCalls = 4
    MaxLogouts = 1
SYMMETRY ThreadSymmetry
INVARIANTS
    CodeRedeemedOnce
    FamilyHoldsOnePair
    RefreshIndexComplete
    WinnerKeepsItsRequest
    AudienceOrder
PROPERTY RevocationIsFinal
