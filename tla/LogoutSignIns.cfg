\* What logout leaves of a completed sign-in.
SPECIFICATION Spec
CONSTANTS
    c1 = c1
    c2 = c2
    s1 = s1
    u1 = u1
    u2 = u2
    t1 = t1
    t2 = t2
    read = read
    SPAClients = {c1, c2}
    ServiceClients = {}
    Users = {u1}
    AppScopes = {read}
    AllowedScopes <- MCAllowed
    Permissions <- MCPermissions
    Threads = {t1, t2}
    Grants <- MCGrants
    Sessions = 1
    AuthTTL = 2
    AccessTTL = 2
    RefreshTTL = 3
    maxPendingAuthRequests = 2
    HashSlots = 1
    MaxTime = 3
    MaxCalls = 4
    MaxLogouts = 1
INVARIANTS
    LogoutEndsSignIns
