\* Two offline sign-ins: what belongs to which client and family.
SPECIFICATION FairSpec
CONSTANTS
    c1 = c1
    c2 = c2
    s1 = s1
    u1 = u1
    u2 = u2
    t1 = t1
    t2 = t2
    read = read
    SPAClients = {c1, c2}
    ServiceClients = {}
    Users = {u1}
    AppScopes = {read}
    AllowedScopes <- MCAllowed
    Permissions <- MCPermissions
    Threads = {t1}
    Grants <- MCOffline
    Sessions = 2
    AuthTTL = 2
    AccessTTL = 2
    RefreshTTL = 1
    maxPendingAuthRequests = 2
    HashSlots = 1
    MaxTime = 3
    MaxCalls = 3
    MaxLogouts = 1
INVARIANTS
    RevokedFamilyIsGone
    AnswersAreLive
    LogoutIsFinal
PROPERTY CallsReturn
