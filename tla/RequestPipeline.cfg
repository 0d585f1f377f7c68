SPECIFICATION FairSpec
CONSTANTS
    r1 = r1
    r2 = r2
    t1 = t1
    t2 = t2
    k1 = k1
    k2 = k2
    Requests = {r1, r2}
    Wanted <- AnyAndReports
    Tenants = {t1, t2}
    Keys = {k1, k2}
    TenantOf <- TenantOfKey
    Owners = {k1}
    Window = 0
    MaxNow = 1
    None = None
CHECK_DEADLOCK FALSE
INVARIANTS
    ActsForKeysTenant
    CollectionsServeNobody
    ServedIsCounted
PROPERTIES
    ReportsWindow
    EveryRequestAnswered
