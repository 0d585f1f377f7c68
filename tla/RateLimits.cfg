SPECIFICATION Spec
CONSTANTS
    c1 = c1
    global = global
    endpoint = endpoint
    burst = burst
    Requests = {r1, r2, r3, r4}
    Clients = {c1}
    Buckets = {global, endpoint, burst}
    Bucket <- OneApiKey
    Limit <- Limits
    Window <- Windows
    WarnPeriod = 3
    MaxInFlight = 2
    MaxDelay = 1
    MaxFailures = 1
    MaxNow = 4
SYMMETRY RequestSymmetry
VIEW LiveView
CHECK_DEADLOCK FALSE
INVARIANTS
    LimitAndSlack
    WarningSlack
PROPERTIES
    KeptWhileCounted
    DeniedOnlyAtLimit
