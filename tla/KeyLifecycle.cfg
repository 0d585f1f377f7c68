SPECIFICATION Spec
CONSTANTS
    Tenants = {t1, t2}
    Keys = {k1, k2}
    OneAdmin = {k2}
    Secrets = {s1, s2, s3}
    Admins = {a1, a2, a3}
    Auths = {u1}
    Grace = 2
    MaxNow = 3
    None = None
SYMMETRY IdSymmetry
CHECK_DEADLOCK FALSE
INVARIANTS
    TenantResolution
    NoSpuriousRejection
    GraceEnds
    NewKeyActiveAlone
PROPERTY RevocationSticks
