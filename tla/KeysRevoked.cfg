SPECIFICATION Spec
CONSTANTS
    Tenants = {t1}
    Keys = {k1}
    OneAdmin = {k1}
    Secrets = {s1, s2}
    Admins = {a1, a2, a3}
    Auths = {}
    Grace = 2
    MaxNow = 2
    None = None
SYMMETRY IdSymmetry
CHECK_DEADLOCK FALSE
INVARIANT RevokedAdmitsNobody
