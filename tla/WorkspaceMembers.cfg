SPECIFICATION Spec
CONSTANTS
    t1 = t1
    t2 = t2
    u1 = u1
    u2 = u2
    u3 = u3
    Tenants = {t1, t2}
    Users = {u1, u2, u3}
    Home <- TwoTenants
    Callers = {u1, u3}
    Workspaces = {w1, w2}
    OneManager = {w2}
    Names = {n1}
    Requests = {r1, r2, r3}
    MaxPrefix = 1
    None = None
SYMMETRY RequestSymmetry
CHECK_DEADLOCK FALSE
INVARIANTS
    ArchivesOwnTenant
PROPERTIES
    ImplementsOwnedGroup
    ImplementsTenancy
