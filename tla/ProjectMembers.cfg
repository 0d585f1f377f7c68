SPECIFICATION Spec
CONSTANTS
    t1 = t1
    t2 = t2
    ann = ann
    bob = bob
    eve = eve
    None = None
    Users = {ann, bob, eve}
    Home <- MCHome
    Callers = {ann, bob}
    Projects = {p1, p2}
    OneManager = {p1}
    Rows = {i1, i2, i3}
    Roles = {"owner", "viewer"}
    Slots = {s1, s2}
INVARIANTS
    TypeOK
    TenantIsolation
PROPERTIES
    AbandonedForGood
    ImplementsOwnedGroup
SYMMETRY Symmetry
CHECK_DEADLOCK FALSE
