SPECIFICATION TasksSpec
CONSTANTS
    t1 = t1
    t2 = t2
    ann = ann
    bob = bob
    eve = eve
    None = None
    Users = {ann, bob, eve}
    Home <- MCHome
    Callers = {ann, eve}
    Workspaces = {w1, w2}
    Projects = {p1, p2}
    Tasks = {k1}
    Slots = {s1, s2}
INVARIANTS
    TasksAtHome
    AssigneesJoined
SYMMETRY Symmetry
CHECK_DEADLOCK FALSE
