SPECIFICATION Spec
CONSTANTS
    t1 = t1
    t2 = t2
    ann = ann
    bob = bob
    eve = eve
    None = None
    Users = {ann, bob, eve}
    Home <- MCHome
    Files = {f1, f2}
    Slots = {s1, s2, s3}
INVARIANTS
    ListedIsThere
    DownloadsWhole
    AgreeUnlessFaulty
SYMMETRY Symmetry
CHECK_DEADLOCK FALSE
