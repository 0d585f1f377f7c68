SPECIFICATION FairListingsSpec
CONSTANTS
    Ids = {1, 2, 3}
    Readers = {u1}
    Limits <- SmallLimits
    MaxNow = 2
    MaxShown = 3
    NoCursor = NoCursor
CHECK_DEADLOCK FALSE
INVARIANTS
    NewestFirst
    StuckByLimit
PROPERTIES
    AllShown
    ReadingEnds
