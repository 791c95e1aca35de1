SPECIFICATION FairSpec
CONSTANTS
    Task = {t1, t2, t3, t4}
    Worker = {w1, w2}
    None = None
INVARIANTS
    IdleMeansHandled
    DestroyedIsQuiet
PROPERTIES
    AddedIsHandled
    StopEnds
    HandlesOnce
CHECK_DEADLOCK FALSE
