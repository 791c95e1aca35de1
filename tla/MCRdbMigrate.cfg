SPECIFICATION FairSpec
CONSTANTS
    Result = {r1, r2}
    NoTable = NoTable
    MaxFaults = 3
INVARIANTS
    OpenIsWhole
PROPERTY OpensOrHalfDone
