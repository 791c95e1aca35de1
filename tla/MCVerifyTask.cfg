SPECIFICATION FairSpec
CONSTANTS
    Host = {h1, h2}
    AppInfo <- MCAppInfo
    Response <- MCResponse
    Task = {t1}
    MaxTime = 3
    MaxErrors = 0
INVARIANTS
    LoneHostInRange
PROPERTIES
    SaveIsWhole
    TaskIsOneStep
    EndsBySaving
    BackoffHolds
    TaskEnds
