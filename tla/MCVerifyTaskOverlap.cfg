SPECIFICATION Spec
CONSTANTS
    Host = {h1}
    AppInfo <- MCAppInfo
    Response <- MCOverlapResponse
    Task = {t1, t2}
    MaxTime = 3
    MaxErrors = 0
SYMMETRY MCSymmetry
PROPERTIES
    TaskIsOneStep
    BackoffHolds
CHECK_DEADLOCK FALSE
