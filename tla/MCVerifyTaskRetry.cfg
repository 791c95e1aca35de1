SPECIFICATION Spec
CONSTANTS
    Host = {h1}
    AppInfo <- MCAppInfo
    Response <- MCClientError
    Task = {t1}
    MaxTime = 22
    MaxErrors = 7
INVARIANTS
    ForbiddenAfterLimit
CHECK_DEADLOCK FALSE
