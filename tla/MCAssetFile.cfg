SPECIFICATION SpecLoops
CONSTANTS
    Name <- MCName
    Own <- MCOwn
    Priority <- MCPriority
    MaxApps = 3
INVARIANTS
    LoopsMatchClosedForm
    SuccessIsEarned
PROPERTIES
    VerdictIsStable
CHECK_DEADLOCK FALSE
