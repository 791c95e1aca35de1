SPECIFICATION Spec
CONSTANTS
    Bundle = {b1}
    h1 = h1
    h2 = h2
    Host = {h1, h2}
    App = {a1, a2}
    PreInstalled = {b1}
    SkillUri <- MCSkillUri
    Skills <- MCSkills
    Priority <- MCPriority
    LinkHost = {h1}
    Task = {t1, t2}
    None = None
SYMMETRY MCSymmetry
INVARIANTS
    SuccessIsOfApp
    LinkIsAnnounced
PROPERTY OpenIsKept
