SPECIFICATION Spec
CONSTANTS
    Bundle = {b1, b2}
    Host = {h1, h2}
    App = {a1}
    Status = {ok, fail}
    STATE_SUCCESS = ok
    None = None
    Unknown = Unknown
    NoName = NoName
    MaxRows = 3
SYMMETRY MCSymmetry
INVARIANTS
    OneRowPerHost
    TableMatchesMemory
    AckedSurvives
    AssociationsMatchMemory
