SPECIFICATION Spec
CONSTANTS
    Bundle = {b1}
    Host = {h1, h2}
    App = {a1, a2}
    Status = {ok, fail}
    STATE_SUCCESS = ok
    None = None
    Unknown = Unknown
    NoName = NoName
    MaxRows = 3
SYMMETRY MCSymmetry
INVARIANTS
    TrueMeansSaved
