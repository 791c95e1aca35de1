SPECIFICATION SpecDetails
CONSTANTS
    Url = {u1, u2, u3}
    Bundle = {b1}
    Thread = {t1, t2}
    Prefix = {p1}
    MAX_CACHE_CNT = 2
    CACHE_TIME_S = 1
    MaxTime = 5
    Nothing = Nothing
SYMMETRY MCSymmetry
INVARIANTS
    DetailsTypeOK
    LastUsedStay
    AnswerIsRecent
