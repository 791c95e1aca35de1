SPECIFICATION Spec
CONSTANTS
    Link = {l1, l2, l3}
    Caller = {c1, c2}
    DELAY_TIME = 1
    MAX_CACHE_TIME = 2
    MAX_CACHE_SIZE = 2
    None = None
SYMMETRY MCSymmetry
INVARIANTS
    TypeOK
    CacheIsBounded
    AgeTaskIsAlive
    LinksAge
    NewestFirst
    TakenOnce
