SPECIFICATION Spec
CONSTANTS
    p = p
    q = q
    u1 = u1
    Url = {u1}
    Piece = {p, q}
    Match <- MCMatch
    BadRegex <- MCBadRegex
    Default <- MCDefault
    MAX_PARCEL_ARRAY_SIZE = 2
    Thread = {t1, t2}
    None = None
    MaxItems = 3
    Lists <- MCLists
SYMMETRY Symmetry
INVARIANTS
    SuccessIsServed
    ListIsKept
PROPERTIES
    IdentityIsRestored
