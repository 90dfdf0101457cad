SPECIFICATION Spec
CONSTANTS
    SIZE = 3
    Chars = {a, SPACE, NL, BS, BEL}
    NUL = NUL
    NL = NL
    BS = BS
    BEL = BEL
    SPACE = SPACE
    a = a
    MaxKeys = 4
INVARIANTS
    PointersInBuffer
    NothingLost
    ReadsAheadAtMostOne
PROPERTIES
    CompleteLineIsReturned
