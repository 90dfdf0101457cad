SPECIFICATION Spec
CONSTANTS
    SIZES = 256
    NSMALLBINS = 6
    PAGE = 16
    MmapPages = {1, 2, 3, 4}
    BRK_BASE = 80
    BRK_MAX = 113
    MAX_RELEASE_CHECK_RATE = 1
    Requests = {60, 300}
    FewRequests = {4}
    Alignments = {16}
    Limits = {32}
    Thresholds = {20}
    MaxLive = 2
INVARIANTS
    MallocStateIsChecked
    BlocksAreApart
    FootprintIsMemoryHeld
PROPERTIES
    LimitHolds
