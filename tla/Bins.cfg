SPECIFICATION Spec
CONSTANTS
    NULL = NULL
    Chunk = {c1, c2, c3, c4}
    Sizes = {3, 16, 18, 19, 20}
    Requests = {3, 9, 17}
    MaxDv = 12
    SIZE_T_BITSIZE = 5
    TREEBIN_SHIFT = 3
    NTREEBINS = 4
SYMMETRY Symmetry
INVARIANTS
    BinsAreChecked
    FreeChunksAreFound
    BestFitIsFound
PROPERTIES
    ImplementsBinStore
