SPECIFICATION Spec
CONSTANTS
    TOP = 64
    Start = 70
    PAGE = 20
    Requests = {2, 4}
    MaxPages = 1
    Below = {3, 63}
    Above = {4}
CONSTRAINT NoMishap
INVARIANTS
    FooterIsPointerToHeader
    InUseIsLive
    FreeListIsFreeBlocks
PROPERTIES
    PayloadUntouched
    ImplementsBlockHeap
