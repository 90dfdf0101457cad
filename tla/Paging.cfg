SPECIFICATION Spec
CONSTANTS
    N = 16
    NTables = 4
    NFrames = 28
    WordBits = 2
    KernelPages = {2, 3}
    RegionStart = 32
    RegionEnd = 46
    HeapStart = 44
    Low = {13}
    MaxHeap = 5
    MaxNest = 3
INVARIANTS
    KernelIntact
    FramesAreApart
PROPERTIES
    FaultIsResolved
