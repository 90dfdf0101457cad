SPECIFICATION Spec
CONSTANTS
    Bytes = {0, 1, 2}
    MemSize = 4
    Numbers = {0, 7, 10, 99, 100, 305}
INVARIANTS
    CopiesExactly
    ResultIsRight
CHECK_DEADLOCK FALSE
