SPECIFICATION Spec
CONSTANTS
    TOP = 512
    Start = 520
    PAGE = 24
    Requests = {2, 6}
    MaxPages = 10
    Below = {0}
    Above = {0}
INVARIANTS
    AllocationsApart
