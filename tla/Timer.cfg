SPECIFICATION Spec
CONSTANTS
    ChipRate = 21
    ChipBits = 4
    WordBits = 3
    Hundred = 2
    Frequencies = {1, 2, 4, 5}
    Counts = {0, 1, 2, 3, 7}
    MaxBurst = 2
INVARIANTS
    NeverEarly
PROPERTY
    WaitEnds
