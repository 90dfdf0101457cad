SPECIFICATION Spec
CONSTANTS
    Units = 20
    Requests = {3, 4, 6}
    Overhead = 2
INVARIANTS
    TypeOK
    Tiled
    UsedDisjoint
    Merged
PROPERTIES
    UsedStable
    ImplementsAllocator
