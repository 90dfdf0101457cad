SPECIFICATION Spec
CONSTANTS
    Width = 3
    Height = 2
    TabWidth = 2
    SIZE = 2
    MaxBack = 3
INVARIANTS
    PositionInReach
    NothingOverwritten
