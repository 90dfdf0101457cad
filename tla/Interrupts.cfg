SPECIFICATION Spec
CONSTANTS
    Plain = plain
    Function = function
    None = none
    Port61 = {0, 32, 33}
    MaxQueue = 1
    MaxNest = 3
INVARIANTS
    OneInterruptAtATime
    InServiceIsUnderWay
    WaitingKeyIsFetched
PROPERTIES
    EndsOnlyItsOwn
    KeysAreRead
    TimeGoesOn
