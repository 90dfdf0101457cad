SPECIFICATION Spec
CONSTANTS
    Shifts = {lshift, rshift}
    Ctrls = {lctrl, rctrl}
    Alts = {alt}
    Caps = {capslock}
    Letters = {q}
    MaxCodes = 3
INVARIANTS
    WrittenAsTyped
    InStep
CONSTRAINT NoMishap
