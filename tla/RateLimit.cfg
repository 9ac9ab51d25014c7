SPECIFICATION Spec
CONSTANTS
    Attempts = {a1, a2, a3, a4, a5}
    Max = 2
    Window = 3
    Wait = 1
    Old = 5
    Horizon = 7
SYMMETRY Symmetry
CHECK_DEADLOCK FALSE
INVARIANT TypeOK
INVARIANT LimitHolds
PROPERTY RefusedForCause
