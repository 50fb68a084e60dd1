CONSTANTS
    Calls = {c1, c2}
    Costs = {1, 2, 4}
    Limit = 3
    Window = 3
    Lag = 1
    MaxTime = 7
SPECIFICATION Spec
SYMMETRY CallSymmetry
INVARIANTS
    TypeOK
    SlidingWindow
PROPERTIES
    RefusedOnlyAtLimit
CHECK_DEADLOCK FALSE
