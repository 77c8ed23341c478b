SPECIFICATION Spec
CONSTANTS
    MaxCalls = 3
    MaxHandleId = 3
    Delays = {1, 2}
    MaxClock = 3
    SecondTicks = 2
    SecondMicros = 4
    StartMicro = 3
    UintRange = 64
INVARIANTS
    NotEarly
\* The clock stops at its bound.
CHECK_DEADLOCK FALSE
