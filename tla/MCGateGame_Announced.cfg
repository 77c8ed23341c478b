SPECIFICATION Spec
CONSTANTS
    Digit = 16
    Numbers <- Collide
    Routers = {r1, r2}
    MaxGates = 2
    MaxGames = 2
    MaxSends = 5
    MaxDirect = 0
INVARIANTS
    Announced
CHECK_DEADLOCK FALSE
