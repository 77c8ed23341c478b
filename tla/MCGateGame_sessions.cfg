SPECIFICATION Spec
CONSTANTS
    Digit = 16
    Numbers <- Collide
    Routers = {r1, r2}
    MaxGates = 2
    MaxGames = 2
    MaxSends = 4
    MaxDirect = 1
SYMMETRY Symmetry
INVARIANTS
    TypeOK
    GhostsAccounted
    MirrorAgrees
    CrossedCauses
    SessionWhileAnnounced
\* Every client may be gone and every message handled.
CHECK_DEADLOCK FALSE
