SPECIFICATION FairSpec
CONSTANTS
    MaxSessions = 2
    Base = 4
    Sign = 3
    MaxLength = 4
    Plans <- TablePlans
INVARIANTS
    SessionsAccounted
PROPERTIES
    ClosedIsDeleted
\* Every connection may be gone.
CHECK_DEADLOCK FALSE
