SPECIFICATION Spec
CONSTANTS
    MaxSessions = 1
    Base = 4
    Sign = 3
    MaxLength = 4
    Plans <- DecodePlans
INVARIANTS
    SilentAfterDisconnect
CHECK_DEADLOCK FALSE
