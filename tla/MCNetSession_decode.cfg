SPECIFICATION Spec
CONSTANTS
    MaxSessions = 1
    Base = 4
    Sign = 3
    MaxLength = 4
    Plans <- DecodePlans
INVARIANTS
    IInv
    DecodesLiveSession
    StreamDecoded
    LateMessageCause
\* Every byte may have been read and the connection may be gone.
CHECK_DEADLOCK FALSE
