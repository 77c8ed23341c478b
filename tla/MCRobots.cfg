SPECIFICATION FairSpec
CONSTANTS
    NRobots = 2
    MaxConns = 5
INVARIANTS
    TypeOK
    WaitsForLive
    OneLive
    LoginOnce
PROPERTIES
    Reconnects
    AttemptsEnd
\* The bound on connections is used up, or the timer has ended.
CHECK_DEADLOCK FALSE
