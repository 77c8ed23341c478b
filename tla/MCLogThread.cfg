SPECIFICATION FairSpec
CONSTANTS
    MaxLogs = 4
    MaxSignals = 3
    MaxOpenFails = 1
    DaemonSettings = {TRUE, FALSE}
    HoistedReads = TRUE
INVARIANTS
    TypeOK
    NothingLostInTransit
    NoExitWhileRunning
    UseAfterFreeCauses
    OnlyBackAbandoned
    BackLockExcludes
    IInv
PROPERTIES
    FifoSpec
    QueuedIsConsumed
    StopTerminates
\* The process ends, or hangs in stop().
CHECK_DEADLOCK FALSE
