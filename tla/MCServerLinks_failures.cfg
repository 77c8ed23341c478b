SPECIFICATION FairSpec
CONSTANTS
    Servers = {1, 2}
    NRouters = 1
    Version <- TwoVersions
    Hwm = 2
    PackUnit = 1
    Talks <- OneWay
    MaxSends = 2
    MaxStarts = 2
    MaxRestarts = 1
    MaxKills = 0
INVARIANTS MessagesAccounted
PROPERTIES HandshakeCompletes MessagesSettle
CHECK_DEADLOCK FALSE
