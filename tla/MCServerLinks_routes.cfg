SPECIFICATION Spec
CONSTANTS
    Servers = {1, 2}
    NRouters = 2
    Version <- TwoVersions
    Hwm = 2
    PackUnit = 1
    Talks <- OneWay
    MaxSends = 2
    MaxStarts = 2
    MaxRestarts = 0
    MaxKills = 1
INVARIANTS TypeOK HandshakeAccounted KnownNotRefused
PROPERTY LinksSpec
CHECK_DEADLOCK FALSE
