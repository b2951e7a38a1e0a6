SPECIFICATION FairSpec
CONSTANTS
    Objects = {o1}
    SendConfigs <- MCSendConfigs
    RecvConfigs <- MCRecvConfigs
    MaxSends = 2
    MaxSessions = 2
INVARIANTS
    TypeOK
    RecvSimHolds
PROPERTIES
    CallsKeepOrder
    ReliableComes
