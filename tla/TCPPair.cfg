SPECIFICATION Spec
CONSTANTS
    a = a
    b = b
    Peer <- MCPeer
    Openers <- OneOpens
    StreamLen <- OneWay
    ISN <- MCISN
    HalfRange = 7
    SizeSpace = 64
    MaxPayload = 1
    InitRTO = 1
    MaxRetx = 1
    LingerTime = 2
    MaxWin = 3
    Capacity = 2
    NetCap = 2
    MaxFault = 2
INVARIANTS StreamsIntact AcksAreTruthful StatesAgree CleanEndIsComplete QuietMeansFinished
CHECK_DEADLOCK FALSE
