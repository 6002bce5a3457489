SPECIFICATION SocketSpec
CONSTANTS
    a = a
    b = b
    Peer <- MCPeer
    Me = a
    Openers <- MCOpeners
    StreamLen <- MCStream
    ISN <- MCISN
    HalfRange = 7
    SizeSpace = 64
    MaxPayload = 2
    InitRTO = 2
    MaxRetx = 1
    LingerTime = 2
    MaxWin = 3
    Capacity = 2
    NetCap = 4
    MaxFault = 0
    LocalSockets <- MCSockets
INVARIANTS RunnerSurvives OwnerSeesStream ExitLeavesNothing
PROPERTY OwnerNeverHangs
CHECK_DEADLOCK FALSE
