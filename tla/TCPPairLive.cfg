SPECIFICATION FairSpec
CONSTANTS
    a = a
    b = b
    Peer <- MCPeer
    Openers <- AnyOpens
    StreamLen <- OneByte
    ISN <- MCISN
    HalfRange = 7
    SizeSpace = 64
    MaxPayload = 1
    InitRTO = 1
    MaxRetx = 2
    LingerTime = 2
    MaxWin = 3
    Capacity = 2
    NetCap = 3
    MaxFault = 1
PROPERTIES Delivered BothStop
CHECK_DEADLOCK FALSE
