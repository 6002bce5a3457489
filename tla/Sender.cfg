SPECIFICATION Spec
CONSTANTS
    HalfRange = 6
    SizeSpace = 64
    MaxPayload = 2
    InitRTO = 2
    StreamLen = 6
    Capacity = 4
    ISN = 7
    MaxWindow = 3
    MaxRetx = 2
INVARIANTS SenderInv TimerGuardsOutstanding NeverStalls LoopsAgree
PROPERTY WindowRespected
