SPECIFICATION Spec
CONSTANTS
    HalfRange = 5
    SizeSpace = 64
    StreamLen = 11
    Capacity = 3
    PeerISN = 8
INVARIANTS StreamIntact AcknoIsFirstMissing WindowIsHonoured
PROPERTY WindowNeverShrinks
