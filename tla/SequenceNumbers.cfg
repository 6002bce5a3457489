SPECIFICATION Spec
CONSTANTS
    HalfRange = 4
    MaxCheckpoint = 20
INVARIANTS DecodesExactly UnwrapIsClosest
