SPECIFICATION Spec
CONSTANTS
    SizeSpace = 64
    StreamLen = 8
    Capacity = 5
INVARIANTS ReassemblerInv MemoryBounded ClosedFormsAgree KeepsExactly
PROPERTY Refines
