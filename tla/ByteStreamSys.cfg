SPECIFICATION BufferedSpec
CONSTANTS
    Capacity = 3
    SourceLen = 8
    WriterStops = TRUE
    MaxBuffers = 5
INVARIANTS TypeOK StreamIntact ListAgrees
PROPERTIES EofIsFinal EofReached
