CONSTANTS
    Requests <- MCRequests
    IdLengths <- MCIdLengths
    Noise <- MCNoise
    Pieces <- MCPieces
    ByteTimeout = TRUE
SPECIFICATION Spec
INVARIANTS TypeOK InBuffer ExactFrame LengthAsComputed
PROPERTY Returns
CHECK_DEADLOCK FALSE
