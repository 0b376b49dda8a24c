CONSTANTS
    Tcp = TRUE
    LinkRecovery = TRUE
    ProtocolRecovery = TRUE
    TidMod = 3
    MaxLag = 2
    Requests <- TcpRequests
SPECIFICATION LiveSpec
INVARIANTS TypeOK OwnAnswer
PROPERTIES ImplementsCall CallReturns Resynchronises
