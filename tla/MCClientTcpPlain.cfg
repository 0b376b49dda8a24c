CONSTANTS
    Tcp = TRUE
    LinkRecovery = FALSE
    ProtocolRecovery = FALSE
    TidMod = 3
    MaxLag = 2
    Requests <- TcpRequests
SPECIFICATION FairSpec
INVARIANT OwnAnswer
PROPERTY CallReturns
