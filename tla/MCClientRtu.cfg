CONSTANTS
    Tcp = FALSE
    LinkRecovery = FALSE
    ProtocolRecovery = FALSE
    TidMod = 3
    MaxLag = 1
    Requests <- RtuRequests
SPECIFICATION FairSpec
INVARIANT AnswerFits
PROPERTY CallReturns
