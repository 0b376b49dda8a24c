CONSTANTS
    LinkRecovery = TRUE
    ProtocolRecovery = TRUE
    TidMod = 4
    Quantities = {2}
    Data <- MCData
    Refusals = {FALSE}
    MaxPending = 1
    Pieces = {2, 4}
    MaxBytes = 13
SPECIFICATION FairSpec
INVARIANTS AnswerTaken OwnBytes
PROPERTIES Realigns
