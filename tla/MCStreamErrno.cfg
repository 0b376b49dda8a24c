CONSTANTS
    LinkRecovery = TRUE
    ProtocolRecovery = TRUE
    TidMod = 3
    Quantities = {2}
    Data <- MCData
    Refusals = {FALSE}
    MaxPending = 1
    Pieces = {2, 4}
    MaxBytes = 13
SPECIFICATION Spec
INVARIANTS ReasonKept
