SPECIFICATION MCSpec
CONSTANTS
    c1 = c1
    c2 = c2
    Nb <- MCNb
    Clients = {c1, c2}
    Requests <- MCRequests
    TidMod = 2
    MaxCalls = 3
    MaxConn = 2
INVARIANTS TypeOK SettledOnReturn
PROPERTIES ImplementsMemory
CHECK_DEADLOCK FALSE
