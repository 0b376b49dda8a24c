SPECIFICATION Spec
CONSTANTS
    c1 = c1
    c2 = c2
    Contexts = {c1, c2}
    Kinds = {"tcp", "tcp_pi"}
    Reconnects = {"tcp"}
    ChecksSocket = TRUE
    MaxFd = 4
    MaxAddresses = 2
SYMMETRY Symmetry
INVARIANTS TypeOK NothingLost ConnectTruthful
PROPERTIES OthersStay
