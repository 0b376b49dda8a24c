CONSTANTS
    d1 = d1
    d2 = d2
    NoOne = NoOne
    Devices <- One
    TcpDevices <- One
    MaxFd = 2
    MaxStale = 2
    AutoReconnect = TRUE
    DisconnectWhenIdle = TRUE
    UserDisconnects = TRUE
    ConnectWhileConnected = TRUE
SPECIFICATION Spec
INVARIANT NoLeak
