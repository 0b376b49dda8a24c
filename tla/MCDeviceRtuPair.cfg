CONSTANTS
    d1 = d1
    d2 = d2
    NoOne = NoOne
    Devices <- Two
    TcpDevices <- NoDevice
    MaxFd = 2
    MaxStale = 1
    AutoReconnect = TRUE
    DisconnectWhenIdle = TRUE
    UserDisconnects = TRUE
    ConnectWhileConnected = FALSE
SPECIFICATION Spec
INVARIANT OwnSocket
