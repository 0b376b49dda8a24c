CONSTANTS
    d1 = d1
    d2 = d2
    NoOne = NoOne
    Devices <- One
    TcpDevices <- One
    MaxFd = 1
    MaxStale = 1
    AutoReconnect = TRUE
    DisconnectWhenIdle = TRUE
    UserDisconnects = FALSE
    ConnectWhileConnected = FALSE
SPECIFICATION Spec
PROPERTY OnlyTimersDisconnect
