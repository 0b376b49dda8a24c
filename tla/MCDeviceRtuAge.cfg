CONSTANTS
    d1 = d1
    d2 = d2
    NoOne = NoOne
    Devices <- One
    TcpDevices <- NoDevice
    MaxFd = 1
    MaxStale = 1
    AutoReconnect = TRUE
    DisconnectWhenIdle = TRUE
    UserDisconnects = TRUE
    ConnectWhileConnected = FALSE
SPECIFICATION FairSpec
PROPERTY AgesOut
