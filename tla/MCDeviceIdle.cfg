CONSTANTS
    d1 = d1
    d2 = d2
    NoOne = NoOne
    Devices <- One
    TcpDevices <- One
    MaxFd = 1
    MaxStale = 2
    AutoReconnect = FALSE
    DisconnectWhenIdle = TRUE
    UserDisconnects = TRUE
    ConnectWhileConnected = FALSE
SPECIFICATION FairSpec

PROPERTY IdleCloses
