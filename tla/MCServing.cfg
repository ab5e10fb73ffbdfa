SPECIFICATION ServingSpec
CHECK_DEADLOCK FALSE
CONSTANTS
    Conns = {c1, c2}
    Peers <- MCPeers
    MaxConnections = 1
    MaxHeader = 3
    MaxBody = 2
    Chunk = 2
    Hello = 1
    ReadTimeout = 2
    RequestDeadline = 3
    Callers = {d1, d2}
    RequestIds = {1, 2}
    Boot = boot
    MaxSkippedLines = 1
    ExchangeTimeout = 1
    MaxCalls = 1
    PipeRoom = 2
    Handles = {1, 2, 3}
    MaxVersion = 2
    Servers <- MCServers
    HelloBytes = 3
    RecordBytes = 3
    TripTimeout = 2
    MaxResponse = 6
INVARIANTS
    DispatchIsSound
    ServerKeepsLimits
    TripIsBounded

    
    
    
