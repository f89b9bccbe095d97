\* The local end of TCP, a table of two entries.
CONSTANTS
    NULL = NULL
    Router <- MCRouter
    Port <- MCPort
    Mac <- MCMac
    Broadcast <- MCBroadcast
    AddInterface <- MCAddInterface
    AddRoute <- MCAddRoute
    AddArp <- MCAddArp
    MAX_INTERFACES = 5
    MAX_ROUTES = 10
    ARP_CACHE_SIZE = 10
    MaxTcpTableSize = 2
    PipeCap = 2
    Host = {}
    HostPort <- MCNone
    HostMac <- MCNone
    HostIp <- MCNone
    Script <- MCNone
    Lan <- MCLan
    TapTraffic <- MCTapTraffic
    MayStop = {}
    MaxRuns <- MCNone
    MaxBoots = 2
SPECIFICATION Spec
CHECK_DEADLOCK FALSE
INVARIANTS
    TypeOK
    DataAcksOnlyToPeers
PROPERTIES
    PeersKept
