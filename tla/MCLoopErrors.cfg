\* Where an ICMP error goes.
CONSTANTS
    NULL = NULL
    Router <- MCRouter
    Port <- MCPort
    Mac <- MCMac
    Broadcast <- MCBroadcast
    AddInterface <- MCAddInterface
    AddRoute <- MCAddRoute
    AddArp <- MCAddArp
    MAX_INTERFACES = 5
    MAX_ROUTES = 10
    ARP_CACHE_SIZE = 10
    MaxTcpTableSize = 10
    PipeCap = 2
    Host <- MCHost
    HostPort <- MCHostPort
    HostMac <- MCHostMac
    HostIp <- MCHostIp
    Script <- MCScript
    Lan <- MCLan
    TapTraffic = {}
    MayStop = {"host"}
    MaxRuns <- MCMaxRuns
    MaxBoots = 1
SPECIFICATION Spec
CHECK_DEADLOCK FALSE
INVARIANTS
    ErrorsReturn
