\* Two segments at a time, of which the network loses one.
CONSTANTS
    NULL = NULL
    Router <- MCRouter
    Port <- MCPort
    Mac <- MCMac
    Broadcast <- MCBroadcast
    AddInterface <- MCAddInterface
    AddRoute <- MCAddRoute
    AddArp <- MCAddArp
    MAX_INTERFACES = 5
    MAX_ROUTES = 10
    ARP_CACHE_SIZE = 10
    MaxTcpTableSize = 2
    PipeCap = 2
    Server = "stack"
    ClientMac = "tap"
    ClientIp <- MCClientIp
    Isn <- MCIsn
    Legible <- MCLegible
    Window = {2}
    WriteEnds <- MCWriteEnds
    DataEnd <- MCDataEnd
SPECIFICATION Spec
CHECK_DEADLOCK FALSE
INVARIANTS
    AckedWasDisplayed
