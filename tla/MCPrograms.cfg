\* Three devices, two cycles of the hub and of the switch, three plugs.
CONSTANTS
    X = 3
    MaxCycle = 3
    Cycles = 2
    N = 3
    Data <- MCData
    IpHeaders <- MCIpHeaders
    Messages <- MCMessages
SPECIFICATION Spec
CHECK_DEADLOCK FALSE
INVARIANTS
    NotStranded
    HubAccounts
    SwitchAccounts
    PlugEndIsSeen
    CrcRight
    Residue
    ChecksumRight
    DamageSeen
PROPERTIES
    AllReceived
    OnlyLastMisaims
    PlugsEnd
