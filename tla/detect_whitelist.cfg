SPECIFICATION Spec
CONSTANTS
    ssh = ssh  NoIP = NoIP
    IPs <- MCIPs
    LogMonitors = {ssh}
    Blockers = {ssh}
    Tries = 1
    WhiteList <- MCOwn
    MaxLines = 1
    LogChanSize = 1
    LittleEndian = TRUE
    Ports <- MCTwoPorts
    WhitelistPorts = {}
    BlacklistPorts = {}
    PortsCount = 2
    NetBlocker = TRUE
    MaxPackets = 2
    RingSize = 1
    MaxBans = 1
INVARIANT WhitelistedNeverBanned
CHECK_DEADLOCK FALSE
