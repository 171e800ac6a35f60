SPECIFICATION Spec
CONSTANTS
    ssh = ssh  NoIP = NoIP
    IPs <- MCIPs
    LogMonitors = {ssh}
    Blockers = {ssh}
    Tries = 2
    WhiteList = {}
    MaxLines = 2
    LogChanSize = 1
    LittleEndian = TRUE
    Ports <- MCTwoPorts
    WhitelistPorts = {}
    BlacklistPorts = {}
    PortsCount = 2
    NetBlocker = TRUE
    MaxPackets = 0
    RingSize = 1
    MaxBans = 1
INVARIANT AlarmWithinWindow
CHECK_DEADLOCK FALSE
