SPECIFICATION Spec
CONSTANTS
    ssh = ssh  NoIP = NoIP
    IPs <- MCIPs
    LogMonitors = {ssh}
    Blockers = {ssh}
    Tries = 2
    WhiteList = {}
    MaxLines = 3
    LogChanSize = 1
    LittleEndian = TRUE
    Ports <- MCPorts
    WhitelistPorts <- MCPort22
    BlacklistPorts <- MCPort80
    PortsCount = 2
    NetBlocker = TRUE
    MaxPackets = 3
    RingSize = 1
    MaxBans = 2
INVARIANTS
    TypeOK
    AlarmNeedsTries
    ScanNeedsPorts
    OneNoticePerBan
CHECK_DEADLOCK FALSE
