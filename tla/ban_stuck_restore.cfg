SPECIFICATION FairSpec
CONSTANTS
    a = a  b = b  c1 = c1  c2 = c2
    NoBan = NoBan  NoIP = NoIP  NoWaiter = NoWaiter
    IPs = {a}
    InvalidIPs = {}
    RefusedIPs = {}
    Chains = {c1}
    Engine = "iptables"
    Faults = {}
    MaxFaults = 0
    MaxCopies = 1
    BanSeconds = {1}
    Half = 100
    ShiftAt = 0
    ShiftBy = 0
    MaxUnbanRetries = 1
    RetryInterval = 1
    AllowUnbanIP = FALSE
    MaxTime = 4
    LastBan = 1
    MaxId = 2
    MaxCycles = 2
PROPERTY BanIsLifted
CHECK_DEADLOCK FALSE
