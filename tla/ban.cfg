SPECIFICATION FairSpec
CONSTANTS
    a = a  b = b  c1 = c1  c2 = c2
    NoBan = NoBan  NoIP = NoIP  NoWaiter = NoWaiter
    IPs = {a, b}
    InvalidIPs = {b}
    RefusedIPs = {b}
    Chains = {c1, c2}
    Engine = "nftables"
    Faults = {"insert", "delete"}
    MaxFaults = 1
    MaxCopies = 1
    BanSeconds = {1, 2}
    Half = 100
    ShiftAt = 0
    ShiftBy = 0
    MaxUnbanRetries = 1
    RetryInterval = 1
    AllowUnbanIP = TRUE
    MaxTime = 3
    LastBan = 1
    MaxId = 2
    MaxCycles = 2
INVARIANTS TypeOK RuleHasRow OneWaiterPerRow ActiveRowEnforced
PROPERTIES NoEarlyLift ImplementsSentences WatchedBanIsLifted
CHECK_DEADLOCK FALSE
