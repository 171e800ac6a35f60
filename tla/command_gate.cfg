CONSTANTS
    t1 = t1
    t2 = t2
    u1 = u1
    u2 = u2
    m1 = m1
    m2 = m2
    Tasks = {t1, t2}
    Executors = {t1}
    Attempts <- MCAttempts
    UserInodes = {u1, u2}
    MountInodes = {m1}
    MaxStarts = 1
    MaxFaults = 1
    MaxUid = 20
    HostUids = {10, 11, 12}
    Maps <- MCMaps
    Policies <- GatePolicies
SPECIFICATION Spec
INVARIANTS TypeOK HitsFollowPolicy MapsInStep
CHECK_DEADLOCK FALSE
