CONSTANTS
    t1 = t1
    t2 = t2
    u1 = u1
    u2 = u2
    m1 = m1
    m2 = m2
    Tasks = {t1, t2}
    Executors = {}
    Attempts <- MCAttempts
    UserInodes = {u1}
    MountInodes = {m1}
    MaxStarts = 1
    MaxFaults = 1
    MaxUid = 20
    HostUids = {10, 11, 12}
    Maps <- MCMaps
    Policies <- LivePolicies
SPECIFICATION Spec
PROPERTIES GuardedEventually ControllerEnds
CHECK_DEADLOCK FALSE
