SPECIFICATION Spec
CONSTANTS
    v1 = v1  v2 = v2  v3 = v3  None = None
    Releases = {v1, v2, v3}
    Broken = {v2}
    First = v1
    Faults = {}
    MaxFaults = 0
    MaxUpdates = 1
    MaxKills = 0
INVARIANT BrokenReleaseRolledBack
