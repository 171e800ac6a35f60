SPECIFICATION Spec
CONSTANTS
    v1 = v1  v2 = v2  v3 = v3  None = None
    Releases = {v1, v2, v3}
    Broken = {v2}
    First = v1
    Faults = {"stop", "rename", "start"}
    MaxFaults = 3
    MaxUpdates = 3
    MaxKills = 2
INVARIANTS TypeOK PreviousBinaryKept ServiceRunsInstalled
