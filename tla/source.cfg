SPECIFICATION Spec
CONSTANTS
    Engines = {"syslog", "docker", "journal"}
    ChanSize = 1
    OpenRetries = 2
    MaxLines = 3
    MaxRotations = 2
    MaxFaults = 2
INVARIANTS TypeOK InOrderOnce
PROPERTIES LinesArrive SourceEnds
CHECK_DEADLOCK FALSE
