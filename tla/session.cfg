SPECIFICATION FairSpec
CONSTANTS
    x = x  y = y  bad = bad  Torn = Torn  NoPayload = NoPayload
    FirstBody = x
    Bodies = {x, y, bad}
    BadBodies = {bad}
    DockerBodies = {y}
    NullPayloads = {FALSE}
    MinRetrySleep = 1
    MaxRetrySleep = 4
    RetrySleepStep = 2
    ExportQueueSize = 2
    MaxEvents = 3
    MaxChanges = 2
    MaxBreaks = 2
    MaxCrashes = 1
    MaxInbox = 2
    TornWrites = FALSE
    LocalIpsKnown = {TRUE}
INVARIANTS
    TypeOK
    LocalPartsKept
    NoStaleToken
PROPERTIES
    ReloadAlone
    AlertsAfterHandshakeInOrder
    Converges
    RestartsEnd
CHECK_DEADLOCK FALSE
