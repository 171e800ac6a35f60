SPECIFICATION FairSpec
CONSTANTS
    x = x  y = y  bad = bad  Torn = Torn  NoPayload = NoPayload
    FirstBody = x
    Bodies = {x}
    BadBodies = {}
    DockerBodies = {}
    NullPayloads = {TRUE}
    MinRetrySleep = 1
    MaxRetrySleep = 1
    RetrySleepStep = 1
    ExportQueueSize = 1
    MaxEvents = 0
    MaxChanges = 0
    MaxBreaks = 0
    MaxCrashes = 0
    MaxInbox = 1
    TornWrites = FALSE
    LocalIpsKnown = {TRUE}
PROPERTY RestartsEnd
CHECK_DEADLOCK FALSE
