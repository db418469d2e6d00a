\* A signal and nothing else goes wrong.
SPECIFICATION Spec
CONSTANTS
    pa = pa  pb = pb
    Partitions = {pa, pb}
    Topic <- BuildingTopic
    Canonical <- UpperCase
    Requests = {r1}
    MaxRows = 1
    BootRetries = 2
    MaxFailures = 0
    MaxSignals = 1
CHECK_DEADLOCK FALSE
INVARIANTS NothingStranded
