\* Two replicas, two partitions; every kind of message, one of them twice.
SPECIFICATION FairSpec
CONSTANTS
    pathA = pathA  unit1 = unit1  unit2 = unit2
    p1 = p1  p2 = p2
    Sent <- AllSent
    Partitions = {p1, p2}
    NoPartition = NoPartition
    Hash <- HashOf
    AnyPath = AnyPath
    HourLength = 2
    Horizon = 4
    Projectors = {l1, l2}
    MaxFailures = 1
    MaxShutdowns = 1
    MaxHandovers = 1
CHECK_DEADLOCK FALSE
INVARIANTS TypeOK ReportsAddUp
PROPERTIES ImplementsStore EveryEventCounted
