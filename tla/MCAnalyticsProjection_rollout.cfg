\* One event, one replica, no failure: an orderly shutdown.
SPECIFICATION Spec
CONSTANTS
    pathA = pathA  unit1 = unit1  unit2 = unit2
    p1 = p1  p2 = p2
    Sent <- OneSent
    Partitions = {p1}
    NoPartition = NoPartition
    Hash <- HashOf
    AnyPath = AnyPath
    HourLength = 2
    Horizon = 4
    Projectors = {l1}
    MaxFailures = 0
    MaxShutdowns = 1
    MaxHandovers = 0
CHECK_DEADLOCK FALSE
INVARIANTS ExactlyOnce
