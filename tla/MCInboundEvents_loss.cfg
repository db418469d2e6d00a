\* One partition; one dead letter that the broker never stored.
SPECIFICATION Spec
CONSTANTS
    o1 = o1  o2 = o2  plan1 = plan1  plan2 = plan2
    odd = odd  torn = torn  other = other
    pathA = pathA  pathB = pathB  labour = labour
    line1 = line1  line2 = line2  line3 = line3
    p1 = p1  p2 = p2
    Events = {o1, o2, plan1, plan2, odd, torn, other}
    Partitions = {p1}
    NoPartition = NoPartition
    Log <- TornLog
    Kind <- KindOf
    Rows = {pathA, pathB, labour}
    Pools = {pathA, pathB}
    Items = {line1, line2, line3, plan1, plan2}
    Writes <- WritesOf
    Loops = {l1, l2}
    MaxAttempts = 2
    MaxFailures = 1
    MaxHandovers = 0
CHECK_DEADLOCK FALSE
INVARIANTS NoMessageLost
