\* Two replicas; two orders that lock the same pools in opposite orders, and
\* an event that is always rejected; one failure, one rebalance.
SPECIFICATION FairSpec
CONSTANTS
    o1 = o1  o2 = o2  plan1 = plan1  plan2 = plan2
    odd = odd  torn = torn  other = other
    pathA = pathA  pathB = pathB  labour = labour
    line1 = line1  line2 = line2  line3 = line3
    p1 = p1  p2 = p2
    Events = {o1, o2, plan1, plan2, odd, torn, other}
    Partitions = {p1, p2}
    NoPartition = NoPartition
    Log <- OrdersLog
    Kind <- KindOf
    Rows = {pathA, pathB, labour}
    Pools = {pathA, pathB}
    Items = {line1, line2, line3, plan1, plan2}
    Writes <- WritesOf
    Loops = {l1, l2}
    MaxAttempts = 2
    MaxFailures = 1
    MaxHandovers = 1
CHECK_DEADLOCK FALSE
INVARIANTS TypeOK NothingSkipped BlipsHeal
PROPERTIES ImplementsInbox EveryMessageSettled
