\* Two relays, both topics, two aggregates whose transactions interleave.
SPECIFICATION FairSpec
CONSTANTS
    integration = integration  analytics = analytics
    a1 = a1  a2 = a2  p1 = p1  p2 = p2
    Aggregates = {a1, a2}
    Partitions = {p1}
    Relays = {r1, r2}
    Topics <- AnalyticsOnly
    Optional = {analytics}
    Keying <- KeyedBy
    HashOf <- Hash
    BatchSize = 2
    MaxEvents = 3
    MaxFailures = 1
CHECK_DEADLOCK FALSE
INVARIANTS TypeOK NeitherEarlyNorLost DuplicatesNeedFailure OrderWithoutOverlap
PROPERTIES EveryEventDelivered
