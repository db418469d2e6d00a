\* Boots, shutdowns and restarts of one process; two failures, one signal.
SPECIFICATION FairSpec
CONSTANTS
    pa = pa  pb = pb
    Partitions = {pa, pb}
    Topic <- BuildingTopic
    Canonical <- UpperCase
    Requests = {r1}
    MaxRows = 1
    BootRetries = 2
    MaxFailures = 2
    MaxSignals = 1
CHECK_DEADLOCK FALSE
INVARIANTS TypeOK ServesCompleteCatalogue CacheFollowsLog LookupIsLongestMatch OrderlyStop
PROPERTIES CommittedIsSent BootSucceeds
