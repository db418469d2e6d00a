\* Two clients, three requests of every kind; a breaker trips after two failures.
SPECIFICATION Spec
CONSTANTS
    w1 = w1  w2 = w2
    WorkUnits = {w1, w2}
    CptOf <- CptOfUnit
    WipLimit = 1
    TripStreak = 2
    MinVolume = 3
    Clients = {c1, c2}
    Requests <- AllRequests
    NoRequest = NoRequest
    AlarmThreshold = 1
    WithSku = {w1}
    MaxAttempts = 2
    MaxAsked = 3
    MaxFailures = 1
    MaxTimers = 2
SYMMETRY ClientSymmetry
CHECK_DEADLOCK FALSE
INVARIANTS TypeOK StreamEndsWithWhatIsStored ReadingsAreOfOneMoment OpensForItsOwnFailures
