\* Each id on one path, one completer: the protocol is exact.
SPECIFICATION FairSpec
CONSTANTS
    w1 = w1  w2 = w2  w3 = w3  p1 = p1  p2 = p2  c1 = c1  c2 = c2
    NoUnit = NoUnit
    NoPath = NoPath
    WorkUnits = {w1, w2, w3}
    Paths = {p1, p2}
    Clients = {c1, c2}
    Completers = {c1}
    WipLimit = 1
    MaxAttempts = 3
    CptOf <- Cutoffs
    PathsOf <- OnePathEach
INVARIANTS TypeOK WipLimitRespected PoolAgreesWithUnits SaveIsFresh NoSpuriousConflict
PROPERTIES ImplementsLifecycle EntriesMoveForward EarliestCutoffFirst EveryRequestAnswered
