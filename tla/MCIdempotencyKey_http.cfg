\* Two requests at once; retries, reused keys, a failure, one other save.
SPECIFICATION FairSpec
CONSTANTS
    k1 = k1  k2 = k2  u1 = u1  u2 = u2
    Keys = {k1, k2}
    WorkUnits = {u1, u2}
    Commands <- FourCommands
    Calls = {c1, c2}
    MaxAttempts = 2
    MaxOthers = 1
    MaxFailures = 1
    NoCall = NoCall
    NoCommand = NoCommand
INVARIANTS TypeOK OneAnswer AnswerIsTrue OutcomeMatchesEffect
PROPERTIES EveryCommandSettled
