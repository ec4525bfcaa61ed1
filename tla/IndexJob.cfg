SPECIFICATION FairSpec
CONSTANTS
    r1 = r1
    r2 = r2
    r3 = r3
    Requests = {r1, r2, r3}
    FailingWrites = {"begin", "settle"}
    PowerLoss = TRUE
INVARIANTS
    RunOwnsJob
    IdleNamesLastRun
    SuccessDurable
PROPERTIES
    JobSettles
CHECK_DEADLOCK FALSE
