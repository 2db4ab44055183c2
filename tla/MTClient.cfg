SPECIFICATION FairSpec
CONSTANTS
    w1 = w1
    w2 = w2
    w3 = w3
    p1 = p1
    p2 = p2
    p3 = p3
    Worker = {w1, w2}
    Path <- AllPaths
    gWorkloadPathArray <- PathTwice
    nrequests = 3
    Stop = Stop
    Outcomes <- AllOutcomes
    Main = Main
    None = None
INVARIANTS
    TypeOK
    LockDiscipline
    NoWorkerSleepsThroughWork
    BossWillHearOfLastPill
    AllPerformedBeforeJoin
    OneWorkerPerRequest
    DiskHoldsTheSuccesses
PROPERTIES
    PoolSpec
    TerminationUnlessWorkerLost
CHECK_DEADLOCK FALSE
