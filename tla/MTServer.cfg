SPECIFICATION FairSpec
CONSTANTS
    w1 = w1
    w2 = w2
    Worker = {w1, w2}
    Conn = {1, 2, 3}
    Size <- ThreeConns
    BufferSize = 2
    Boss = Boss
    None = None
INVARIANTS
    NoWorkerSleepsThroughWork
    OneOwnerPerContext
    StreamIsPrefix
    OpenSocketsExplained
PROPERTIES
    PoolSpec
    EveryTaskIsFinished
