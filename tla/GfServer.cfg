SPECIFICATION FairSpec
CONSTANTS
    a = a
    b = b
    Path = {a, b}
    Request <- AnyRequest
    HeaderMax = 14
    PrefixLen = 2
    MarkerLen = 2
    MaxConnections = 3
    Fault = {"accept", "recv", "send", "handler"}
    FrameKept = {TRUE, FALSE}
INVARIANTS
    TypeOK
    RefusalExplained
    WholePathBelowLimit
PROPERTIES
    EveryRequestIsAnswered
