SPECIFICATION Spec
CONSTANTS
    a = a
    b = b
    Path = {a, b}
    Request <- GoodOrBad
    HeaderMax = 20
    PrefixLen = 2
    MarkerLen = 2
    MaxConnections = 2
    Fault = {}
    FrameKept = {TRUE}
INVARIANTS
    NeverCrashes
