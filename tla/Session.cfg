SPECIFICATION SessionSpec
CHECK_DEADLOCK FALSE
CONSTANTS
    Response <- MCResponse
    RequestLen = 4
    HeaderLen = 2
    LengthLen = 1
    Skip = 1
    Buffer = 5
    Printed = {}
    a = a
    b = b
    nrequests = 3
    c = c
    Path = {a, b, c}
    Workload <- MCWorkload
    TooLong = {}
    Creatable = {a, b, c}
    Descriptors = 4
    FileLength <- MCFileLength
    HeaderMax = 6
    PrefixLen = 1
    MarkerLen = 1
    SocketBuffer = 3
INVARIANTS
    ResultExplained
PROPERTIES
    ComponentSpecs
    SessionEnds
