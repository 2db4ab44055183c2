SPECIFICATION FairDownloadSpec
CONSTANTS
    Response <- AnyResponse
    MaxLength = 6
    RequestLen = 3
    HeaderLen = 3
    LengthLen = 2
    Skip = 4
    Buffer = 8
    Printed = {2, 3, 9}
    a = a
    b = b
    long = long
    odd = odd
    nrequests = 3
    Path = {a, b, long, odd}
    Workload <- MCWorkload
    TooLong = {long}
    Creatable = {a, b, long}
    Descriptors = 3
INVARIANTS
    ReturnContract
    BytesHandedOn
    DiskHoldsTheSuccesses
    SocketsExplained
PROPERTIES
    Ends
