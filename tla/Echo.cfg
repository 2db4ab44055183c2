SPECIFICATION Spec
\* The clients end, and the server waits for ever.
CHECK_DEADLOCK FALSE
CONSTANTS
    c1 = c1
    c2 = c2
    Client <- BothClients
    Length <- Lengths
    BUFSIZE = 2
INVARIANTS
    OwnBytesOnly
    EchoIsMessage
PROPERTIES
    EveryClientEnds
