SPECIFICATION FairSpec
CONSTANTS
    c1 = c1
    c2 = c2
    c3 = c3
    None = None
    Client = {c1, c2, c3}
    FileLen = 4
    Buffer = 2
    MaxFiles = 2
    Fault = {"client", "open", "read", "send", "recv"}
INVARIANTS
    EndIsEndOfFile
    ServedInTurn
PROPERTIES
    EveryClientIsServed
