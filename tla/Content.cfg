SPECIFICATION Spec
CONSTANTS
    present = present
    missing = missing
    c1 = c1
    c2 = c2
    MaxLines = 4
    Key <- MCKey
    Path <- MCPath
    Openable = {present}
    Chop <- MCChop
    List <- MCList
    FirstCapacity = 2
    Caller = {c1, c2}
INVARIANTS
    TypeOK
    RoomForNextLine
    KeyInWindow
    AnswerIsRight
PROPERTIES
    EveryGetReturns
