SPECIFICATION Spec
CONSTANTS
    a = a
    b = b
    n1 = n1
    n2 = n2
    n3 = n3
    NULL = NULL
    Item = {a, b}
    Node = {n1, n2, n3}
INVARIANTS
    WellFormed
PROPERTIES
    SequenceSpec
