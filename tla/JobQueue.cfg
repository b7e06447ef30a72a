SPECIFICATION Spec
CONSTANTS
    w1 = w1
    w2 = w2
    c1 = c1
    c2 = c2
    clone = clone
    check = check
    Clients = {c1, c2}
    Staff = {w1, w2}
    Jobs = {clone, check}
    None = None
INVARIANTS
    TypeOK
    AssignedStays
PROPERTIES
    ImplementsJobBoard
