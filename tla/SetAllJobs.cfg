SPECIFICATION Spec
CONSTANTS
    w1 = w1
    w2 = w2
    c1 = c1
    c2 = c2
    clone = clone
    check = check
    Clients = {c1}
    Staff = {w1}
    Jobs = {clone, check}
    None = None
PROPERTIES
    SetAllReachesOnline
