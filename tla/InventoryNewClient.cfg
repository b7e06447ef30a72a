SPECIFICATION Spec
CONSTANTS
    u1 = u1
    u2 = u2
    b1 = b1
    l1 = l1
    t1 = t1
    Updates = {u1}
    Bulks = {}
    Lookups = {}
    Tags = {t1}
    None = None
    PoolSize = 2
PROPERTIES
    InsertedClientIsFound
