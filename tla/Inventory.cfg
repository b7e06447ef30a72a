SPECIFICATION FairSpec
CONSTANTS
    u1 = u1
    u2 = u2
    b1 = b1
    l1 = l1
    t1 = t1
    Updates = {u1, u2}
    Bulks = {b1}
    Lookups = {l1}
    Tags = {t1}
    None = None
    PoolSize = 2
INVARIANTS
    TypeOK
    Conserved
    NoOrphans
    AcknowledgedStays
    NoLockCycle
PROPERTIES
    RequestEnds
