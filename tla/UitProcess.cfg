SPECIFICATION Spec
CONSTANTS
    r1 = r1
    t1 = t1
    Requests = {r1}
    Tags = {t1}
    None = None
    LastHeardTimeout = 0
    Skew = 0
    MaxTime = 2
    Servers = {"https"}
    Workers = {"lastHeard", "imageCleaner"}
    ErrCap = 1
    MaxConns = 0
INVARIANTS
    TypeOK
    FlagTruthful
    OnlineIsRecent
    FlushPersists
PROPERTIES
    ImplementsRealtime
