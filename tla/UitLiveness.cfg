SPECIFICATION FairSpec
CONSTANTS
    r1 = r1
    t1 = t1
    Requests = {r1}
    Tags = {t1}
    None = None
    LastHeardTimeout = 0
    Skew = 0
    MaxTime = 1
    Servers = {"https", "files"}
    Workers = {"lastHeard", "imageCleaner"}
    ErrCap = 1
    MaxConns = 1
INVARIANTS
    ErrorKept
PROPERTIES
    SignalStops
    FailureIsNoticed
