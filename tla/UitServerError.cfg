SPECIFICATION FairSpec
CONSTANTS
    r1 = r1
    t1 = t1
    Requests = {}
    Tags = {t1}
    None = None
    LastHeardTimeout = 1
    Skew = 1
    MaxTime = 1
    Servers = {"https", "file"}
    Workers = {"lastHeard", "imageCleaner"}
    ErrCap = 2
    MaxConns = 0
PROPERTIES
    ServerFailureStopsProcess
