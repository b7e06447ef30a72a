SPECIFICATION FairSpec
CONSTANTS
    r1 = r1
    r2 = r2
    s1 = s1
    wan1 = wan1
    wan2 = wan2
    lan = lan
    Requests = {r1, r2}
    Cleaner = Cleaner
    SessionIds = {s1}
    IPs = {wan1, wan2, lan}
    LanIPs = {lan}
    None = None
    TTL = 1
    MaxSessions = 1
    MaxTime = 2
INVARIANTS
    TypeOK
    ExpiryHorizon
PROPERTIES
    NoResurrection
    ImplementsSessionService
    ExpiredEventuallyFreed
