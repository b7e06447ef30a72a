SPECIFICATION Spec
CONSTANTS
    r1 = r1
    r2 = r2
    ip1 = ip1
    api = api
    Requests = {r1, r2}
    BanCleaner = BanCleaner
    LimiterCleaner = LimiterCleaner
    IPs = {ip1}
    None = None
    LimiterTypes = {api}
    Burst <- MCBurst
    Rate <- MCRate
    BanFor = 2
    EntryTTL = 3
    MaxStall = 1
    MaxTime = 4
SYMMETRY Symmetry
INVARIANTS
    TypeOK
    RateBound
    AttachedStays
    BansTimed
PROPERTIES
    ImplementsRateLimitService
