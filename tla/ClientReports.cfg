SPECIFICATION Spec
CONSTANTS
    a = a
    b = b
    x1 = x1
    x2 = x2
    Clients = {a, b}
    Checks <- MCChecks
    HardwareReports <- MCHardwareReports
    WindowsReports <- MCWindowsReports
    JobReports <- MCJobReports
    Fresh = {x1, x2}
    None = None
    MaxTime = 2
INVARIANTS
    TypeOK
    ReportsWhole
    StoredForReporter
    InstalledFollowsNewestJob
    OnlyMastersRefresh
PROPERTIES
    KnownStaysKnown
