SPECIFICATION Spec
CONSTANTS
    r1 = r1
    r2 = r2
    h1 = h1
    Requests = {r1, r2}
    Hashes = {h1}
    None = None
    MaxImages = 1
    MaxVideos = 1
    MaxBatch = 2
    MaxIds = 2
SYMMETRY Symmetry
INVARIANTS
    TypeOK
    StoresAgree
    FileAccounted
    QuotaKept
    AnswerTrue
PROPERTIES
    ImplementsImageLibrary
