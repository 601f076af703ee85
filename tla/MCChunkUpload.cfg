CONSTANTS
    u1 = u1
    c1 = c1
    c2 = c2
    m1 = m1
    m2 = m2
    Uploads = {u1}
    Chunks = {}
    Completions = {c1, c2}
    UploadOf <- MCUploadOf
    Scans = {m1, m2}
    NoOne = NoOne
    Duplicate = Duplicate
    Budget = 1
    MaxFaults = 2
SPECIFICATION Spec
SYMMETRY Symmetry
CHECK_DEADLOCK FALSE
INVARIANTS
    TypeOK
    NothingLeftBehind
    ChunksKept
PROPERTIES
    OnlyHolderStores
    KeepsPromise
