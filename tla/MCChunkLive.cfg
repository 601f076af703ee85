CONSTANTS
    u1 = u1
    c1 = c1
    c2 = c2
    m1 = m1
    m2 = m2
    Uploads = {u1, u2}
    Chunks = {i1}
    Completions = {c1}
    UploadOf <- MCUploadOf
    Scans = {m1}
    NoOne = NoOne
    Duplicate = Duplicate
    Budget = 1
    MaxFaults = 2
SPECIFICATION LiveSpec
CHECK_DEADLOCK FALSE
INVARIANTS
    BudgetKept
PROPERTIES
    CompletionEnds
