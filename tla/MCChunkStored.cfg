CONSTANTS
    u1 = u1
    c1 = c1
    c2 = c2
    m1 = m1
    m2 = m2
    Uploads = {u1}
    Chunks = {}
    Completions = {c1}
    UploadOf <- MCUploadOf
    Scans = {m1}
    NoOne = NoOne
    Duplicate = Duplicate
    Budget = 1
    MaxFaults = 0
SPECIFICATION Spec
CHECK_DEADLOCK FALSE
INVARIANT CompletedFileStored
