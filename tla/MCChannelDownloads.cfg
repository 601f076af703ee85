CONSTANTS
    i1 = i1
    i2 = i2
    Items = {i1, i2}
    Window = 2
    Prepares = {TRUE}
    Faults = {"download", "store", "quota", "statement", "crash"}
    Last = {"quota"}
    MaxFaults = 2
    MaxControls = 1
    MaxTroubles = 2
    MaxClaims = 3
SPECIFICATION MCSpec
SYMMETRY Symmetry
INVARIANTS
    TypeOK
    CommittedStays
    NothingLeftBehind
    CompletedMeansDone
PROPERTIES
    ItemsKeepPromise
