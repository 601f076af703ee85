CONSTANTS
    i1 = i1
    i2 = i2
    Items = {i1}
    Window = 1
    Prepares = {TRUE}
    Faults = {"quota", "crash"}
    Last = {}
    MaxFaults = 2
    MaxControls = 0
    MaxTroubles = 2
    MaxClaims = 2
SPECIFICATION Spec
INVARIANTS
    NothingLeftBehind
