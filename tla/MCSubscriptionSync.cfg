CONSTANTS
    MaxId = 2
    Files = {1, 2}
    Ads = {}
    ScanLimit = 1
    MaxJobs = 1
    MaxFaults = 0
    MaxControls = 0
SPECIFICATION Spec
CHECK_DEADLOCK FALSE
INVARIANT
    RestIsScanned
