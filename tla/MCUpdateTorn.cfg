CONSTANTS
    MaxTries = 3
    Images <- Good
    MaxApplies = 1
    MaxCuts = 1
    WritesMayFail = FALSE
    SlowDisk = FALSE
SPECIFICATION Spec
INVARIANTS
    ActivatedIsWhole
