CONSTANTS
    MaxTries = 3
    Images <- Good
    MaxApplies = 1
    MaxCuts = 0
    WritesMayFail = FALSE
    SlowDisk = FALSE
SPECIFICATION Spec
PROPERTIES
    ActiveSlotIsBooted
