CONSTANTS
    MaxTries = 3
    Images <- Unready
    MaxApplies = 1
    MaxCuts = 0
    WritesMayFail = FALSE
    SlowDisk = FALSE
SPECIFICATION Spec
PROPERTIES
    ConfirmedMeansReady
