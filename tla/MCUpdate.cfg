CONSTANTS
    MaxTries = 3
    Images <- AllImages
    MaxApplies = 2
    MaxCuts = 3
    WritesMayFail = TRUE
    SlowDisk = TRUE
SPECIFICATION FairSpec
INVARIANTS
    TypeOK WithinBudget
PROPERTIES
    RollBackSticks DurableConfirmIsPermanent TrialEnds
