CONSTANTS
    NumPackages = 3
    Releases <- ChainAndCycle
    Misfiled = {3}
    Requests <- Second
    Zrpkgs = {z1}
    MaxRuns = 3
    MaxRounds = 3
    RefusesDelete = FALSE
SPECIFICATION Spec
INVARIANTS
    RemovesWhatItInstalled
CHECK_DEADLOCK FALSE
