CONSTANTS
    NumPackages = 3
    Releases <- ChainAndCycle
    Misfiled = {3}
    Requests <- OneOrTwo
    Zrpkgs = {z1, z2}
    MaxRuns = 3
    MaxRounds = 3
    RefusesDelete = TRUE
SPECIFICATION Spec
INVARIANTS
    PackagesTypeOK DependenciesInstalled RecordedIsThere NothingLoose
PROPERTIES
    CompletedMeansInstalled
CHECK_DEADLOCK FALSE
