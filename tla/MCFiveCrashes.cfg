CONSTANTS
    NumServices = 1
    Notifies <- FirstService
    Respawns <- FirstService
    Names <- FirstOrNone
    MaxRestarts = 1
    MaxPid = 2
    MaxLine = 0
    MaxClaims = 0
    WritesMayFail = FALSE
SPECIFICATION Spec
INVARIANTS
    DownAfterMaxCrashes
CHECK_DEADLOCK FALSE
