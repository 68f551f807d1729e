CONSTANTS
    NumServices = 1
    Notifies <- FirstService
    Respawns <- FirstService
    Names <- FirstOrNone
    MaxRestarts = 1
    MaxPid = 1
    MaxLine = 1
    MaxClaims = 0
    WritesMayFail = FALSE
SPECIFICATION FairSpec
PROPERTIES
    StatusConverges
CHECK_DEADLOCK FALSE
