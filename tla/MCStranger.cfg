CONSTANTS
    NumServices = 2
    Notifies <- BothServices
    Respawns <- FirstService
    Names <- FirstOrNone
    MaxRestarts = 1
    MaxPid = 2
    MaxLine = 1
    MaxClaims = 0
    WritesMayFail = FALSE
SPECIFICATION Spec
INVARIANTS
    NobodySpeaksForAnother
CHECK_DEADLOCK FALSE
