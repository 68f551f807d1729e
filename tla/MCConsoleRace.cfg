CONSTANTS
    NumServices = 1
    Notifies <- OneService
    Respawns <- OneService
    Names <- Unnamed
    MaxRestarts = 1
    MaxPid = 1
    MaxLine = 1
    MaxClaims = 0
    WritesMayFail = FALSE
    MaxPrograms = 1
SPECIFICATION ShutdownSpec
INVARIANTS
    ConsoleWasSignalled
CHECK_DEADLOCK FALSE
