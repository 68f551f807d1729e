CONSTANTS
    NumServices = 1
    Notifies <- OneService
    Respawns <- OneService
    Names <- Unnamed
    MaxRestarts = 1
    MaxPid = 1
    MaxLine = 0
    MaxClaims = 0
    WritesMayFail = FALSE
    MaxPrograms = 2
SPECIFICATION ShutdownSpec
PROPERTIES
    NothingUsesTheVolume
CHECK_DEADLOCK FALSE
