CONSTANTS
    NumServices = 1
    Notifies <- OneService
    Respawns <- OneService
    Names <- Unnamed
    MaxRestarts = 1
    MaxPid = 1
    MaxLine = 0
    MaxClaims = 0
    WritesMayFail = FALSE
    MaxPrograms = 2
SPECIFICATION FairShutdownSpec
INVARIANTS
    ShutdownTypeOK OneSequence DaemonsDownBeforeFlush
PROPERTIES
    AtMostOneStray CleanPowerOff GoesDown
CHECK_DEADLOCK FALSE
