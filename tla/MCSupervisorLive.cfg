CONSTANTS
    NumServices = 1
    Notifies <- FirstService
    Respawns <- FirstService
    Names <- FirstAlone
    MaxRestarts = 1
    MaxPid = 2
    MaxLine = 1
    MaxClaims = 1
    WritesMayFail = FALSE
SPECIFICATION FairSpec
PROPERTIES
    StopCompletes BootIsReleased ZombiesAreReaped
    ReadinessIsPublished
CHECK_DEADLOCK FALSE
