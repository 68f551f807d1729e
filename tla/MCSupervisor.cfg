CONSTANTS
    NumServices = 2
    Notifies <- BothServices
    Respawns <- FirstService
    Names <- FirstAlone
    MaxRestarts = 1
    MaxPid = 3
    MaxLine = 1
    MaxClaims = 0
    WritesMayFail = TRUE
SPECIFICATION Spec
INVARIANTS
    TypeOK OneInstance StoppedMeansDown NoLostWakeup AwaitedIsSupervised
    ReadyWasReported GivesUp
CHECK_DEADLOCK FALSE
