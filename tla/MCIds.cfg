CONSTANTS
    small = small
    big = big
    Files <- Both
    Large <- BigOnly
    Temp = temp
    a = a
    ro = ro
    Data = {a, b}
    Modes = {ro, rw}
    Shipped <- Usual
    Absent = Absent
    SameSize = SameSize
    Info = Info
    NoBaseline = NoBaseline
    MaxAlertLines = 1
    MaxChanges = 2
    MaxFaults = 2
SPECIFICATION FairIdsSpec
INVARIANTS
    IdsTypeOK BaselineSurvives RepeatsBounded
PROPERTIES
    AbsorbsOnlyReported Converges
