CONSTANTS
    small = small
    big = big
    Files <- Both
    Large <- BigOnly
    Temp = temp
    a = a
    ro = ro
    Data = {a, b}
    Modes = {ro, rw}
    Shipped <- Usual
    Absent = Absent
    SameSize = SameSize
    Info = Info
    NoBaseline = NoBaseline
    MaxAlertLines = 1
    MaxChanges = 2
    MaxFaults = 2
SPECIFICATION IdsSpec
INVARIANT
    NeverForgets
