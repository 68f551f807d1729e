CONSTANTS
    home = home
    office = office
    none = none
    unnamed = unnamed
    Wire = eth0
    Radio = wlan0
    Ssids <- Both
    NoSsid <- none
    Unnamed <- unnamed
    Static = static
    Texts <- FourTexts
    Fallbacks <- NothingBaked
    Empty = empty
    NoFile = noFile
    MaxWrites = 2
    MaxEvents = 1
    MaxFaults = 1
SPECIFICATION FairNetSpec
PROPERTY
    DropIsNoticed
