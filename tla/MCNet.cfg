CONSTANTS
    home = home
    office = office
    none = none
    unnamed = unnamed
    Wire = eth0
    Radio = wlan0
    Ssids <- Both
    NoSsid <- none
    Unnamed <- unnamed
    Static = static
    Texts <- FourTexts
    Fallbacks <- HomeOrNone
    Empty = empty
    NoFile = noFile
    MaxWrites = 1
    MaxEvents = 1
    MaxFaults = 1
SPECIFICATION FairNetSpec
INVARIANTS
    NetTypeOK LeaseIsFromConfigured
PROPERTIES
    ConfigTakesEffect Announces Recovers
