SPECIFICATION FairSpec
CONSTANTS
    Half = 2
    Statuses = {s1, s2}
    Lifetime = 2
    Interval = 1
    Refresh = 2
    Serials = {"sn1", "sn2"}
    ModbusSN = "sn1"
    Budget = 2
    Minute = 2
    Installations <- MCInstallations
INVARIANTS
    PowerIsReal
    SameInverter
PROPERTIES
    SettledChangeIsRecorded
    PollEnds
