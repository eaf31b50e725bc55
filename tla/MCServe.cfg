SPECIFICATION FairSpec
CONSTANTS
    Sources <- KnownSources
    Meter = "meter"
    Reports <- MCReports
    Serial <- MCSerial
    DeviceID = "installation"
    MaxFaults = 1
    Nothing = Nothing
    Configs <- MCConfigs
INVARIANTS
    ValuesKeepTheirMeaning
    PrimaryOwnsOrdinary
    StartsAsValidated
    OneDevice
PROPERTIES
    ImplementsRegistry
    EndsWhole
    ShutdownEnds
