SPECIFICATION FairSpec
CONSTANTS
    Inverter = "inverter"
    Meters = {}
    Shapes <- MCShapes
    BrokerForgets = TRUE
    MaxFaults = 2
    Window = 2
    Nothing = Nothing
PROPERTIES OfflineReaches
