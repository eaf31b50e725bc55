SPECIFICATION Spec
CONSTANTS
    Inverter = "inverter"
    Meters = {"grid_load"}
    Shapes <- MCShapes
    BrokerForgets = TRUE
    MaxFaults = 1
    Window = 1
    Nothing = Nothing
INVARIANTS DiscoveryIsRepublished
