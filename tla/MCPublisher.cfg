SPECIFICATION Spec
CONSTANTS
    Inverter = "inverter"
    Meters = {"grid_load"}
    Shapes <- MCShapes
    BrokerForgets = TRUE
    MaxFaults = 2
    Window = 1
    Nothing = Nothing
INVARIANTS OnlineIsCurrent PublishedIsOwned GoodbyeIsFinal
