SPECIFICATION FairSpec
CONSTANTS
    MaxToken = 3
    MaxTime = 1
    RefreshBefore = 1
    MinInterval = 1
    Lifetimes = {0}
    Configs <- PairConfigs
    ConfigLifetimes = {0}
PROPERTIES
    PendingBecomesDurable
    DueIsRotated
    ShutdownEnds
