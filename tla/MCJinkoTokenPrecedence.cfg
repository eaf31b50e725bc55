SPECIFICATION Spec
CONSTANTS
    MaxToken = 3
    MaxTime = 3
    RefreshBefore = 1
    MinInterval = 2
    Lifetimes = {0}
    Configs <- PairConfigs
    ConfigLifetimes = {1}
INVARIANTS
    NoReplay
