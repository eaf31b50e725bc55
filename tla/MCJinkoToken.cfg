SPECIFICATION Spec
CONSTANTS
    MaxToken = 3
    MaxTime = 2
    RefreshBefore = 1
    MinInterval = 1
    Lifetimes = {0, 1}
    Configs <- AllConfigs
    ConfigLifetimes = {0}
INVARIANTS
    NoReplay
    RotationStillNeeded
    KeeperDoesNotSpin
    NeverLockedOut
    KeeperMissesNothing
PROPERTIES
    DetailUsesDurablePair
    PendingOnlyActivated
