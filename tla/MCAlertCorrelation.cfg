CONSTANTS
    Signatures <- MCSignatures
    Cooldown = 1
    MaxDecisions = 3
SPECIFICATION FairSpec
INVARIANTS PushesAgree WorkerJoins
PROPERTIES AccessRespected PushesCatchUp PollReturns ImplementsMailbox
