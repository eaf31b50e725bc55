CONSTANTS
    Normals = {"n1", "n2"}
    Diagnostics = {"d1", "d2"}
SPECIFICATION FairSpec
INVARIANTS NoLostWakeup PreemptionIsTold
PROPERTIES ImplementsAccess PollGetsThrough DiagnosticGetsThrough
