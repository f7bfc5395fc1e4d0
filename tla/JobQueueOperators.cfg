SPECIFICATION Spec
CONSTANTS
    NoJob = NoJob
    Job <- TwoJobs
    Parent <- TwoParent
    Root <- AllOfChain
    Optional <- NoJobs
    Evaluator <- First
    Pinned <- Second
    LocalPinned <- NoJobs
    Expirable <- Second
    MaxAttempts <- CapOne
    Slot = {s1, s2}
    Serves <- AnyPermit
    Client = {c1, c2}
    Budget <- Operators
INVARIANTS NoDoubleRun
PROPERTIES CancelledIsFinal
SYMMETRY SlotSymmetry
