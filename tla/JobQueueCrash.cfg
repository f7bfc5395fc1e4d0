SPECIFICATION Spec
CONSTANTS
    NoJob = NoJob
    Job <- TripleJobs
    Parent <- TripleParent
    Root <- AllOfChain
    Optional <- Second
    Evaluator <- First
    Pinned <- NoJobs
    LocalPinned <- Second
    Expirable <- NoJobs
    MaxAttempts <- CapOne
    Slot = {s1, s2}
    Serves <- AnyPermit
    Client = {c1}
    Budget <- Crashes
INVARIANTS  NoLostWakeup ChainOrder CascadeFindsParked
 
SYMMETRY SlotSymmetry
