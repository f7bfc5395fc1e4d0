SPECIFICATION FairSpec
CONSTANTS
    NoJob = NoJob
    Job <- TwoJobs
    Parent <- TwoParent
    Root <- AllOfChain
    Optional <- NoJobs
    Evaluator <- NoJobs
    Pinned <- NoJobs
    LocalPinned <- NoJobs
    Expirable <- NoJobs
    MaxAttempts <- CapTwo
    Slot = {s1}
    Serves <- AnyPermit
    Client = {c1}
    Budget <- Interrupted
PROPERTY EventuallySettled
