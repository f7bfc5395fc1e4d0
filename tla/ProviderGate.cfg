SPECIFICATION FairSpec
CONSTANTS
    Request <- Requests
    ClassOf <- Classes
    Limits = {0, 1, 2}
    MayGiveUp <- Requests
    MayUngate = TRUE
INVARIANTS TypeOK NoIdleSlot NoLeak
PROPERTIES NoOvertaking LimitUnlessRemoved Answers
