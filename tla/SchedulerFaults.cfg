SPECIFICATION FairSpec
CONSTANTS
    Worker = {loop}
    Loop = loop
    MaxTasks = 1
    RetryCap = 1
    ErrorBudget = 1
    Allowed <- Faults
    Total = 2
INVARIANTS ClosedStays
PROPERTIES EveryTaskEnds DueFires
