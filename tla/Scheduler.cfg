SPECIFICATION Spec
CONSTANTS
    Worker = {loop, hand}
    Loop = loop
    MaxTasks = 1
    RetryCap = 1
    ErrorBudget = 1
    Allowed <- Together
    Total = 2
INVARIANTS TypeOK OneChain NotStacked RetriedOnce 
