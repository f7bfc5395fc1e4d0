SPECIFICATION FairSpec
CONSTANTS
    Nobody = Nobody
    Holder = {h1, h2}
    Hours = 2
    Note = {n1}
    Task = {t1, t2}
    Budget <- Full
INVARIANTS OneHolderUnlessOvertaken GrantHonoured 
PROPERTY LocalReturns
CHECK_DEADLOCK FALSE
