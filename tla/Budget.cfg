SPECIFICATION FairSpec
CONSTANTS
    Run = {"chat", "work"}
    Kinds <- Split
    Model = {"big", "small"}
    Ladder <- Rungs
    Paid = TRUE
    Rounds = 2
    None = None
    Rpm = 1
    Rpd = 2
    ModelRpd <- Own
    DailyUsd = 1
    MonthlyUsd = 2
    Day = 2
    Month = 2
    Backoff <- Steps
    Hour = 2
    Hints = {}
    Ends <- Ways
    Harm = 1
INVARIANTS OneCallOver BookAgrees
PROPERTY ComesBack
