SPECIFICATION FairSpec
CONSTANTS
    User = User
    Worker = {w1}
    Agent = {reader, writer}
    AsksFirst = {writer}
    MaxRuns = 2
    Budget <- Faulty
INVARIANTS NoRunTwice
 
