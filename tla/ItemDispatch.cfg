SPECIFICATION Spec
CONSTANTS
    User = User
    Worker = {w1, w2}
    Agent = {reader, writer}
    AsksFirst = {writer}
    MaxRuns = 2
    Budget <- Hands
INVARIANTS WorkIsCurrent NoRunTwice RunsCapped ApprovedRuns
SYMMETRY Workers
