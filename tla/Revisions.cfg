SPECIFICATION Spec
CONSTANTS
    Worker = {w1, w2}
    Boot = boot
    File = file
    Kinds <- Every
    NoDef <- Nothing
    MaxOps = 4
    MaxStarts = 1
INVARIANTS ChainLinked  OwnedByFile
PROPERTIES SavedOnTop NoLostEdit
SYMMETRY Workers
