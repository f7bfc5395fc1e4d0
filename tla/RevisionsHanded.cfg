SPECIFICATION Spec
CONSTANTS
    Worker = {w1, w2}
    Boot = boot
    File = file
    Kinds <- Every
    NoDef <- Nothing
    MaxOps = 2
    MaxStarts = 1
PROPERTY HandedToFile
