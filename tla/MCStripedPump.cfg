CONSTANTS
    N = 2
    SeqMod = 8
    InCap = 2
    Window = 1
    Plans <- MCUpload3
SPECIFICATION Spec
INVARIANTS TypeOK InOrder MarkersMeanAll
PROPERTY Promise
CHECK_DEADLOCK FALSE
