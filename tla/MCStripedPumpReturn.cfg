CONSTANTS
    N = 1
    SeqMod = 8
    InCap = 1
    Window = 1
    Plans <- MCDownload5
SPECIFICATION FairSpec
PROPERTY PumpReturns
CHECK_DEADLOCK FALSE
