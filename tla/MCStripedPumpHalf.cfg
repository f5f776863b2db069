CONSTANTS
    N = 1
    SeqMod = 8
    InCap = 1
    Window = 1
    Plans <- MCUpload2
SPECIFICATION Spec
INVARIANT HalfCloseKeepsReply
CHECK_DEADLOCK FALSE
