CONSTANTS
    N = 1
    SeqMod = 2
    InCap = 1
    Window = 1
    Plans <- MCFullOrFailing
SPECIFICATION FairSpec
INVARIANTS InOrder MarkersMeanAll
PROPERTY HangUpReachesBothEnds
CHECK_DEADLOCK FALSE
