CONSTANTS
    PingN = 3
    FreshN = 3
    MaxBeats = 4
    Window = 1
    Times <- MCTimes
SPECIFICATION FairSpec
INVARIANTS TypeOK OwnEcho HonestRecord QuantilesOrdered
PROPERTY BenchEnds
CHECK_DEADLOCK FALSE
