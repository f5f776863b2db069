CONSTANTS
    NumSubconns = 2
    AcceptCap = 1
    NumPorts = 2
    MaxStreams = 2
    MaxTicks = 1
SPECIFICATION FairSpec
INVARIANTS TypeOK NoSendOnClosedChannel NothingHeldInBackoff
PROPERTIES TurnEnds NoGoroutineLeft
CHECK_DEADLOCK FALSE
