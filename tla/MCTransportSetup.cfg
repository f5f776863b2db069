CONSTANTS
    NumSubconns = 2
    QueueCap = 1
SPECIFICATION FairSpec
INVARIANTS TypeOK ServedWasDialed
PROPERTIES SetupResolves NoHalfSession ReadersEnd
CHECK_DEADLOCK FALSE
