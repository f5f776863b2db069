CONSTANTS
    c1 = c1
    c2 = c2
    Conns <- MCConns
    LongNames <- MCLong
    Setups <- MCSetups
SPECIFICATION FairSpec
INVARIANTS TypeOK OneCompleteDial ConfiguredService
PROPERTIES DeathCutsAll ClientsResolved
CHECK_DEADLOCK FALSE
