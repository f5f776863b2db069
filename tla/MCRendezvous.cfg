CONSTANTS
    s1 = s1
    s2 = s2
    Sessions <- MCSessions2
    MaxAttempts = 4
SYMMETRY MCSymmetry
SPECIFICATION Spec
INVARIANTS TypeOK PairingSafe SessionIsolation
