CONSTANTS
    Subscribers = {s1, s2}
    Nobody = Nobody
    Capacity = 2
    Queue = 2
    MaxSeq = 4
SYMMETRY Symmetry
SPECIFICATION Spec
INVARIANTS TypeOK SinceIsComplete NoSilentLossAfterJoin StreamOrdered
CHECK_DEADLOCK FALSE
