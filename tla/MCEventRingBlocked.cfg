CONSTANTS
    Subscribers = {s1, s2}
    Nobody = Nobody
    Capacity = 2
    Queue = 2
    MaxSeq = 4
SYMMETRY Symmetry
SPECIFICATION Spec
INVARIANTS PublishNeverWaits
CHECK_DEADLOCK FALSE
