CONSTANTS
    None = None
    NoOp = NoOp
    Keys = {"k1", "k2"}
    LeaseIDs = {"leaseA", "leaseB", "leaseC"}
    Operations = {"op1", "op2", "op3", "op4"}
    Shards <- MCShards
    Mutations <- MCMutations
    Window = 2
    Retention = 1
    MaxNow = 2
SPECIFICATION Spec
INVARIANTS TypeOK FencesGuard TopIsJoin NoResurrection ExportRebuilds
PROPERTY ImplementsLattice
