CONSTANTS
    None = None
    NoOp = NoOp
    Window = 1
    Nodes = {1, 2}
    Keys = {"k1", "k2"}
    LeaseIDs = {"k1", "k2"}
    Order <- MCOrder
    Shards <- MCShards
    Mutations <- MCMutations
    Ahead <- MCAhead
    Seeds <- MCSeeds
    PendingRounds = 1
    PageSize = 1
    MaxInFlight = 1
    MaxSyncs = 1
    Faulty = {2}
    MaxFailures = 1
SPECIFICATION FairSpec
INVARIANTS TypeOK
PROPERTIES SyncIsComplete Converges GossipSettles EveryNodeGetsReady
CHECK_DEADLOCK FALSE
