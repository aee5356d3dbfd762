CONSTANTS
    None = None
    Nodes = {1, 2}
    Subject = 1
    Seeds <- MCSeeds
    Lead <- MCLead
    Suspicion = 1
    Dead = 2
    LastFailure = 2
    MaxNow = 4
    MaxLogical = 1
    MaxBoots = 2
    MaxInFlight = 2
SPECIFICATION FairSpec
INVARIANTS TypeOK OwnEntryLeads
PROPERTY RunningIsAlive
CHECK_DEADLOCK FALSE
