CONSTANTS
    None = None
    Keys = {k1}
    web = web
    ServiceOf <- MCServiceOf
    Capacity = 1
    PollLimit = 1
    MaxChanges = 2
    MaxTroubles = 1
    MaxBatch = 1
SPECIFICATION FairSpec
INVARIANTS TypeOK SummaryMatches NeverIdle
PROPERTIES PollingConverges Reconnects
CHECK_DEADLOCK FALSE
