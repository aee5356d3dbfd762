CONSTANTS
    None = None
    Nodes = {1, 2, 3}
    Subject = 1
    Seeds <- MCSeeds
    Lead <- MCLeadOfSubject
    Suspicion = 1
    Dead = 2
    LastFailure = 1
    MaxNow = 3
    MaxLogical = 1
    MaxBoots = 1
    MaxInFlight = 1
SPECIFICATION LoopSpec
PROPERTIES OnlySelfClears SilentIsDead
CHECK_DEADLOCK FALSE
