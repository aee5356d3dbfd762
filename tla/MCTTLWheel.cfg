CONSTANTS
    Tasks = {t1, t2}
    Slots = 3
    TickLength = 2
    Deadlines <- MCDeadlines
    LastCall = 5
    MaxTime = 16
SPECIFICATION FairSpec
INVARIANTS TypeOK PlacedExactly
PROPERTIES ImplementsTimers EveryTaskFires
CHECK_DEADLOCK FALSE
