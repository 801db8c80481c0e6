\* Two futures, throttled or not; counters that wrap, or panic where they would.
CONSTANTS
    t1 = t1
    t2 = t2
    Tasks <- MCTwoTasks
    Priorities <- MCPriorities
    Builds <- MCBuilds
    MaxCnt = 10
    MaxRecords = 1
SPECIFICATION FairSpec
INVARIANTS
    CountTypeOK
    NoLostWakeup
    NoPollDuringBackoff
    HistoryIsRecent
PROPERTIES
    BackoffsAreSpaced
    ImplementsThrottledFuture
    FairUnlessPanicked
CHECK_DEADLOCK FALSE
