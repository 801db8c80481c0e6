\* One future, throttled or not.
CONSTANTS
    t1 = t1
    Tasks <- MCTasks
    Priorities <- MCPriorities
    Elapsed <- MCElapsed
    TimeBound = 34
SPECIFICATION FairSpec
INVARIANTS
    TimeTypeOK
    NoTimeIsLost
PROPERTIES
    OneBackoffPaysAll
    ImplementsFairThrottledFuture
CHECK_DEADLOCK FALSE
