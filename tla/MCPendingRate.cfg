\* Two futures compete for the tokens of one bucket, or have no limit.
CONSTANTS
    t1 = t1
    t2 = t2
    Tasks <- MCTwoTasks
    Priorities <- MCPriorities
    Amount = 1
    MaxTokens = 2
SPECIFICATION FairSpec
INVARIANTS
    RateTypeOK
    PollsAreBounded
PROPERTIES
    StarvedOnlyByOthers
    ImplementsThrottledFuture
CHECK_DEADLOCK FALSE
