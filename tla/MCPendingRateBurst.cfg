\* Two limited futures and a bucket that keeps the tokens of two intervals.
CONSTANTS
    t1 = t1
    t2 = t2
    Tasks <- MCTwoTasks
    Priorities <- MCLimited
    Amount = 1
    MaxTokens = 2
SPECIFICATION Spec
INVARIANT OnlyWhatIsProduced
CHECK_DEADLOCK FALSE
