\* interval = Duration::ZERO: the loop never looks at its token.
CONSTANTS
    c1 = c1
    c2 = c2
    c3 = c3
    NoCaller = NoCaller
    NoDelay = NoDelay
    Callers <- MCTwoCallers
    Intervals <- MCZeroInterval
    InitialDelays <- MCInitialDelays
SPECIFICATION FairSpec
PROPERTIES
    CancelEndsTheTask
CHECK_DEADLOCK FALSE
