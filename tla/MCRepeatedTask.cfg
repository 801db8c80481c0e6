\* Three callers, every mix of zero and positive delays, the fairness of FairSpec.
CONSTANTS
    c1 = c1
    c2 = c2
    c3 = c3
    NoCaller = NoCaller
    NoDelay = NoDelay
    Callers <- MCCallers
    Intervals <- MCIntervals
    InitialDelays <- MCInitialDelays
SPECIFICATION FairSpec
INVARIANTS
    TypeOK
    StartedHasHandle
    StaleOnlyAfterACrash
    JoinHandleIsUnique
    NoOrphan
PROPERTIES
    StartedStaysDown
    StopOkMeansToldToEnd
    ImplementsOneShotTask
    CancelEndsASleeper
    KeepsCalling
    CallsReturn
\* Callers that have let go of a stopped task have nothing left to do.
CHECK_DEADLOCK FALSE
