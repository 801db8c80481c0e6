\* A start() after a stop() is told that the task is already started.
CONSTANTS
    c1 = c1
    c2 = c2
    c3 = c3
    NoCaller = NoCaller
    NoDelay = NoDelay
    Callers <- MCTwoCallers
    Intervals <- MCPositiveIntervals
    InitialDelays <- MCInitialDelays
SPECIFICATION Spec
PROPERTY RejectedOnlyIfStarted
CHECK_DEADLOCK FALSE
