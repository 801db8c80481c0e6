\* One caller outside and the task function itself, with and without a sleep.
CONSTANTS
    c1 = c1
    c2 = c2
    fn = fn
    Fn <- fn
    NoCaller = NoCaller
    NoDelay = NoDelay
    Callers <- MCThreeCallers
    Intervals <- MCIntervals
    InitialDelays <- MCInitialDelays
SPECIFICATION RFairSpec
PROPERTIES
    OnlyASelfStopHangs
    ForgottenRuntimeGoesDown
    ImplementsOwnedPool
\* Once all is dropped and down nothing is left to do.
CHECK_DEADLOCK FALSE
