\* One task and two functions on two workers and one more thread.
CONSTANTS
    u1 = u1
    t1 = t1
    f1 = f1
    f2 = f2
    w1 = w1
    w2 = w2
    x1 = x1
    Nobody = Nobody
    Users <- MCUsers
    Tasks <- MCTasks
    Functions <- MCFunctions
    Workers <- MCWorkers
    Extra <- MCExtra
SPECIFICATION FairSpec
INVARIANTS
    TypeOK
    NothingCancelledWhileOwned
    DownIsClean
PROPERTIES
    QueuedIsTaken
    ImplementsFairOwnedPool
\* A runtime that is down, or that nobody gives a job, does nothing.
CHECK_DEADLOCK FALSE
