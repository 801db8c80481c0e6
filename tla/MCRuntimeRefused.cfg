\* The system refuses the blocker thread.
CONSTANTS
    u1 = u1
    t1 = t1
    f1 = f1
    f2 = f2
    w1 = w1
    w2 = w2
    x1 = x1
    Nobody = Nobody
    Users <- MCUsers
    Tasks <- MCTasks
    Functions <- MCFunctions
    Workers <- MCWorkers
    Extra <- MCExtra
SPECIFICATION Spec
INVARIANT SpawnedIsExecuted
CHECK_DEADLOCK FALSE
