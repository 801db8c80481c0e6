\* init_global_runtimes() is called again.
CONSTANTS
    t1 = t1
    t2 = t2
    t3 = t3
    NoThread = NoThread
    Threads <- MCThreads
SPECIFICATION Spec
PROPERTIES
    SecondInitPanics
