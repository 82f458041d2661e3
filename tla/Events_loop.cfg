SPECIFICATION EventSpec
CONSTANTS
    MAXTHREADS = 2
    SCHED_PRIO_LEVELS = 2
    ThreadPrio <- HighLow
    NFlags = 2
    Owners <- NoneOrEither
    NQueues = 2
    Home <- TwoAndOne
    OthersCancel = FALSE
INVARIANTS
    WaitsExact 
PROPERTIES
    OneAtATime 
