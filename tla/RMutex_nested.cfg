SPECIFICATION FairSpec
CONSTANTS
    MAXTHREADS = 3
    SCHED_PRIO_LEVELS = 2
    PriorityInheritance = FALSE
    ThreadPrio <- HighAndSame
    MaxDepth = 2
INVARIANTS
    MutualExclusion UnlockAsserts OwnerTestStable
PROPERTIES
    LockReturns
