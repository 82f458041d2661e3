SPECIFICATION FairSpec
CONSTANTS
    MAXTHREADS = 3
    SCHED_PRIO_LEVELS = 3
    CreateFlags <- YieldingFlags
    NiceTargets = "heads"
INVARIANTS
    KernelConsistent HighestPriorityRuns
PROPERTIES
    TerminatedStaysDead HighestGetsProcessor
CHECK_DEADLOCK FALSE
