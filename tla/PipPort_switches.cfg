SPECIFICATION Spec
CONSTANTS
    MAXTHREADS = 3
    SCHED_PRIO_LEVELS = 2
    ThreadPrio <- LowSameHigh
    MaxNest = 4
    Early = FALSE
    NoYld = "service"
INVARIANTS
    ContextsAgree ThreadsInterruptible HighestPriorityRuns
