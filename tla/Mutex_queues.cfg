SPECIFICATION Spec
CONSTANTS
    MAXTHREADS = 3
    SCHED_PRIO_LEVELS = 3
    a = a
    s = s
    Mutexes <- MutexAndSignal
    Signals <- OneSignal
    Builds <- PlainAndInherit
    MaxHeld = 1
INVARIANTS
    MutualExclusion ListsConsistent CancelledNotBlocked 
PROPERTIES
    OnlyTimeoutAbandons
CHECK_DEADLOCK FALSE
