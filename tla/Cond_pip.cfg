SPECIFICATION Spec
CONSTANTS
    MAXTHREADS = 3
    SCHED_PRIO_LEVELS = 2
    Ports = {"pip"}
    ThreadPrio <- HighAndSame
    MaxItems = 2
INVARIANTS
    NoLostSignal
