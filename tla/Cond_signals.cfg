SPECIFICATION Spec
CONSTANTS
    MAXTHREADS = 3
    SCHED_PRIO_LEVELS = 2
    Ports = {"cortexm", "pip"}
    ThreadPrio <- HighAndSame
    MaxItems = 2
INVARIANTS
     NoLostSignalDeferred
\* On Pip a thread blocked and not queued is never woken.
CHECK_DEADLOCK FALSE
