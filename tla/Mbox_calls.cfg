SPECIFICATION Spec
CONSTANTS
    MAXTHREADS = 3
    SCHED_PRIO_LEVELS = 2
    ThreadPrio <- HighAndSame
    Sizes = {0, 1, 2}
    UINT_BITS = 3
    Calls = {"put", "try_put", "isr_put", "try_get"}
    MaxMsgs = 2
INVARIANTS
    ListsConsistent ExactlyOnce WriterServed
PROPERTIES
    OnlyWokenWriterPasses
\* Every sender has sent its messages, or every thread is blocked.
CHECK_DEADLOCK FALSE
