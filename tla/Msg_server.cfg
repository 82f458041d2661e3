SPECIFICATION Spec
CONSTANTS
    MAXTHREADS = 3
    SCHED_PRIO_LEVELS = 2
    ThreadPrio <- SameAndHigh
    QueueSize <- FirstQueues
    Calls = {"try_send", "send_int", "reply_int", "bus"}
    Uses <- ServiceAndBus
    Exits = {3}
    MaxMsgs <- SecondSendsTwo
INVARIANTS
    InOrder ReceiverStarves ReplyExpected ListsConsistent
CHECK_DEADLOCK FALSE
