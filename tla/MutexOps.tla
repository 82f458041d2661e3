------------------------------ MODULE MutexOps ------------------------------
(***************************************************************************)
(* The critical sections of RIOT/core/mutex.c as operators on a scheduler  *)
(* state and a mutex. A mutex_t is a record: its queue.next is NULL when   *)
(* locked is FALSE, MUTEX_LOCKED when locked is TRUE and queue is empty,   *)
(* and otherwise the first of the threads in queue. owner and              *)
(* owner_original_priority are the fields of the module                    *)
(* core_mutex_priority_inheritance, and inherits says that the build has   *)
(* that module.                                                            *)
(***************************************************************************)
EXTENDS Sched

MutexType ==
    [locked                  : BOOLEAN,
     queue                   : Seq(Thread),
     owner                   : Thread \cup {NULL},
     owner_original_priority : Prio,
     inherits                : BOOLEAN]

\* MUTEX_INIT and MUTEX_INIT_LOCKED
mutex_init(locked, inherits) ==
    [locked |-> locked, queue |-> <<>>, owner |-> NULL, owner_original_priority |-> 0,
     inherits |-> inherits]

\* A thread locks a mutex that is free.
mutex_take(s, mx, t) ==
    IF mx.inherits
    THEN [mx EXCEPT !.locked = TRUE, !.owner = t, !.owner_original_priority = s.priority[t]]
    ELSE [mx EXCEPT !.locked = TRUE]

\* _block up to its thread_yield_higher. The waiting thread is the active one
\* and off the run queues, so that sched_change_priority does not yield here.
mutex_block(s, mx, t) ==
    LET blocked == sched_set_status(s, t, "mutex_blocked")
        owner   == thread_get(s, mx.owner)
        raised  == /\ mx.inherits
                   /\ owner # NULL
                   /\ s.priority[owner] > s.priority[t]
    IN  [sched |-> IF raised THEN change_priority(blocked, owner, s.priority[t]) ELSE blocked,
         mutex |-> [mx EXCEPT !.queue = thread_add_to_list(s, @, t)]]

\* Mutant: the mutex is not marked as locked when its last waiter leaves.
mutex_hand_over_unlocked(s, mx) ==
    IF mx.queue = <<>>
    THEN [sched |-> s, mutex |-> [mx EXCEPT !.locked = FALSE], woken |-> NULL]
    ELSE [sched |-> sched_set_status(s, Head(mx.queue), "pending"),
          mutex |-> [mx EXCEPT !.queue = Tail(@), !.locked = Tail(mx.queue) # <<>>],
          woken |-> Head(mx.queue)]

\* The first waiting thread gets the mutex, which stays locked. woken is that
\* thread, and NULL if no thread waited.
mutex_hand_over(s, mx) ==
    IF mx.queue = <<>>
    THEN [sched |-> s, mutex |-> [mx EXCEPT !.locked = FALSE], woken |-> NULL]
    ELSE [sched |-> sched_set_status(s, Head(mx.queue), "pending"),
          mutex |-> [mx EXCEPT !.queue = Tail(@)],
          woken |-> Head(mx.queue)]


\* mutex_unlock of a locked mutex up to irq_restore; yields is TRUE if giving
\* the owner its priority back called thread_yield_higher.
mutex_release(s, mx) ==
    LET given    == mutex_hand_over(s, mx)
        owner    == thread_get(s, mx.owner)
        original == mx.owner_original_priority
        restored == /\ mx.inherits
                    /\ given.woken # NULL
                    /\ owner # NULL
                    /\ s.priority[owner] # original
        lowered  == change_priority(given.sched, owner, original)
    IN  [sched  |-> IF restored THEN lowered ELSE given.sched,
         mutex  |-> given.mutex,
         woken  |-> given.woken,
         yields |-> restored /\ change_yields(lowered, owner, original)]
=============================================================================
