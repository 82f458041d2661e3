------------------------------ MODULE SchedOps ------------------------------
(***************************************************************************)
(* The RIOT scheduler as operators on scheduler states: RIOT/core/sched.c  *)
(* with the helpers of sched.h and thread.h it is used through.            *)
(*                                                                         *)
(* The kernel's global variables are the fields of one record, so that a   *)
(* critical section of a kernel service (code between irq_disable and      *)
(* irq_restore) is a composition of operators from scheduler states to     *)
(* scheduler states and one atomic step:                                   *)
(*   threads     pids with sched_threads[pid] # NULL                       *)
(*   num         sched_num_threads                                         *)
(*   status, priority   the fields of the thread_t of that pid             *)
(*   runqueues   sched_runqueues; a circular list whose head is the oldest *)
(*               entry is the sequence of its entries, head first          *)
(*   bitcache    runqueue_bitcache, the set of priorities whose bit is set *)
(*   active      sched_active_thread                                       *)
(*   request     a context switch has been requested and not yet served:   *)
(*               sched_context_switch_request, or the pending PendSV it is *)
(*               turned into at the end of the interrupt handler           *)
(*   idle        the processor is in the idle loop of sched_run            *)
(***************************************************************************)
EXTENDS Integers, Sequences, FiniteSets, FiniteSetsExt

CONSTANTS MAXTHREADS,         \* number of thread slots (pids)
          SCHED_PRIO_LEVELS   \* number of priorities, 0 is the highest

ASSUME SchedAssumption ==
    /\ MAXTHREADS \in Nat \ {0}
    /\ SCHED_PRIO_LEVELS \in Nat \ {0}

\* KERNEL_PID_FIRST .. KERNEL_PID_LAST
Thread == 1 .. MAXTHREADS

\* KERNEL_PID_UNDEF, and the NULL thread pointer
NULL == 0

Prio == 0 .. SCHED_PRIO_LEVELS - 1

RunnableStatus == {"running", "pending"}

BlockedStatus ==
    {"stopped", "zombie", "sleeping", "mutex_blocked", "receive_blocked",
     "send_blocked", "reply_blocked", "flag_blocked_any", "flag_blocked_all",
     "mbox_blocked", "cond_blocked"}

Status == RunnableStatus \cup BlockedStatus

\* status >= STATUS_ON_RUNQUEUE
OnRunqueue(status) == status \in RunnableStatus

\* thread_is_active
thread_is_active(s, t) == OnRunqueue(s.status[t])

SchedType ==
    [threads   : SUBSET Thread,
     num       : Int,
     status    : [Thread -> Status],
     priority  : [Thread -> Prio],
     runqueues : [Prio -> Seq(Thread)],
     bitcache  : SUBSET Prio,
     active    : Thread \cup {NULL},
     request   : BOOLEAN,
     idle      : BOOLEAN]

----------------------------------------------------------------------------
(* Run queues                                                              *)

clist_lpop(q) == IF q = <<>> THEN q ELSE Tail(q)

clist_lpoprpush(q) == IF q = <<>> THEN q ELSE Append(Tail(q), Head(q))

runqueue_push(s, t, prio) ==
    [s EXCEPT !.runqueues[prio] = Append(@, t),
              !.bitcache = @ \cup {prio}]

\* The entry removed is the head of the queue, whichever thread t is.
runqueue_pop(s, t) ==
    LET prio == s.priority[t]
        rest == clist_lpop(s.runqueues[prio])
    IN  [s EXCEPT !.runqueues[prio] = rest,
                  !.bitcache = IF rest = <<>> THEN @ \ {prio} ELSE @]

\* Mutant: a yielding thread stays at the head of its run queue.
sched_runq_advance_stays(s, prio) == s

sched_runq_advance(s, prio) ==
    [s EXCEPT !.runqueues[prio] = clist_lpoprpush(@)]

get_prio_queue_from_runqueue(s) == Min(s.bitcache)

----------------------------------------------------------------------------
(* Status changes and the choice of the next thread                        *)

sched_set_status(s, t, status) ==
    LET onrq  == OnRunqueue(s.status[t])
        moved == CASE OnRunqueue(status) /\ ~onrq -> runqueue_push(s, t, s.priority[t])
                   [] ~OnRunqueue(status) /\ onrq -> runqueue_pop(s, t)
                   [] OTHER                       -> s
    IN  [moved EXCEPT !.status[t] = status]

\* unschedule(status, t) is the status function after _unschedule(t).
unschedule(status, t) ==
    IF t # NULL /\ status[t] = "running"
    THEN [status EXCEPT ![t] = "pending"]
    ELSE status

\* The second half of sched_run, once some run queue is not empty. While
\* idling, the local variable active_thread of sched_run is NULL.
sched_elect(s) ==
    LET next     == Head(s.runqueues[get_prio_queue_from_runqueue(s)])
        running  == [s.status EXCEPT ![next] = "running"]
        previous == IF s.idle THEN NULL ELSE s.active
    IN  [s EXCEPT !.request = FALSE,
                  !.idle    = FALSE,
                  !.active  = next,
                  !.status  = IF s.active = next THEN running
                              ELSE unschedule(running, previous)]

\* sched_run up to its first sched_arch_idle, or to its end.
sched_run(s) ==
    IF s.bitcache = {}
    THEN [s EXCEPT !.status = unschedule(@, s.active), !.idle = TRUE]
    ELSE sched_elect(s)

\* Whether sched_switch(prio) switches, the active thread being a thread.
switch_needed(s, prio) ==
    \/ ~OnRunqueue(s.status[s.active])
    \/ s.priority[s.active] > prio

\* sched_switch(prio) in an interrupt handler: the scheduler states it may
\* lead to. With sched_active_thread = NULL it reads through a null pointer,
\* and the comparison may go either way.
isr_sched_switch(s, prio) ==
    IF s.active = NULL
    THEN {s, [s EXCEPT !.request = TRUE]}
    ELSE {[s EXCEPT !.request = @ \/ switch_needed(s, prio)]}

\* Mutant: the thread is not taken out of the run queue of its old priority.
change_priority_stays(s, t, prio) ==
    LET moved == IF thread_is_active(s, t) THEN runqueue_push(s, t, prio) ELSE s
    IN  [moved EXCEPT !.priority[t] = prio]

\* sched_change_priority(t, prio) up to its thread_yield_higher.
change_priority(s, t, prio) ==
    LET moved == IF thread_is_active(s, t)
                 THEN runqueue_push(runqueue_pop(s, t), t, prio)
                 ELSE s
    IN  [moved EXCEPT !.priority[t] = prio]

\* Mutant: raising the priority of another thread is no scheduling point.
change_yields_own(s, t, prio) == s.active = t

\* Whether sched_change_priority calls thread_yield_higher, s being the state
\* after the change.
change_yields(s, t, prio) ==
    \/ s.active = t
    \/ /\ s.active # NULL
       /\ s.priority[s.active] > prio
       /\ thread_is_active(s, t)

----------------------------------------------------------------------------
(* Threads waiting for a kernel object                                     *)

\* thread_get
thread_get(s, pid) == IF pid \in s.threads THEN pid ELSE NULL

\* The new entry goes before the first entry of a lower priority.
thread_add_to_list(s, q, t) ==
    LET passed == {i \in DOMAIN q : \A j \in 1 .. i : s.priority[q[j]] <= s.priority[t]}
        n      == Cardinality(passed)
    IN  SubSeq(q, 1, n) \o <<t>> \o SubSeq(q, n + 1, Len(q))

\* list_remove: the entry of t is unlinked. t is in the list.
list_remove(q, t) ==
    LET i == CHOOSE i \in DOMAIN q : q[i] = t
    IN  SubSeq(q, 1, i - 1) \o SubSeq(q, i + 1, Len(q))

----------------------------------------------------------------------------
(* What the run queues promise, as predicates on a scheduler state         *)

\* t is the head of the run queue of its priority.
IsHead(s, t) ==
    /\ s.runqueues[s.priority[t]] # <<>>
    /\ Head(s.runqueues[s.priority[t]]) = t

\* A thread is an entry of the run queue of its priority, once, exactly when
\* its status says so, and of no other run queue.
RunqueueOK(s) ==
    \A p \in Prio :
        /\ IsInjective(s.runqueues[p])
        /\ Range(s.runqueues[p]) = {t \in Thread : s.priority[t] = p /\ OnRunqueue(s.status[t])}

\* The bits set are those of the non-empty run queues.
BitcacheOK(s) == s.bitcache = {p \in Prio : s.runqueues[p] # <<>>}

\* The threads of a set in the order of their numbers, in which they were created.
in_order(S) ==
    [i \in 1 .. Cardinality(S) |-> CHOOSE t \in S : Cardinality({u \in S : u <= t}) = i]

\* The main thread, 1, has created all other threads without a yield.
all_created(prio) ==
    [threads   |-> Thread,
     num       |-> MAXTHREADS,
     status    |-> [t \in Thread |-> IF t = 1 THEN "running" ELSE "pending"],
     priority  |-> prio,
     runqueues |-> [p \in Prio |-> in_order({t \in Thread : prio[t] = p})],
     bitcache  |-> {prio[t] : t \in Thread},
     active    |-> 1,
     request   |-> FALSE,
     idle      |-> FALSE]
=============================================================================
