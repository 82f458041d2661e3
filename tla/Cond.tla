-------------------------------- MODULE Cond --------------------------------
(***************************************************************************)
(* Condition variables, RIOT/core/cond.c, used the way cond.h prescribes:  *)
(* a mutex protects items, consumers wait in a loop while there are none,  *)
(* producers add one and signal or broadcast.                              *)
(*                                                                         *)
(* port is what thread_yield_higher does with interrupts disabled:         *)
(* "cortexm" (cpu/cortexm_common) leaves PendSV pending until they are     *)
(* enabled, "pip" (cpu/cortexm_common_pip) asks Pip to yield at once and   *)
(* to enable interrupts when the thread is resumed.                        *)
(*                                                                         *)
(*   call[t]   where thread t is in its loop: "out" of the critical        *)
(*             section, "consume" and "produce" (and "done") inside it,    *)
(*             "signal" before it signals, "wait" in cond_wait, "relock"   *)
(*             in the mutex_lock that ends cond_wait; a thread blocked in  *)
(*             mutex_lock is where it goes next                            *)
(*   holds     the threads that have locked the mutex                      *)
(***************************************************************************)
EXTENDS MutexOps, SequencesExt

CONSTANTS Ports,       \* the ports the build may be for
          ThreadPrio,
          MaxItems     \* bound on the number of items

ASSUME CondAssumption ==
    /\ Ports \subseteq {"cortexm", "pip"}
    /\ ThreadPrio \in [Thread -> Prio]
    /\ MaxItems \in Nat

VARIABLES port, mutex, cond, items, call, holds

condVars == <<port, mutex, cond, items, call, holds>>
vars == <<sched, pc, other_prio, port, mutex, cond, items, call, holds>>

At(t, point) == Executes(t) /\ pc[t] = "app" /\ call[t] = point
InSection(t, point) == At(t, point) /\ t \in holds

Init ==
    /\ sched = all_created(ThreadPrio)
    /\ pc = [t \in Thread |-> IF t = 1 THEN "yield" ELSE "app"]
    /\ other_prio = [t \in Thread |-> 0]
    /\ port \in Ports
    /\ mutex = mutex_init(FALSE, FALSE)
    /\ cond = <<>>
    /\ items = 0
    /\ call = [t \in Thread |-> "out"]
    /\ holds = {}

----------------------------------------------------------------------------
\* mutex_lock at point from; the thread goes on at point to.
lock(t, from, to) ==
    /\ At(t, from)
    /\ call' = [call EXCEPT ![t] = to]
    /\ \/ /\ ~mutex.locked
          /\ mutex' = mutex_take(sched, mutex, t)
          /\ holds' = holds \cup {t}
          /\ UNCHANGED <<sched, pc>>
       \/ /\ mutex.locked
          /\ LET k == mutex_block(sched, mutex, t)
             IN  sched' = k.sched /\ mutex' = k.mutex
          /\ pc' = [pc EXCEPT ![t] = "yield"]
          /\ UNCHANGED holds
    /\ UNCHANGED <<other_prio, cond, items, port>>

mutex_lock(t) ==
    \/ \E role \in {"consume", "produce"} : lock(t, "out", role)
    \/ lock(t, "relock", "consume")

\* mutex_unlock made the thread the holder; its mutex_lock returns.
mutex_lock_returns(t) ==
    /\ At(t, "consume") \/ At(t, "produce")
    /\ t \notin holds
    /\ holds' = holds \cup {t}
    /\ UNCHANGED <<sched, pc, other_prio, mutex, cond, items, call, port>>

mutex_unlock(t) ==
    LET r == mutex_release(sched, mutex)
    IN  /\ InSection(t, "done")
        /\ sched' = r.sched
        /\ mutex' = r.mutex
        /\ pc' = [pc EXCEPT ![t] = IF r.woken = NULL THEN @ ELSE "switch"]
        /\ other_prio' = [other_prio EXCEPT
               ![t] = IF r.woken = NULL THEN @ ELSE sched.priority[r.woken]]
        /\ call' = [call EXCEPT ![t] = "out"]
        /\ holds' = holds \ {t}
        /\ UNCHANGED <<cond, items, port>>

consume(t) ==
    /\ InSection(t, "consume")
    /\ items > 0
    /\ items' = items - 1
    /\ call' = [call EXCEPT ![t] = "done"]
    /\ UNCHANGED <<sched, pc, other_prio, mutex, cond, holds, port>>

produce(t) ==
    /\ InSection(t, "produce")
    /\ items' = IF items < MaxItems THEN items + 1 ELSE items
    /\ call' = [call EXCEPT ![t] = IF items < MaxItems THEN "signal" ELSE "done"]
    /\ UNCHANGED <<sched, pc, other_prio, mutex, cond, holds, port>>

\* cond_wait of a consumer that finds no item: it unlocks the mutex, and with
\* interrupts still disabled blocks itself; on Pip a switch to the thread that
\* gets the mutex comes in between.
cond_wait(t) ==
    LET r        == mutex_release(sched, mutex)
        switches == r.woken # NULL /\ switch_needed(r.sched, sched.priority[r.woken])
    IN  /\ InSection(t, "consume")
        /\ items = 0
        /\ mutex' = r.mutex
        /\ holds' = holds \ {t}
        /\ call' = [call EXCEPT ![t] = "wait"]
        /\ \/ /\ port = "pip" /\ switches
              /\ sched' = sched_run(r.sched)
              /\ pc' = [pc EXCEPT ![t] = "cond_status"]
              /\ UNCHANGED cond
           \/ /\ port = "cortexm" \/ ~switches
              /\ sched' = [sched_set_status(r.sched, t, "cond_blocked")
                             EXCEPT !.request = switches]
              /\ cond' = thread_add_to_list(sched, cond, t)
              /\ pc' = [pc EXCEPT ![t] = "yield"]
        /\ UNCHANGED <<other_prio, items, port>>

\* The rest of cond_wait after Pip resumed the thread, interrupts enabled.
cond_wait_status(t) ==
    /\ Executes(t)
    /\ pc[t] = "cond_status"
    /\ sched' = sched_set_status(sched, t, "cond_blocked")
    /\ pc' = [pc EXCEPT ![t] = "cond_list"]
    /\ UNCHANGED <<other_prio, condVars>>

cond_wait_list(t) ==
    /\ Executes(t)
    /\ pc[t] = "cond_list"
    /\ cond' = thread_add_to_list(sched, cond, t)
    /\ pc' = [pc EXCEPT ![t] = "yield"]
    /\ UNCHANGED <<sched, other_prio, mutex, items, call, holds, port>>

\* The thread was signalled and goes on to lock the mutex again.
cond_wait_woken(t) ==
    /\ At(t, "wait")
    /\ call' = [call EXCEPT ![t] = "relock"]
    /\ UNCHANGED <<sched, pc, other_prio, mutex, cond, items, holds, port>>

\* Mutant: the last thread of the queue is never woken.
signalled_not_last(broadcast) ==
    IF Len(cond) <= 1 THEN <<>> ELSE IF broadcast THEN Front(cond) ELSE <<Head(cond)>>

\* _cond_signal up to irq_restore: the first of the queue, or with broadcast
\* all of it, is made runnable.
signalled(broadcast) ==
    IF broadcast \/ cond = <<>> THEN cond ELSE <<Head(cond)>>

wake(threads) ==
    FoldLeft(LAMBDA s, t : sched_set_status(s, t, "pending"), sched, threads)

\* THREAD_PRIORITY_MIN + 1 if no thread is woken
min_prio(threads) ==
    Min({SCHED_PRIO_LEVELS} \cup {sched.priority[t] : t \in Range(threads)})


\* cond_signal and cond_broadcast, _cond_signal(cond, broadcast)
cond_signal(t, broadcast) ==
    LET woken    == signalled(broadcast)
        switches == min_prio(woken) < SCHED_PRIO_LEVELS
    IN  /\ InSection(t, "signal")
        /\ sched' = wake(woken)
        /\ cond' = SubSeq(cond, Len(woken) + 1, Len(cond))
        /\ pc' = [pc EXCEPT ![t] = IF switches THEN "switch" ELSE @]
        /\ other_prio' = [other_prio EXCEPT ![t] = IF switches THEN min_prio(woken) ELSE @]
        /\ call' = [call EXCEPT ![t] = "done"]
        /\ UNCHANGED <<mutex, items, holds, port>>

\* The same calls in an interrupt handler
isr_cond_signal(broadcast) ==
    LET woken == signalled(broadcast)
    IN  /\ woken # <<>>
        /\ sched' \in isr_sched_switch(wake(woken), min_prio(woken))
        /\ cond' = SubSeq(cond, Len(woken) + 1, Len(cond))
        /\ UNCHANGED <<pc, other_prio, mutex, items, call, holds, port>>

----------------------------------------------------------------------------
Step(t) ==
    \/ mutex_lock(t)
    \/ mutex_lock_returns(t)
    \/ mutex_unlock(t)
    \/ consume(t)
    \/ produce(t)
    \/ cond_wait(t)
    \/ cond_wait_status(t)
    \/ cond_wait_list(t)
    \/ cond_wait_woken(t)
    \/ \E broadcast \in BOOLEAN : cond_signal(t, broadcast)

\* Threads sleep outside the critical section, and handlers wake them.
thread_sleep(t) ==
    /\ At(t, "out")
    /\ sched' = sched_set_status(sched, t, "sleeping")
    /\ pc' = [pc EXCEPT ![t] = "yield"]
    /\ UNCHANGED <<other_prio, condVars>>

isr_thread_wakeup(t) ==
    /\ sched.status[t] = "sleeping"
    /\ sched' \in isr_sched_switch(sched_set_status(sched, t, "running"), sched.priority[t])
    /\ UNCHANGED <<pc, other_prio, condVars>>

Reschedule == Dispatch /\ UNCHANGED condVars

Next ==
    \/ Reschedule
    \/ \E t \in Thread : Step(t) \/ thread_sleep(t) \/ isr_thread_wakeup(t)
    \/ \E broadcast \in BOOLEAN : isr_cond_signal(broadcast)

Spec == Init /\ [][Next]_vars

----------------------------------------------------------------------------
(* Properties                                                              *)

\* Types of the kernel variables and of the loops.
TypeOK ==
    /\ sched \in SchedType
    /\ pc \in [Thread -> {"app", "yield", "switch", "cond_status", "cond_list"}]
    /\ other_prio \in [Thread -> Prio]
    /\ port \in Ports
    /\ mutex \in MutexType
    /\ cond \in Seq(Thread)
    /\ items \in 0 .. MaxItems
    /\ call \in [Thread -> {"out", "consume", "produce", "signal", "done", "wait", "relock"}]
    /\ holds \subseteq Thread

\* The threads that were signalled and have not looked at the items again
Signalled ==
    {t \in Thread : /\ call[t] \in {"wait", "relock", "consume"}
                    /\ sched.status[t] # "cond_blocked"}

\* A producer that has added its item and not yet signalled it
Unsignalled == {t \in Thread : call[t] = "signal"}

\* As cond.h has it, cond_wait unlocks the mutex and goes to sleep atomically,
\* so no signal is lost: while consumers sleep in cond_wait, there are no more
\* items than threads on their way to look at them or to announce them.
NoLostSignal ==
    (\E t \in Thread : sched.status[t] = "cond_blocked") =>
        items <= Cardinality(Signalled) + Cardinality(Unsignalled)

\* No signal is lost where a switch waits for irq_restore: mutex_unlock in
\* cond_wait cannot let another thread run before the caller is in the queue.
NoLostSignalDeferred == port = "cortexm" => NoLostSignal

\* rq_entry is one list node: a thread is in the queue of the condition, once,
\* exactly when it is blocked on it, and in the queue of the mutex exactly when
\* it is blocked on that. On Pip an interrupt can come between the two lines of
\* cond_wait that block the thread and queue it. The queue of the condition is
\* sorted by priority, so that cond_signal wakes the thread of the highest, and
\* the run queues have the same entries as in module Threads. At most one
\* thread is between mutex_lock and mutex_unlock or cond_wait.
ListsConsistent ==
    /\ TypeOK
    /\ IsInjective(cond)
    /\ Range(cond) =
           {t \in Thread : sched.status[t] = "cond_blocked" /\ pc[t] # "cond_list"}
    /\ \A i, j \in DOMAIN cond : i < j => sched.priority[cond[i]] <= sched.priority[cond[j]]
    /\ IsInjective(mutex.queue)
    /\ Range(mutex.queue) = {t \in Thread : sched.status[t] = "mutex_blocked"}
    /\ RunqueueOK(sched) /\ BitcacheOK(sched)
    /\ Cardinality(holds) <= 1 /\ (holds # {} => mutex.locked)
=============================================================================
