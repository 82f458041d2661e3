------------------------------- MODULE Mutex -------------------------------
(***************************************************************************)
(* Threads that use mutexes: RIOT/core/mutex.c with the timeout built on   *)
(* mutex_cancel by RIOT/sys/ztimer/util.c. A thread unlocks the mutexes it *)
(* holds; a mutex of Signals starts locked and is unlocked by an interrupt *)
(* handler, the idiom for waiting for an interrupt. Timers fire, handlers  *)
(* unlock and sleeping threads are woken between any two steps.            *)
(*                                                                         *)
(*   call[t]   the call thread t is in: "none", "lock" while mutex_lock    *)
(*             waits, "init" between mutex_cancel_init (and the start of   *)
(*             the timer) and mutex_lock_cancelable, "wait" while that one *)
(*             waits, "locked" after it returned 0 and before the timer is *)
(*             removed                                                     *)
(*   want[t]   the mutex of that call                                      *)
(*   cancelled[t]   mc->cancelled of that call                             *)
(*   holds[t]  the mutexes that t has locked, as its calls reported        *)
(***************************************************************************)
EXTENDS MutexOps

CONSTANTS Mutexes,     \* the mutexes
          Signals,     \* those unlocked by interrupt handlers
          Builds,      \* firmwares and what their threads do, one of which runs
          MaxHeld      \* how many mutexes a thread holds at a time

\* A build: whether it has core_mutex_priority_inheritance, the priorities the
\* threads were created with, the mutexes they use, and the calls they make
\* beside lock and unlock.
ASSUME MutexUseAssumption ==
    /\ Mutexes # {} /\ Signals \subseteq Mutexes
    /\ \A b \in Builds :
        /\ b.inherits \in BOOLEAN /\ b.prio \in [Thread -> Prio]
        /\ b.mutexes \subseteq Mutexes
        /\ b.calls \subseteq {"timeout", "unlock_and_sleep", "sleep", "yield"}
    /\ MaxHeld \in Nat

VARIABLES build, mutex, call, want, cancelled, holds

mutexVars == <<mutex, call, want, cancelled, holds>>
vars == <<build, sched, pc, other_prio, mutex, call, want, cancelled, holds>>

ThreadPrio == build.prio
Calls == build.calls

InApp(t) == Executes(t) /\ pc[t] = "app" /\ call[t] = "none"

\* Thread t is in a call and not on its way through the scheduler.
InCall(t, point) == Executes(t) /\ pc[t] = "app" /\ call[t] = point

\* The main thread has created all threads and yields.
Init ==
    /\ build \in Builds
    /\ sched = all_created(ThreadPrio)
    /\ pc = [t \in Thread |-> IF t = 1 THEN "yield" ELSE "app"]
    /\ other_prio = [t \in Thread |-> 0]
    /\ mutex = [m \in Mutexes |-> mutex_init(m \in Signals, build.inherits)]
    /\ call = [t \in Thread |-> "none"]
    /\ want = [t \in Thread |-> CHOOSE m \in Mutexes : TRUE]
    /\ cancelled = [t \in Thread |-> FALSE]
    /\ holds = [t \in Thread |-> {}]

----------------------------------------------------------------------------
(* Calls by threads                                                        *)

\* What a thread may ask for: it does not lock what it holds already.
MayLock(t, m) ==
    /\ m \in build.mutexes
    /\ m \notin holds[t]
    /\ Cardinality(holds[t]) < MaxHeld

\* A signal is consumed, any other mutex is held until it is unlocked.
Held(t, m) == holds' = [holds EXCEPT ![t] = IF m \in Signals THEN @ ELSE @ \cup {m}]

take(t, m) ==
    /\ ~mutex[m].locked
    /\ mutex' = [mutex EXCEPT ![m] = mutex_take(sched, @, t)]
    /\ Held(t, m)
    /\ UNCHANGED <<sched, pc, other_prio, want, cancelled>>

block(t, m) ==
    LET k == mutex_block(sched, mutex[m], t)
    IN  /\ mutex[m].locked
        /\ sched' = k.sched
        /\ mutex' = [mutex EXCEPT ![m] = k.mutex]
        /\ pc' = [pc EXCEPT ![t] = "yield"]
        /\ want' = [want EXCEPT ![t] = m]
        /\ UNCHANGED <<other_prio, cancelled, holds>>

\* mutex_lock and mutex_trylock; a trylock that fails changes nothing.
mutex_lock_internal(t, m) ==
    /\ InApp(t)
    /\ MayLock(t, m)
    /\ \/ take(t, m) /\ UNCHANGED call
       \/ block(t, m) /\ call' = [call EXCEPT ![t] = "lock"]

mutex_lock_returns(t) ==
    /\ InCall(t, "lock")
    /\ call' = [call EXCEPT ![t] = "none"]
    /\ Held(t, want[t])
    /\ UNCHANGED <<sched, pc, other_prio, mutex, want, cancelled>>

\* ztimer_mutex_lock_timeout: the mutex was locked at the first look, and the
\* timer runs from here on.
ztimer_mutex_lock_timeout(t, m) ==
    /\ "timeout" \in Calls
    /\ InApp(t)
    /\ MayLock(t, m)
    /\ mutex[m].locked
    /\ call' = [call EXCEPT ![t] = "init"]
    /\ want' = [want EXCEPT ![t] = m]
    /\ cancelled' = [cancelled EXCEPT ![t] = FALSE]
    /\ UNCHANGED <<sched, pc, other_prio, mutex, holds>>

\* The call returns -ECANCELED. The timer has fired, and mc is gone.
cancelled_return(t) ==
    /\ cancelled[t]
    /\ call' = [call EXCEPT ![t] = "none"]
    /\ cancelled' = [cancelled EXCEPT ![t] = FALSE]
    /\ UNCHANGED <<sched, pc, other_prio, mutex, want, holds>>

\* Mutant: a cancellation before the call is not looked at.
mutex_lock_cancelable_late(t) ==
    /\ InCall(t, "init")
    /\ \/ take(t, want[t]) /\ call' = [call EXCEPT ![t] = "locked"]
       \/ block(t, want[t]) /\ call' = [call EXCEPT ![t] = "wait"]

mutex_lock_cancelable(t) ==
    /\ InCall(t, "init")
    /\ \/ cancelled_return(t)
       \/ /\ ~cancelled[t]
          /\ \/ take(t, want[t]) /\ call' = [call EXCEPT ![t] = "locked"]
             \/ block(t, want[t]) /\ call' = [call EXCEPT ![t] = "wait"]

\* mutex_lock_cancelable after _block
mutex_lock_cancelable_returns(t) ==
    /\ InCall(t, "wait")
    /\ \/ cancelled_return(t)
       \/ /\ ~cancelled[t]
          /\ call' = [call EXCEPT ![t] = "locked"]
          /\ Held(t, want[t])
          /\ UNCHANGED <<sched, pc, other_prio, mutex, want, cancelled>>

ztimer_remove(t) ==
    /\ InCall(t, "locked")
    /\ call' = [call EXCEPT ![t] = "none"]
    /\ cancelled' = [cancelled EXCEPT ![t] = FALSE]
    /\ UNCHANGED <<sched, pc, other_prio, mutex, want, holds>>

mutex_unlock(t, m) ==
    LET r == mutex_release(sched, mutex[m])
    IN  /\ InApp(t)
        /\ m \in holds[t]
        /\ sched' = IF r.yields THEN sched_run(r.sched) ELSE r.sched
        /\ mutex' = [mutex EXCEPT ![m] = r.mutex]
        /\ pc' = [pc EXCEPT ![t] = IF r.woken = NULL THEN @ ELSE "switch"]
        /\ other_prio' = [other_prio EXCEPT
               ![t] = IF r.woken = NULL THEN @ ELSE sched.priority[r.woken]]
        /\ holds' = [holds EXCEPT ![t] = @ \ {m}]
        /\ UNCHANGED <<call, want, cancelled>>

\* Mutant: the thread goes to sleep without unlocking.
mutex_unlock_and_sleep_keeps(t, m) ==
    /\ InApp(t)
    /\ "unlock_and_sleep" \in Calls
    /\ m \in holds[t]
    /\ sched' = sched_set_status(sched, t, "sleeping")
    /\ pc' = [pc EXCEPT ![t] = "yield"]
    /\ holds' = [holds EXCEPT ![t] = @ \ {m}]
    /\ UNCHANGED <<mutex, other_prio, call, want, cancelled>>

\* The priority of an owner is not restored here.
mutex_unlock_and_sleep(t, m) ==
    LET r == mutex_hand_over(sched, mutex[m])
    IN  /\ InApp(t)
        /\ "unlock_and_sleep" \in Calls
        /\ m \in holds[t]
        /\ sched' = sched_set_status(r.sched, t, "sleeping")
        /\ mutex' = [mutex EXCEPT ![m] = r.mutex]
        /\ pc' = [pc EXCEPT ![t] = "yield"]
        /\ holds' = [holds EXCEPT ![t] = @ \ {m}]
        /\ UNCHANGED <<other_prio, call, want, cancelled>>

thread_sleep(t) ==
    /\ "sleep" \in Calls
    /\ InApp(t)
    /\ sched' = sched_set_status(sched, t, "sleeping")
    /\ pc' = [pc EXCEPT ![t] = "yield"]
    /\ UNCHANGED <<other_prio, mutexVars>>

thread_yield(t) ==
    /\ "yield" \in Calls
    /\ InApp(t)
    /\ sched' = sched_runq_advance(sched, sched.priority[t])
    /\ pc' = [pc EXCEPT ![t] = "yield"]
    /\ UNCHANGED <<other_prio, mutexVars>>

----------------------------------------------------------------------------
(* Interrupt handlers                                                      *)

\* Mutant: the handler leaves out sched_switch.
isr_mutex_unlock_quiet(m) ==
    LET r == mutex_release(sched, mutex[m])
    IN  /\ m \in Signals \cap build.mutexes
        /\ mutex[m].locked
        /\ sched' = r.sched
        /\ mutex' = [mutex EXCEPT ![m] = r.mutex]
        /\ UNCHANGED <<pc, other_prio, call, want, cancelled, holds>>

isr_mutex_unlock(m) ==
    LET r == mutex_release(sched, mutex[m])
    IN  /\ m \in Signals \cap build.mutexes
        /\ mutex[m].locked
        /\ sched' \in IF r.woken = NULL THEN {r.sched}
                      ELSE isr_sched_switch([r.sched EXCEPT !.request = @ \/ r.yields],
                                            sched.priority[r.woken])
        /\ mutex' = [mutex EXCEPT ![m] = r.mutex]
        /\ UNCHANGED <<pc, other_prio, call, want, cancelled, holds>>

\* Mutant: the thread is woken and stays in the queue of its mutex.
dequeue_stays(t) ==
    /\ UNCHANGED mutex
    /\ sched' \in isr_sched_switch(sched_set_status(sched, t, "pending"), sched.priority[t])

\* The waiting thread leaves the queue of its mutex and is woken.
dequeue(t) ==
    /\ mutex' = [mutex EXCEPT ![want[t]].queue = list_remove(@, t)]
    /\ sched' \in isr_sched_switch(sched_set_status(sched, t, "pending"), sched.priority[t])

\* timeout_cb: mutex_cancel of the call of thread t, whose timer runs
isr_mutex_cancel(t) ==
    /\ call[t] \in {"init", "wait", "locked"}
    /\ ~cancelled[t]
    /\ cancelled' = [cancelled EXCEPT ![t] = TRUE]
    /\ \/ /\ thread_is_active(sched, t) \/ t \notin Range(mutex[want[t]].queue)
          /\ UNCHANGED <<sched, mutex>>
       \/ /\ ~thread_is_active(sched, t)
          /\ t \in Range(mutex[want[t]].queue)
          /\ dequeue(t)
    /\ UNCHANGED <<pc, other_prio, call, want, holds>>

isr_thread_wakeup(t) ==
    /\ sched.status[t] = "sleeping"
    /\ sched' \in isr_sched_switch(sched_set_status(sched, t, "running"), sched.priority[t])
    /\ UNCHANGED <<pc, other_prio, mutexVars>>
----------------------------------------------------------------------------
Call(t) ==
    \/ \E m \in Mutexes :
           \/ mutex_lock_internal(t, m)
           \/ ztimer_mutex_lock_timeout(t, m)
           \/ mutex_unlock(t, m)
           \/ mutex_unlock_and_sleep(t, m)
    \/ mutex_lock_returns(t)
    \/ mutex_lock_cancelable(t)
    \/ mutex_lock_cancelable_returns(t)
    \/ ztimer_remove(t)
    \/ thread_sleep(t)
    \/ thread_yield(t)

Interrupt ==
    \/ \E m \in Mutexes : isr_mutex_unlock(m)
    \/ \E t \in Thread : isr_mutex_cancel(t) \/ isr_thread_wakeup(t)

Reschedule == Dispatch /\ UNCHANGED mutexVars

Next ==
    \/ Reschedule /\ UNCHANGED build
    \/ (\E t \in Thread : Call(t)) /\ UNCHANGED build
    \/ Interrupt /\ UNCHANGED build

Spec == Init /\ [][Next]_vars

----------------------------------------------------------------------------
(* Properties                                                              *)

\* Types of the kernel variables, of the mutexes and of the calls.
TypeOK ==
    /\ sched \in SchedType
    /\ pc \in [Thread -> {"app", "yield", "switch"}]
    /\ other_prio \in [Thread -> Prio]
    /\ mutex \in [Mutexes -> MutexType]
    /\ call \in [Thread -> {"none", "lock", "init", "wait", "locked"}]
    /\ want \in [Thread -> Mutexes]
    /\ cancelled \in [Thread -> BOOLEAN]
    /\ holds \in [Thread -> SUBSET Mutexes]

\* A mutex is held by one thread at a time and is locked while it is held,
\* through hand-over, timeouts and cancellations.
MutualExclusion ==
    \A t \in Thread : \A m \in holds[t] :
        /\ mutex[m].locked
        /\ \A u \in Thread \ {t} : m \notin holds[u]

\* rq_entry is one list node for the run queues and for the queue of a mutex:
\* a thread is in the queue of a mutex, once, exactly when it is blocked on
\* that mutex, and a mutex with waiting threads is locked; the queue is sorted,
\* so that mutex_unlock wakes the thread of the highest priority; the run queues
\* have the same entries as in module Threads; and unlocking and cancelling, in
\* threads and in handlers, lose no preemption.
ListsConsistent ==
    /\ TypeOK
    /\ \A m \in Mutexes :
           /\ IsInjective(mutex[m].queue)
           /\ Range(mutex[m].queue) =
                  {t \in Thread : sched.status[t] = "mutex_blocked" /\ want[t] = m}
           /\ mutex[m].queue # <<>> => mutex[m].locked
           /\ \A i, j \in DOMAIN mutex[m].queue : i < j =>
                  sched.priority[mutex[m].queue[i]] <= sched.priority[mutex[m].queue[j]]
    /\ RunqueueOK(sched) /\ BitcacheOK(sched)
    /\ \A t \in Thread : InApp(t) =>
           sched.bitcache # {} /\ t = Head(sched.runqueues[Min(sched.bitcache)])

\* t has been given m by mutex_unlock and has not noticed it yet.
Given(t, m) ==
    /\ call[t] \in {"lock", "wait"}
    /\ want[t] = m
    /\ t \notin Range(mutex[m].queue)

\* A locked mutex is held by a thread or on its way to one.
Attended(m) ==
    mutex[m].locked => \E t \in Thread : m \in holds[t] \/ Given(t, m)

\* No interleaving of locking, unlocking and cancelling leaves a mutex locked
\* with nobody to unlock it, but one: a call of mutex_lock_cancelable returns
\* -ECANCELED because its timer fired after the mutex was handed to it.
OnlyTimeoutAbandons ==
    [][\A m \in Mutexes \ Signals :
          Attended(m) /\ ~Attended(m)' =>
              \E t \in Thread : cancelled[t] /\ Given(t, m) /\ call'[t] = "none"]_vars

\* A cancelled call of mutex_lock_cancelable does not stay blocked, wherever
\* the timer fired: before the call, while it waits, or in between.
CancelledNotBlocked ==
    \A t \in Thread : cancelled[t] => sched.status[t] # "mutex_blocked"

=============================================================================
