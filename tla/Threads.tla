------------------------------ MODULE Threads ------------------------------
(***************************************************************************)
(* The life cycle of threads: RIOT/core/thread.c, sched_task_exit and      *)
(* sched_change_priority of RIOT/core/sched.c and the shell command nice.  *)
(* Threads in application code call the services in any order; interrupt   *)
(* handlers wake sleeping threads between any two steps.                   *)
(***************************************************************************)
EXTENDS Sched

CONSTANTS CreateFlags,   \* the flags thread_create is called with
          NiceTargets    \* the threads the shell command nice is applied to:
                         \* "none", threads that are blocked or the "heads" of
                         \* their run queues, or "any"

ASSUME ThreadsAssumption ==
    /\ CreateFlags \subseteq {"none", "sleeping", "wout_yield"}
    /\ NiceTargets \in {"none", "heads", "any"}

VARIABLES niced,   \* the thread whose priority nice is changing
          panic    \* an assertion has failed and core_panic stopped the system

vars == <<sched, pc, other_prio, niced, panic>>

\* Thread t runs application code and may call a service.
InApp(t) == Executes(t) /\ pc[t] = "app"

Init ==
    /\ \E prio \in Prio : SchedInit(1, prio)
    /\ niced = 1
    /\ panic = FALSE

----------------------------------------------------------------------------
(* Services called by threads                                              *)

thread_sleep(t) ==
    /\ InApp(t)
    /\ sched' = sched_set_status(sched, t, "sleeping")
    /\ pc' = [pc EXCEPT ![t] = "yield"]
    /\ UNCHANGED <<other_prio, niced, panic>>

thread_yield(t) ==
    /\ InApp(t)
    /\ sched' = IF thread_is_active(sched, t)
                THEN sched_runq_advance(sched, sched.priority[t])
                ELSE sched
    /\ pc' = [pc EXCEPT ![t] = "yield"]
    /\ UNCHANGED <<other_prio, niced, panic>>

\* A target that does not exist or does not sleep is left alone.
thread_wakeup(t, target) ==
    /\ InApp(t)
    /\ target \in sched.threads
    /\ sched.status[target] = "sleeping"
    /\ sched' = sched_set_status(sched, target, "running")
    /\ pc' = [pc EXCEPT ![t] = "switch"]
    /\ other_prio' = [other_prio EXCEPT ![t] = sched.priority[target]]
    /\ UNCHANGED <<niced, panic>>

thread_zombify(t) ==
    /\ InApp(t)
    /\ sched' = sched_set_status(sched, t, "zombie")
    /\ pc' = [pc EXCEPT ![t] = "yield"]
    /\ UNCHANGED <<other_prio, niced, panic>>

thread_kill_zombie(t, target) ==
    /\ InApp(t)
    /\ target \in sched.threads
    /\ sched.status[target] = "zombie"
    /\ sched' = sched_set_status([sched EXCEPT !.threads = @ \ {target}, !.num = @ - 1],
                                 target, "stopped")
    /\ UNCHANGED <<pc, other_prio, niced, panic>>

\* thread_create up to the status of the new thread, which takes slot pid.
fill_slot(s, pid, prio) ==
    [s EXCEPT !.threads = @ \cup {pid},
              !.num = @ + 1,
              !.priority[pid] = prio,
              !.status[pid] = "stopped"]

\* The new thread takes the first free pid; without one the call fails and
\* changes nothing.
thread_create(t, prio, flags) ==
    LET free == Thread \ sched.threads
        pid  == Min(free)
    IN  /\ InApp(t)
        /\ free # {}
        /\ sched' = sched_set_status(fill_slot(sched, pid, prio), pid,
                                     IF flags = "sleeping" THEN "sleeping" ELSE "pending")
        /\ pc' = [pc EXCEPT ![pid] = "app", ![t] = IF flags = "none" THEN "switch" ELSE @]
        /\ other_prio' = [other_prio EXCEPT ![t] = IF flags = "none" THEN prio ELSE @]
        /\ UNCHANGED <<niced, panic>>

\* cpu_switch_context_exit enables interrupts and asks for a switch.
sched_task_exit(t) ==
    /\ InApp(t)
    /\ sched' = [sched_set_status([sched EXCEPT !.threads = @ \ {t}, !.num = @ - 1],
                                  t, "stopped")
                   EXCEPT !.active = NULL, !.request = TRUE]
    /\ UNCHANGED <<pc, other_prio, niced, panic>>

\* A thread sets its own priority, as in tests/sched_change_priority: being
\* the active thread, it yields once interrupts are enabled again. A call with
\* the priority it has changes nothing.
set_own_priority(t, prio) ==
    /\ InApp(t)
    /\ sched.priority[t] # prio
    /\ sched' = change_priority(sched, t, prio)
    /\ pc' = [pc EXCEPT ![t] = "yield"]
    /\ UNCHANGED <<other_prio, niced, panic>>

\* _sc_nice, in the main thread: an invalid priority is reported, and then
\* passed on all the same to the assertion of sched_change_priority.
nice(target, prio) ==
    /\ \/ NiceTargets = "any"
       \/ /\ NiceTargets = "heads"
          /\ thread_is_active(sched, target) => IsHead(sched, target)
    /\ InApp(1)
    /\ target \in sched.threads
    /\ \/ /\ prio \in Prio
          /\ sched.priority[target] # prio
          /\ sched' = change_priority(sched, target, prio)
          /\ pc' = [pc EXCEPT ![1] = "prio"]
          /\ other_prio' = [other_prio EXCEPT ![1] = prio]
          /\ niced' = target
          /\ UNCHANGED panic
       \/ /\ prio \notin Prio
          /\ panic' = TRUE
          /\ UNCHANGED <<sched, pc, other_prio, niced>>

\* The rest of sched_change_priority, after its critical section.
nice_yields ==
    /\ Executes(1)
    /\ pc[1] = "prio"
    /\ pc' = [pc EXCEPT ![1] = IF change_yields(sched, niced, other_prio[1])
                               THEN "yield" ELSE "app"]
    /\ other_prio' = [other_prio EXCEPT ![1] = 0]
    /\ UNCHANGED <<sched, niced, panic>>

----------------------------------------------------------------------------
(* thread_wakeup in an interrupt handler                                   *)

\* Mutant: the status of the target is not checked.
isr_thread_wakeup_unchecked(target) ==
    /\ target \in sched.threads
    /\ ~OnRunqueue(sched.status[target])
    /\ sched' \in isr_sched_switch(sched_set_status(sched, target, "running"),
                                   sched.priority[target])
    /\ UNCHANGED <<pc, other_prio, niced, panic>>

isr_thread_wakeup(target) ==
    /\ target \in sched.threads
    /\ sched.status[target] = "sleeping"
    /\ sched' \in isr_sched_switch(sched_set_status(sched, target, "running"),
                                   sched.priority[target])
    /\ UNCHANGED <<pc, other_prio, niced, panic>>

----------------------------------------------------------------------------
Service(t) ==
    \/ thread_sleep(t)
    \/ thread_yield(t)
    \/ thread_zombify(t)
    \/ sched_task_exit(t)
    \/ \E target \in Thread : thread_wakeup(t, target) \/ thread_kill_zombie(t, target)
    \/ \E prio \in Prio, flags \in CreateFlags : thread_create(t, prio, flags)
    \/ \E prio \in Prio : set_own_priority(t, prio)

Shell ==
    \/ \E target \in Thread, prio \in 0 .. SCHED_PRIO_LEVELS : nice(target, prio)
    \/ nice_yields

Reschedule == Dispatch /\ UNCHANGED <<niced, panic>>

Next ==
    /\ ~panic
    /\ \/ Reschedule
       \/ \E t \in Thread : Service(t)
       \/ Shell
       \/ \E target \in Thread : isr_thread_wakeup(target)

Spec == Init /\ [][Next]_vars

(***************************************************************************)
(* Fairness: the processor executes the pending switch (PendSV is an       *)
(* exception the hardware delivers), a thread goes on with the call it is  *)
(* in, and a thread that runs application code again and again yields      *)
(* again and again, the contract of cooperative scheduling between threads *)
(* of one priority.                                                        *)
(***************************************************************************)
Fairness ==
    /\ WF_vars(Reschedule)
    /\ WF_vars(nice_yields)
    /\ \A t \in Thread : SF_vars(thread_yield(t))

FairSpec == Spec /\ Fairness

----------------------------------------------------------------------------
(* Properties                                                              *)

\* Types of the kernel variables and of the control points.
TypeOK ==
    /\ sched \in SchedType
    /\ pc \in [Thread -> {"app", "yield", "switch", "prio"}]
    /\ other_prio \in [Thread -> Prio]
    /\ niced \in Thread
    /\ panic \in BOOLEAN

\* sched_set_status keeps thread_t.status and the run queues in step: a thread
\* is an entry of the run queue of its priority, once, exactly when its status
\* is running or pending, and of no other run queue. The entry of a thread is
\* a single list node, and _runqueue_pop removes the head whatever thread it
\* is asked to remove, so each removal must find the thread at the head.
RunqueueConsistent == RunqueueOK(sched)

\* runqueue_bitcache has exactly the bits of the non-empty run queues, so
\* sched_run neither idles while a thread is runnable nor reads the head of
\* an empty queue.
BitcacheExact == BitcacheOK(sched)

\* Whenever a thread runs application code with no switch due, it is the head
\* of the run queue of the highest non-empty priority: no wake-up, creation or
\* change of priority, from a thread or from an interrupt in any window, loses
\* a preemption.
HighestPriorityRuns ==
    \A t \in Thread : InApp(t) =>
        /\ sched.bitcache # {}
        /\ t = Head(sched.runqueues[Min(sched.bitcache)])

\* sched_num_threads counts the threads that exist, through creation, exit,
\* zombies and their removal, and a slot that is free is a stopped thread.
ThreadCount ==
    /\ sched.num = Cardinality(sched.threads)
    /\ \A t \in Thread : t \notin sched.threads <=> sched.status[t] = "stopped"

\* The scheduler's data are of their types and agree with each other at every
\* interruption point: run queues with statuses, bit cache with run queues,
\* counter with threads.
KernelConsistent == TypeOK /\ RunqueueConsistent /\ BitcacheExact /\ ThreadCount

\* A thread that terminated, by sched_task_exit or thread_zombify, is made
\* runnable again only by thread_create of its slot, never by a wake-up that
\* raced with its end.
TerminatedStaysDead ==
    [][\A t \in Thread :
          /\ sched.status[t] \in {"stopped", "zombie"}
          /\ OnRunqueue(sched'.status[t])
          => /\ t \notin sched.threads
             /\ t \in sched'.threads]_vars

\* t is runnable and no runnable thread has a higher priority.
IsHighest(t) ==
    /\ OnRunqueue(sched.status[t])
    /\ \A u \in Thread :
           OnRunqueue(sched.status[u]) => sched.priority[u] >= sched.priority[t]

\* A runnable thread gets the processor unless a thread of a higher priority
\* becomes runnable, it stops being runnable or the system stops: sched_run
\* elects the highest priority, and thread_yield is fair between the threads of
\* one.
HighestGetsProcessor ==
    \A t \in Thread : IsHighest(t) ~> (sched.active = t \/ ~IsHighest(t) \/ panic)
=============================================================================
