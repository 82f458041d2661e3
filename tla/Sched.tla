------------------------------- MODULE Sched -------------------------------
(***************************************************************************)
(* The scheduler in execution: sched is the scheduler state of module      *)
(* SchedOps, and pc[t] the point of the kernel call that thread t is in:   *)
(* "app" for code outside the kernel, "yield" before a call of             *)
(* thread_yield_higher with interrupts enabled, "switch" before            *)
(* sched_switch(other_prio[t]). The modules of the kernel services add     *)
(* points of their own.                                                    *)
(***************************************************************************)
EXTENDS SchedOps

VARIABLES sched, pc, other_prio

schedVars == <<sched, pc, other_prio>>

\* Thread t executes: it owns the processor and no switch is due.
Executes(t) ==
    /\ sched.active = t
    /\ ~sched.request
    /\ ~sched.idle

\* kernel_init: the main thread is created without a yield and the first
\* context switch is about to happen.
SchedInit(main, prio) ==
    /\ sched = [threads   |-> {main},
                num       |-> 1,
                status    |-> [t \in Thread |-> IF t = main THEN "pending" ELSE "stopped"],
                priority  |-> [t \in Thread |-> prio],
                runqueues |-> [p \in Prio |-> IF p = prio THEN <<main>> ELSE <<>>],
                bitcache  |-> {prio},
                active    |-> NULL,
                request   |-> TRUE,
                idle      |-> FALSE]
    /\ pc = [t \in Thread |-> "app"]
    /\ other_prio = [t \in Thread |-> 0]

\* isr_pendsv, or the tail of an interrupt handler that found a request
isr_pendsv ==
    /\ sched.request
    /\ ~sched.idle
    /\ sched' = sched_run(sched)
    /\ UNCHANGED <<pc, other_prio>>

\* The idle loop of sched_run ends when an interrupt made a thread runnable.
sched_idle_exit ==
    /\ sched.idle
    /\ sched.bitcache # {}
    /\ sched' = sched_elect(sched)
    /\ UNCHANGED <<pc, other_prio>>

\* thread_yield_higher called with interrupts enabled
thread_yield_higher(t) ==
    /\ Executes(t)
    /\ pc[t] = "yield"
    /\ sched' = sched_run(sched)
    /\ pc' = [pc EXCEPT ![t] = "app"]
    /\ UNCHANGED other_prio

\* sched_switch(other_prio[t]) called by thread t
sched_switch(t) ==
    /\ Executes(t)
    /\ pc[t] = "switch"
    /\ sched' = IF switch_needed(sched, other_prio[t]) THEN sched_run(sched) ELSE sched
    /\ pc' = [pc EXCEPT ![t] = "app"]
    /\ other_prio' = [other_prio EXCEPT ![t] = 0]

Dispatch ==
    \/ isr_pendsv
    \/ sched_idle_exit
    \/ \E t \in Thread : thread_yield_higher(t) \/ sched_switch(t)
=============================================================================
