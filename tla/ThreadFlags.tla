----------------------------- MODULE ThreadFlags -----------------------------
(***************************************************************************)
(* Thread flags, RIOT/core/thread_flags.c: threads wait for flags of their *)
(* own, which other threads and interrupt handlers set.                    *)
(*                                                                         *)
(*   flags[t]   the flags of thread t that are set                         *)
(*   mask[t]    the flags that the call t is in is about: the parameter of *)
(*              the call and, while t is blocked, its wait_data            *)
(*   call[t]    "out", or the wait that t is in: "any", "one" and "all"    *)
(*              before the flags are looked at again, "clear" before the   *)
(*              flags in mask[t] are cleared                               *)
(***************************************************************************)
EXTENDS Sched

CONSTANTS ThreadPrio,
          NFlags          \* the number of flags

ASSUME FlagsAssumption ==
    /\ ThreadPrio \in [Thread -> Prio]
    /\ NFlags \in Nat

VARIABLES flags, mask, call

vars == <<sched, pc, other_prio, flags, mask, call>>

\* Flag i is bit i of a thread_flags_t.
Flag == 1 .. NFlags

InApp(t) == Executes(t) /\ pc[t] = "app" /\ call[t] = "out"

Init ==
    /\ sched = all_created(ThreadPrio)
    /\ pc = [t \in Thread |-> IF t = 1 THEN "yield" ELSE "app"]
    /\ other_prio = [t \in Thread |-> 0]
    /\ flags = [t \in Thread |-> {}]
    /\ mask = [t \in Thread |-> {}]
    /\ call = [t \in Thread |-> "out"]

----------------------------------------------------------------------------
(* Waiting                                                                 *)

\* Whether the flags set let a wait of a kind end.
satisfied(kind, set, m) ==
    IF kind = "all" THEN m \subseteq set ELSE set \cap m # {}

BlockedFor(kind) == IF kind = "all" THEN "flag_blocked_all" ELSE "flag_blocked_any"

\* Mutant: interrupts are enabled between the look at the flags and the change
\* of status.
flags_wait_late(t, kind, m) ==
    /\ InApp(t)
    /\ mask' = [mask EXCEPT ![t] = m]
    /\ call' = [call EXCEPT ![t] = kind]
    /\ \E seen \in SUBSET flags[t] :
           \/ satisfied(kind, seen, m) /\ UNCHANGED <<sched, pc>>
           \/ /\ ~satisfied(kind, seen, m)
              /\ sched' = sched_set_status(sched, t, BlockedFor(kind))
              /\ pc' = [pc EXCEPT ![t] = "yield"]
    /\ UNCHANGED <<other_prio, flags>>

\* The first critical section of thread_flags_wait_any, _one and _all.
flags_wait(t, kind, m) ==
    /\ InApp(t)
    /\ mask' = [mask EXCEPT ![t] = m]
    /\ call' = [call EXCEPT ![t] = kind]
    /\ \/ satisfied(kind, flags[t], m) /\ UNCHANGED <<sched, pc>>
       \/ /\ ~satisfied(kind, flags[t], m)
          /\ sched' = sched_set_status(sched, t, BlockedFor(kind))
          /\ pc' = [pc EXCEPT ![t] = "yield"]
    /\ UNCHANGED <<other_prio, flags>>

\* Mutant: thread_flags_wait_one clears the flags it waited for.
wait_one_reads_all(t) ==
    /\ Executes(t) /\ pc[t] = "app" /\ call[t] = "one"
    /\ call' = [call EXCEPT ![t] = "clear"]
    /\ UNCHANGED <<sched, pc, other_prio, flags, mask>>

\* thread_flags_wait_one reads the flags with interrupts enabled, and keeps the
\* least significant one of the mask.
wait_one_reads(t) ==
    LET seen == flags[t] \cap mask[t]
    IN  /\ Executes(t) /\ pc[t] = "app" /\ call[t] = "one"
        /\ mask' = [mask EXCEPT ![t] = IF seen = {} THEN {} ELSE {Min(seen)}]
        /\ call' = [call EXCEPT ![t] = "clear"]
        /\ UNCHANGED <<sched, pc, other_prio, flags>>

\* _thread_flags_clear_atomic at the end of a wait
wait_clears(t) ==
    /\ Executes(t) /\ pc[t] = "app" /\ call[t] \in {"any", "all", "clear"}
    /\ flags' = [flags EXCEPT ![t] = @ \ mask[t]]
    /\ mask' = [mask EXCEPT ![t] = {}]
    /\ call' = [call EXCEPT ![t] = "out"]
    /\ UNCHANGED <<sched, pc, other_prio>>

thread_flags_clear(t, m) ==
    /\ InApp(t)
    /\ flags' = [flags EXCEPT ![t] = @ \ m]
    /\ UNCHANGED <<sched, pc, other_prio, mask, call>>

----------------------------------------------------------------------------
(* Setting flags                                                           *)

\* Mutant: a thread is woken by any change of its flags.
thread_flags_wakes_always(target, set) ==
    sched.status[target] \in {"flag_blocked_any", "flag_blocked_all"}

\* Whether _thread_flags_wake wakes the target, whose flags are now set.
thread_flags_wakes(target, set) ==
    \/ sched.status[target] = "flag_blocked_any" /\ satisfied("any", set, mask[target])
    \/ sched.status[target] = "flag_blocked_all" /\ satisfied("all", set, mask[target])

woken(target) == sched_set_status(sched, target, "pending")

\* thread_flags_set by thread t. A wake-up leaves the request for a switch set,
\* and an interrupt that ends before the thread yields serves it.
thread_flags_set(t, target, m) ==
    LET set == flags[target] \cup m
    IN  /\ InApp(t)
        /\ flags' = [flags EXCEPT ![target] = set]
        /\ \/ /\ thread_flags_wakes(target, set)
              /\ \E interrupted \in BOOLEAN :
                     sched' = [woken(target) EXCEPT !.request = interrupted]
              /\ pc' = [pc EXCEPT ![t] = "yield"]
           \/ /\ ~thread_flags_wakes(target, set)
              /\ UNCHANGED <<sched, pc>>
        /\ UNCHANGED <<other_prio, mask, call>>

\* thread_flags_set in an interrupt handler
isr_thread_flags_set(target, m) ==
    LET set == flags[target] \cup m
    IN  /\ flags' = [flags EXCEPT ![target] = set]
        /\ sched' = IF thread_flags_wakes(target, set)
                    THEN [woken(target) EXCEPT !.request = TRUE] ELSE sched
        /\ UNCHANGED <<pc, other_prio, mask, call>>

----------------------------------------------------------------------------
Call(t) ==
    \/ \E m \in SUBSET Flag, kind \in {"any", "one", "all"} : flags_wait(t, kind, m)
    \/ wait_one_reads(t)
    \/ wait_clears(t)
    \/ \E m \in SUBSET Flag : thread_flags_clear(t, m)
    \/ \E target \in Thread, f \in Flag : thread_flags_set(t, target, {f})

Reschedule == Dispatch /\ UNCHANGED <<flags, mask, call>>

Next ==
    \/ Reschedule
    \/ \E t \in Thread : Call(t)
    \/ \E target \in Thread, f \in Flag : isr_thread_flags_set(target, {f})

Spec == Init /\ [][Next]_vars

----------------------------------------------------------------------------
(* Properties                                                              *)

\* Types of the kernel variables, the flags and the waits.
TypeOK ==
    /\ sched \in SchedType
    /\ pc \in [Thread -> {"app", "yield", "switch"}]
    /\ other_prio \in [Thread -> Prio]
    /\ {flags, mask} \subseteq [Thread -> SUBSET Flag]
    /\ call \in [Thread -> {"out", "any", "one", "all", "clear"}]

\* A thread sleeps exactly as long as it has to, though a flag may be set at
\* any step of a wait: a thread blocked for flags has not got the flags it
\* waits for, and a runnable thread that is past its yield, and not yet at the
\* end of thread_flags_wait_any, _one or _all, has the flags that call clears
\* and returns. Status and run queues stay in step, as in module Threads, though
\* the setter of a flag runs while the waiting thread is on its way out of the
\* processor.
WaitsExact ==
    /\ TypeOK /\ RunqueueOK(sched) /\ BitcacheOK(sched)
    /\ \A t \in Thread :
        /\ sched.status[t] \in {"flag_blocked_any", "flag_blocked_all"} =>
               ~satisfied(IF sched.status[t] = "flag_blocked_all" THEN "all" ELSE "any",
                          flags[t], mask[t])
        /\ call[t] \in {"any", "one", "all"} /\ OnRunqueue(sched.status[t]) =>
               satisfied(call[t], flags[t], mask[t])

\* A set flag stays set until its own thread clears it, and
\* thread_flags_wait_one consumes exactly one flag, though it reads the flags
\* outside the critical section that clears them.
OneAtATime ==
    [][\A t \in Thread :
          /\ flags[t] \ flags'[t] # {} => sched.active = t
          /\ call[t] = "clear" /\ call'[t] = "out" =>
                 Cardinality(flags[t] \ flags'[t]) = 1]_vars
=============================================================================
