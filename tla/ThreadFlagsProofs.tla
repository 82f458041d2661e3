------------------------- MODULE ThreadFlagsProofs -------------------------
(***************************************************************************)
(* No thread flag is lost and no wait ends early, for every number of      *)
(* threads, priorities and flags.                                          *)
(***************************************************************************)
EXTENDS ThreadFlags, SchedProofs

FlagBlocked == {"flag_blocked_any", "flag_blocked_all"}

\* A blocked thread is blocked as its call asks for and has not got its flags; a
\* runnable thread in a call has got them.
WaitOK(t) ==
    /\ sched.status[t] \in FlagBlocked =>
           /\ call[t] \in {"any", "one", "all"}
           /\ sched.status[t] = BlockedFor(call[t])
           /\ ~satisfied(call[t], flags[t], mask[t])
    /\ call[t] \in {"any", "one", "all"} /\ OnRunqueue(sched.status[t]) =>
           satisfied(call[t], flags[t], mask[t])

\* The inductive invariant
IInv ==
    /\ TypeOK
    /\ SchedOK(sched)
    /\ ActiveOK
    /\ \A t \in Thread : WaitOK(t)

----------------------------------------------------------------------------
(* Facts the steps share                                                   *)

LEMMA StatusFacts ==
    /\ FlagBlocked \subseteq Status
    /\ \A st \in FlagBlocked : ~OnRunqueue(st)
    /\ {"pending", "running"} \subseteq Status
    /\ OnRunqueue("pending") /\ OnRunqueue("running")
    /\ \A kind : BlockedFor(kind) \in FlagBlocked
  BY DEF FlagBlocked, Status, RunnableStatus, BlockedStatus, OnRunqueue, BlockedFor

\* A thread that executes code outside the scheduler is the head of its queue.
LEMMA RunsFacts ==
    ASSUME IInv, NEW t \in Thread, Executes(t), pc[t] = "app"
    PROVE  /\ OnRunqueue(sched.status[t]) /\ IsHead(sched, t)
           /\ sched.active = t /\ ~sched.idle
           /\ sched.status[t] \notin FlagBlocked
  <1>1. sched.active = t /\ ~sched.idle
    BY DEF Executes
  <1>2. OnRunqueue(sched.status[t]) /\ IsHead(sched, t)
    BY <1>1 DEF IInv, ActiveOK
  <1> QED
    BY <1>1, <1>2, StatusFacts

\* The scheduler is left alone, and the flags and waits stay as they should.
LEMMA QuietStep ==
    ASSUME IInv, UNCHANGED <<sched, pc>>, TypeOK', \A t \in Thread : WaitOK(t)'
    PROVE  IInv'
  BY DEF IInv, ActiveOK

\* A step of a thread that is not blocked, on its own flags and call only
LEMMA OwnStep ==
    ASSUME IInv, UNCHANGED <<sched, pc>>, NEW t \in Thread, Executes(t), pc[t] = "app",
           TypeOK',
           call'[t] \in {"any", "one", "all"} => satisfied(call'[t], flags'[t], mask'[t]),
           \A u \in Thread \ {t} : flags'[u] = flags[u] /\ mask'[u] = mask[u] /\ call'[u] = call[u]
    PROVE  IInv'
  <1>1. WaitOK(t)'
    BY RunsFacts DEF WaitOK
  <1>2. ASSUME NEW u \in Thread \ {t} PROVE WaitOK(u)'
    BY <1>2 DEF IInv, WaitOK
  <1> QED
    BY <1>1, <1>2, QuietStep

----------------------------------------------------------------------------
(* The steps                                                               *)

\* A context switch, in a handler, from the idle loop or by a thread
LEMMA ElectedStep ==
    ASSUME IInv, SchedOK(sched'), Elected(sched, sched'),
           pc' \in [Thread -> {"app", "yield", "switch"}],
           other_prio' \in [Thread -> Prio], UNCHANGED <<flags, mask, call>>
    PROVE  IInv'
  <1>1. TypeOK'
    BY DEF IInv, TypeOK, SchedOK
  <1>2. ActiveOK'
    BY DEF ActiveOK, Elected
  <1>3. ASSUME NEW t \in Thread PROVE WaitOK(t)'
    <2>1. /\ OnRunqueue(sched'.status[t]) <=> OnRunqueue(sched.status[t])
          /\ ~OnRunqueue(sched.status[t]) => sched'.status[t] = sched.status[t]
      BY DEF Elected
    <2>2. WaitOK(t)
      BY DEF IInv
    <2> QED
      BY <2>1, <2>2, StatusFacts DEF WaitOK
  <1> QED
    BY <1>1, <1>2, <1>3 DEF IInv

\* isr_pendsv, the end of the idle loop, thread_yield_higher and sched_switch
LEMMA RescheduleStep ==
    ASSUME IInv, Reschedule
    PROVE  IInv'
  <1>1. SchedOK(sched) /\ UNCHANGED <<flags, mask, call>>
    BY DEF IInv, Reschedule
  <1>2. CASE isr_pendsv
    BY <1>1, <1>2, RunOK, ElectedStep DEF isr_pendsv, IInv, TypeOK
  <1>3. CASE sched_idle_exit
    BY <1>1, <1>3, ElectOK, ElectedStep DEF sched_idle_exit, IInv, TypeOK
  <1>4. ASSUME NEW t \in Thread, thread_yield_higher(t)
        PROVE  IInv'
    BY <1>1, <1>4, RunOK, ElectedStep DEF thread_yield_higher, IInv, TypeOK
  <1>5. ASSUME NEW t \in Thread, sched_switch(t)
        PROVE  IInv'
    <2>1. /\ pc[t] = "switch" /\ pc' = [pc EXCEPT ![t] = "app"]
          /\ other_prio' = [other_prio EXCEPT ![t] = 0]
      BY <1>5 DEF sched_switch
    <2>2. /\ pc' \in [Thread -> {"app", "yield", "switch"}]
          /\ other_prio' \in [Thread -> Prio]
      BY <2>1, SchedAssumption DEF IInv, TypeOK, Prio
    <2>3. CASE switch_needed(sched, other_prio[t])
      BY <1>1, <1>5, <2>2, <2>3, RunOK, ElectedStep DEF sched_switch
    <2>4. CASE ~switch_needed(sched, other_prio[t])
      <3>1. sched' = sched
        BY <1>5, <2>4 DEF sched_switch
      <3>2. TypeOK'
        BY <1>1, <2>2, <3>1 DEF IInv, TypeOK
      <3>3. ActiveOK'
        BY <2>1, <3>1 DEF IInv, TypeOK, ActiveOK
      <3> QED
        BY <1>1, <3>1, <3>2, <3>3 DEF IInv, WaitOK
    <2> QED
      BY <2>3, <2>4
  <1> QED
    BY <1>2, <1>3, <1>4, <1>5 DEF Reschedule, Dispatch

\* A thread looks at its flags and blocks, or has what it waits for.
LEMMA WaitStep ==
    ASSUME IInv, NEW t \in Thread, NEW kind \in {"any", "one", "all"}, NEW m \in SUBSET Flag,
           flags_wait(t, kind, m)
    PROVE  IInv'
  <1>1. /\ Executes(t) /\ pc[t] = "app" /\ call[t] = "out"
        /\ mask' = [mask EXCEPT ![t] = m] /\ call' = [call EXCEPT ![t] = kind]
        /\ UNCHANGED <<other_prio, flags>>
    BY DEF flags_wait, InApp
  <1>2. /\ flags \in [Thread -> SUBSET Flag] /\ mask \in [Thread -> SUBSET Flag]
        /\ call \in [Thread -> {"out", "any", "one", "all", "clear"}]
        /\ pc \in [Thread -> {"app", "yield", "switch"}]
        /\ other_prio \in [Thread -> Prio] /\ sched \in SchedType /\ SchedOK(sched)
    BY DEF IInv, TypeOK
  <1>3. CASE satisfied(kind, flags[t], m) /\ UNCHANGED <<sched, pc>>
    <2>1. TypeOK'
      BY <1>1, <1>2, <1>3 DEF TypeOK
    <2> QED
      BY <1>1, <1>2, <1>3, <2>1, OwnStep
  <1>4. CASE /\ ~satisfied(kind, flags[t], m)
             /\ sched' = sched_set_status(sched, t, BlockedFor(kind))
             /\ pc' = [pc EXCEPT ![t] = "yield"]
    <2>1. SchedOK(sched') /\ StatusSet(sched, sched', t, BlockedFor(kind))
      BY <1>1, <1>2, <1>4, StatusFacts, RunsFacts, SetStatusOK
    <2>2. TypeOK'
      BY <1>1, <1>2, <1>4, <2>1 DEF TypeOK, SchedOK
    <2>3. sched'.active = t /\ sched'.status = [sched.status EXCEPT ![t] = BlockedFor(kind)]
      BY <1>1, <2>1 DEF StatusSet, Executes
    <2>4. ActiveOK'
      BY <1>2, <1>4, <2>3 DEF ActiveOK
    <2>5. sched.status \in [Thread -> Status]
      BY <1>2 DEF SchedType
    <2>6. ASSUME NEW u \in Thread PROVE WaitOK(u)'
      <3>1. CASE u = t
        BY <1>1, <1>2, <1>4, <2>3, <2>5, <3>1, StatusFacts DEF WaitOK
      <3>2. CASE u # t
        BY <1>1, <1>2, <2>3, <2>5, <3>2 DEF IInv, WaitOK
      <3> QED
        BY <3>1, <3>2
    <2> QED
      BY <2>1, <2>2, <2>4, <2>6 DEF IInv
  <1> QED
    BY <1>3, <1>4 DEF flags_wait

\* The steps of a thread at the end of a wait, and thread_flags_clear
LEMMA EndStep ==
    ASSUME IInv, NEW t \in Thread,
           \/ wait_one_reads(t)
           \/ wait_clears(t)
           \/ \E m \in SUBSET Flag : thread_flags_clear(t, m)
    PROVE  IInv'
  <1>1. /\ flags \in [Thread -> SUBSET Flag] /\ mask \in [Thread -> SUBSET Flag]
        /\ call \in [Thread -> {"out", "any", "one", "all", "clear"}]
        /\ pc \in [Thread -> {"app", "yield", "switch"}]
        /\ other_prio \in [Thread -> Prio] /\ sched \in SchedType
    BY DEF IInv, TypeOK
  <1>2. CASE wait_one_reads(t)
    <2> DEFINE seen == flags[t] \cap mask[t]
               least == IF seen = {} THEN {} ELSE {Min(seen)}
    <2>1. /\ Executes(t) /\ pc[t] = "app" /\ UNCHANGED <<sched, pc, other_prio, flags>>
          /\ mask' = [mask EXCEPT ![t] = least] /\ call' = [call EXCEPT ![t] = "clear"]
      BY <1>2 DEF wait_one_reads
    <2>2. seen \in SUBSET Nat
      BY <1>1, FlagsAssumption DEF Flag
    <2>3. least \subseteq seen
      BY <2>2, MinFacts
    <2>4. seen \in SUBSET Flag
      BY <1>1
    <2> HIDE DEF least, seen
    <2>5. TypeOK'
      BY <1>1, <2>1, <2>3, <2>4 DEF TypeOK
    <2> QED
      BY <1>1, <2>1, <2>5, OwnStep
  <1>3. CASE wait_clears(t)
    <2>1. /\ Executes(t) /\ pc[t] = "app" /\ UNCHANGED <<sched, pc, other_prio>>
          /\ flags' = [flags EXCEPT ![t] = flags[t] \ mask[t]]
          /\ mask' = [mask EXCEPT ![t] = {}] /\ call' = [call EXCEPT ![t] = "out"]
      BY <1>1, <1>3 DEF wait_clears
    <2>2. TypeOK'
      BY <1>1, <2>1 DEF TypeOK
    <2> QED
      BY <1>1, <2>1, <2>2, OwnStep
  <1>4. ASSUME NEW m \in SUBSET Flag, thread_flags_clear(t, m)
        PROVE  IInv'
    <2>1. /\ Executes(t) /\ pc[t] = "app" /\ call[t] = "out"
          /\ UNCHANGED <<sched, pc, other_prio, mask, call>>
          /\ flags' = [flags EXCEPT ![t] = flags[t] \ m]
      BY <1>1, <1>4 DEF thread_flags_clear, InApp
    <2>2. TypeOK'
      BY <1>1, <2>1 DEF TypeOK
    <2> QED
      BY <1>1, <2>1, <2>2, OwnStep
  <1> QED
    BY <1>2, <1>3, <1>4

\* The flags of a thread that is not to be woken grow.
LEMMA SetQuietly ==
    ASSUME IInv, NEW target \in Thread, NEW set \in SUBSET Flag, flags[target] \subseteq set,
           ~thread_flags_wakes(target, set), flags' = [flags EXCEPT ![target] = set],
           UNCHANGED <<sched, pc, other_prio, mask, call>>
    PROVE  IInv'
  <1>1. TypeOK'
    BY DEF IInv, TypeOK
  <1>2. ASSUME NEW u \in Thread PROVE WaitOK(u)'
    <2>1. WaitOK(u) /\ flags \in [Thread -> SUBSET Flag]
      BY DEF IInv, TypeOK
    <2>2. CASE u # target
      BY <2>1, <2>2 DEF WaitOK
    <2>3. CASE u = target
      BY <2>1, <2>3 DEF WaitOK, thread_flags_wakes, satisfied, FlagBlocked, BlockedFor
    <2> QED
      BY <2>2, <2>3
  <1> QED
    BY <1>1, <1>2, QuietStep

\* A thread is woken because its flags are there; the setter goes on to yield,
\* or is an interrupt handler.
LEMMA SetWaking ==
    ASSUME IInv, NEW target \in Thread, NEW set \in SUBSET Flag, flags[target] \subseteq set,
           thread_flags_wakes(target, set), flags' = [flags EXCEPT ![target] = set],
           NEW b \in BOOLEAN, sched' = [woken(target) EXCEPT !.request = b],
           pc' \in [Thread -> {"app", "yield", "switch"}],
           \A u \in Thread : pc'[u] # "yield" => pc[u] = pc'[u],
           UNCHANGED <<other_prio, mask, call>>
    PROVE  IInv'
  <1> DEFINE r == woken(target)
  <1>1. /\ flags \in [Thread -> SUBSET Flag] /\ sched.status \in [Thread -> Status]
        /\ sched \in SchedType /\ SchedOK(sched)
    BY DEF IInv, TypeOK, SchedType
  <1>2. sched.status[target] \in FlagBlocked
    BY DEF thread_flags_wakes, FlagBlocked
  <1>3. SchedOK(r) /\ StatusSet(sched, r, target, "pending")
    BY <1>1, <1>2, StatusFacts, SetStatusOK DEF woken
  <1> HIDE DEF r
  <1>4. /\ sched' \in SchedType
        /\ sched'.status = r.status /\ sched'.priority = r.priority
        /\ sched'.runqueues = r.runqueues
        /\ sched'.bitcache = r.bitcache /\ sched'.active = r.active /\ sched'.idle = r.idle
    BY <1>3 DEF SchedOK, SchedType, r
  <1>5. SchedOK(sched')
    BY <1>3, <1>4, FrameOK
  <1>6. TypeOK'
    BY <1>4 DEF IInv, TypeOK
  <1>7. r.status = [sched.status EXCEPT ![target] = "pending"]
    BY <1>3 DEF StatusSet
  <1>8. ActiveOK'
    <2> SUFFICES ASSUME NEW u \in Thread, sched'.active = u, ~sched'.idle, pc'[u] # "yield"
                 PROVE  OnRunqueue(sched'.status[u]) /\ IsHead(sched', u)
      BY DEF ActiveOK
    <2>1. /\ r.active = sched.active /\ r.idle = sched.idle
          /\ IsHead(sched, u) => IsHead(r, u)
      BY <1>3, StatusFacts DEF StatusSet
    <2>2. OnRunqueue(sched.status[u]) /\ IsHead(sched, u)
      BY <1>4, <2>1 DEF IInv, ActiveOK
    <2>3. IsHead(sched', u)
      BY <1>4, <2>1, <2>2 DEF IsHead
    <2> QED
      BY <1>1, <1>4, <1>7, <2>2, <2>3, StatusFacts
  <1>9. ASSUME NEW u \in Thread PROVE WaitOK(u)'
    <2>1. WaitOK(u)
      BY DEF IInv
    <2>2. CASE u # target
      BY <1>1, <1>4, <1>7, <2>1, <2>2 DEF WaitOK
    <2>3. CASE u = target
      <3>1. sched'.status[u] = "pending" /\ flags'[u] = set
        BY <1>1, <1>4, <1>7, <2>3
      <3>2. satisfied(call[u], set, mask[u])
        BY <1>2, <2>1, <2>3 DEF WaitOK, thread_flags_wakes, satisfied, FlagBlocked, BlockedFor
      <3> QED
        BY <3>1, <3>2 DEF WaitOK, FlagBlocked
    <2> QED
      BY <2>2, <2>3
  <1> QED
    BY <1>5, <1>6, <1>8, <1>9 DEF IInv

\* thread_flags_set, by a thread or in an interrupt handler
LEMMA SetStep ==
    ASSUME IInv, NEW target \in Thread, NEW f \in Flag,
           \/ \E t \in Thread : thread_flags_set(t, target, {f})
           \/ isr_thread_flags_set(target, {f})
    PROVE  IInv'
  <1> DEFINE set == flags[target] \cup {f}
  <1>1. /\ flags \in [Thread -> SUBSET Flag] /\ set \in SUBSET Flag
        /\ flags[target] \subseteq set
        /\ pc \in [Thread -> {"app", "yield", "switch"}]
    BY DEF IInv, TypeOK
  <1>2. flags' = [flags EXCEPT ![target] = set] /\ UNCHANGED <<other_prio, mask, call>>
    BY DEF thread_flags_set, isr_thread_flags_set
  <1> HIDE DEF set
  <1>3. ASSUME NEW t \in Thread, thread_flags_set(t, target, {f}) PROVE IInv'
    <2>1. CASE thread_flags_wakes(target, set)
      <3>1. PICK b \in BOOLEAN : sched' = [woken(target) EXCEPT !.request = b]
        BY <1>3, <2>1 DEF thread_flags_set, set
      <3>2. pc' = [pc EXCEPT ![t] = "yield"]
        BY <1>3, <2>1 DEF thread_flags_set, set
      <3>3. /\ pc' \in [Thread -> {"app", "yield", "switch"}]
            /\ \A u \in Thread : pc'[u] # "yield" => pc[u] = pc'[u]
        BY <1>1, <3>2
      <3> QED
        BY <1>1, <1>2, <2>1, <3>1, <3>3, SetWaking
    <2>2. CASE ~thread_flags_wakes(target, set)
      BY <1>1, <1>2, <1>3, <2>2, SetQuietly DEF thread_flags_set, set
    <2> QED
      BY <2>1, <2>2
  <1>4. CASE isr_thread_flags_set(target, {f})
    <2>1. UNCHANGED pc
      BY <1>4 DEF isr_thread_flags_set
    <2>2. CASE thread_flags_wakes(target, set)
      <3>1. sched' = [woken(target) EXCEPT !.request = TRUE]
        BY <1>4, <2>2 DEF isr_thread_flags_set, set
      <3> QED
        BY <1>1, <1>2, <2>1, <2>2, <3>1, SetWaking
    <2>3. CASE ~thread_flags_wakes(target, set)
      BY <1>1, <1>2, <1>4, <2>1, <2>3, SetQuietly DEF isr_thread_flags_set, set
    <2> QED
      BY <2>2, <2>3
  <1> QED
    BY <1>3, <1>4

\* Every step keeps the invariant.
LEMMA StepOK ==
    ASSUME IInv, [Next]_vars
    PROVE  IInv'
  <1>1. CASE Reschedule
    BY <1>1, RescheduleStep
  <1>2. ASSUME NEW t \in Thread, Call(t)
        PROVE  IInv'
    <2>1. ASSUME NEW m \in SUBSET Flag, NEW kind \in {"any", "one", "all"}, flags_wait(t, kind, m)
          PROVE  IInv'
      BY <2>1, WaitStep
    <2>2. CASE \/ wait_one_reads(t)
               \/ wait_clears(t)
               \/ \E m \in SUBSET Flag : thread_flags_clear(t, m)
      BY <2>2, EndStep
    <2>3. ASSUME NEW target \in Thread, NEW f \in Flag, thread_flags_set(t, target, {f})
          PROVE  IInv'
      BY <2>3, SetStep
    <2> QED
      BY <1>2, <2>1, <2>2, <2>3 DEF Call
  <1>3. ASSUME NEW target \in Thread, NEW f \in Flag, isr_thread_flags_set(target, {f})
        PROVE  IInv'
    BY <1>3, SetStep
  <1>4. CASE UNCHANGED vars
    BY <1>4 DEF vars, IInv, TypeOK, ActiveOK, WaitOK
  <1> QED
    BY <1>1, <1>2, <1>3, <1>4 DEF Next

\* The threads have been created, and the first one is on its way into the
\* scheduler.
LEMMA InitOK ==
    ASSUME Init
    PROVE  IInv
  <1>1. /\ sched = all_created(ThreadPrio) /\ SchedOK(sched)
        /\ pc = [t \in Thread |-> IF t = 1 THEN "yield" ELSE "app"]
        /\ other_prio = [t \in Thread |-> 0]
        /\ flags = [t \in Thread |-> {}] /\ mask = [t \in Thread |-> {}]
        /\ call = [t \in Thread |-> "out"]
    BY FlagsAssumption, CreatedOK DEF Init
  <1>2. sched.active = 1 /\ \A t \in Thread : sched.status[t] \in {"running", "pending"}
    BY <1>1 DEF all_created
  <1>3. TypeOK
    <2>1. 0 \in Prio
      BY SchedAssumption DEF Prio
    <2> QED
      BY <1>1, <2>1 DEF TypeOK, SchedOK
  <1>4. ActiveOK
    BY <1>1, <1>2 DEF ActiveOK
  <1>5. ASSUME NEW t \in Thread PROVE WaitOK(t)
    BY <1>1, <1>2 DEF WaitOK, FlagBlocked
  <1> QED
    BY <1>1, <1>3, <1>4, <1>5 DEF IInv

\* Thread flags work for every number of threads, priorities and flags: no
\* flag set by a thread or an interrupt handler, at any step of
\* thread_flags_wait_any, _one or _all, leaves a thread asleep that has got what
\* it waits for, and no wait ends without.
THEOREM FlagSafety == Spec => []WaitsExact
  <1>1. ASSUME IInv PROVE WaitsExact
    <2>1. ASSUME NEW t \in Thread
          PROVE  /\ sched.status[t] \in {"flag_blocked_any", "flag_blocked_all"} =>
                        ~satisfied(IF sched.status[t] = "flag_blocked_all" THEN "all" ELSE "any",
                                   flags[t], mask[t])
                 /\ call[t] \in {"any", "one", "all"} /\ OnRunqueue(sched.status[t]) =>
                        satisfied(call[t], flags[t], mask[t])
      BY <1>1 DEF IInv, WaitOK, FlagBlocked, BlockedFor, satisfied
    <2> QED
      BY <1>1, <2>1 DEF IInv, SchedOK, WaitsExact
  <1> QED
    BY <1>1, InitOK, StepOK, PTL DEF Spec
=============================================================================
