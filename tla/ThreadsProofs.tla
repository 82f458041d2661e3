--------------------------- MODULE ThreadsProofs ---------------------------
(***************************************************************************)
(* The safety properties of Threads hold for every number of threads and   *)
(* of priorities, as long as the shell command nice is not used.           *)
(***************************************************************************)
EXTENDS Threads, SchedProofs

\* The inductive invariant
IInv ==
    /\ TypeOK
    /\ RunqueueConsistent
    /\ BitcacheExact
    /\ ThreadCount
    /\ ActiveOK
    /\ pc \in [Thread -> {"app", "yield", "switch"}]

\* No thread that executes hides a preemption: a runnable thread of a higher
\* priority is known to the sched_switch the active thread is about to call.
PreemptOK ==
    \A t \in Thread : Executes(t) =>
        /\ pc[t] = "app" => \A p \in sched.bitcache : sched.priority[t] <= p
        /\ pc[t] = "switch" =>
               \A p \in sched.bitcache : sched.priority[t] <= p \/ other_prio[t] <= p

----------------------------------------------------------------------------
(* Facts the steps share                                                   *)

\* The invariant in the terms of the lemmas about the scheduler.
LEMMA InvFacts ==
    ASSUME IInv
    PROVE  /\ SchedOK(sched)
           /\ sched.threads \subseteq Thread
           /\ sched.status \in [Thread -> Status]
           /\ sched.priority \in [Thread -> Prio]
           /\ \A t \in sched.threads : sched.status[t] # "stopped"
           /\ \A t \in Thread \ sched.threads : sched.status[t] = "stopped"
  BY DEF IInv, TypeOK, RunqueueConsistent, BitcacheExact, ThreadCount, SchedOK, SchedType

\* A thread that runs application code is the head of its run queue.
LEMMA InAppFacts ==
    ASSUME IInv, NEW t \in Thread, InApp(t)
    PROVE  /\ OnRunqueue(sched.status[t])
           /\ IsHead(sched, t)
           /\ t \in sched.threads
           /\ sched.active = t /\ ~sched.idle /\ ~sched.request /\ pc[t] = "app"
  <1>1. sched.active = t /\ ~sched.idle /\ ~sched.request /\ pc[t] = "app"
    BY DEF InApp, Executes
  <1>2. OnRunqueue(sched.status[t]) /\ IsHead(sched, t)
    BY <1>1 DEF IInv, ActiveOK
  <1>3. t \in sched.threads
    BY <1>2, InvFacts DEF OnRunqueue, RunnableStatus
  <1> QED
    BY <1>1, <1>2, <1>3

----------------------------------------------------------------------------
(* The initial state                                                       *)

\* kernel_init establishes the invariant.
LEMMA InitOK ==
    Init => IInv
  <1> SUFFICES ASSUME Init
               PROVE  IInv
    OBVIOUS
  <1>1. PICK prio \in Prio : SchedInit(1, prio)
    BY DEF Init
  <1>2. 1 \in Thread /\ 1 # NULL /\ NULL \notin Thread /\ 0 \in Prio
    BY SchedAssumption DEF Thread, NULL, Prio
  <1>3. "pending" \in Status /\ "stopped" \in Status /\ OnRunqueue("pending") /\ ~OnRunqueue("stopped")
    BY DEF Status, RunnableStatus, BlockedStatus, OnRunqueue
  <1>4. /\ sched.threads = {1} /\ sched.num = 1
        /\ sched.status = [t \in Thread |-> IF t = 1 THEN "pending" ELSE "stopped"]
        /\ sched.priority = [t \in Thread |-> prio]
        /\ sched.runqueues = [p \in Prio |-> IF p = prio THEN <<1>> ELSE <<>>]
        /\ sched.bitcache = {prio}
        /\ sched.active = NULL /\ sched.request = TRUE /\ sched.idle = FALSE
        /\ pc = [t \in Thread |-> "app"] /\ other_prio = [t \in Thread |-> 0]
    BY <1>1 DEF SchedInit
  <1>5. /\ <<1>> \in Seq(Thread) /\ <<>> \in Seq(Thread) /\ <<1>> # <<>>
        /\ IsInjective(<<1>>) /\ Range(<<1>>) = {1}
        /\ IsInjective(<<>>) /\ Range(<<>>) = {}
    BY <1>2 DEF IsInjective, Range
  <1>6. TypeOK
    <2>1. sched \in SchedType
      BY <1>1, <1>2, <1>3, <1>5 DEF SchedInit, SchedType
    <2> QED
      BY <1>2, <1>4, <2>1 DEF TypeOK, Init
  <1>7. RunqueueConsistent
    <2> SUFFICES ASSUME NEW p \in Prio
                 PROVE  /\ IsInjective(sched.runqueues[p])
                        /\ Range(sched.runqueues[p])
                             = {t \in Thread : sched.priority[t] = p /\ OnRunqueue(sched.status[t])}
      BY DEF RunqueueConsistent, RunqueueOK
    <2>1. {t \in Thread : sched.priority[t] = p /\ OnRunqueue(sched.status[t])}
            = IF p = prio THEN {1} ELSE {}
      BY <1>2, <1>3, <1>4
    <2>2. sched.runqueues[p] = IF p = prio THEN <<1>> ELSE <<>>
      BY <1>4
    <2> QED
      BY <1>5, <2>1, <2>2
  <1>8. BitcacheExact
    BY <1>4, <1>5 DEF BitcacheExact, BitcacheOK
  <1>9. ThreadCount
    <2>1. Cardinality({1}) = 1
      BY FS_Singleton
    <2>2. \A t \in Thread : t \notin sched.threads <=> sched.status[t] = "stopped"
      BY <1>4
    <2> QED
      BY <1>4, <2>1, <2>2 DEF ThreadCount
  <1>10. ActiveOK
    BY <1>2, <1>4 DEF ActiveOK
  <1>11. pc \in [Thread -> {"app", "yield", "switch"}]
    BY <1>4
  <1> QED
    BY <1>6, <1>7, <1>8, <1>9, <1>10, <1>11 DEF IInv

----------------------------------------------------------------------------
(* The steps                                                               *)

\* The active thread blocks itself: thread_sleep and thread_zombify.
LEMMA BlockStep ==
    ASSUME IInv, NEW t \in Thread, thread_sleep(t) \/ thread_zombify(t)
    PROVE  IInv'
  <1>1. PICK st \in {"sleeping", "zombie"} : sched' = sched_set_status(sched, t, st)
    BY DEF thread_sleep, thread_zombify
  <1>2. InApp(t) /\ pc' = [pc EXCEPT ![t] = "yield"] /\ UNCHANGED <<other_prio, niced, panic>>
    BY DEF thread_sleep, thread_zombify
  <1>3. st \in Status /\ ~OnRunqueue(st) /\ st # "stopped"
    BY DEF Status, RunnableStatus, BlockedStatus, OnRunqueue
  <1>4. SchedOK(sched') /\ StatusSet(sched, sched', t, st)
    BY <1>1, <1>2, <1>3, InvFacts, InAppFacts, SetStatusOK
  <1>5. TypeOK'
    BY <1>2, <1>4 DEF IInv, TypeOK, SchedOK
  <1>6. ThreadCount'
    BY <1>2, <1>3, <1>4, InvFacts, InAppFacts DEF IInv, ThreadCount, StatusSet
  <1>7. ActiveOK'
    BY <1>2, <1>4, InAppFacts DEF IInv, TypeOK, ActiveOK, StatusSet
  <1>8. pc' \in [Thread -> {"app", "yield", "switch"}]
    BY <1>2 DEF IInv
  <1> QED
    BY <1>4, <1>5, <1>6, <1>7, <1>8 DEF IInv, RunqueueConsistent, BitcacheExact, SchedOK

\* thread_yield moves the active thread to the end of its run queue.
LEMMA YieldStep ==
    ASSUME IInv, NEW t \in Thread, thread_yield(t)
    PROVE  IInv'
  <1>1. InApp(t) /\ pc' = [pc EXCEPT ![t] = "yield"] /\ UNCHANGED <<other_prio, niced, panic>>
    BY DEF thread_yield
  <1>2. sched.priority[t] \in Prio /\ sched \in SchedType
    BY InvFacts DEF SchedOK
  <1>3. /\ SchedOK(sched')
        /\ \E q \in Seq(Thread) : sched' = [sched EXCEPT !.runqueues[sched.priority[t]] = q]
    <2>1. sched' = sched_runq_advance(sched, sched.priority[t])
      BY <1>1, InAppFacts DEF thread_yield, thread_is_active
    <2> QED
      BY <1>2, <2>1, InvFacts, AdvanceOK
  <1>4. /\ sched'.threads = sched.threads /\ sched'.num = sched.num
        /\ sched'.status = sched.status /\ sched'.active = sched.active
    BY <1>2, <1>3 DEF SchedType
  <1>5. TypeOK'
    BY <1>1, <1>3 DEF IInv, TypeOK, SchedOK
  <1>6. ThreadCount'
    BY <1>4 DEF IInv, ThreadCount
  <1>7. ActiveOK'
    BY <1>1, <1>4, InAppFacts DEF IInv, TypeOK, ActiveOK
  <1>8. pc' \in [Thread -> {"app", "yield", "switch"}]
    BY <1>1 DEF IInv
  <1> QED
    BY <1>3, <1>5, <1>6, <1>7, <1>8 DEF IInv, RunqueueConsistent, BitcacheExact, SchedOK

\* thread_wakeup called by the active thread.
LEMMA WakeupStep ==
    ASSUME IInv, NEW t \in Thread, NEW target \in Thread, thread_wakeup(t, target)
    PROVE  IInv'
  <1>1. /\ InApp(t) /\ target \in sched.threads /\ sched.status[target] = "sleeping"
        /\ sched' = sched_set_status(sched, target, "running")
        /\ pc' = [pc EXCEPT ![t] = "switch"]
        /\ other_prio' = [other_prio EXCEPT ![t] = sched.priority[target]]
        /\ UNCHANGED <<niced, panic>>
    BY DEF thread_wakeup
  <1>2. "running" \in Status /\ OnRunqueue("running") /\ ~OnRunqueue("sleeping")
    BY DEF Status, RunnableStatus, BlockedStatus, OnRunqueue
  <1>3. SchedOK(sched') /\ StatusSet(sched, sched', target, "running")
    BY <1>1, <1>2, InvFacts, SetStatusOK
  <1>4. TypeOK'
    BY <1>1, <1>3, InvFacts DEF IInv, TypeOK, SchedOK
  <1>5. ThreadCount'
    BY <1>1, <1>3, InvFacts DEF IInv, ThreadCount, StatusSet
  <1>6. ActiveOK'
    BY <1>1, <1>2, <1>3, InvFacts, InAppFacts DEF IInv, TypeOK, ActiveOK, StatusSet
  <1>7. pc' \in [Thread -> {"app", "yield", "switch"}]
    BY <1>1 DEF IInv
  <1> QED
    BY <1>3, <1>4, <1>5, <1>6, <1>7 DEF IInv, RunqueueConsistent, BitcacheExact, SchedOK

\* thread_wakeup called by an interrupt handler.
LEMMA IsrWakeupStep ==
    ASSUME IInv, NEW target \in Thread, isr_thread_wakeup(target)
    PROVE  IInv'
  <1> DEFINE r == sched_set_status(sched, target, "running")
  <1>1. /\ target \in sched.threads /\ sched.status[target] = "sleeping"
        /\ sched' \in isr_sched_switch(r, sched.priority[target])
        /\ UNCHANGED <<pc, other_prio, niced, panic>>
    BY DEF isr_thread_wakeup
  <1>2. "running" \in Status /\ OnRunqueue("running") /\ ~OnRunqueue("sleeping")
    BY DEF Status, RunnableStatus, BlockedStatus, OnRunqueue
  <1>3. SchedOK(r) /\ StatusSet(sched, r, target, "running")
    BY <1>1, <1>2, InvFacts, SetStatusOK
  <1> HIDE DEF r
  <1>4. \E b \in BOOLEAN : sched' = [r EXCEPT !.request = b]
    <2>1. r \in SchedType /\ r.request \in BOOLEAN /\ r = [r EXCEPT !.request = r.request]
      BY <1>3 DEF SchedOK, SchedType
    <2> QED
      BY <1>1, <2>1 DEF isr_sched_switch, switch_needed
  <1>5. /\ sched' \in SchedType
        /\ sched'.threads = r.threads /\ sched'.num = r.num /\ sched'.status = r.status
        /\ sched'.priority = r.priority /\ sched'.runqueues = r.runqueues
        /\ sched'.bitcache = r.bitcache /\ sched'.active = r.active /\ sched'.idle = r.idle
    BY <1>3, <1>4 DEF SchedOK, SchedType
  <1>6. SchedOK(sched')
    BY <1>3, <1>5, FrameOK
  <1>7. TypeOK'
    BY <1>1, <1>6 DEF IInv, TypeOK, SchedOK
  <1>8. ThreadCount'
    BY <1>1, <1>3, <1>5, InvFacts DEF IInv, ThreadCount, StatusSet
  <1>9. ActiveOK'
    <2> SUFFICES ASSUME NEW u \in Thread, sched'.active = u, ~sched'.idle, pc'[u] # "yield"
                 PROVE  OnRunqueue(sched'.status[u]) /\ IsHead(sched', u)
      BY DEF ActiveOK
    <2>1. /\ r.active = sched.active /\ r.idle = sched.idle
          /\ r.status = [sched.status EXCEPT ![target] = "running"]
          /\ IsHead(sched, u) => IsHead(r, u)
      BY <1>2, <1>3 DEF StatusSet
    <2>2. OnRunqueue(sched.status[u]) /\ IsHead(sched, u)
      BY <1>1, <1>5, <2>1 DEF IInv, ActiveOK
    <2>3. IsHead(sched', u)
      BY <1>5, <2>1, <2>2 DEF IsHead
    <2> QED
      BY <1>2, <1>5, <2>1, <2>2, <2>3, InvFacts
  <1>10. pc' \in [Thread -> {"app", "yield", "switch"}]
    BY <1>1 DEF IInv
  <1> QED
    BY <1>6, <1>7, <1>8, <1>9, <1>10 DEF IInv, RunqueueConsistent, BitcacheExact, SchedOK

\* The set of existing threads is finite, so its cardinality counts.
LEMMA CountFacts ==
    ASSUME IInv
    PROVE  /\ \A t \in sched.threads : Cardinality(sched.threads \ {t}) = Cardinality(sched.threads) - 1
           /\ \A t \in Thread \ sched.threads :
                  Cardinality(sched.threads \cup {t}) = Cardinality(sched.threads) + 1
  <1>1. IsFiniteSet(Thread)
    BY SchedAssumption, FS_Interval DEF Thread
  <1>2. sched.threads \in SUBSET Thread
    BY InvFacts
  <1>3. IsFiniteSet(sched.threads)
    BY <1>1, <1>2, FS_Subset
  <1> QED
    BY <1>3, FS_AddElement, FS_RemoveElement

\* Removing a thread from sched_threads leaves the run queues alone.
LEMMA SlotFreed ==
    ASSUME IInv, NEW t \in Thread
    PROVE  /\ SchedOK([sched EXCEPT !.threads = @ \ {t}, !.num = @ - 1])
           /\ \A f \in {"status", "priority", "runqueues", "bitcache", "active", "idle", "request"} :
                  [sched EXCEPT !.threads = @ \ {t}, !.num = @ - 1][f] = sched[f]
           /\ [sched EXCEPT !.threads = @ \ {t}, !.num = @ - 1].threads = sched.threads \ {t}
           /\ [sched EXCEPT !.threads = @ \ {t}, !.num = @ - 1].num = sched.num - 1
  <1> DEFINE T == sched.threads \ {t}
             n == sched.num - 1
             s == [sched EXCEPT !.threads = T, !.num = n]
  <1>1. sched \in SchedType /\ T \in SUBSET Thread /\ n \in Int
    BY InvFacts DEF SchedOK, SchedType
  <1> HIDE DEF T, n
  <1>2. /\ s \in SchedType /\ s.threads = T /\ s.num = n
        /\ s.status = sched.status /\ s.priority = sched.priority /\ s.runqueues = sched.runqueues
        /\ s.bitcache = sched.bitcache /\ s.active = sched.active /\ s.idle = sched.idle
        /\ s.request = sched.request
    BY <1>1 DEF SchedType
  <1> HIDE DEF s
  <1>3. SchedOK(s)
    BY <1>2, InvFacts, FrameOK
  <1> QED
    BY <1>2, <1>3 DEF s, T, n

\* thread_kill_zombie frees the slot of a zombie.
LEMMA KillZombieStep ==
    ASSUME IInv, NEW t \in Thread, NEW target \in Thread, thread_kill_zombie(t, target)
    PROVE  IInv'
  <1> DEFINE s == [sched EXCEPT !.threads = @ \ {target}, !.num = @ - 1]
  <1>1. /\ InApp(t) /\ target \in sched.threads /\ sched.status[target] = "zombie"
        /\ sched' = sched_set_status(s, target, "stopped")
        /\ UNCHANGED <<pc, other_prio, niced, panic>>
    BY DEF thread_kill_zombie
  <1>2. "stopped" \in Status /\ ~OnRunqueue("stopped") /\ ~OnRunqueue("zombie")
    BY DEF Status, RunnableStatus, BlockedStatus, OnRunqueue
  <1>3. /\ s \in SchedType
        /\ s.threads = sched.threads \ {target} /\ s.num = sched.num - 1
        /\ s.status = sched.status /\ s.priority = sched.priority /\ s.runqueues = sched.runqueues
        /\ s.bitcache = sched.bitcache /\ s.active = sched.active /\ s.idle = sched.idle
        /\ s.request = sched.request
    BY InvFacts, SlotFreed DEF SchedOK, SchedType
  <1> HIDE DEF s
  <1>4. SchedOK(s)
    BY <1>3, InvFacts, FrameOK
  <1>5. SchedOK(sched') /\ StatusSet(s, sched', target, "stopped")
    BY <1>1, <1>2, <1>3, <1>4, SetStatusOK
  <1>6. TypeOK'
    BY <1>1, <1>5 DEF IInv, TypeOK, SchedOK
  <1>7. ThreadCount'
    <2>1. sched'.num = Cardinality(sched'.threads)
      BY <1>1, <1>3, <1>5, CountFacts DEF IInv, ThreadCount, StatusSet
    <2>2. \A u \in Thread : u \notin sched'.threads <=> sched'.status[u] = "stopped"
      BY <1>1, <1>3, <1>5, InvFacts DEF StatusSet
    <2> QED
      BY <2>1, <2>2 DEF ThreadCount
  <1>8. ActiveOK'
    <2> SUFFICES ASSUME NEW u \in Thread, sched'.active = u, ~sched'.idle, pc'[u] # "yield"
                 PROVE  OnRunqueue(sched'.status[u]) /\ IsHead(sched', u)
      BY DEF ActiveOK
    <2>1. /\ sched'.active = sched.active /\ sched'.idle = sched.idle
          /\ sched'.status = [sched.status EXCEPT ![target] = "stopped"]
          /\ sched'.priority = sched.priority /\ sched'.runqueues = sched.runqueues
      BY <1>1, <1>2, <1>3, <1>5 DEF StatusSet
    <2>2. OnRunqueue(sched.status[u]) /\ IsHead(sched, u)
      BY <1>1, <2>1 DEF IInv, ActiveOK
    <2>3. IsHead(sched', u)
      BY <2>1, <2>2 DEF IsHead
    <2> QED
      BY <1>1, <1>2, <2>1, <2>2, <2>3, InvFacts
  <1>9. pc' \in [Thread -> {"app", "yield", "switch"}]
    BY <1>1 DEF IInv
  <1> QED
    BY <1>5, <1>6, <1>7, <1>8, <1>9 DEF IInv, RunqueueConsistent, BitcacheExact, SchedOK

\* sched_task_exit frees the slot of the active thread.
LEMMA ExitStep ==
    ASSUME IInv, NEW t \in Thread, sched_task_exit(t)
    PROVE  IInv'
  <1> DEFINE s == [sched EXCEPT !.threads = @ \ {t}, !.num = @ - 1]
             r == sched_set_status(s, t, "stopped")
  <1>1. /\ InApp(t)
        /\ sched' = [r EXCEPT !.active = NULL, !.request = TRUE]
        /\ UNCHANGED <<pc, other_prio, niced, panic>>
    BY DEF sched_task_exit
  <1>2. "stopped" \in Status /\ ~OnRunqueue("stopped")
    BY DEF Status, RunnableStatus, BlockedStatus, OnRunqueue
  <1>3. /\ s \in SchedType
        /\ s.threads = sched.threads \ {t} /\ s.num = sched.num - 1
        /\ s.status = sched.status /\ s.priority = sched.priority /\ s.runqueues = sched.runqueues
        /\ s.bitcache = sched.bitcache
    BY InvFacts, SlotFreed DEF SchedOK, SchedType
  <1> HIDE DEF s
  <1>4. SchedOK(s) /\ IsHead(s, t)
    BY <1>1, <1>3, InvFacts, InAppFacts, FrameOK DEF IsHead
  <1>5. SchedOK(r) /\ StatusSet(s, r, t, "stopped")
    BY <1>2, <1>3, <1>4, SetStatusOK
  <1> HIDE DEF r
  <1>6. /\ sched' \in SchedType
        /\ sched'.threads = r.threads /\ sched'.num = r.num /\ sched'.status = r.status
        /\ sched'.priority = r.priority /\ sched'.runqueues = r.runqueues
        /\ sched'.bitcache = r.bitcache /\ sched'.active = NULL
    BY <1>1, <1>5 DEF SchedOK, SchedType
  <1>7. SchedOK(sched')
    BY <1>5, <1>6, FrameOK
  <1>8. TypeOK'
    BY <1>1, <1>7 DEF IInv, TypeOK, SchedOK
  <1>9. ThreadCount'
    <2>1. sched'.num = Cardinality(sched'.threads)
      BY <1>1, <1>3, <1>5, <1>6, InAppFacts, CountFacts DEF IInv, ThreadCount, StatusSet
    <2>2. \A u \in Thread : u \notin sched'.threads <=> sched'.status[u] = "stopped"
      BY <1>1, <1>3, <1>5, <1>6, InvFacts, InAppFacts DEF StatusSet
    <2> QED
      BY <2>1, <2>2 DEF ThreadCount
  <1>10. ActiveOK'
    BY <1>6 DEF ActiveOK, NULL, Thread
  <1>11. pc' \in [Thread -> {"app", "yield", "switch"}]
    BY <1>1 DEF IInv
  <1> QED
    BY <1>7, <1>8, <1>9, <1>10, <1>11 DEF IInv, RunqueueConsistent, BitcacheExact, SchedOK

\* A thread changes its own priority.
LEMMA OwnPriorityStep ==
    ASSUME IInv, NEW t \in Thread, NEW prio \in Prio, set_own_priority(t, prio)
    PROVE  IInv'
  <1>1. /\ InApp(t) /\ prio # sched.priority[t]
        /\ sched' = change_priority(sched, t, prio)
        /\ pc' = [pc EXCEPT ![t] = "yield"]
        /\ UNCHANGED <<other_prio, niced, panic>>
    BY DEF set_own_priority
  <1>2. /\ SchedOK(sched')
        /\ sched'.threads = sched.threads /\ sched'.status = sched.status
        /\ sched'.active = sched.active /\ sched'.num = sched.num
    BY <1>1, InvFacts, InAppFacts, ChangeOK
  <1>3. pc' \in [Thread -> {"app", "yield", "switch"}]
    BY <1>1 DEF IInv
  <1>4. TypeOK'
    BY <1>1, <1>2, <1>3 DEF IInv, TypeOK, SchedOK
  <1>5. ThreadCount'
    BY <1>2 DEF IInv, ThreadCount
  <1>6. ActiveOK'
    BY <1>1, <1>2, <1>3, InAppFacts DEF IInv, TypeOK, ActiveOK
  <1> QED
    BY <1>2, <1>3, <1>4, <1>5, <1>6 DEF IInv, RunqueueConsistent, BitcacheExact, SchedOK

\* The slot that thread_create fills, before it sets the status of the thread.
LEMMA SlotFilled ==
    ASSUME IInv, NEW pid \in Thread \ sched.threads, NEW prio \in Prio
    PROVE  /\ SchedOK(fill_slot(sched, pid, prio))
           /\ fill_slot(sched, pid, prio).threads = sched.threads \cup {pid}
           /\ fill_slot(sched, pid, prio).num = sched.num + 1
           /\ fill_slot(sched, pid, prio).priority = [sched.priority EXCEPT ![pid] = prio]
           /\ fill_slot(sched, pid, prio).status = sched.status
           /\ fill_slot(sched, pid, prio).runqueues = sched.runqueues
           /\ fill_slot(sched, pid, prio).bitcache = sched.bitcache
           /\ fill_slot(sched, pid, prio).active = sched.active
           /\ fill_slot(sched, pid, prio).idle = sched.idle
           /\ fill_slot(sched, pid, prio).request = sched.request
  <1> DEFINE T  == sched.threads \cup {pid}
             n  == sched.num + 1
             pr == [sched.priority EXCEPT ![pid] = prio]
             st == [sched.status EXCEPT ![pid] = "stopped"]
             s  == [sched EXCEPT !.threads = T, !.num = n, !.priority = pr, !.status = st]
  <1>1. "stopped" \in Status /\ ~OnRunqueue("stopped")
    BY DEF Status, RunnableStatus, BlockedStatus, OnRunqueue
  <1>2. /\ sched \in SchedType /\ T \in SUBSET Thread /\ n \in Int
        /\ pr \in [Thread -> Prio] /\ st \in [Thread -> Status]
    BY <1>1, InvFacts DEF SchedOK, SchedType
  <1>3. st = sched.status
    BY InvFacts
  <1>4. \A u \in Thread : OnRunqueue(sched.status[u]) => pr[u] = sched.priority[u]
    BY <1>1, InvFacts
  <1>5. fill_slot(sched, pid, prio) = s
    BY <1>2 DEF SchedType, fill_slot
  <1> HIDE DEF T, n, pr, st
  <1>6. /\ s \in SchedType /\ s.threads = T /\ s.num = n /\ s.priority = pr /\ s.status = st
        /\ s.runqueues = sched.runqueues /\ s.bitcache = sched.bitcache
        /\ s.active = sched.active /\ s.idle = sched.idle /\ s.request = sched.request
    BY <1>2 DEF SchedType
  <1> HIDE DEF s
  <1>7. SchedOK(s)
    BY <1>3, <1>4, <1>6, InvFacts, FrameOK
  <1> QED
    BY <1>3, <1>5, <1>6, <1>7 DEF T, n, pr

\* What thread_create(t, prio, flags) does: the thread pid enters the first
\* free slot.
Creates(t, prio, flags, pid, created) ==
    /\ pid \in Thread \ sched.threads
    /\ pid # t
    /\ SchedOK(created)
    /\ created.threads = sched.threads \cup {pid}
    /\ created.num = sched.num + 1
    /\ created.priority = [sched.priority EXCEPT ![pid] = prio]
    /\ created.status = sched.status
    /\ created.runqueues = sched.runqueues /\ created.bitcache = sched.bitcache
    /\ created.active = sched.active /\ created.idle = sched.idle
    /\ created.request = sched.request
    /\ SchedOK(sched')
    /\ StatusSet(created, sched', pid, IF flags = "sleeping" THEN "sleeping" ELSE "pending")

\* thread_create in the terms of the lemmas about the scheduler.
LEMMA CreateFacts ==
    ASSUME IInv, NEW t \in Thread, NEW prio \in Prio, NEW flags, thread_create(t, prio, flags)
    PROVE  \E pid \in Thread :
               /\ Creates(t, prio, flags, pid, fill_slot(sched, pid, prio))
               /\ pc' = [pc EXCEPT ![pid] = "app", ![t] = IF flags = "none" THEN "switch" ELSE @]
               /\ other_prio' = [other_prio EXCEPT ![t] = IF flags = "none" THEN prio ELSE @]
               /\ InApp(t)
               /\ UNCHANGED <<niced, panic>>
  <1> DEFINE free    == Thread \ sched.threads
             pid     == Min(free)
             st      == IF flags = "sleeping" THEN "sleeping" ELSE "pending"
             created == fill_slot(sched, pid, prio)
  <1>1. /\ InApp(t) /\ free # {}
        /\ sched' = sched_set_status(created, pid, st)
        /\ pc' = [pc EXCEPT ![pid] = "app", ![t] = IF flags = "none" THEN "switch" ELSE @]
        /\ other_prio' = [other_prio EXCEPT ![t] = IF flags = "none" THEN prio ELSE @]
        /\ UNCHANGED <<niced, panic>>
    BY DEF thread_create
  <1>2. pid \in free
    <2>1. free \in SUBSET Nat
      BY DEF Thread
    <2> QED
      BY <1>1, <2>1, MinFacts
  <1>3. pid \in Thread /\ pid # t
    BY <1>1, <1>2, InAppFacts
  <1>4. st \in Status /\ ~OnRunqueue("stopped")
    BY DEF Status, RunnableStatus, BlockedStatus, OnRunqueue
  <1> HIDE DEF pid, st
  <1>5. /\ SchedOK(created)
        /\ created.threads = sched.threads \cup {pid}
        /\ created.num = sched.num + 1
        /\ created.priority = [sched.priority EXCEPT ![pid] = prio]
        /\ created.status = sched.status
        /\ created.runqueues = sched.runqueues /\ created.bitcache = sched.bitcache
        /\ created.active = sched.active /\ created.idle = sched.idle
        /\ created.request = sched.request
    BY <1>2, SlotFilled
  <1> HIDE DEF created
  <1>6. created.status[pid] = "stopped"
    BY <1>2, <1>5, InvFacts
  <1>7. SchedOK(sched') /\ StatusSet(created, sched', pid, st)
    BY <1>1, <1>3, <1>4, <1>5, <1>6, SetStatusOK
  <1>8. Creates(t, prio, flags, pid, created)
    BY <1>2, <1>3, <1>5, <1>7 DEF Creates, st
  <1> QED
    BY <1>1, <1>3, <1>8 DEF created

\* thread_create keeps the invariant.
LEMMA CreateStep ==
    ASSUME IInv, NEW t \in Thread, NEW prio \in Prio, NEW flags, thread_create(t, prio, flags)
    PROVE  IInv'
  <1>1. PICK pid \in Thread :
            /\ Creates(t, prio, flags, pid, fill_slot(sched, pid, prio))
            /\ pc' = [pc EXCEPT ![pid] = "app", ![t] = IF flags = "none" THEN "switch" ELSE @]
            /\ other_prio' = [other_prio EXCEPT ![t] = IF flags = "none" THEN prio ELSE @]
            /\ InApp(t)
            /\ UNCHANGED <<niced, panic>>
    BY CreateFacts
  <1> DEFINE created == fill_slot(sched, pid, prio)
  <1> DEFINE st == IF flags = "sleeping" THEN "sleeping" ELSE "pending"
  <1>2. st # "stopped"
    OBVIOUS
  <1> HIDE DEF st
  <1>3. /\ sched'.threads = sched.threads \cup {pid}
        /\ sched'.num = sched.num + 1
        /\ sched'.status = [sched.status EXCEPT ![pid] = st]
        /\ sched'.priority = [sched.priority EXCEPT ![pid] = prio]
        /\ sched'.active = sched.active
        /\ pid \notin sched.threads /\ pid # t
    BY <1>1 DEF Creates, StatusSet, st
  <1>4. TypeOK'
    <2>1. pc' \in [Thread -> {"app", "yield", "switch"}]
      BY <1>1 DEF IInv, TypeOK
    <2>2. other_prio' \in [Thread -> Prio]
      BY <1>1 DEF IInv, TypeOK
    <2> QED
      BY <1>1, <2>1, <2>2 DEF Creates, IInv, TypeOK, SchedOK
  <1>5. ThreadCount'
    <2>1. sched'.num = Cardinality(sched'.threads)
      BY <1>3, CountFacts DEF IInv, ThreadCount
    <2>2. \A u \in Thread : u \notin sched'.threads <=> sched'.status[u] = "stopped"
      BY <1>2, <1>3, InvFacts
    <2> QED
      BY <2>1, <2>2 DEF ThreadCount
  <1>6. ActiveOK'
    <2>1. OnRunqueue(sched'.status[t])
      BY <1>1, <1>3, InvFacts, InAppFacts
    <2>2. IsHead(created, t)
      <3>1. IsHead(sched, t)
        BY <1>1, InAppFacts
      <3>2. /\ created.runqueues = sched.runqueues /\ pid # t
            /\ created.priority = [sched.priority EXCEPT ![pid] = prio]
        BY <1>1 DEF Creates
      <3>3. created.priority[t] = sched.priority[t]
        BY <3>2, InvFacts
      <3> QED
        BY <3>1, <3>2, <3>3 DEF IsHead
    <2>3. IsHead(sched', t)
      <3>1. CASE flags = "sleeping"
        <4>1. ~OnRunqueue("sleeping") /\ ~OnRunqueue("stopped")
          BY DEF OnRunqueue, RunnableStatus
        <4>2. created.status[pid] = "stopped"
          BY <1>1, InvFacts DEF Creates
        <4>3. sched'.runqueues = created.runqueues /\ sched'.priority = created.priority
          BY <1>1, <3>1, <4>1, <4>2 DEF Creates, StatusSet
        <4> QED
          BY <2>2, <4>3 DEF IsHead
      <3>2. CASE flags # "sleeping"
        <4>1. OnRunqueue("pending")
          BY DEF OnRunqueue, RunnableStatus
        <4> QED
          BY <1>1, <2>2, <3>2, <4>1 DEF Creates, StatusSet
      <3> QED
        BY <3>1, <3>2
    <2> QED
      BY <1>1, <1>3, <2>1, <2>3, InAppFacts DEF ActiveOK
  <1> QED
    BY <1>1, <1>4, <1>5, <1>6 DEF Creates, IInv, RunqueueConsistent, BitcacheExact, SchedOK

\* A context switch, in a handler, from the idle loop or by a thread.
LEMMA ElectedStep ==
    ASSUME IInv, SchedOK(sched'), Elected(sched, sched'),
           pc' \in [Thread -> {"app", "yield", "switch"}],
           other_prio' \in [Thread -> Prio], UNCHANGED <<niced, panic>>
    PROVE  IInv'
  <1>1. TypeOK'
    BY DEF IInv, TypeOK, SchedOK
  <1>2. ThreadCount'
    BY InvFacts DEF IInv, ThreadCount, Elected, OnRunqueue, RunnableStatus
  <1>3. ActiveOK'
    BY DEF ActiveOK, Elected
  <1> QED
    BY <1>1, <1>2, <1>3 DEF IInv, RunqueueConsistent, BitcacheExact, SchedOK

\* isr_pendsv, the end of the idle loop, thread_yield_higher and sched_switch.
LEMMA RescheduleStep ==
    ASSUME IInv, Reschedule
    PROVE  IInv'
  <1>1. SchedOK(sched)
    BY InvFacts
  <1>2. CASE isr_pendsv
    BY <1>1, <1>2, RunOK, ElectedStep DEF isr_pendsv, Reschedule, IInv, TypeOK
  <1>3. CASE sched_idle_exit
    BY <1>1, <1>3, ElectOK, ElectedStep DEF sched_idle_exit, Reschedule, IInv, TypeOK
  <1>4. ASSUME NEW t \in Thread, thread_yield_higher(t)
        PROVE  IInv'
    BY <1>1, <1>4, RunOK, ElectedStep DEF thread_yield_higher, Reschedule, IInv, TypeOK
  <1>5. ASSUME NEW t \in Thread, sched_switch(t)
        PROVE  IInv'
    <2>1. /\ pc[t] = "switch" /\ pc' = [pc EXCEPT ![t] = "app"]
          /\ other_prio' = [other_prio EXCEPT ![t] = 0]
          /\ UNCHANGED <<niced, panic>>
      BY <1>5 DEF sched_switch, Reschedule
    <2>2. /\ pc' \in [Thread -> {"app", "yield", "switch"}]
          /\ other_prio' \in [Thread -> Prio]
      BY <2>1, SchedAssumption DEF IInv, TypeOK, Prio
    <2>3. CASE switch_needed(sched, other_prio[t])
      BY <1>1, <1>5, <2>1, <2>2, <2>3, RunOK, ElectedStep DEF sched_switch
    <2>4. CASE ~switch_needed(sched, other_prio[t])
      <3>1. sched' = sched
        BY <1>5, <2>4 DEF sched_switch
      <3>2. TypeOK'
        BY <2>1, <2>2, <3>1 DEF IInv, TypeOK
      <3>3. ActiveOK'
        BY <2>1, <3>1 DEF IInv, TypeOK, ActiveOK
      <3> QED
        BY <2>2, <3>1, <3>2, <3>3 DEF IInv, RunqueueConsistent, BitcacheExact, ThreadCount
    <2> QED
      BY <2>3, <2>4
  <1> QED
    BY <1>2, <1>3, <1>4, <1>5 DEF Reschedule, Dispatch

----------------------------------------------------------------------------
(* Safety                                                                  *)

\* Every step of the system without nice keeps the inductive invariant.
LEMMA StepOK ==
    ASSUME NiceTargets = "none", IInv, [Next]_vars
    PROVE  IInv'
  <1>1. CASE Reschedule
    BY <1>1, RescheduleStep
  <1>2. ASSUME NEW t \in Thread, Service(t)
        PROVE  IInv'
    <2>1. CASE thread_sleep(t) \/ thread_zombify(t)
      BY <2>1, BlockStep
    <2>2. CASE thread_yield(t)
      BY <2>2, YieldStep
    <2>3. CASE sched_task_exit(t)
      BY <2>3, ExitStep
    <2>4. ASSUME NEW target \in Thread, thread_wakeup(t, target)
          PROVE  IInv'
      BY <2>4, WakeupStep
    <2>5. ASSUME NEW target \in Thread, thread_kill_zombie(t, target)
          PROVE  IInv'
      BY <2>5, KillZombieStep
    <2>6. ASSUME NEW prio \in Prio, NEW flags \in CreateFlags, thread_create(t, prio, flags)
          PROVE  IInv'
      BY <2>6, CreateStep
    <2>7. ASSUME NEW prio \in Prio, set_own_priority(t, prio)
          PROVE  IInv'
      BY <2>7, OwnPriorityStep
    <2> QED
      BY <1>2, <2>1, <2>2, <2>3, <2>4, <2>5, <2>6, <2>7 DEF Service
  <1>3. ASSUME NEW target \in Thread, isr_thread_wakeup(target)
        PROVE  IInv'
    BY <1>3, IsrWakeupStep
  <1>4. CASE UNCHANGED vars
    BY <1>4 DEF vars, IInv, TypeOK, RunqueueConsistent, BitcacheExact, ThreadCount, ActiveOK
  <1>5. ~Shell
    BY SchedAssumption DEF Shell, nice, nice_yields, IInv, Thread
  <1> QED
    BY <1>1, <1>2, <1>3, <1>4, <1>5 DEF Next

\* The types of the kernel variables, the agreement of status, run queues and
\* bit cache that sched_set_status maintains, and the thread count, hold in
\* every reachable state: no order of service calls and interrupts makes
\* _runqueue_pop remove another thread than the one it is called for.
THEOREM Safety ==
    ASSUME NiceTargets = "none"
    PROVE  Spec => []KernelConsistent
  <1>1. IInv => KernelConsistent
    BY DEF IInv, KernelConsistent
  <1> QED
    BY <1>1, InitOK, StepOK, PTL DEF Spec

----------------------------------------------------------------------------
(* No preemption is lost                                                   *)

\* The active thread after a context switch has the highest priority.
LEMMA ElectedPreempt ==
    ASSUME IInv, Elected(sched, sched'), sched'.active \in Thread \cup {NULL}
    PROVE  PreemptOK'
  <1>1. CASE sched.bitcache = {}
    BY <1>1 DEF Elected, PreemptOK, Executes
  <1>2. CASE sched.bitcache # {}
    <2>1. sched.bitcache \in SUBSET Nat
      BY SchedAssumption DEF IInv, TypeOK, SchedType, Prio
    <2>2. \A p \in sched'.bitcache : sched'.priority[sched'.active] <= p
      BY <1>2, <2>1, MinFacts DEF Elected
    <2> QED
      BY <2>2 DEF PreemptOK, Executes
  <1> QED
    BY <1>1, <1>2

\* Every step keeps it true that no preemption is hidden.
LEMMA PreemptStep ==
    ASSUME NiceTargets = "none", "wout_yield" \notin CreateFlags, IInv, IInv', PreemptOK, [Next]_vars
    PROVE  PreemptOK'
  <1>1. SchedOK(sched) /\ sched \in SchedType /\ sched' \in SchedType
    BY InvFacts DEF IInv, TypeOK
  <1>2. /\ pc \in [Thread -> {"app", "yield", "switch"}]
        /\ other_prio \in [Thread -> Prio]
        /\ sched.priority \in [Thread -> Prio] /\ sched.status \in [Thread -> Status]
        /\ sched.bitcache \in SUBSET Prio /\ sched'.bitcache \in SUBSET Prio
        /\ sched'.active \in Thread \cup {NULL}
    BY <1>1 DEF IInv, TypeOK, SchedType
  <1>3. \A p \in Prio : p \in Int
    BY SchedAssumption DEF Prio
  <1>4. \A u \in Thread : sched.priority[u] \in Int /\ other_prio[u] \in Int
    BY <1>2, <1>3
  <1>5. CASE Reschedule
    <2>1. CASE isr_pendsv
      BY <1>1, <1>2, <2>1, RunOK, ElectedPreempt DEF isr_pendsv
    <2>2. CASE sched_idle_exit
      BY <1>1, <1>2, <2>2, ElectOK, ElectedPreempt DEF sched_idle_exit
    <2>3. ASSUME NEW t \in Thread, thread_yield_higher(t)
          PROVE  PreemptOK'
      BY <1>1, <1>2, <2>3, RunOK, ElectedPreempt DEF thread_yield_higher
    <2>4. ASSUME NEW t \in Thread, sched_switch(t)
          PROVE  PreemptOK'
      <3>1. CASE switch_needed(sched, other_prio[t])
        BY <1>1, <1>2, <2>4, <3>1, RunOK, ElectedPreempt DEF sched_switch
      <3>2. CASE ~switch_needed(sched, other_prio[t])
        <4>1. /\ sched' = sched /\ Executes(t) /\ pc[t] = "switch"
              /\ pc' = [pc EXCEPT ![t] = "app"] /\ sched.active = t
          BY <2>4, <3>2 DEF sched_switch, Executes
        <4>2. sched.priority[t] <= other_prio[t]
          BY <1>4, <3>2, <4>1 DEF switch_needed
        <4>3. \A p \in sched.bitcache : sched.priority[t] <= p
          BY <1>2, <1>3, <1>4, <4>1, <4>2 DEF PreemptOK
        <4> QED
          BY <1>2, <4>1, <4>3 DEF PreemptOK, Executes
      <3> QED
        BY <3>1, <3>2
    <2> QED
      BY <1>5, <2>1, <2>2, <2>3, <2>4 DEF Reschedule, Dispatch
  <1>6. ASSUME NEW t \in Thread, Service(t)
        PROVE  PreemptOK'
    <2>1. ASSUME InApp(t), pc'[t] = "yield", sched'.active = sched.active
          PROVE  PreemptOK'
      BY <2>1, InAppFacts DEF PreemptOK, Executes
    <2>2. CASE thread_sleep(t) \/ thread_zombify(t)
      <3>1. PICK st \in {"sleeping", "zombie"} : sched' = sched_set_status(sched, t, st)
        BY <2>2 DEF thread_sleep, thread_zombify
      <3>2. InApp(t) /\ pc'[t] = "yield"
        BY <1>2, <2>2 DEF thread_sleep, thread_zombify
      <3>3. st \in Status /\ ~OnRunqueue(st)
        BY DEF Status, RunnableStatus, BlockedStatus, OnRunqueue
      <3>4. StatusSet(sched, sched', t, st)
        BY <1>1, <3>1, <3>2, <3>3, InAppFacts, SetStatusOK
      <3> QED
        BY <2>1, <3>2, <3>4 DEF StatusSet
    <2>3. CASE thread_yield(t)
      <3>1. InApp(t) /\ pc'[t] = "yield"
        BY <1>2, <2>3 DEF thread_yield
      <3>2. sched' = sched_runq_advance(sched, sched.priority[t])
        BY <2>3, <3>1, InAppFacts DEF thread_yield, thread_is_active
      <3>3. \E q \in Seq(Thread) : sched' = [sched EXCEPT !.runqueues[sched.priority[t]] = q]
        BY <1>1, <1>2, <3>2, AdvanceOK
      <3>4. sched'.active = sched.active
        BY <1>1, <3>3 DEF SchedType
      <3> QED
        BY <2>1, <3>1, <3>4
    <2>4. CASE sched_task_exit(t)
      <3>1. sched'.active = NULL \/ sched'.request
        BY <1>1, <2>4 DEF sched_task_exit, SchedType
      <3> QED
        BY <3>1 DEF PreemptOK, Executes, NULL, Thread
    <2>5. ASSUME NEW target \in Thread, thread_wakeup(t, target)
          PROVE  PreemptOK'
      <3>1. /\ InApp(t) /\ sched.status[target] = "sleeping"
            /\ sched' = sched_set_status(sched, target, "running")
            /\ pc'[t] = "switch" /\ other_prio'[t] = sched.priority[target]
        BY <1>2, <2>5 DEF thread_wakeup
      <3>2. "running" \in Status /\ OnRunqueue("running") /\ ~OnRunqueue("sleeping")
        BY DEF Status, RunnableStatus, BlockedStatus, OnRunqueue
      <3>3. StatusSet(sched, sched', target, "running")
        BY <1>1, <3>1, <3>2, SetStatusOK
      <3>4. \A p \in sched.bitcache : sched.priority[t] <= p
        BY <3>1 DEF InApp, PreemptOK
      <3>5. /\ sched'.bitcache = sched.bitcache \cup {sched.priority[target]}
            /\ sched'.priority = sched.priority /\ sched'.active = sched.active
        BY <3>2, <3>3 DEF StatusSet
      <3>6. \A p \in sched'.bitcache : sched'.priority[t] <= p \/ other_prio'[t] <= p
        BY <1>4, <3>1, <3>4, <3>5
      <3>7. sched'.active = t
        BY <3>1, <3>5, InAppFacts
      <3> QED
        BY <3>1, <3>6, <3>7 DEF PreemptOK, Executes
    <2>6. ASSUME NEW target \in Thread, thread_kill_zombie(t, target)
          PROVE  PreemptOK'
      <3> DEFINE s == [sched EXCEPT !.threads = @ \ {target}, !.num = @ - 1]
      <3>1. /\ InApp(t) /\ sched.status[target] = "zombie"
            /\ sched' = sched_set_status(s, target, "stopped")
            /\ UNCHANGED <<pc, other_prio>>
        BY <2>6 DEF thread_kill_zombie
      <3>2. "stopped" \in Status /\ ~OnRunqueue("stopped") /\ ~OnRunqueue("zombie")
        BY DEF Status, RunnableStatus, BlockedStatus, OnRunqueue
      <3>3. /\ SchedOK(s) /\ s.status = sched.status /\ s.priority = sched.priority
            /\ s.bitcache = sched.bitcache /\ s.active = sched.active /\ s.idle = sched.idle
            /\ s.request = sched.request
        BY SlotFreed
      <3> HIDE DEF s
      <3>4. StatusSet(s, sched', target, "stopped")
        BY <3>1, <3>2, <3>3, SetStatusOK
      <3> QED
        BY <3>1, <3>2, <3>3, <3>4 DEF PreemptOK, Executes, StatusSet
    <2>7. ASSUME NEW prio \in Prio, NEW flags \in CreateFlags, thread_create(t, prio, flags)
          PROVE  PreemptOK'
      <3>1. PICK pid \in Thread :
                /\ Creates(t, prio, flags, pid, fill_slot(sched, pid, prio))
                /\ pc' = [pc EXCEPT ![pid] = "app", ![t] = IF flags = "none" THEN "switch" ELSE @]
                /\ other_prio' = [other_prio EXCEPT ![t] = IF flags = "none" THEN prio ELSE @]
                /\ InApp(t)
        BY <2>7, CreateFacts
      <3> DEFINE created == fill_slot(sched, pid, prio)
      <3>2. flags \in {"none", "sleeping"}
        BY ThreadsAssumption
      <3>3. /\ sched'.active = t /\ pid # t /\ sched'.priority[t] = sched.priority[t]
            /\ \A p \in sched.bitcache : sched.priority[t] <= p
        <4>1. /\ pid # t /\ sched'.active = sched.active
              /\ sched'.priority = [sched.priority EXCEPT ![pid] = prio]
          BY <3>1 DEF Creates, StatusSet
        <4>2. sched.active = t
          BY <3>1, InAppFacts
        <4>3. \A p \in sched.bitcache : sched.priority[t] <= p
          BY <3>1 DEF PreemptOK, InApp
        <4> QED
          BY <1>2, <4>1, <4>2, <4>3
      <3>4. OnRunqueue("pending") /\ ~OnRunqueue("sleeping") /\ ~OnRunqueue("stopped")
        BY DEF OnRunqueue, RunnableStatus
      <3>5. created.status[pid] = "stopped" /\ created.priority[pid] = prio
        BY <1>2, <3>1, InvFacts DEF Creates
      <3>6. CASE flags = "none"
        <4>1. sched'.bitcache = sched.bitcache \cup {prio}
          BY <3>1, <3>4, <3>5, <3>6 DEF Creates, StatusSet
        <4>2. pc'[t] = "switch" /\ other_prio'[t] = prio
          BY <1>2, <3>1, <3>3, <3>6
        <4> QED
          BY <1>2, <1>3, <3>3, <4>1, <4>2 DEF PreemptOK, Executes
      <3>7. CASE flags = "sleeping"
        <4>1. sched'.bitcache = sched.bitcache
          BY <3>1, <3>4, <3>5, <3>7 DEF Creates, StatusSet
        <4> QED
          BY <1>2, <3>1, <3>3, <3>7, <4>1 DEF PreemptOK, Executes
      <3> QED
        BY <3>2, <3>6, <3>7
    <2>8. ASSUME NEW prio \in Prio, set_own_priority(t, prio)
          PROVE  PreemptOK'
      <3>1. /\ InApp(t) /\ prio # sched.priority[t]
            /\ sched' = change_priority(sched, t, prio)
            /\ pc' = [pc EXCEPT ![t] = "yield"]
        BY <2>8 DEF set_own_priority
      <3>2. sched'.active = sched.active
        BY <1>1, <3>1, InAppFacts, ChangeOK
      <3>3. pc'[t] = "yield"
        BY <1>2, <3>1
      <3> QED
        BY <2>1, <3>1, <3>2, <3>3
    <2> QED
      BY <1>6, <2>2, <2>3, <2>4, <2>5, <2>6, <2>7, <2>8 DEF Service
  <1>7. ASSUME NEW target \in Thread, isr_thread_wakeup(target)
        PROVE  PreemptOK'
    <2> DEFINE r == sched_set_status(sched, target, "running")
    <2>1. /\ sched.status[target] = "sleeping"
          /\ sched' \in isr_sched_switch(r, sched.priority[target])
          /\ UNCHANGED <<pc, other_prio>>
      BY <1>7 DEF isr_thread_wakeup
    <2>2. "running" \in Status /\ OnRunqueue("running") /\ ~OnRunqueue("sleeping")
      BY DEF Status, RunnableStatus, BlockedStatus, OnRunqueue
    <2>3. SchedOK(r) /\ StatusSet(sched, r, target, "running")
      BY <1>1, <2>1, <2>2, SetStatusOK
    <2> HIDE DEF r
    <2>4. r \in SchedType
      BY <2>3 DEF SchedOK
    <2> SUFFICES ASSUME NEW t \in Thread, Executes(t)'
                 PROVE  /\ (pc[t] = "app" => \A p \in sched.bitcache : sched.priority[t] <= p)'
                        /\ (pc[t] = "switch" =>
                              \A p \in sched.bitcache : sched.priority[t] <= p \/ other_prio[t] <= p)'
      BY DEF PreemptOK
    <2>5. r.active # NULL
      <3>1. CASE r.active = NULL
        <4>1. sched'.active = NULL
          BY <2>1, <2>4, <3>1 DEF isr_sched_switch, SchedType
        <4> QED
          BY <4>1 DEF Executes, NULL, Thread
      <3> QED
        BY <3>1
    <2>6. sched' = [r EXCEPT !.request = r.request \/ switch_needed(r, sched.priority[target])]
      BY <2>1, <2>5 DEF isr_sched_switch
    <2>7. /\ sched'.active = r.active /\ sched'.priority = r.priority /\ sched'.bitcache = r.bitcache
          /\ sched'.idle = r.idle /\ sched'.status = r.status
          /\ sched'.request = (r.request \/ switch_needed(r, sched.priority[target]))
      BY <2>4, <2>6 DEF SchedType
    <2>8. /\ r.active = sched.active /\ r.idle = sched.idle /\ r.request = sched.request
          /\ r.priority = sched.priority
          /\ r.bitcache = sched.bitcache \cup {sched.priority[target]}
      BY <2>2, <2>3 DEF StatusSet
    <2>9. /\ Executes(t) /\ r.active = t /\ ~switch_needed(r, sched.priority[target])
      BY <2>7, <2>8 DEF Executes
    <2>10. sched.priority[t] <= sched.priority[target]
      BY <1>4, <2>8, <2>9 DEF switch_needed
    <2>11. /\ pc[t] = "app" => \A p \in sched.bitcache : sched.priority[t] <= p
           /\ pc[t] = "switch" =>
                \A p \in sched.bitcache : sched.priority[t] <= p \/ other_prio[t] <= p
      BY <2>9 DEF PreemptOK
    <2> QED
      BY <2>1, <2>7, <2>8, <2>10, <2>11
  <1>8. CASE UNCHANGED vars
    BY <1>8 DEF vars, PreemptOK, Executes
  <1>9. ~Shell
    BY SchedAssumption DEF Shell, nice, nice_yields, IInv, Thread
  <1> QED
    BY <1>5, <1>6, <1>7, <1>8, <1>9 DEF Next

\* No wake-up, creation, exit or change of priority loses a preemption: when
\* thread_create is not called with THREAD_CREATE_WOUT_YIELD, the thread that
\* runs application code is always the one sched_run would elect.
THEOREM Preemption ==
    ASSUME NiceTargets = "none", "wout_yield" \notin CreateFlags
    PROVE  Spec => []HighestPriorityRuns
  <1>1. Init => PreemptOK
    BY DEF Init, SchedInit, PreemptOK, Executes, NULL, Thread
  <1>2. IInv /\ PreemptOK /\ [Next]_vars => IInv' /\ PreemptOK'
    BY StepOK, PreemptStep
  <1>3. IInv /\ PreemptOK => HighestPriorityRuns
    <2> SUFFICES ASSUME IInv, PreemptOK, NEW t \in Thread, InApp(t)
                 PROVE  sched.bitcache # {} /\ t = Head(sched.runqueues[Min(sched.bitcache)])
      BY DEF HighestPriorityRuns
    <2>1. IsHead(sched, t) /\ sched.priority[t] \in Prio
      BY InvFacts, InAppFacts
    <2>2. sched.priority[t] \in sched.bitcache
      BY <2>1 DEF IsHead, IInv, BitcacheExact, BitcacheOK
    <2>3. sched.bitcache \in SUBSET Nat
      BY SchedAssumption DEF IInv, TypeOK, SchedType, Prio
    <2>4. Min(sched.bitcache) \in sched.bitcache /\ \A p \in sched.bitcache : Min(sched.bitcache) <= p
      BY <2>2, <2>3, MinFacts
    <2>5. \A p \in sched.bitcache : sched.priority[t] <= p
      BY DEF PreemptOK, InApp
    <2>6. Min(sched.bitcache) = sched.priority[t]
      BY <2>2, <2>3, <2>4, <2>5
    <2> QED
      BY <2>1, <2>2, <2>6 DEF IsHead
  <1> QED
    BY <1>1, <1>2, <1>3, InitOK, PTL DEF Spec

----------------------------------------------------------------------------
(* A thread that has ended does not run again                              *)

\* Whether this step makes thread u runnable only if it may: u was runnable
\* before it, or slept, or has just been created in a free slot.
RunnableRightly(u) ==
    OnRunqueue(sched'.status[u]) =>
        \/ OnRunqueue(sched.status[u])
        \/ sched.status[u] = "sleeping"
        \/ u \notin sched.threads /\ u \in sched'.threads

\* A context switch makes no thread runnable.
LEMMA RescheduleRightly ==
    ASSUME IInv, Reschedule, NEW u \in Thread
    PROVE  RunnableRightly(u)
  <1>1. SchedOK(sched)
    BY InvFacts
  <1>2. CASE sched' = sched
    BY <1>2 DEF RunnableRightly
  <1>3. CASE Elected(sched, sched')
    BY <1>3 DEF RunnableRightly, Elected
  <1>4. sched' = sched \/ Elected(sched, sched')
    <2>1. CASE isr_pendsv
      BY <1>1, <2>1, RunOK DEF isr_pendsv
    <2>2. CASE sched_idle_exit
      BY <1>1, <2>2, ElectOK DEF sched_idle_exit
    <2>3. ASSUME NEW t \in Thread, thread_yield_higher(t) \/ sched_switch(t)
          PROVE  sched' = sched \/ Elected(sched, sched')
      BY <1>1, <2>3, RunOK DEF thread_yield_higher, sched_switch
    <2> QED
      BY <2>1, <2>2, <2>3 DEF Reschedule, Dispatch
  <1> QED
    BY <1>2, <1>3, <1>4

\* Of the services, thread_wakeup makes a sleeping thread runnable and
\* thread_create a new one; no other makes a thread runnable.
LEMMA ServiceRightly ==
    ASSUME IInv, NEW t \in Thread, Service(t), NEW u \in Thread
    PROVE  RunnableRightly(u)
  <1>1. /\ SchedOK(sched) /\ sched \in SchedType
        /\ sched.status \in [Thread -> Status] /\ sched.priority \in [Thread -> Prio]
    BY InvFacts DEF SchedOK
  <1>2. /\ {"stopped", "sleeping", "zombie", "running", "pending"} \subseteq Status
        /\ ~OnRunqueue("stopped") /\ ~OnRunqueue("sleeping") /\ ~OnRunqueue("zombie")
        /\ OnRunqueue("running")
    BY DEF Status, RunnableStatus, BlockedStatus, OnRunqueue
  <1>3. CASE sched'.status = sched.status
    BY <1>3 DEF RunnableRightly
  <1>4. ASSUME NEW v \in Thread, NEW st, ~OnRunqueue(st),
               sched'.status = [sched.status EXCEPT ![v] = st]
        PROVE  RunnableRightly(u)
    BY <1>1, <1>4 DEF RunnableRightly
  <1>5. CASE thread_sleep(t) \/ thread_zombify(t)
    <2>1. PICK st \in {"sleeping", "zombie"} : sched' = sched_set_status(sched, t, st)
      BY <1>5 DEF thread_sleep, thread_zombify
    <2>2. InApp(t)
      BY <1>5 DEF thread_sleep, thread_zombify
    <2>3. StatusSet(sched, sched', t, st)
      BY <1>1, <1>2, <2>1, <2>2, InAppFacts, SetStatusOK
    <2> QED
      BY <1>2, <1>4, <2>3 DEF StatusSet
  <1>6. CASE thread_yield(t)
    <2>1. sched' = sched_runq_advance(sched, sched.priority[t]) \/ sched' = sched
      BY <1>6 DEF thread_yield
    <2>2. sched'.status = sched.status
      BY <1>1, <2>1 DEF sched_runq_advance, SchedType
    <2> QED
      BY <1>3, <2>2
  <1>7. CASE sched_task_exit(t)
    <2> DEFINE s == [sched EXCEPT !.threads = @ \ {t}, !.num = @ - 1]
               r == sched_set_status(s, t, "stopped")
    <2>1. sched' = [r EXCEPT !.active = NULL, !.request = TRUE] /\ InApp(t)
      BY <1>7 DEF sched_task_exit
    <2>2. /\ SchedOK(s) /\ s.status = sched.status /\ s.priority = sched.priority
          /\ s.runqueues = sched.runqueues
      BY SlotFreed
    <2> HIDE DEF s
    <2>3. OnRunqueue(s.status[t]) => IsHead(s, t)
      BY <2>1, <2>2, InAppFacts DEF IsHead
    <2>4. SchedOK(r) /\ StatusSet(s, r, t, "stopped")
      BY <1>2, <2>2, <2>3, SetStatusOK
    <2> HIDE DEF r
    <2>5. sched'.status = [sched.status EXCEPT ![t] = "stopped"]
      BY <2>1, <2>2, <2>4 DEF StatusSet, SchedOK, SchedType
    <2> QED
      BY <1>2, <1>4, <2>5
  <1>8. ASSUME NEW target \in Thread, thread_wakeup(t, target)
        PROVE  RunnableRightly(u)
    <2>1. sched.status[target] = "sleeping" /\ sched' = sched_set_status(sched, target, "running")
      BY <1>8 DEF thread_wakeup
    <2>2. StatusSet(sched, sched', target, "running")
      BY <1>1, <1>2, <2>1, SetStatusOK
    <2> QED
      BY <1>1, <2>1, <2>2 DEF StatusSet, RunnableRightly
  <1>9. ASSUME NEW target \in Thread, thread_kill_zombie(t, target)
        PROVE  RunnableRightly(u)
    <2> DEFINE s == [sched EXCEPT !.threads = @ \ {target}, !.num = @ - 1]
    <2>1. sched.status[target] = "zombie" /\ sched' = sched_set_status(s, target, "stopped")
      BY <1>9 DEF thread_kill_zombie
    <2>2. SchedOK(s) /\ s.status = sched.status
      BY SlotFreed
    <2> HIDE DEF s
    <2>3. StatusSet(s, sched', target, "stopped")
      BY <1>2, <2>1, <2>2, SetStatusOK
    <2> QED
      BY <1>2, <1>4, <2>2, <2>3 DEF StatusSet
  <1>10. ASSUME NEW prio \in Prio, NEW flags \in CreateFlags, thread_create(t, prio, flags)
         PROVE  RunnableRightly(u)
    <2>1. PICK pid \in Thread : Creates(t, prio, flags, pid, fill_slot(sched, pid, prio))
      BY <1>10, CreateFacts
    <2>2. /\ pid \notin sched.threads /\ pid \in sched'.threads
          /\ \E st : sched'.status = [sched.status EXCEPT ![pid] = st]
      BY <2>1 DEF Creates, StatusSet
    <2> QED
      BY <1>1, <2>2 DEF RunnableRightly
  <1>11. ASSUME NEW prio \in Prio, set_own_priority(t, prio)
         PROVE  RunnableRightly(u)
    <2>1. InApp(t) /\ prio # sched.priority[t] /\ sched' = change_priority(sched, t, prio)
      BY <1>11 DEF set_own_priority
    <2>2. sched'.status = sched.status
      BY <1>1, <2>1, InAppFacts, ChangeOK
    <2> QED
      BY <1>3, <2>2
  <1> QED
    BY <1>5, <1>6, <1>7, <1>8, <1>9, <1>10, <1>11 DEF Service

\* thread_wakeup in an interrupt handler finds its target asleep.
LEMMA IsrRightly ==
    ASSUME IInv, NEW target \in Thread, isr_thread_wakeup(target), NEW u \in Thread
    PROVE  RunnableRightly(u)
  <1> DEFINE r == sched_set_status(sched, target, "running")
  <1>1. /\ sched.status[target] = "sleeping"
        /\ sched' \in isr_sched_switch(r, sched.priority[target])
    BY DEF isr_thread_wakeup
  <1>2. "running" \in Status /\ OnRunqueue("running") /\ ~OnRunqueue("sleeping")
    BY DEF Status, RunnableStatus, BlockedStatus, OnRunqueue
  <1>3. SchedOK(r) /\ StatusSet(sched, r, target, "running")
    BY <1>1, <1>2, InvFacts, SetStatusOK
  <1> HIDE DEF r
  <1>4. sched'.status = r.status
    BY <1>1, <1>3 DEF isr_sched_switch, SchedOK, SchedType
  <1>5. sched'.status = [sched.status EXCEPT ![target] = "running"]
    BY <1>3, <1>4 DEF StatusSet
  <1>6. u # target => sched'.status[u] = sched.status[u]
    BY <1>5, InvFacts
  <1> QED
    BY <1>1, <1>6 DEF RunnableRightly

\* A thread that has exited or become a zombie never becomes runnable again
\* unless thread_create fills its slot anew: no wake-up in flight, in a thread
\* or in a handler, revives it.
THEOREM Termination ==
    ASSUME NiceTargets = "none"
    PROVE  Spec => TerminatedStaysDead
  <1> DEFINE Dead ==
        \A t \in Thread :
            /\ sched.status[t] \in {"stopped", "zombie"}
            /\ OnRunqueue(sched'.status[t])
            => /\ t \notin sched.threads
               /\ t \in sched'.threads
  <1>1. IInv /\ [Next]_vars => [Dead]_vars
    <2> SUFFICES ASSUME IInv, Next, NEW t \in Thread,
                        sched.status[t] \in {"stopped", "zombie"}, OnRunqueue(sched'.status[t])
                 PROVE  t \notin sched.threads /\ t \in sched'.threads
      OBVIOUS
    <2>1. ~Shell
      BY SchedAssumption DEF Shell, nice, nice_yields, IInv, Thread
    <2>2. RunnableRightly(t)
      BY <2>1, RescheduleRightly, ServiceRightly, IsrRightly DEF Next
    <2> QED
      BY <2>2 DEF RunnableRightly, OnRunqueue, RunnableStatus
  <1> QED
    BY <1>1, InitOK, StepOK, PTL DEF Spec, TerminatedStaysDead
=============================================================================
