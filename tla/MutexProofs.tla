---------------------------- MODULE MutexProofs ----------------------------
(***************************************************************************)
(* Mutexes exclude, a cancelled call does not stay blocked, and only a     *)
(* timeout can leave a mutex locked by nobody, for every number of         *)
(* threads, priorities and mutexes, in builds without priority             *)
(* inheritance.                                                            *)
(***************************************************************************)
EXTENDS Mutex, MutexOpsProofs

\* The threads that wait for mutex m are those in its queue.
QueueOK(m) ==
    /\ ~mutex[m].inherits
    /\ IsInjective(mutex[m].queue)
    /\ Range(mutex[m].queue) = {t \in Thread : sched.status[t] = "mutex_blocked" /\ want[t] = m}
    /\ mutex[m].queue # <<>> => mutex[m].locked

\* What the call thread t is in says of its status
CallOK(t) ==
    /\ sched.status[t] \in {"running", "pending", "sleeping", "mutex_blocked"}
    /\ sched.status[t] = "mutex_blocked" => call[t] \in {"lock", "wait"} /\ ~cancelled[t]
    /\ sched.status[t] = "sleeping" => call[t] = "none"
    /\ call[t] \in {"none", "lock"} => ~cancelled[t]
    /\ holds[t] \cap Signals = {}

\* t has mutex m, or has been given it and will have it when its call returns.
Owns(t, m) ==
    \/ m \in holds[t]
    \/ /\ call[t] \in {"lock", "wait"}
       /\ ~cancelled[t]
       /\ want[t] = m
       /\ OnRunqueue(sched.status[t])

\* At most one thread owns a mutex, which is locked then.
Excludes(m) ==
    /\ \A t, u \in Thread : Owns(t, m) /\ Owns(u, m) => t = u
    /\ \A t \in Thread : Owns(t, m) => mutex[m].locked

\* The inductive invariant
IInv ==
    /\ TypeOK
    /\ SchedOK(sched)
    /\ ActiveOK
    /\ \A m \in Mutexes : QueueOK(m)
    /\ \A t \in Thread : CallOK(t)
    /\ \A m \in Mutexes \ Signals : Excludes(m)

----------------------------------------------------------------------------
(* Facts the steps share                                                   *)

LEMMA StatusFacts ==
    /\ {"running", "pending", "sleeping", "mutex_blocked"} \subseteq Status
    /\ OnRunqueue("running") /\ OnRunqueue("pending")
    /\ ~OnRunqueue("sleeping") /\ ~OnRunqueue("mutex_blocked")
  BY DEF Status, RunnableStatus, BlockedStatus, OnRunqueue

\* The variables and their types
LEMMA TypeFacts ==
    ASSUME TypeOK
    PROVE  /\ \A m \in Mutexes : mutex[m] \in MutexType /\ mutex[m].queue \in Seq(Thread)
           /\ pc \in [Thread -> {"app", "yield", "switch"}]
           /\ other_prio \in [Thread -> Prio]
           /\ call \in [Thread -> {"none", "lock", "init", "wait", "locked"}]
           /\ want \in [Thread -> Mutexes] /\ cancelled \in [Thread -> BOOLEAN]
           /\ holds \in [Thread -> SUBSET Mutexes]
           /\ sched.status \in [Thread -> Status] /\ sched.priority \in [Thread -> Prio]
           /\ NULL \notin Thread
  BY DEF TypeOK, MutexType, SchedType, NULL, Thread

\* A thread that executes code of the calls is the head of its run queue.
LEMMA CallFacts ==
    ASSUME IInv, NEW t \in Thread, NEW point, InCall(t, point)
    PROVE  /\ OnRunqueue(sched.status[t]) /\ IsHead(sched, t) /\ sched.active = t
           /\ call[t] = point /\ pc[t] = "app"
  BY DEF InCall, Executes, IInv, ActiveOK

\* Other threads are in the same calls as before.
OthersSame(t) ==
    \A u \in Thread \ {t} : /\ call'[u] = call[u] /\ want'[u] = want[u]
                            /\ cancelled'[u] = cancelled[u] /\ holds'[u] = holds[u]

\* A step in the call of thread t that leaves alone the scheduler and the
\* queues: t may come to own a mutex that was free.
LEMMA OwnStep ==
    ASSUME IInv, TypeOK', NEW t \in Thread, OthersSame(t),
           UNCHANGED <<sched, pc, other_prio>>, CallOK(t)',
           sched.status[t] # "mutex_blocked",
           \A m \in Mutexes : /\ mutex'[m].queue = mutex[m].queue
                              /\ mutex'[m].inherits = mutex[m].inherits
                              /\ mutex[m].locked => mutex'[m].locked,
           \A m \in Mutexes \ Signals :
               Owns(t, m)' => /\ Owns(t, m) \/ ~mutex[m].locked
                              /\ mutex'[m].locked
    PROVE  IInv'
  <1>1. ASSUME NEW m \in Mutexes PROVE QueueOK(m)'
    <2>1. QueueOK(m)
      BY DEF IInv
    <2>2. \A u \in Thread : sched.status[u] = "mutex_blocked" => want'[u] = want[u]
      BY DEF OthersSame
    <2> QED
      BY <2>1, <2>2 DEF QueueOK
  <1>2. ASSUME NEW u \in Thread PROVE CallOK(u)'
    BY DEF IInv, CallOK, OthersSame
  <1>3. ASSUME NEW m \in Mutexes \ Signals PROVE Excludes(m)'
    <2>1. \A u \in Thread \ {t} : Owns(u, m)' <=> Owns(u, m)
      BY DEF OthersSame, Owns
    <2> QED
      BY <2>1 DEF IInv, Excludes
  <1>4. SchedOK(sched') /\ ActiveOK'
    BY DEF IInv, ActiveOK
  <1> QED
    BY <1>1, <1>2, <1>3, <1>4 DEF IInv

\* A step that leaves the calls and the mutexes alone: threads are switched,
\* go to sleep or are woken.
LEMMA SchedStep ==
    ASSUME IInv, SchedOK(sched'), ActiveOK', UNCHANGED mutexVars,
           pc' \in [Thread -> {"app", "yield", "switch"}], other_prio' \in [Thread -> Prio],
           \A u \in Thread :
               \/ sched'.status[u] = sched.status[u]
               \/ OnRunqueue(sched.status[u]) /\ OnRunqueue(sched'.status[u])
               \/ /\ call[u] = "none" /\ sched.status[u] # "mutex_blocked"
                  /\ sched'.status[u] \in {"sleeping", "running"}
    PROVE  IInv'
  <1>1. UNCHANGED <<mutex, call, want, cancelled, holds>>
    BY DEF mutexVars
  <1>2. TypeOK'
    BY <1>1 DEF IInv, TypeOK, SchedOK
  <1>3. \A u \in Thread : sched'.status[u] = "mutex_blocked" <=> sched.status[u] = "mutex_blocked"
    BY StatusFacts
  <1>4. ASSUME NEW m \in Mutexes PROVE QueueOK(m)'
    BY <1>1, <1>3 DEF IInv, QueueOK
  <1>5. ASSUME NEW u \in Thread PROVE CallOK(u)'
    BY <1>1, StatusFacts DEF IInv, CallOK, OnRunqueue, RunnableStatus
  <1>6. ASSUME NEW m \in Mutexes \ Signals PROVE Excludes(m)'
    <2>1. \A u \in Thread : Owns(u, m)' => Owns(u, m)
      BY <1>1, StatusFacts DEF Owns
    <2> QED
      BY <1>1, <2>1 DEF IInv, Excludes
  <1> QED
    BY <1>2, <1>4, <1>5, <1>6 DEF IInv

----------------------------------------------------------------------------
(* Steps that change a queue or unlock a mutex                             *)

\* What unlocking mutex m does beside it: the unlocking thread may go to sleep,
\* and m is taken from those who own it.
Unlocks(m) ==
    /\ UNCHANGED <<call, want, cancelled>>
    /\ \A n \in Mutexes \ {m} : mutex'[n] = mutex[n]
    /\ \A u \in Thread : holds'[u] \subseteq holds[u]
    /\ m \notin Signals => \A u \in Thread : /\ m \notin holds'[u]
                                             /\ Owns(u, m) => call[u] = "none"

\* Thread u keeps its status, or goes to sleep outside the calls.
StaysOrSleeps(u) ==
    \/ sched'.status[u] = sched.status[u]
    \/ /\ sched'.status[u] = "sleeping" /\ sched.status[u] # "mutex_blocked"
       /\ call[u] = "none"

\* The mutex is free afterwards.
LEMMA FreeStep ==
    ASSUME IInv, TypeOK', SchedOK(sched'), ActiveOK', NEW m \in Mutexes, Unlocks(m),
           mutex[m].queue = <<>>, mutex'[m] = [mutex[m] EXCEPT !.locked = FALSE],
           \A u \in Thread : StaysOrSleeps(u)
    PROVE  IInv'
  <1>1. /\ mutex'[m].queue = <<>> /\ mutex'[m].inherits = mutex[m].inherits
        /\ mutex[m] \in MutexType
    BY TypeFacts, LockedUpdate DEF IInv
  <1>2. \A u \in Thread : sched'.status[u] = "mutex_blocked" <=> sched.status[u] = "mutex_blocked"
    BY DEF StaysOrSleeps
  <1>3. ASSUME NEW n \in Mutexes PROVE QueueOK(n)'
    <2>1. QueueOK(n) /\ want' = want
      BY DEF IInv, Unlocks
    <2>2. CASE n = m
      BY <1>1, <1>2, <2>1, <2>2 DEF QueueOK
    <2>3. CASE n # m
      BY <1>2, <2>1, <2>3 DEF QueueOK, Unlocks
    <2> QED
      BY <2>2, <2>3
  <1>4. ASSUME NEW u \in Thread PROVE CallOK(u)'
    BY DEF IInv, CallOK, Unlocks, StaysOrSleeps
  <1>5. ASSUME NEW n \in Mutexes \ Signals PROVE Excludes(n)'
    <2>1. \A u \in Thread : Owns(u, n)' => Owns(u, n) /\ (call[u] # "none" \/ n \in holds'[u])
      BY StatusFacts DEF Owns, Unlocks, StaysOrSleeps
    <2>2. CASE n = m
      <3>1. \A u \in Thread : ~Owns(u, n)'
        BY <2>1, <2>2 DEF Unlocks
      <3> QED
        BY <3>1 DEF Excludes
    <2>3. CASE n # m
      BY <2>1, <2>3 DEF IInv, Excludes, Unlocks
    <2> QED
      BY <2>2, <2>3
  <1> QED
    BY <1>3, <1>4, <1>5 DEF IInv

\* The first thread that waits gets the mutex.
LEMMA GiveStep ==
    ASSUME IInv, TypeOK', SchedOK(sched'), ActiveOK', NEW m \in Mutexes, Unlocks(m),
           mutex[m].queue # <<>>,
           mutex'[m] = [mutex[m] EXCEPT !.queue = Tail(mutex[m].queue)],
           NEW w, w = Head(mutex[m].queue), sched'.status[w] = "pending",
           \A u \in Thread \ {w} : StaysOrSleeps(u)
    PROVE  IInv'
  <1>1. mutex[m] \in MutexType /\ mutex[m].queue \in Seq(Thread) /\ QueueOK(m)
    BY TypeFacts DEF IInv
  <1>2. /\ w \in Range(mutex[m].queue) /\ Tail(mutex[m].queue) \in Seq(Thread)
        /\ IsInjective(Tail(mutex[m].queue))
        /\ Range(Tail(mutex[m].queue)) = Range(mutex[m].queue) \ {w}
    BY <1>1, TailFacts DEF QueueOK
  <1>3. /\ w \in Thread /\ sched.status[w] = "mutex_blocked" /\ want[w] = m
        /\ mutex[m].locked
    BY <1>1, <1>2 DEF QueueOK
  <1>4. /\ mutex'[m].queue = Tail(mutex[m].queue) /\ mutex'[m].locked = mutex[m].locked
        /\ mutex'[m].inherits = mutex[m].inherits
    BY <1>1, <1>2, QueueUpdated
  <1>5. \A u \in Thread : sched'.status[u] = "mutex_blocked"
                            <=> sched.status[u] = "mutex_blocked" /\ u # w
    BY DEF StaysOrSleeps
  <1>6. ASSUME NEW n \in Mutexes PROVE QueueOK(n)'
    <2>1. QueueOK(n) /\ want' = want
      BY DEF IInv, Unlocks
    <2>2. CASE n = m
      <3>1. Range(Tail(mutex[m].queue))
              = {u \in Thread : sched'.status[u] = "mutex_blocked" /\ want'[u] = m}
        BY <1>1, <1>2, <1>5, <2>1 DEF QueueOK
      <3> QED
        BY <1>2, <1>3, <1>4, <2>1, <2>2, <3>1 DEF QueueOK
    <2>3. CASE n # m
      <3>1. mutex'[n] = mutex[n]
        BY <2>3 DEF Unlocks
      <3>2. {u \in Thread : sched'.status[u] = "mutex_blocked" /\ want'[u] = n}
              = {u \in Thread : sched.status[u] = "mutex_blocked" /\ want[u] = n}
        BY <1>3, <1>5, <2>1, <2>3
      <3> QED
        BY <2>1, <3>1, <3>2 DEF QueueOK
    <2> QED
      BY <2>2, <2>3
  <1>7. ASSUME NEW u \in Thread PROVE CallOK(u)'
    <2>1. CallOK(u) /\ UNCHANGED <<call, want, cancelled>> /\ holds'[u] \subseteq holds[u]
      BY DEF IInv, Unlocks
    <2>2. CASE u = w
      BY <2>1, <2>2 DEF CallOK
    <2>3. CASE u # w
      BY <2>1, <2>3 DEF CallOK, StaysOrSleeps
    <2> QED
      BY <2>2, <2>3
  <1>8. ASSUME NEW n \in Mutexes \ Signals PROVE Excludes(n)'
    <2>1. \A u \in Thread \ {w} :
              Owns(u, n)' => Owns(u, n) /\ (call[u] # "none" \/ n \in holds'[u])
      BY StatusFacts DEF Owns, Unlocks, StaysOrSleeps
    <2>2. CASE n = m
      <3>1. \A u \in Thread \ {w} : ~Owns(u, n)'
        BY <2>1, <2>2 DEF Unlocks
      <3> QED
        BY <1>3, <1>4, <2>2, <3>1 DEF Excludes
    <2>3. CASE n # m
      <3>1. Owns(w, n)' => Owns(w, n)
        BY <1>3, <2>3 DEF Owns, Unlocks
      <3> QED
        BY <2>1, <2>3, <3>1 DEF IInv, Excludes, Unlocks
    <2> QED
      BY <2>2, <2>3
  <1> QED
    BY <1>6, <1>7, <1>8 DEF IInv

\* A thread joins the queue of a mutex, having found it locked.
LEMMA BlockStep ==
    ASSUME IInv, NEW t \in Thread, NEW m \in Mutexes,
           NEW point \in {"none", "init"}, InCall(t, point), ~cancelled[t],
           block(t, m), NEW next \in {"lock", "wait"}, call' = [call EXCEPT ![t] = next]
    PROVE  IInv'
  <1> DEFINE k == mutex_block(sched, mutex[m], t)
  <1>1. PICK q : q = thread_add_to_list(sched, mutex[m].queue, t)
    OBVIOUS
  <1>2. /\ mutex[m].locked /\ sched' = k.sched /\ mutex' = [mutex EXCEPT ![m] = k.mutex]
        /\ pc' = [pc EXCEPT ![t] = "yield"] /\ want' = [want EXCEPT ![t] = m]
        /\ UNCHANGED <<other_prio, cancelled, holds>>
    BY DEF block
  <1>3. /\ k.sched = sched_set_status(sched, t, "mutex_blocked")
        /\ k.mutex = [mutex[m] EXCEPT !.queue = q]
    BY <1>1, BlockEffect DEF IInv, QueueOK
  <1> HIDE DEF k
  <1>4. /\ mutex \in [Mutexes -> MutexType] /\ mutex[m] \in MutexType
        /\ mutex[m].queue \in Seq(Thread) /\ QueueOK(m)
        /\ call \in [Thread -> {"none", "lock", "init", "wait", "locked"}]
        /\ want \in [Thread -> Mutexes] /\ sched.status \in [Thread -> Status]
        /\ pc \in [Thread -> {"app", "yield", "switch"}]
    BY TypeFacts DEF IInv, TypeOK
  <1>5. /\ OnRunqueue(sched.status[t]) /\ IsHead(sched, t) /\ sched.active = t /\ call[t] = point
    BY CallFacts
  <1>6. SchedOK(sched') /\ ActiveOK' /\ StatusSet(sched, sched', t, "mutex_blocked")
    BY <1>2, <1>3, <1>4, <1>5, BlockedActive DEF IInv, BlockedStatus
  <1>7. /\ sched'.status[t] = "mutex_blocked"
        /\ \A u \in Thread \ {t} : sched'.status[u] = sched.status[u]
    BY <1>4, <1>6 DEF StatusSet
  <1>8. t \notin Range(mutex[m].queue) /\ IsInjective(mutex[m].queue)
    BY <1>4, <1>5, StatusFacts DEF QueueOK
  <1>9. q \in Seq(Thread) /\ IsInjective(q) /\ Range(q) = Range(mutex[m].queue) \cup {t}
    BY <1>1, <1>4, <1>8, AddFacts
  <1>10. /\ mutex'[m] \in MutexType /\ mutex'[m].locked /\ mutex'[m].queue = q
         /\ mutex'[m].inherits = mutex[m].inherits
    <2>1. mutex'[m] = [mutex[m] EXCEPT !.queue = q]
      BY <1>2, <1>3, <1>4
    <2>2. /\ [mutex[m] EXCEPT !.queue = q] \in MutexType
          /\ [mutex[m] EXCEPT !.queue = q].locked = mutex[m].locked
          /\ [mutex[m] EXCEPT !.queue = q].queue = q
          /\ [mutex[m] EXCEPT !.queue = q].inherits = mutex[m].inherits
      BY <1>4, <1>9, QueueUpdated
    <2> QED
      BY <1>2, <2>1, <2>2
  <1>11. \A n \in Mutexes \ {m} : mutex'[n] = mutex[n]
    BY <1>2, <1>4
  <1>12. TypeOK'
    <2>1. mutex' \in [Mutexes -> MutexType]
      BY <1>2, <1>4, <1>10
    <2> QED
      BY <1>2, <1>4, <1>6, <2>1 DEF IInv, TypeOK, SchedOK
  <1>13. call'[t] = next /\ want'[t] = m /\ OthersSame(t)
    BY <1>2, <1>4 DEF OthersSame
  <1>14. ASSUME NEW n \in Mutexes PROVE QueueOK(n)'
    <2>1. QueueOK(n)
      BY DEF IInv
    <2>2. CASE n = m
      <3>1. Range(q) = {u \in Thread : sched'.status[u] = "mutex_blocked" /\ want'[u] = m}
        BY <1>4, <1>7, <1>9, <1>13 DEF QueueOK, OthersSame
      <3> QED
        BY <1>9, <1>10, <2>1, <2>2, <3>1 DEF QueueOK
    <2>3. CASE n # m
      <3>1. {u \in Thread : sched'.status[u] = "mutex_blocked" /\ want'[u] = n}
              = {u \in Thread : sched.status[u] = "mutex_blocked" /\ want[u] = n}
        BY <1>5, <1>7, <1>13, <2>3, StatusFacts DEF OthersSame
      <3> QED
        BY <1>11, <2>1, <2>3, <3>1 DEF QueueOK
    <2> QED
      BY <2>2, <2>3
  <1>15. ASSUME NEW u \in Thread PROVE CallOK(u)'
    <2>1. CallOK(u) /\ UNCHANGED <<cancelled, holds>>
      BY <1>2 DEF IInv
    <2>2. CASE u = t
      BY <1>7, <1>13, <2>1, <2>2 DEF CallOK
    <2>3. CASE u # t
      BY <1>7, <1>13, <2>1, <2>3 DEF CallOK, OthersSame
    <2> QED
      BY <2>2, <2>3
  <1>16. ASSUME NEW n \in Mutexes \ Signals PROVE Excludes(n)'
    <2>1. ASSUME NEW u \in Thread, Owns(u, n)' PROVE Owns(u, n)
      <3>1. CASE u = t
        BY <1>2, <1>7, <2>1, <3>1, StatusFacts DEF Owns
      <3>2. CASE u # t
        BY <1>7, <1>13, <2>1, <3>2 DEF Owns, OthersSame
      <3> QED
        BY <3>1, <3>2
    <2>2. mutex[n].locked => mutex'[n].locked
      BY <1>10, <1>11
    <2> QED
      BY <2>1, <2>2 DEF IInv, Excludes
  <1> QED
    BY <1>6, <1>12, <1>14, <1>15, <1>16 DEF IInv

\* timeout_cb finds the thread in the queue: it leaves the queue and is woken.
LEMMA DequeueStep ==
    ASSUME IInv, NEW t \in Thread, call[t] \in {"init", "wait", "locked"},
           t \in Range(mutex[want[t]].queue), dequeue(t),
           cancelled' = [cancelled EXCEPT ![t] = TRUE],
           UNCHANGED <<pc, other_prio, call, want, holds>>
    PROVE  IInv'
  <1> DEFINE r == sched_set_status(sched, t, "pending")
  <1>1. PICK m \in Mutexes : m = want[t]
    BY TypeFacts DEF IInv
  <1>2. PICK q : q = list_remove(mutex[m].queue, t)
    OBVIOUS
  <1>3. /\ mutex \in [Mutexes -> MutexType] /\ mutex[m] \in MutexType
        /\ mutex[m].queue \in Seq(Thread) /\ QueueOK(m)
        /\ sched.status \in [Thread -> Status] /\ cancelled \in [Thread -> BOOLEAN]
    BY TypeFacts DEF IInv, TypeOK
  <1>4. /\ sched.status[t] = "mutex_blocked" /\ ~OnRunqueue(sched.status[t])
        /\ call[t] = "wait" /\ mutex[m].locked /\ CallOK(t)
    <2>1. sched.status[t] = "mutex_blocked" /\ CallOK(t)
      BY <1>1, <1>3 DEF QueueOK, IInv
    <2>2. mutex[m].queue # <<>>
      BY <1>1 DEF Range
    <2> QED
      BY <1>3, <2>1, <2>2, StatusFacts DEF QueueOK, CallOK
  <1>5. q \in Seq(Thread) /\ IsInjective(q) /\ Range(q) = Range(mutex[m].queue) \ {t}
    BY <1>1, <1>2, <1>3, RemoveFacts DEF QueueOK
  <1>6. /\ mutex'[m] \in MutexType /\ mutex'[m].locked /\ mutex'[m].queue = q
        /\ mutex'[m].inherits = mutex[m].inherits
        /\ \A n \in Mutexes \ {m} : mutex'[n] = mutex[n]
        /\ mutex' \in [Mutexes -> MutexType]
    <2>1. mutex' = [mutex EXCEPT ![m] = [mutex[m] EXCEPT !.queue = q]]
      BY <1>1, <1>2, <1>3 DEF dequeue
    <2>2. /\ [mutex[m] EXCEPT !.queue = q] \in MutexType
          /\ [mutex[m] EXCEPT !.queue = q].locked = mutex[m].locked
          /\ [mutex[m] EXCEPT !.queue = q].queue = q
          /\ [mutex[m] EXCEPT !.queue = q].inherits = mutex[m].inherits
      BY <1>3, <1>5, QueueUpdated
    <2>3. mutex'[m] = [mutex[m] EXCEPT !.queue = q]
      BY <1>3, <2>1
    <2> QED
      BY <1>3, <1>4, <2>1, <2>2, <2>3
  <1>7. SchedOK(r)
    BY <1>4, StatusFacts, SetStatusOK DEF IInv
  <1>8. \E b \in BOOLEAN : sched' = [r EXCEPT !.request = b]
    BY <1>7, IsrSwitch DEF dequeue
  <1>9. /\ SchedOK(sched') /\ ActiveOK'
        /\ sched'.status = [sched.status EXCEPT ![t] = "pending"]
    BY <1>4, <1>8, RunnableActive DEF IInv, RunnableStatus
  <1>10. /\ sched'.status[t] = "pending" /\ cancelled'[t]
         /\ \A u \in Thread \ {t} : sched'.status[u] = sched.status[u] /\ cancelled'[u] = cancelled[u]
    BY <1>3, <1>9
  <1>11. TypeOK'
    BY <1>3, <1>6, <1>9 DEF IInv, TypeOK, SchedOK
  <1>12. ASSUME NEW n \in Mutexes PROVE QueueOK(n)'
    <2>1. QueueOK(n)
      BY DEF IInv
    <2>2. CASE n = m
      <3>1. Range(q) = {u \in Thread : sched'.status[u] = "mutex_blocked" /\ want'[u] = m}
        BY <1>3, <1>5, <1>10 DEF QueueOK
      <3> QED
        BY <1>5, <1>6, <2>1, <2>2, <3>1 DEF QueueOK
    <2>3. CASE n # m
      <3>1. {u \in Thread : sched'.status[u] = "mutex_blocked" /\ want'[u] = n}
              = {u \in Thread : sched.status[u] = "mutex_blocked" /\ want[u] = n}
        BY <1>1, <1>10, <2>3
      <3> QED
        BY <1>6, <2>1, <2>3, <3>1 DEF QueueOK
    <2> QED
      BY <2>2, <2>3
  <1>13. ASSUME NEW u \in Thread PROVE CallOK(u)'
    <2>1. CallOK(u)
      BY DEF IInv
    <2>2. CASE u = t
      BY <1>4, <1>10, <2>1, <2>2 DEF CallOK
    <2>3. CASE u # t
      BY <1>10, <2>1, <2>3 DEF CallOK
    <2> QED
      BY <2>2, <2>3
  <1>14. ASSUME NEW n \in Mutexes \ Signals PROVE Excludes(n)'
    <2>1. \A u \in Thread : Owns(u, n)' => Owns(u, n)
      BY <1>10 DEF Owns
    <2>2. mutex[n].locked => mutex'[n].locked
      BY <1>6
    <2> QED
      BY <2>1, <2>2 DEF IInv, Excludes
  <1> QED
    BY <1>9, <1>11, <1>12, <1>13, <1>14 DEF IInv

----------------------------------------------------------------------------
(* The actions                                                             *)

\* A thread takes a mutex that is free.
LEMMA TakeStep ==
    ASSUME IInv, NEW t \in Thread, NEW m \in Mutexes,
           NEW point \in {"none", "init"}, InCall(t, point), ~cancelled[t], take(t, m),
           NEW next \in {"none", "locked"}, call' = [call EXCEPT ![t] = next]
    PROVE  IInv'
  <1>1. /\ ~mutex[m].locked /\ mutex' = [mutex EXCEPT ![m] = mutex_take(sched, mutex[m], t)]
        /\ holds' = [holds EXCEPT ![t] = IF m \in Signals THEN holds[t] ELSE holds[t] \cup {m}]
        /\ UNCHANGED <<sched, pc, other_prio, want, cancelled>>
    BY DEF take, Held
  <1>2. /\ mutex \in [Mutexes -> MutexType] /\ mutex[m] \in MutexType
        /\ call \in [Thread -> {"none", "lock", "init", "wait", "locked"}]
        /\ holds \in [Thread -> SUBSET Mutexes]
    BY TypeFacts DEF IInv, TypeOK
  <1>3. mutex_take(sched, mutex[m], t) = [mutex[m] EXCEPT !.locked = TRUE]
    BY DEF mutex_take, IInv, QueueOK
  <1>4. /\ [mutex[m] EXCEPT !.locked = TRUE] \in MutexType
        /\ [mutex[m] EXCEPT !.locked = TRUE].locked
        /\ [mutex[m] EXCEPT !.locked = TRUE].queue = mutex[m].queue
        /\ [mutex[m] EXCEPT !.locked = TRUE].inherits = mutex[m].inherits
    <2>1. PICK mx : mx = mutex[m]
      OBVIOUS
    <2>2. mx \in MutexType
      BY <1>2, <2>1
    <2> QED
      BY <2>1, <2>2, LockedUpdate
  <1>5. /\ mutex' \in [Mutexes -> MutexType]
        /\ mutex'[m] = [mutex[m] EXCEPT !.locked = TRUE]
        /\ \A n \in Mutexes \ {m} : mutex'[n] = mutex[n]
    BY <1>1, <1>2, <1>3, <1>4
  <1>6. TypeOK'
    BY <1>1, <1>2, <1>5 DEF IInv, TypeOK
  <1>7. /\ OthersSame(t) /\ call'[t] = next
        /\ holds'[t] = IF m \in Signals THEN holds[t] ELSE holds[t] \cup {m}
    BY <1>1, <1>2 DEF OthersSame
  <1>8. OnRunqueue(sched.status[t]) /\ sched.status[t] # "mutex_blocked"
    BY CallFacts, StatusFacts
  <1>9. CallOK(t)'
    BY <1>1, <1>7, <1>8, StatusFacts DEF IInv, CallOK
  <1>10. \A n \in Mutexes : /\ mutex'[n].queue = mutex[n].queue
                            /\ mutex'[n].inherits = mutex[n].inherits
                            /\ mutex[n].locked => mutex'[n].locked
    BY <1>4, <1>5
  <1>11. ASSUME NEW n \in Mutexes \ Signals, Owns(t, n)'
         PROVE  (Owns(t, n) \/ ~mutex[n].locked) /\ mutex'[n].locked
    <2>1. n \in holds[t] \/ n = m
      BY <1>7, <1>11 DEF Owns
    <2>2. n \in holds[t] => Owns(t, n) /\ mutex[n].locked
      BY DEF IInv, Excludes, Owns
    <2> QED
      BY <1>1, <1>4, <1>5, <1>10, <2>1, <2>2
  <1> QED
    BY <1>1, <1>6, <1>7, <1>8, <1>9, <1>10, <1>11, OwnStep

\* A step of the call of thread t, after which it holds no more than it owned
LEMMA ReturnStep ==
    ASSUME IInv, NEW t \in Thread, NEW point, InCall(t, point),
           UNCHANGED <<sched, pc, other_prio, mutex>>, OthersSame(t),
           call' \in [Thread -> {"none", "lock", "init", "wait", "locked"}],
           want' \in [Thread -> Mutexes], cancelled' \in [Thread -> BOOLEAN],
           holds' \in [Thread -> SUBSET Mutexes],
           call'[t] \in {"none", "init", "locked"}, ~cancelled'[t],
           holds'[t] \cap Signals = {}, \A m \in holds'[t] : Owns(t, m)
    PROVE  IInv'
  <1>1. TypeOK'
    BY DEF IInv, TypeOK
  <1>2. OnRunqueue(sched.status[t]) /\ sched.status[t] # "mutex_blocked"
    BY CallFacts, StatusFacts
  <1>3. CallOK(t)'
    BY <1>2, StatusFacts DEF IInv, CallOK
  <1>4. ASSUME NEW n \in Mutexes \ Signals, Owns(t, n)'
        PROVE  Owns(t, n) /\ mutex[n].locked
    BY <1>4 DEF Owns, IInv, Excludes
  <1> QED
    BY <1>1, <1>2, <1>3, <1>4, OwnStep

\* mutex_lock and the calls with a timeout
LEMMA LockSteps ==
    ASSUME IInv, NEW t \in Thread,
           \/ \E m \in Mutexes : mutex_lock_internal(t, m) \/ ztimer_mutex_lock_timeout(t, m)
           \/ mutex_lock_returns(t) \/ mutex_lock_cancelable(t)
           \/ mutex_lock_cancelable_returns(t) \/ ztimer_remove(t)
    PROVE  IInv'
  <1>0. /\ call \in [Thread -> {"none", "lock", "init", "wait", "locked"}]
        /\ want \in [Thread -> Mutexes] /\ cancelled \in [Thread -> BOOLEAN]
        /\ holds \in [Thread -> SUBSET Mutexes] /\ CallOK(t)
    BY TypeFacts DEF IInv
  <1>1. ASSUME NEW m \in Mutexes, mutex_lock_internal(t, m) PROVE IInv'
    <2>1. InCall(t, "none") /\ call[t] = "none" /\ ~cancelled[t]
      BY <1>0, <1>1 DEF mutex_lock_internal, InApp, InCall, CallOK
    <2>2. CASE take(t, m) /\ UNCHANGED call
      <3>1. call' = [call EXCEPT ![t] = "none"]
        BY <1>0, <2>1, <2>2
      <3> QED
        BY <2>1, <2>2, <3>1, TakeStep
    <2>3. CASE block(t, m) /\ call' = [call EXCEPT ![t] = "lock"]
      BY <2>1, <2>3, BlockStep
    <2> QED
      BY <1>1, <2>2, <2>3 DEF mutex_lock_internal
  <1>2. ASSUME NEW m \in Mutexes, ztimer_mutex_lock_timeout(t, m) PROVE IInv'
    <2>1. InCall(t, "none")
      BY <1>2 DEF ztimer_mutex_lock_timeout, InApp, InCall
    <2>2. /\ call' = [call EXCEPT ![t] = "init"] /\ want' = [want EXCEPT ![t] = m]
          /\ cancelled' = [cancelled EXCEPT ![t] = FALSE]
          /\ UNCHANGED <<sched, pc, other_prio, mutex, holds>>
      BY <1>2 DEF ztimer_mutex_lock_timeout
    <2>3. OthersSame(t) /\ call'[t] = "init" /\ ~cancelled'[t]
      BY <1>0, <2>2 DEF OthersSame
    <2>4. holds'[t] \cap Signals = {} /\ \A n \in holds'[t] : Owns(t, n)
      BY <1>0, <2>2 DEF CallOK, Owns
    <2> QED
      BY <1>0, <2>1, <2>2, <2>3, <2>4, ReturnStep
  <1>3. ASSUME NEW point \in {"lock", "wait"}, InCall(t, point), ~cancelled[t],
               NEW next \in {"none", "locked"}, call' = [call EXCEPT ![t] = next],
               Held(t, want[t]), UNCHANGED <<sched, pc, other_prio, mutex, want, cancelled>>
        PROVE  IInv'
    <2>1. OnRunqueue(sched.status[t]) /\ call[t] = point
      BY <1>3, CallFacts
    <2>2. Owns(t, want[t])
      BY <1>3, <2>1 DEF Owns
    <2>3. holds' = [holds EXCEPT ![t] = IF want[t] \in Signals THEN holds[t] ELSE holds[t] \cup {want[t]}]
      BY <1>3 DEF Held
    <2>4. /\ OthersSame(t) /\ call'[t] = next
          /\ holds'[t] = IF want[t] \in Signals THEN holds[t] ELSE holds[t] \cup {want[t]}
      BY <1>0, <1>3, <2>3 DEF OthersSame
    <2>5. holds' \in [Thread -> SUBSET Mutexes]
      BY <1>0, <2>3
    <2>6. holds'[t] \cap Signals = {} /\ \A n \in holds'[t] : Owns(t, n)
      BY <1>0, <2>2, <2>4 DEF CallOK, Owns
    <2> QED
      BY <1>0, <1>3, <2>4, <2>5, <2>6, ReturnStep
  <1>4. CASE mutex_lock_returns(t)
    BY <1>0, <1>3, <1>4 DEF mutex_lock_returns, InCall, CallOK
  <1>5. ASSUME NEW point, InCall(t, point), call' = [call EXCEPT ![t] = "none"],
               cancelled' = [cancelled EXCEPT ![t] = FALSE],
               UNCHANGED <<sched, pc, other_prio, mutex, want, holds>>
        PROVE  IInv'
    <2>1. OthersSame(t) /\ call'[t] = "none" /\ ~cancelled'[t]
      BY <1>0, <1>5 DEF OthersSame
    <2>2. holds'[t] \cap Signals = {} /\ \A n \in holds'[t] : Owns(t, n)
      BY <1>0, <1>5 DEF CallOK, Owns
    <2> QED
      BY <1>0, <1>5, <2>1, <2>2, ReturnStep
  <1>6. CASE mutex_lock_cancelable(t)
    <2>1. InCall(t, "init") /\ want[t] \in Mutexes
      BY <1>0, <1>6 DEF mutex_lock_cancelable
    <2>2. CASE cancelled_return(t)
      BY <1>5, <2>1, <2>2 DEF cancelled_return
    <2>3. CASE ~cancelled[t] /\ take(t, want[t]) /\ call' = [call EXCEPT ![t] = "locked"]
      BY <2>1, <2>3, TakeStep
    <2>4. CASE ~cancelled[t] /\ block(t, want[t]) /\ call' = [call EXCEPT ![t] = "wait"]
      BY <2>1, <2>4, BlockStep
    <2> QED
      BY <1>6, <2>2, <2>3, <2>4 DEF mutex_lock_cancelable
  <1>7. CASE mutex_lock_cancelable_returns(t)
    <2>1. CASE cancelled_return(t)
      BY <1>5, <1>7, <2>1 DEF cancelled_return, mutex_lock_cancelable_returns
    <2>2. CASE ~cancelled_return(t)
      BY <1>3, <1>7, <2>2 DEF mutex_lock_cancelable_returns
    <2> QED
      BY <2>1, <2>2
  <1>8. CASE ztimer_remove(t)
    BY <1>5, <1>8 DEF ztimer_remove
  <1> QED
    BY <1>1, <1>2, <1>4, <1>6, <1>7, <1>8

\* The thread that unlocks a mutex is the only one that owns it.
LEMMA HolderUnlocks ==
    ASSUME IInv, NEW t \in Thread, NEW m \in Mutexes, InApp(t), m \in holds[t],
           UNCHANGED <<call, want, cancelled>>, NEW mx, mutex' = [mutex EXCEPT ![m] = mx],
           holds' = [holds EXCEPT ![t] = holds[t] \ {m}]
    PROVE  Unlocks(m) /\ mutex'[m] = mx
  <1>1. mutex \in [Mutexes -> MutexType] /\ holds \in [Thread -> SUBSET Mutexes]
    BY TypeFacts DEF IInv, TypeOK
  <1>2. m \notin Signals /\ call[t] = "none"
    BY DEF IInv, CallOK, InApp
  <1>3. \A u \in Thread \ {t} : ~Owns(u, m)
    BY <1>2 DEF IInv, Excludes, Owns
  <1>4. \A u \in Thread : holds'[u] \subseteq holds[u] /\ m \notin holds'[u]
    BY <1>1, <1>3 DEF Owns
  <1> QED
    BY <1>1, <1>2, <1>3, <1>4 DEF Unlocks

\* The queue of a mutex that is being unlocked, and the thread that gets it
LEMMA NextOwner ==
    ASSUME IInv, NEW m \in Mutexes, mutex[m].queue # <<>>, NEW w, w = Head(mutex[m].queue)
    PROVE  /\ w \in Thread /\ sched.status[w] = "mutex_blocked" /\ ~OnRunqueue(sched.status[w])
           /\ want[w] = m /\ call[w] \in {"lock", "wait"} /\ w \notin Range(Tail(mutex[m].queue))
           /\ [mutex[m] EXCEPT !.queue = Tail(mutex[m].queue)] \in MutexType
           /\ [mutex[m] EXCEPT !.queue = Tail(mutex[m].queue)].queue = Tail(mutex[m].queue)
           /\ SchedOK(sched_set_status(sched, w, "pending"))
           /\ StatusSet(sched, sched_set_status(sched, w, "pending"), w, "pending")
  <1>1. mutex[m] \in MutexType /\ mutex[m].queue \in Seq(Thread) /\ QueueOK(m)
    BY TypeFacts DEF IInv
  <1>2. /\ w \in Range(mutex[m].queue) /\ Tail(mutex[m].queue) \in Seq(Thread)
        /\ Range(Tail(mutex[m].queue)) = Range(mutex[m].queue) \ {w}
    BY <1>1, TailFacts DEF QueueOK
  <1>3. w \in Thread /\ sched.status[w] = "mutex_blocked" /\ want[w] = m
    BY <1>1, <1>2 DEF QueueOK
  <1>4. ~OnRunqueue(sched.status[w]) /\ call[w] \in {"lock", "wait"}
    BY <1>3, StatusFacts DEF IInv, CallOK
  <1>5. /\ [mutex[m] EXCEPT !.queue = Tail(mutex[m].queue)] \in MutexType
        /\ [mutex[m] EXCEPT !.queue = Tail(mutex[m].queue)].queue = Tail(mutex[m].queue)
    <2>1. PICK mx : mx = mutex[m]
      OBVIOUS
    <2>2. mx \in MutexType /\ Tail(mx.queue) \in Seq(Thread)
      BY <1>1, <1>2, <2>1
    <2> QED
      BY <2>1, <2>2, QueueUpdated
  <1>6. /\ SchedOK(sched_set_status(sched, w, "pending"))
        /\ StatusSet(sched, sched_set_status(sched, w, "pending"), w, "pending")
    BY <1>3, <1>4, StatusFacts, SetStatusOK DEF IInv
  <1> QED
    BY <1>2, <1>3, <1>4, <1>5, <1>6

LEMMA UnlockStep ==
    ASSUME IInv, NEW t \in Thread, NEW m \in Mutexes, mutex_unlock(t, m)
    PROVE  IInv'
  <1>1. PICK r : r = mutex_release(sched, mutex[m])
    OBVIOUS
  <1>2. /\ InApp(t) /\ m \in holds[t]
        /\ sched' = IF r.yields THEN sched_run(r.sched) ELSE r.sched
        /\ mutex' = [mutex EXCEPT ![m] = r.mutex]
        /\ pc' = [pc EXCEPT ![t] = IF r.woken = NULL THEN pc[t] ELSE "switch"]
        /\ other_prio' = [other_prio EXCEPT
               ![t] = IF r.woken = NULL THEN other_prio[t] ELSE sched.priority[r.woken]]
        /\ holds' = [holds EXCEPT ![t] = holds[t] \ {m}]
        /\ UNCHANGED <<call, want, cancelled>>
    BY <1>1 DEF mutex_unlock
  <1>3. Unlocks(m) /\ mutex'[m] = r.mutex
    BY <1>2, HolderUnlocks
  <1>4. /\ mutex \in [Mutexes -> MutexType] /\ mutex[m] \in MutexType /\ ~mutex[m].inherits
        /\ holds \in [Thread -> SUBSET Mutexes] /\ NULL \notin Thread
        /\ pc \in [Thread -> {"app", "yield", "switch"}] /\ other_prio \in [Thread -> Prio]
        /\ sched.status \in [Thread -> Status] /\ sched.priority \in [Thread -> Prio]
    BY TypeFacts DEF IInv, TypeOK, QueueOK
  <1>5. holds' \in [Thread -> SUBSET Mutexes]
    BY <1>2, <1>4
  <1>6. CASE mutex[m].queue = <<>>
    <2>1. r.sched = sched /\ r.mutex = [mutex[m] EXCEPT !.locked = FALSE] /\ r.woken = NULL /\ ~r.yields
      BY <1>1, <1>4, <1>6 DEF mutex_release, mutex_hand_over
    <2>2. UNCHANGED <<sched, pc, other_prio>>
      BY <1>2, <1>4, <2>1
    <2>3. r.mutex \in MutexType
      <3>1. PICK mx : mx = mutex[m]
        OBVIOUS
      <3> QED
        BY <1>4, <2>1, <3>1, LockedUpdate
    <2>4. TypeOK'
      BY <1>2, <1>4, <1>5, <2>2, <2>3 DEF IInv, TypeOK
    <2>5. SchedOK(sched') /\ ActiveOK' /\ \A u \in Thread : StaysOrSleeps(u)
      BY <2>2 DEF IInv, ActiveOK, StaysOrSleeps
    <2> QED
      BY <1>3, <1>6, <2>1, <2>4, <2>5, FreeStep
  <1>7. CASE mutex[m].queue # <<>>
    <2>1. PICK w : w = Head(mutex[m].queue)
      OBVIOUS
    <2>2. /\ r.sched = sched_set_status(sched, w, "pending")
          /\ r.mutex = [mutex[m] EXCEPT !.queue = Tail(mutex[m].queue)] /\ r.woken = w /\ ~r.yields
      BY <1>1, <1>4, <1>7, <2>1 DEF mutex_release, mutex_hand_over
    <2>3. /\ w \in Thread /\ ~OnRunqueue(sched.status[w]) /\ r.mutex \in MutexType
          /\ SchedOK(r.sched)
      <3>1. /\ w \in Thread /\ ~OnRunqueue(sched.status[w])
            /\ [mutex[m] EXCEPT !.queue = Tail(mutex[m].queue)] \in MutexType
            /\ SchedOK(sched_set_status(sched, w, "pending"))
        BY <1>7, <2>1, NextOwner, Zenon
      <3> QED
        BY <2>2, <3>1, Zenon
    <2>4. sched' = r.sched /\ sched' = [r.sched EXCEPT !.request = sched'.request] /\ sched'.request \in BOOLEAN
      BY <1>2, <2>2, <2>3 DEF SchedOK, SchedType
    <2>5. /\ pc' = [pc EXCEPT ![t] = "switch"] /\ other_prio' = [other_prio EXCEPT ![t] = sched.priority[w]]
      BY <1>2, <1>4, <2>2, <2>3
    <2>6. /\ pc' \in [Thread -> {"app", "yield", "switch"}] /\ other_prio' \in [Thread -> Prio]
          /\ \A v \in Thread : pc[v] = "yield" => pc'[v] = "yield"
      <3>1. pc[t] = "app" /\ sched.priority[w] \in Prio
        BY <1>2, <1>4, <2>3 DEF InApp
      <3> QED
        BY <1>4, <2>5, <3>1
    <2>7. /\ SchedOK(sched') /\ ActiveOK'
          /\ sched'.status = [sched.status EXCEPT ![w] = "pending"]
      BY <2>2, <2>3, <2>4, <2>6, RunnableActive DEF IInv, RunnableStatus
    <2>8. sched'.status[w] = "pending" /\ \A u \in Thread \ {w} : StaysOrSleeps(u)
      BY <1>4, <2>3, <2>7 DEF StaysOrSleeps
    <2>9. TypeOK'
      BY <1>2, <1>4, <1>5, <2>3, <2>6, <2>7 DEF IInv, TypeOK, SchedOK
    <2> QED
      BY <1>3, <1>7, <2>1, <2>2, <2>7, <2>8, <2>9, GiveStep
  <1> QED
    BY <1>6, <1>7

LEMMA UnlockAndSleepStep ==
    ASSUME IInv, NEW t \in Thread, NEW m \in Mutexes, mutex_unlock_and_sleep(t, m)
    PROVE  IInv'
  <1>1. PICK r : r = mutex_hand_over(sched, mutex[m])
    OBVIOUS
  <1>2. /\ InApp(t) /\ m \in holds[t]
        /\ sched' = sched_set_status(r.sched, t, "sleeping")
        /\ mutex' = [mutex EXCEPT ![m] = r.mutex]
        /\ pc' = [pc EXCEPT ![t] = "yield"]
        /\ holds' = [holds EXCEPT ![t] = holds[t] \ {m}]
        /\ UNCHANGED <<other_prio, call, want, cancelled>>
    BY <1>1 DEF mutex_unlock_and_sleep
  <1>3. Unlocks(m) /\ mutex'[m] = r.mutex
    BY <1>2, HolderUnlocks
  <1>4. /\ mutex \in [Mutexes -> MutexType] /\ mutex[m] \in MutexType
        /\ holds \in [Thread -> SUBSET Mutexes]
        /\ pc \in [Thread -> {"app", "yield", "switch"}] /\ sched.status \in [Thread -> Status]
    BY TypeFacts DEF IInv, TypeOK
  <1>5. /\ holds' \in [Thread -> SUBSET Mutexes] /\ pc'[t] = "yield"
        /\ pc' \in [Thread -> {"app", "yield", "switch"}]
    BY <1>2, <1>4
  <1>6. /\ OnRunqueue(sched.status[t]) /\ IsHead(sched, t) /\ sched.active = t /\ call[t] = "none"
    BY <1>2, CallFacts DEF InApp, InCall
  <1>7. CASE mutex[m].queue = <<>>
    <2>1. r.sched = sched /\ r.mutex = [mutex[m] EXCEPT !.locked = FALSE]
      BY <1>1, <1>7 DEF mutex_hand_over
    <2>2. r.mutex \in MutexType
      <3>1. PICK mx : mx = mutex[m]
        OBVIOUS
      <3> QED
        BY <1>4, <2>1, <3>1, LockedUpdate
    <2>3. SchedOK(sched') /\ ActiveOK' /\ StatusSet(sched, sched', t, "sleeping")
      BY <1>2, <1>5, <1>6, <2>1, BlockedActive DEF IInv, BlockedStatus
    <2>4. \A u \in Thread : StaysOrSleeps(u)
      BY <1>4, <1>6, <2>3, StatusFacts DEF StatusSet, StaysOrSleeps
    <2>5. TypeOK'
      BY <1>2, <1>4, <1>5, <2>2, <2>3 DEF IInv, TypeOK, SchedOK
    <2> QED
      BY <1>3, <1>7, <2>1, <2>3, <2>4, <2>5, FreeStep
  <1>8. CASE mutex[m].queue # <<>>
    <2>1. PICK w : w = Head(mutex[m].queue)
      OBVIOUS
    <2>2. /\ r.sched = sched_set_status(sched, w, "pending")
          /\ r.mutex = [mutex[m] EXCEPT !.queue = Tail(mutex[m].queue)]
      BY <1>1, <1>8, <2>1 DEF mutex_hand_over
    <2>3. /\ w \in Thread /\ ~OnRunqueue(sched.status[w]) /\ r.mutex \in MutexType
          /\ SchedOK(r.sched) /\ StatusSet(sched, r.sched, w, "pending")
      <3>1. /\ w \in Thread /\ ~OnRunqueue(sched.status[w])
            /\ [mutex[m] EXCEPT !.queue = Tail(mutex[m].queue)] \in MutexType
            /\ SchedOK(sched_set_status(sched, w, "pending"))
            /\ StatusSet(sched, sched_set_status(sched, w, "pending"), w, "pending")
        BY <1>8, <2>1, NextOwner, Zenon
      <3> QED
        BY <2>2, <3>1, Zenon
    <2>4. /\ r.sched.status[w] = "pending" /\ w # t
          /\ \A u \in Thread \ {w} : r.sched.status[u] = sched.status[u]
          /\ IsHead(r.sched, t) /\ r.sched.active = t
      BY <1>4, <1>6, <2>3, StatusFacts DEF StatusSet
    <2>5. SchedOK(sched') /\ StatusSet(r.sched, sched', t, "sleeping")
      BY <1>2, <1>6, <2>3, <2>4, StatusFacts, SetStatusOK
    <2>6. ActiveOK'
      BY <1>5, <2>4, <2>5 DEF ActiveOK, StatusSet
    <2>7. r.sched.status \in [Thread -> Status]
      BY <2>3 DEF SchedOK, SchedType
    <2>8. sched'.status[w] = "pending" /\ \A u \in Thread \ {w} : StaysOrSleeps(u)
      <3>1. sched'.status = [r.sched.status EXCEPT ![t] = "sleeping"]
        BY <2>5 DEF StatusSet
      <3>2. sched'.status[w] = "pending" /\ sched'.status[t] = "sleeping"
        BY <2>3, <2>4, <2>7, <3>1
      <3>3. ASSUME NEW u \in Thread \ {w, t} PROVE sched'.status[u] = sched.status[u]
        BY <2>4, <2>7, <3>1
      <3>4. sched.status[t] # "mutex_blocked" /\ call[t] = "none"
        BY <1>6, StatusFacts
      <3> QED
        BY <3>2, <3>3, <3>4 DEF StaysOrSleeps
    <2>9. TypeOK'
      BY <1>2, <1>4, <1>5, <2>3, <2>5 DEF IInv, TypeOK, SchedOK
    <2> QED
      BY <1>3, <1>8, <2>1, <2>2, <2>5, <2>6, <2>8, <2>9, GiveStep
  <1> QED
    BY <1>7, <1>8

\* An interrupt handler unlocks a signal.
LEMMA IsrUnlockStep ==
    ASSUME IInv, NEW m \in Mutexes, isr_mutex_unlock(m)
    PROVE  IInv'
  <1>1. PICK r : r = mutex_release(sched, mutex[m])
    OBVIOUS
  <1>2. /\ m \in Signals
        /\ sched' \in IF r.woken = NULL THEN {r.sched}
                      ELSE isr_sched_switch([r.sched EXCEPT !.request = r.sched.request \/ r.yields],
                                            sched.priority[r.woken])
        /\ mutex' = [mutex EXCEPT ![m] = r.mutex]
        /\ UNCHANGED <<pc, other_prio, call, want, cancelled, holds>>
    BY <1>1 DEF isr_mutex_unlock
  <1>3. /\ mutex \in [Mutexes -> MutexType] /\ mutex[m] \in MutexType /\ ~mutex[m].inherits
        /\ NULL \notin Thread /\ sched.status \in [Thread -> Status]
    BY TypeFacts DEF IInv, TypeOK, QueueOK
  <1>4. Unlocks(m) /\ mutex'[m] = r.mutex
    BY <1>2, <1>3 DEF Unlocks
  <1>5. CASE mutex[m].queue = <<>>
    <2>1. r.sched = sched /\ r.mutex = [mutex[m] EXCEPT !.locked = FALSE] /\ r.woken = NULL
      BY <1>1, <1>3, <1>5 DEF mutex_release, mutex_hand_over
    <2>2. UNCHANGED sched
      BY <1>2, <2>1
    <2>3. r.mutex \in MutexType
      <3>1. PICK mx : mx = mutex[m]
        OBVIOUS
      <3> QED
        BY <1>3, <2>1, <3>1, LockedUpdate
    <2>4. TypeOK'
      BY <1>2, <1>3, <2>2, <2>3 DEF IInv, TypeOK
    <2>5. SchedOK(sched') /\ ActiveOK' /\ \A u \in Thread : StaysOrSleeps(u)
      BY <1>2, <2>2 DEF IInv, ActiveOK, StaysOrSleeps
    <2> QED
      BY <1>4, <1>5, <2>1, <2>4, <2>5, FreeStep
  <1>6. CASE mutex[m].queue # <<>>
    <2>1. PICK w : w = Head(mutex[m].queue)
      OBVIOUS
    <2>2. /\ r.sched = sched_set_status(sched, w, "pending")
          /\ r.mutex = [mutex[m] EXCEPT !.queue = Tail(mutex[m].queue)] /\ r.woken = w /\ ~r.yields
      BY <1>1, <1>3, <1>6, <2>1 DEF mutex_release, mutex_hand_over
    <2>3. /\ w \in Thread /\ ~OnRunqueue(sched.status[w]) /\ r.mutex \in MutexType
          /\ SchedOK(r.sched)
      <3>1. /\ w \in Thread /\ ~OnRunqueue(sched.status[w])
            /\ [mutex[m] EXCEPT !.queue = Tail(mutex[m].queue)] \in MutexType
            /\ SchedOK(sched_set_status(sched, w, "pending"))
        BY <1>6, <2>1, NextOwner, Zenon
      <3> QED
        BY <2>2, <3>1, Zenon
    <2>4. [r.sched EXCEPT !.request = r.sched.request \/ r.yields] = r.sched
      BY <2>2, <2>3 DEF SchedOK, SchedType
    <2>5. sched' \in isr_sched_switch(r.sched, sched.priority[w])
      BY <1>2, <1>3, <2>2, <2>3, <2>4
    <2>6. \E b \in BOOLEAN : sched' = [r.sched EXCEPT !.request = b]
      BY <2>3, <2>5, IsrSwitch
    <2>7. /\ SchedOK(sched') /\ ActiveOK'
          /\ sched'.status = [sched.status EXCEPT ![w] = "pending"]
      BY <1>2, <2>2, <2>3, <2>6, RunnableActive DEF IInv, RunnableStatus
    <2>8. sched'.status[w] = "pending" /\ \A u \in Thread \ {w} : StaysOrSleeps(u)
      BY <1>3, <2>3, <2>7 DEF StaysOrSleeps
    <2>9. TypeOK'
      BY <1>2, <1>3, <2>3, <2>7 DEF IInv, TypeOK, SchedOK
    <2> QED
      BY <1>4, <1>6, <2>1, <2>2, <2>7, <2>8, <2>9, GiveStep
  <1> QED
    BY <1>5, <1>6

\* The timer of a call fires.
LEMMA CancelStep ==
    ASSUME IInv, NEW t \in Thread, isr_mutex_cancel(t)
    PROVE  IInv'
  <1>1. /\ call[t] \in {"init", "wait", "locked"} /\ cancelled' = [cancelled EXCEPT ![t] = TRUE]
        /\ UNCHANGED <<pc, other_prio, call, want, holds>>
    BY DEF isr_mutex_cancel
  <1>2. CASE t \in Range(mutex[want[t]].queue) /\ dequeue(t)
    BY <1>1, <1>2, DequeueStep
  <1>3. CASE /\ OnRunqueue(sched.status[t]) \/ t \notin Range(mutex[want[t]].queue)
             /\ UNCHANGED <<sched, mutex>>
    <2>1. cancelled \in [Thread -> BOOLEAN] /\ want[t] \in Mutexes /\ CallOK(t) /\ QueueOK(want[t])
      BY TypeFacts DEF IInv
    <2>2. sched.status[t] # "mutex_blocked"
      BY <1>3, <2>1, StatusFacts DEF QueueOK
    <2>3. cancelled'[t] /\ OthersSame(t)
      BY <1>1, <2>1 DEF OthersSame
    <2>4. TypeOK'
      BY <1>1, <1>3, <2>1 DEF IInv, TypeOK
    <2>5. CallOK(t)'
      BY <1>1, <1>3, <2>1, <2>2, <2>3 DEF CallOK
    <2>6. \A m \in Mutexes \ Signals : Owns(t, m)' => Owns(t, m) /\ mutex[m].locked
      BY <1>1, <1>3, <2>3 DEF Owns, IInv, Excludes
    <2> QED
      BY <1>1, <1>3, <2>2, <2>3, <2>4, <2>5, <2>6, OwnStep
  <1> QED
    BY <1>2, <1>3 DEF isr_mutex_cancel, thread_is_active

\* Threads sleep, yield, are woken and are switched.
LEMMA SchedSteps ==
    ASSUME IInv,
           \/ Reschedule
           \/ \E t \in Thread : thread_sleep(t) \/ thread_yield(t) \/ isr_thread_wakeup(t)
    PROVE  IInv'
  <1>0. /\ SchedOK(sched) /\ ActiveOK /\ pc \in [Thread -> {"app", "yield", "switch"}]
        /\ other_prio \in [Thread -> Prio]
        /\ sched.status \in [Thread -> Status] /\ sched.priority \in [Thread -> Prio]
    BY TypeFacts DEF IInv
  <1>1. CASE Reschedule
    <2>1. UNCHANGED mutexVars /\ Dispatch
      BY <1>1 DEF Reschedule
    <2>2. /\ SchedOK(sched') /\ ActiveOK' /\ SameBlocked(sched, sched')
          /\ pc' \in [Thread -> {"app", "yield", "switch"}] /\ other_prio' \in [Thread -> Prio]
      BY <1>0, <2>1, DispatchOK
    <2> QED
      BY <2>1, <2>2, SchedStep DEF SameBlocked
  <1>2. ASSUME NEW t \in Thread, thread_sleep(t) PROVE IInv'
    <2>1. /\ InApp(t) /\ sched' = sched_set_status(sched, t, "sleeping")
          /\ pc' = [pc EXCEPT ![t] = "yield"] /\ UNCHANGED <<other_prio, mutexVars>>
      BY <1>2 DEF thread_sleep
    <2>2. /\ OnRunqueue(sched.status[t]) /\ IsHead(sched, t) /\ sched.active = t /\ call[t] = "none"
      BY <2>1, CallFacts DEF InApp, InCall
    <2>3. pc'[t] = "yield" /\ pc' \in [Thread -> {"app", "yield", "switch"}]
      BY <1>0, <2>1
    <2>4. SchedOK(sched') /\ ActiveOK' /\ StatusSet(sched, sched', t, "sleeping")
      BY <1>0, <2>1, <2>2, <2>3, BlockedActive DEF BlockedStatus
    <2>5. /\ sched'.status[t] = "sleeping" /\ sched.status[t] # "mutex_blocked"
          /\ \A u \in Thread \ {t} : sched'.status[u] = sched.status[u]
      BY <1>0, <2>2, <2>4, StatusFacts DEF StatusSet
    <2> QED
      BY <1>0, <2>1, <2>2, <2>3, <2>4, <2>5, SchedStep
  <1>3. ASSUME NEW t \in Thread, thread_yield(t) PROVE IInv'
    <2>1. /\ InApp(t) /\ sched' = sched_runq_advance(sched, sched.priority[t])
          /\ pc' = [pc EXCEPT ![t] = "yield"] /\ UNCHANGED <<other_prio, mutexVars>>
      BY <1>3 DEF thread_yield
    <2>2. sched.active = t
      BY <2>1 DEF InApp, Executes
    <2>3. pc'[t] = "yield" /\ pc' \in [Thread -> {"app", "yield", "switch"}]
      BY <1>0, <2>1
    <2>4. PICK q \in Seq(Thread) : /\ SchedOK(sched')
                                   /\ sched' = [sched EXCEPT !.runqueues[sched.priority[t]] = q]
      BY <1>0, <2>1, AdvanceOK
    <2>5. sched'.status = sched.status /\ sched'.active = t
      BY <1>0, <2>2, <2>4 DEF SchedOK, SchedType
    <2>6. ActiveOK'
      BY <2>3, <2>5 DEF ActiveOK
    <2> QED
      BY <1>0, <2>1, <2>3, <2>4, <2>5, <2>6, SchedStep
  <1>4. ASSUME NEW t \in Thread, isr_thread_wakeup(t) PROVE IInv'
    <2> DEFINE r == sched_set_status(sched, t, "running")
    <2>1. /\ sched.status[t] = "sleeping" /\ sched' \in isr_sched_switch(r, sched.priority[t])
          /\ UNCHANGED <<pc, other_prio, mutexVars>>
      BY <1>4 DEF isr_thread_wakeup
    <2>2. ~OnRunqueue(sched.status[t]) /\ call[t] = "none"
      BY <2>1, StatusFacts DEF IInv, CallOK
    <2>3. SchedOK(r)
      BY <1>0, <2>2, StatusFacts, SetStatusOK
    <2>4. \E b \in BOOLEAN : sched' = [r EXCEPT !.request = b]
      BY <2>1, <2>3, IsrSwitch
    <2>5. /\ SchedOK(sched') /\ ActiveOK'
          /\ sched'.status = [sched.status EXCEPT ![t] = "running"]
      BY <1>0, <2>1, <2>2, <2>4, RunnableActive DEF RunnableStatus
    <2>6. /\ sched'.status[t] = "running"
          /\ \A u \in Thread \ {t} : sched'.status[u] = sched.status[u]
      BY <1>0, <2>5
    <2> QED
      BY <1>0, <2>1, <2>2, <2>5, <2>6, SchedStep
  <1> QED
    BY <1>1, <1>2, <1>3, <1>4

----------------------------------------------------------------------------
(* The results                                                             *)

LEMMA StepOK ==
    ASSUME IInv, [Next]_vars
    PROVE  IInv'
  <1>1. ASSUME NEW t \in Thread, Call(t) PROVE IInv'
    BY <1>1, LockSteps, UnlockStep, UnlockAndSleepStep, SchedSteps DEF Call
  <1>2. CASE Interrupt
    BY <1>2, IsrUnlockStep, CancelStep, SchedSteps DEF Interrupt
  <1>3. CASE Reschedule
    BY <1>3, SchedSteps
  <1>4. CASE UNCHANGED vars
    <2>1. UNCHANGED <<sched, pc, other_prio, mutex, call, want, cancelled, holds>>
      BY <1>4 DEF vars
    <2>2. TypeOK' /\ SchedOK(sched') /\ ActiveOK'
      BY <2>1 DEF IInv, TypeOK, ActiveOK
    <2>3. \A m \in Mutexes : QueueOK(m)'
      BY <2>1 DEF IInv, QueueOK
    <2>4. \A t \in Thread : CallOK(t)'
      BY <2>1 DEF IInv, CallOK
    <2>5. \A m \in Mutexes \ Signals : Excludes(m)'
      BY <2>1 DEF IInv, Excludes, Owns
    <2> QED
      BY <2>2, <2>3, <2>4, <2>5 DEF IInv
  <1> QED
    BY <1>1, <1>2, <1>3, <1>4 DEF Next

\* The threads have been created, the first one is on its way into the
\* scheduler, and nobody has called anything yet.
LEMMA InitOK ==
    ASSUME \A b \in Builds : ~b.inherits, Init
    PROVE  IInv
  <1>1. /\ build \in Builds /\ sched = all_created(build.prio) /\ build.prio \in [Thread -> Prio]
        /\ build.inherits = FALSE
        /\ pc = [t \in Thread |-> IF t = 1 THEN "yield" ELSE "app"]
        /\ other_prio = [t \in Thread |-> 0]
        /\ mutex = [m \in Mutexes |-> mutex_init(m \in Signals, FALSE)]
        /\ call = [t \in Thread |-> "none"]
        /\ want = [t \in Thread |-> CHOOSE m \in Mutexes : TRUE]
        /\ cancelled = [t \in Thread |-> FALSE] /\ holds = [t \in Thread |-> {}]
    BY MutexUseAssumption DEF Init, ThreadPrio
  <1>2. SchedOK(sched) /\ sched.active = 1 /\ \A t \in Thread : sched.status[t] \in {"running", "pending"}
    BY <1>1, CreatedOK DEF all_created
  <1>3. 0 \in Prio /\ (CHOOSE m \in Mutexes : TRUE) \in Mutexes
    BY SchedAssumption, MutexUseAssumption DEF Prio
  <1>4. ASSUME NEW m \in Mutexes
        PROVE  /\ mutex[m] \in MutexType /\ ~mutex[m].inherits /\ mutex[m].queue = <<>>
    BY <1>1, <1>3 DEF mutex_init, MutexType
  <1>5. TypeOK
    <2>1. mutex \in [Mutexes -> MutexType]
      BY <1>1, <1>4
    <2> QED
      BY <1>1, <1>2, <1>3, <2>1 DEF TypeOK, SchedOK
  <1>6. ActiveOK
    BY <1>1, <1>2 DEF ActiveOK
  <1>7. ASSUME NEW m \in Mutexes PROVE QueueOK(m)
    <2>1. IsInjective(<<>>) /\ Range(<<>>) = {}
      BY DEF IsInjective, Range
    <2> QED
      BY <1>2, <1>4, <2>1 DEF QueueOK
  <1>8. ASSUME NEW t \in Thread PROVE CallOK(t)
    BY <1>1, <1>2 DEF CallOK
  <1>9. ASSUME NEW m \in Mutexes PROVE Excludes(m)
    BY <1>1 DEF Excludes, Owns
  <1> QED
    BY <1>2, <1>5, <1>6, <1>7, <1>8, <1>9 DEF IInv

\* In builds without priority inheritance a mutex is held by one thread at a
\* time and is locked while it is held, whatever the number of threads, their
\* priorities and the mutexes, and whenever timers fire and handlers run.
THEOREM Exclusion ==
    ASSUME \A b \in Builds : ~b.inherits
    PROVE  Spec => []MutualExclusion
  <1>1. ASSUME IInv PROVE MutualExclusion
    <2>1. \A t \in Thread : \A m \in holds[t] : m \in Mutexes \ Signals /\ Owns(t, m)
      BY <1>1, TypeFacts DEF IInv, CallOK, Owns
    <2> QED
      BY <1>1, <2>1 DEF IInv, Excludes, MutualExclusion, Owns
  <1> QED
    BY <1>1, InitOK, StepOK, PTL DEF Spec

\* A call of mutex_lock_cancelable whose timer has fired is not left in the
\* queue of the mutex, for every instance.
THEOREM CancellationWakes ==
    ASSUME \A b \in Builds : ~b.inherits
    PROVE  Spec => []CancelledNotBlocked
  <1>1. IInv => CancelledNotBlocked
    BY DEF IInv, CallOK, CancelledNotBlocked
  <1> QED
    BY <1>1, InitOK, StepOK, PTL DEF Spec

----------------------------------------------------------------------------
(* Who leaves a mutex locked                                               *)

\* Thread u has m, or has been given it.
Keeps(u, m) == m \in holds[u] \/ Given(u, m)

\* A mutex stays attended if it is not locked anew and everyone keeps it.
LEMMA KeptAttended ==
    ASSUME NEW m \in Mutexes, Attended(m), mutex'[m].locked => mutex[m].locked,
           \A u \in Thread : Keeps(u, m) => Keeps(u, m)'
    PROVE  Attended(m)'
  BY DEF Attended, Keeps

\* A step in the call of thread t keeps others in what they have.
LEMMA OthersKeep ==
    ASSUME NEW m \in Mutexes, NEW t \in Thread, OthersSame(t),
           Range(mutex'[m].queue) \subseteq Range(mutex[m].queue) \cup {t}
    PROVE  \A u \in Thread \ {t} : Keeps(u, m) => Keeps(u, m)'
  BY DEF OthersSame, Keeps, Given

LEMMA TakeAttended ==
    ASSUME IInv, NEW t \in Thread, NEW n \in Mutexes, NEW point \in {"none", "init"},
           call[t] = point, take(t, n), OthersSame(t),
           NEW m \in Mutexes \ Signals, Attended(m)
    PROVE  Attended(m)'
  <1>1. /\ mutex' = [mutex EXCEPT ![n] = mutex_take(sched, mutex[n], t)]
        /\ holds' = [holds EXCEPT ![t] = IF n \in Signals THEN holds[t] ELSE holds[t] \cup {n}]
    BY DEF take, Held
  <1>2. mutex \in [Mutexes -> MutexType] /\ holds \in [Thread -> SUBSET Mutexes]
    BY DEF IInv, TypeOK
  <1>3. CASE m = n
    BY <1>1, <1>2, <1>3 DEF Attended
  <1>4. CASE m # n
    <2>1. mutex'[m] = mutex[m] /\ holds[t] \subseteq holds'[t]
      BY <1>1, <1>2, <1>4
    <2>2. Keeps(t, m) => Keeps(t, m)'
      BY <2>1 DEF Keeps, Given
    <2> QED
      BY <2>1, <2>2, OthersKeep, KeptAttended
  <1> QED
    BY <1>3, <1>4

LEMMA BlockAttended ==
    ASSUME IInv, NEW t \in Thread, NEW n \in Mutexes, NEW point \in {"none", "init"},
           InCall(t, point), block(t, n), OthersSame(t),
           NEW m \in Mutexes \ Signals, Attended(m)
    PROVE  Attended(m)'
  <1> DEFINE k == mutex_block(sched, mutex[n], t)
  <1>1. PICK q : q = thread_add_to_list(sched, mutex[n].queue, t)
    OBVIOUS
  <1>2. /\ mutex' = [mutex EXCEPT ![n] = k.mutex] /\ UNCHANGED holds
        /\ k.mutex = [mutex[n] EXCEPT !.queue = q]
    BY <1>1, BlockEffect DEF block, IInv, QueueOK
  <1> HIDE DEF k
  <1>3. /\ mutex \in [Mutexes -> MutexType] /\ mutex[n] \in MutexType
        /\ mutex[n].queue \in Seq(Thread) /\ QueueOK(n)
    BY TypeFacts DEF IInv, TypeOK
  <1>4. t \notin Range(mutex[n].queue) /\ call[t] = point
    BY <1>3, CallFacts, StatusFacts DEF QueueOK
  <1>5. q \in Seq(Thread) /\ Range(q) = Range(mutex[n].queue) \cup {t}
    <2>1. PICK old : old = mutex[n].queue
      OBVIOUS
    <2>2. old \in Seq(Thread) /\ IsInjective(old) /\ t \notin Range(old)
      BY <1>3, <1>4, <2>1 DEF QueueOK
    <2>3. /\ thread_add_to_list(sched, old, t) \in Seq(Thread)
          /\ Range(thread_add_to_list(sched, old, t)) = Range(old) \cup {t}
      BY <2>2, AddFacts
    <2> QED
      BY <1>1, <2>1, <2>3
  <1>6. /\ [mutex[n] EXCEPT !.queue = q].queue = q
        /\ [mutex[n] EXCEPT !.queue = q].locked = mutex[n].locked
    <2>1. PICK mx : mx = mutex[n]
      OBVIOUS
    <2> QED
      BY <1>3, <1>5, <2>1, QueueUpdated
  <1>7. /\ mutex'[m].locked = mutex[m].locked
        /\ Range(mutex'[m].queue) \subseteq Range(mutex[m].queue) \cup {t}
    <2>1. CASE m = n
      BY <1>2, <1>3, <1>5, <1>6, <2>1
    <2>2. CASE m # n
      BY <1>2, <1>3, <2>2
    <2> QED
      BY <2>1, <2>2
  <1>8. Keeps(t, m) => Keeps(t, m)'
    BY <1>2, <1>4 DEF Keeps, Given
  <1> QED
    BY <1>7, <1>8, OthersKeep, KeptAttended

\* The steps of the calls that lock: only a cancelled call gives up a mutex.
LEMMA LockAttended ==
    ASSUME IInv, NEW t \in Thread,
           \/ \E n \in Mutexes : mutex_lock_internal(t, n) \/ ztimer_mutex_lock_timeout(t, n)
           \/ mutex_lock_returns(t) \/ mutex_lock_cancelable(t)
           \/ mutex_lock_cancelable_returns(t) \/ ztimer_remove(t),
           NEW m \in Mutexes \ Signals, Attended(m)
    PROVE  Attended(m)' \/ (cancelled[t] /\ Given(t, m) /\ call'[t] = "none")
  <1>0. /\ call \in [Thread -> {"none", "lock", "init", "wait", "locked"}]
        /\ want \in [Thread -> Mutexes] /\ cancelled \in [Thread -> BOOLEAN]
        /\ holds \in [Thread -> SUBSET Mutexes]
    BY TypeFacts DEF IInv
  <1>1. ASSUME NEW n \in Mutexes, mutex_lock_internal(t, n) PROVE Attended(m)'
    <2>1. InCall(t, "none") /\ call[t] = "none"
      BY <1>1 DEF mutex_lock_internal, InApp, InCall
    <2>2. CASE take(t, n) /\ UNCHANGED call
      <3>1. OthersSame(t)
        BY <1>0, <2>2 DEF take, Held, OthersSame
      <3> QED
        BY <2>1, <2>2, <3>1, TakeAttended
    <2>3. CASE block(t, n) /\ call' = [call EXCEPT ![t] = "lock"]
      <3>1. OthersSame(t)
        BY <1>0, <2>3 DEF block, OthersSame
      <3> QED
        BY <2>1, <2>3, <3>1, BlockAttended
    <2> QED
      BY <1>1, <2>2, <2>3 DEF mutex_lock_internal
  <1>2. ASSUME UNCHANGED mutex, OthersSame(t), Keeps(t, m) => Keeps(t, m)'
        PROVE  Attended(m)'
    BY <1>2, OthersKeep, KeptAttended
  <1>3. ASSUME NEW n \in Mutexes, ztimer_mutex_lock_timeout(t, n) PROVE Attended(m)'
    <2>1. /\ call[t] = "none" /\ UNCHANGED <<mutex, holds>>
          /\ call' = [call EXCEPT ![t] = "init"] /\ want' = [want EXCEPT ![t] = n]
          /\ cancelled' = [cancelled EXCEPT ![t] = FALSE]
      BY <1>3 DEF ztimer_mutex_lock_timeout, InApp
    <2>2. OthersSame(t) /\ (Keeps(t, m) => Keeps(t, m)')
      BY <1>0, <2>1 DEF OthersSame, Keeps, Given
    <2> QED
      BY <1>2, <2>1, <2>2
  <1>4. ASSUME Held(t, want[t]), UNCHANGED <<mutex, want, cancelled>>,
               NEW next, call' = [call EXCEPT ![t] = next]
        PROVE  Attended(m)'
    <2>1. OthersSame(t) /\ (Keeps(t, m) => m \in holds'[t])
      BY <1>0, <1>4 DEF OthersSame, Held, Keeps, Given
    <2> QED
      BY <1>2, <1>4, <2>1 DEF Keeps
  <1>5. CASE mutex_lock_returns(t)
    BY <1>4, <1>5 DEF mutex_lock_returns
  <1>6. ASSUME call' = [call EXCEPT ![t] = "none"], cancelled' = [cancelled EXCEPT ![t] = FALSE],
               UNCHANGED <<mutex, want, holds>>, ~Given(t, m)
        PROVE  Attended(m)'
    <2>1. OthersSame(t) /\ (Keeps(t, m) => Keeps(t, m)')
      BY <1>0, <1>6 DEF OthersSame, Keeps
    <2> QED
      BY <1>2, <1>6, <2>1
  <1>7. CASE cancelled_return(t)
    <2>1. CASE Given(t, m)
      BY <1>0, <1>7, <2>1 DEF cancelled_return
    <2>2. CASE ~Given(t, m)
      BY <1>6, <1>7, <2>2 DEF cancelled_return
    <2> QED
      BY <2>1, <2>2
  <1>8. CASE mutex_lock_cancelable(t)
    <2>1. InCall(t, "init") /\ call[t] = "init" /\ want[t] \in Mutexes
      BY <1>0, <1>8 DEF mutex_lock_cancelable, InCall
    <2>2. CASE take(t, want[t]) /\ call' = [call EXCEPT ![t] = "locked"]
      <3>1. OthersSame(t)
        BY <1>0, <2>2 DEF take, Held, OthersSame
      <3> QED
        BY <2>1, <2>2, <3>1, TakeAttended
    <2>3. CASE block(t, want[t]) /\ call' = [call EXCEPT ![t] = "wait"]
      <3>1. OthersSame(t)
        BY <1>0, <2>3 DEF block, OthersSame
      <3> QED
        BY <2>1, <2>3, <3>1, BlockAttended
    <2> QED
      BY <1>7, <1>8, <2>2, <2>3 DEF mutex_lock_cancelable
  <1>9. CASE mutex_lock_cancelable_returns(t)
    BY <1>4, <1>7, <1>9 DEF mutex_lock_cancelable_returns
  <1>10. CASE ztimer_remove(t)
    BY <1>6, <1>10 DEF ztimer_remove, InCall, Given
  <1> QED
    BY <1>1, <1>3, <1>5, <1>8, <1>9, <1>10

\* Unlocking hands the mutex over or leaves it free.
LEMMA UnlockAttended ==
    ASSUME IInv, NEW n \in Mutexes, UNCHANGED <<call, want>>,
           NEW s, mutex' = [mutex EXCEPT ![n] = mutex_hand_over(s, mutex[n]).mutex],
           \A u \in Thread : holds[u] \ {n} \subseteq holds'[u],
           NEW m \in Mutexes \ Signals, Attended(m)
    PROVE  Attended(m)'
  <1>1. mutex \in [Mutexes -> MutexType] /\ mutex[n] \in MutexType
    BY TypeFacts DEF IInv, TypeOK
  <1>2. CASE m # n
    <2>1. mutex'[m] = mutex[m]
      BY <1>1, <1>2
    <2> QED
      BY <1>2, <2>1, KeptAttended DEF Keeps, Given
  <1>3. CASE m = n /\ mutex[n].queue = <<>>
    <2>1. mutex'[n] = [mutex[n] EXCEPT !.locked = FALSE]
      BY <1>1, <1>3 DEF mutex_hand_over
    <2>2. mutex'[n].locked = FALSE
      BY <1>1, <2>1 DEF MutexType
    <2> QED
      BY <1>3, <2>2 DEF Attended
  <1>4. CASE m = n /\ mutex[n].queue # <<>>
    <2>1. PICK w : w = Head(mutex[n].queue)
      OBVIOUS
    <2>2. mutex'[n] = [mutex[n] EXCEPT !.queue = Tail(mutex[n].queue)]
      BY <1>1, <1>4 DEF mutex_hand_over
    <2>3. /\ w \in Thread /\ want[w] = n /\ call[w] \in {"lock", "wait"}
          /\ w \notin Range(Tail(mutex[n].queue))
          /\ [mutex[n] EXCEPT !.queue = Tail(mutex[n].queue)].queue = Tail(mutex[n].queue)
      BY <1>4, <2>1, NextOwner, Zenon
    <2>4. w \notin Range(mutex'[n].queue)
      BY <2>2, <2>3
    <2> QED
      BY <1>4, <2>3, <2>4 DEF Attended, Given
  <1> QED
    BY <1>2, <1>3, <1>4

\* The timer that fires takes the thread out of the queue, and nobody else.
LEMMA CancelAttended ==
    ASSUME IInv, NEW t \in Thread, isr_mutex_cancel(t),
           NEW m \in Mutexes \ Signals, Attended(m)
    PROVE  Attended(m)'
  <1>1. UNCHANGED <<call, want, holds>>
    BY DEF isr_mutex_cancel
  <1>2. CASE UNCHANGED mutex
    BY <1>1, <1>2 DEF Attended, Given
  <1>3. CASE t \in Range(mutex[want[t]].queue) /\ dequeue(t)
    <2>1. PICK n \in Mutexes : n = want[t]
      BY TypeFacts DEF IInv
    <2>2. PICK q : q = list_remove(mutex[n].queue, t)
      OBVIOUS
    <2>3. /\ mutex \in [Mutexes -> MutexType] /\ mutex[n] \in MutexType
          /\ mutex[n].queue \in Seq(Thread) /\ QueueOK(n)
      BY TypeFacts DEF IInv, TypeOK
    <2>4. q \in Seq(Thread) /\ Range(q) \subseteq Range(mutex[n].queue)
      <3>1. PICK old : old = mutex[n].queue
        OBVIOUS
      <3>2. old \in Seq(Thread) /\ IsInjective(old) /\ t \in Range(old)
        BY <1>3, <2>1, <2>3, <3>1 DEF QueueOK
      <3>3. list_remove(old, t) \in Seq(Thread) /\ Range(list_remove(old, t)) = Range(old) \ {t}
        BY <3>2, RemoveFacts
      <3> QED
        BY <2>2, <3>1, <3>3
    <2>5. mutex' = [mutex EXCEPT ![n] = [mutex[n] EXCEPT !.queue = q]]
      BY <1>3, <2>1, <2>2, <2>3 DEF dequeue
    <2>6. /\ [mutex[n] EXCEPT !.queue = q].queue = q
          /\ [mutex[n] EXCEPT !.queue = q].locked = mutex[n].locked
      <3>1. PICK mx : mx = mutex[n]
        OBVIOUS
      <3> QED
        BY <2>3, <2>4, <3>1, QueueUpdated
    <2>7. mutex'[m].locked = mutex[m].locked /\ Range(mutex'[m].queue) \subseteq Range(mutex[m].queue)
      <3>1. CASE m = n
        BY <2>3, <2>4, <2>5, <2>6, <3>1
      <3>2. CASE m # n
        BY <2>3, <2>5, <3>2
      <3> QED
        BY <3>1, <3>2
    <2>8. \A u \in Thread : Keeps(u, m) => Keeps(u, m)'
      BY <1>1, <2>7 DEF Keeps, Given
    <2> QED
      BY <2>7, <2>8, KeptAttended
  <1> QED
    BY <1>2, <1>3 DEF isr_mutex_cancel

\* For every instance: a mutex is left locked with nobody to unlock it by one
\* kind of step only, the return of a call that was cancelled after the mutex
\* had been handed to it.
THEOREM OnlyTimeout ==
    ASSUME \A b \in Builds : ~b.inherits
    PROVE  Spec => OnlyTimeoutAbandons
  <1> DEFINE Abandons ==
        \A m \in Mutexes \ Signals :
            Attended(m) /\ ~Attended(m)' =>
                \E t \in Thread : cancelled[t] /\ Given(t, m) /\ call'[t] = "none"
  <1>1. IInv /\ [Next]_vars => [Abandons]_vars
    <2> SUFFICES ASSUME IInv, Next, NEW m \in Mutexes \ Signals, Attended(m), ~Attended(m)'
                 PROVE  \E t \in Thread : cancelled[t] /\ Given(t, m) /\ call'[t] = "none"
      OBVIOUS
    <2>1. ASSUME UNCHANGED mutexVars PROVE FALSE
      BY <2>1 DEF mutexVars, Attended, Given
    <2>2. ASSUME NEW t \in Thread, NEW n \in Mutexes, mutex_unlock(t, n) \/ mutex_unlock_and_sleep(t, n)
          PROVE  FALSE
      <3>1. ~mutex[n].inherits /\ holds \in [Thread -> SUBSET Mutexes]
        BY TypeFacts DEF IInv, QueueOK
      <3>2. /\ UNCHANGED <<call, want>> /\ holds' = [holds EXCEPT ![t] = holds[t] \ {n}]
            /\ mutex' = [mutex EXCEPT ![n] = mutex_hand_over(sched, mutex[n]).mutex]
        <4>1. mutex_release(sched, mutex[n]).mutex = mutex_hand_over(sched, mutex[n]).mutex
          BY <3>1, ReleaseEffect
        <4>2. CASE mutex_unlock(t, n)
          BY <4>1, <4>2 DEF mutex_unlock
        <4>3. CASE mutex_unlock_and_sleep(t, n)
          BY <4>3 DEF mutex_unlock_and_sleep
        <4> QED
          BY <2>2, <4>2, <4>3
      <3>3. \A u \in Thread : holds[u] \ {n} \subseteq holds'[u]
        BY <3>1, <3>2
      <3> QED
        BY <3>2, <3>3, UnlockAttended
    <2>3. ASSUME NEW n \in Mutexes, isr_mutex_unlock(n) PROVE FALSE
      <3>1. ~mutex[n].inherits
        BY DEF IInv, QueueOK
      <3>2. /\ UNCHANGED <<call, want, holds>>
            /\ mutex' = [mutex EXCEPT ![n] = mutex_release(sched, mutex[n]).mutex]
        BY <2>3 DEF isr_mutex_unlock
      <3>3. mutex_release(sched, mutex[n]).mutex = mutex_hand_over(sched, mutex[n]).mutex
        BY <3>1, ReleaseEffect
      <3> QED
        BY <3>2, <3>3, UnlockAttended
    <2>4. ASSUME NEW t \in Thread, isr_mutex_cancel(t) PROVE FALSE
      BY <2>4, CancelAttended
    <2>5. CASE Interrupt
      BY <2>1, <2>3, <2>4, <2>5 DEF Interrupt, isr_thread_wakeup
    <2>6. CASE Reschedule
      BY <2>1, <2>6 DEF Reschedule
    <2>7. ASSUME NEW t \in Thread, Call(t)
          PROVE  \E u \in Thread : cancelled[u] /\ Given(u, m) /\ call'[u] = "none"
      BY <2>1, <2>2, <2>7, LockAttended DEF Call, thread_sleep, thread_yield
    <2> QED
      BY <2>5, <2>6, <2>7 DEF Next
  <1> QED
    BY <1>1, InitOK, StepOK, PTL DEF Spec, OnlyTimeoutAbandons
=============================================================================
