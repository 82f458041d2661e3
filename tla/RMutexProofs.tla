---------------------------- MODULE RMutexProofs ----------------------------
(***************************************************************************)
(* The recursive mutex excludes, and its owner can be tested without a     *)
(* critical section, for every number of threads and priorities and every  *)
(* depth of nesting, in a build without priority inheritance.              *)
(***************************************************************************)
EXTENDS RMutex, MutexOpsProofs

\* The threads that wait for the mutex are those in its queue.
QueueOK ==
    /\ ~rmutex.mutex.inherits
    /\ IsInjective(rmutex.mutex.queue)
    /\ Range(rmutex.mutex.queue) = {t \in Thread : sched.status[t] = "mutex_blocked"}
    /\ rmutex.mutex.queue # <<>> => rmutex.mutex.locked

\* What the point thread t has reached says of the fields of the mutex
CallOK(t) ==
    /\ sched.status[t] \in {"running", "pending", "sleeping", "mutex_blocked"}
    /\ sched.status[t] = "mutex_blocked" => call[t] = "wait"
    /\ sched.status[t] = "sleeping" => call[t] = "none"
    /\ call[t] \in {"lock", "wait", "reset", "unlock"} => depth[t] = 0
    /\ rmutex.owner = t <=> (depth[t] > 0 \/ call[t] \in {"count", "reset"})
    /\ Inside(t) => rmutex.refcount = depth[t]

\* At most one thread is inside, and it is as the underlying mutex says.
Excludes ==
    /\ \A t, u \in Thread : Inside(t) /\ Inside(u) => t = u
    /\ rmutex.mutex.locked <=> \E t \in Thread : Inside(t)
    /\ ~rmutex.mutex.locked => rmutex.refcount = 0

\* The inductive invariant
IInv ==
    /\ TypeOK
    /\ SchedOK(sched)
    /\ ActiveOK
    /\ QueueOK
    /\ \A t \in Thread : CallOK(t)
    /\ Excludes

----------------------------------------------------------------------------
(* Facts the steps share                                                   *)

LEMMA StatusFacts ==
    /\ {"running", "pending", "sleeping", "mutex_blocked"} \subseteq Status
    /\ OnRunqueue("running") /\ OnRunqueue("pending")
    /\ ~OnRunqueue("sleeping") /\ ~OnRunqueue("mutex_blocked")
  BY DEF Status, RunnableStatus, BlockedStatus, OnRunqueue

\* The fields and their types
LEMMA TypeFacts ==
    ASSUME TypeOK
    PROVE  /\ rmutex.mutex \in MutexType
           /\ rmutex.mutex.locked \in BOOLEAN /\ rmutex.mutex.queue \in Seq(Thread)
           /\ rmutex.owner \in Thread \cup {NULL} /\ rmutex.refcount \in Nat
           /\ pc \in [Thread -> {"app", "yield", "switch"}]
           /\ call \in [Thread -> {"none", "test", "lock", "wait", "own", "count", "reset", "unlock"}]
           /\ depth \in [Thread -> Nat] /\ try \in [Thread -> BOOLEAN]
           /\ sched.status \in [Thread -> Status] /\ sched.priority \in [Thread -> Prio]
           /\ NULL \notin Thread
  BY DEF TypeOK, MutexType, SchedType, NULL, Thread

\* A thread that executes code of the calls is the head of its run queue.
LEMMA AtFacts ==
    ASSUME IInv, NEW t \in Thread, NEW point, At(t, point)
    PROVE  /\ OnRunqueue(sched.status[t]) /\ IsHead(sched, t)
           /\ call[t] = point /\ pc[t] = "app"
  BY DEF At, Executes, IInv, ActiveOK

----------------------------------------------------------------------------
(* Steps of a thread that leave the scheduler and the queue alone          *)

\* What these steps have in common
Own(t) ==
    /\ UNCHANGED <<sched, pc, other_prio>>
    /\ \A u \in Thread \ {t} : call'[u] = call[u] /\ depth'[u] = depth[u]
    /\ rmutex'.mutex.queue = rmutex.mutex.queue
    /\ rmutex'.mutex.inherits = rmutex.mutex.inherits

\* A step of a thread that is outside before and after it, and changes nothing
\* but its place in the call
LEMMA OutsideStep ==
    ASSUME IInv, TypeOK', NEW t \in Thread, Own(t), UNCHANGED rmutex,
           ~Inside(t), ~Inside(t)', CallOK(t)'
    PROVE  IInv'
  <1>1. \A u \in Thread : Inside(u)' <=> Inside(u)
    BY DEF Own, Inside
  <1>2. ASSUME NEW u \in Thread \ {t} PROVE CallOK(u)'
    BY <1>1 DEF IInv, CallOK, Own
  <1>3. Excludes'
    BY <1>1 DEF IInv, Excludes
  <1> QED
    BY <1>2, <1>3 DEF IInv, ActiveOK, QueueOK, Own

\* A step of the thread that is inside, and stays so
LEMMA InsideStep ==
    ASSUME IInv, TypeOK', NEW t \in Thread, Own(t),
           Inside(t), Inside(t)', CallOK(t)',
           rmutex'.mutex.locked = rmutex.mutex.locked,
           rmutex'.owner \in {rmutex.owner, t, NULL}
    PROVE  IInv'
  <1>1. \A u \in Thread \ {t} : ~Inside(u) /\ ~Inside(u)'
    BY DEF IInv, Excludes, Own, Inside
  <1>2. ASSUME NEW u \in Thread \ {t} PROVE CallOK(u)'
    <2>1. rmutex.owner # u /\ rmutex'.owner # u
      <3>1. rmutex.owner # u
        BY <1>1 DEF IInv, CallOK, Inside
      <3> QED
        BY <3>1, TypeFacts DEF IInv
    <2> QED
      BY <1>1, <2>1 DEF IInv, CallOK, Own
  <1>3. rmutex.mutex.locked
    BY DEF IInv, Excludes
  <1>4. Excludes'
    BY <1>1, <1>3 DEF Excludes
  <1>5. QueueOK'
    BY DEF IInv, QueueOK, Own
  <1> QED
    BY <1>2, <1>4, <1>5 DEF IInv, ActiveOK, Own

\* A thread takes the underlying mutex, which is free.
LEMMA TakeStep ==
    ASSUME IInv, NEW t \in Thread, NEW point \in {"none", "lock"}, At(t, point),
           ~rmutex.mutex.locked, try' \in [Thread -> BOOLEAN],
           rmutex' = [rmutex EXCEPT !.mutex = mutex_take(sched, @, t)],
           Goto(t, "own"), UNCHANGED depth
    PROVE  IInv'
  <1>1. /\ rmutex.mutex \in MutexType /\ rmutex.refcount \in Nat
        /\ rmutex.owner \in Thread \cup {NULL} /\ depth \in [Thread -> Nat]
        /\ call \in [Thread -> {"none", "test", "lock", "wait", "own", "count", "reset", "unlock"}]
    BY TypeFacts DEF IInv
  <1>2. mutex_take(sched, rmutex.mutex, t) = [rmutex.mutex EXCEPT !.locked = TRUE]
    BY DEF mutex_take, IInv, QueueOK
  <1>3. /\ rmutex'.mutex = [rmutex.mutex EXCEPT !.locked = TRUE]
        /\ rmutex'.owner = rmutex.owner /\ rmutex'.refcount = rmutex.refcount
    BY <1>2 DEF IInv, TypeOK
  <1>4. /\ rmutex'.mutex \in MutexType /\ rmutex'.mutex.locked
        /\ rmutex'.mutex.queue = rmutex.mutex.queue
        /\ rmutex'.mutex.inherits = rmutex.mutex.inherits
    <2>1. PICK mx : mx = rmutex.mutex
      OBVIOUS
    <2>2. mx \in MutexType /\ rmutex'.mutex = [mx EXCEPT !.locked = TRUE]
      BY <1>1, <1>3, <2>1
    <2>3. PICK my : my = [mx EXCEPT !.locked = TRUE]
      OBVIOUS
    <2>4. my \in MutexType /\ my.locked = TRUE /\ my.queue = mx.queue /\ my.inherits = mx.inherits
      BY <2>2, <2>3, LockedUpdate
    <2> QED
      BY <2>1, <2>2, <2>3, <2>4
  <1>5. call' = [call EXCEPT ![t] = "own"] /\ UNCHANGED <<sched, pc, other_prio>>
    BY DEF Goto
  <1>6. TypeOK'
    BY <1>1, <1>3, <1>4, <1>5 DEF IInv, TypeOK
  <1>7. \A u \in Thread : ~Inside(u)
    BY DEF IInv, Excludes
  <1>8. \A u \in Thread \ {t} : call'[u] = call[u] /\ ~Inside(u)'
    BY <1>1, <1>5, <1>7 DEF Inside
  <1>9. call'[t] = "own" /\ Inside(t)'
    BY <1>1, <1>5 DEF Inside
  <1>10. depth[t] = 0 /\ rmutex.refcount = 0 /\ call[t] = point /\ OnRunqueue(sched.status[t])
    BY <1>1, <1>7, AtFacts DEF Inside, IInv, Excludes
  <1>11. CallOK(t)'
    BY <1>3, <1>5, <1>9, <1>10, StatusFacts DEF CallOK, IInv
  <1>12. ASSUME NEW u \in Thread \ {t} PROVE CallOK(u)'
    BY <1>3, <1>5, <1>8 DEF CallOK, IInv
  <1>13. Excludes'
    BY <1>4, <1>8, <1>9 DEF Excludes
  <1>14. QueueOK'
    BY <1>4, <1>5 DEF QueueOK, IInv
  <1>15. ActiveOK'
    BY <1>5 DEF ActiveOK, IInv
  <1> QED
    BY <1>5, <1>6, <1>11, <1>12, <1>13, <1>14, <1>15 DEF IInv

\* The types after a step that changes a field of the recursive mutex, and the
\* place and the depth of thread t
LEMMA OwnTypes ==
    ASSUME IInv, NEW t \in Thread, UNCHANGED <<sched, pc, other_prio>>,
           NEW o \in Thread \cup {NULL}, NEW n \in Nat, NEW d \in Nat,
           NEW point \in {"none", "test", "lock", "wait", "own", "count", "reset", "unlock"},
           rmutex' = [rmutex EXCEPT !.owner = o, !.refcount = n],
           call' = [call EXCEPT ![t] = point], depth' = [depth EXCEPT ![t] = d],
           try' \in [Thread -> BOOLEAN]
    PROVE  /\ TypeOK' /\ Own(t)
           /\ call'[t] = point /\ depth'[t] = d
           /\ rmutex'.owner = o /\ rmutex'.refcount = n
           /\ rmutex'.mutex = rmutex.mutex
  <1>1. rmutex \in [mutex : MutexType, owner : Thread \cup {NULL}, refcount : Nat]
    BY DEF IInv, TypeOK
  <1>2. /\ rmutex' \in [mutex : MutexType, owner : Thread \cup {NULL}, refcount : Nat]
        /\ rmutex'.owner = o /\ rmutex'.refcount = n /\ rmutex'.mutex = rmutex.mutex
    BY <1>1
  <1>3. TypeOK'
    BY <1>2 DEF IInv, TypeOK
  <1>4. call'[t] = point /\ depth'[t] = d
    BY DEF IInv, TypeOK
  <1>5. \A u \in Thread \ {t} : call'[u] = call[u] /\ depth'[u] = depth[u]
    BY DEF IInv, TypeOK
  <1> QED
    BY <1>2, <1>3, <1>4, <1>5 DEF Own

\* The record of the recursive mutex with its own fields
LEMMA SameFields ==
    ASSUME IInv
    PROVE  /\ rmutex = [rmutex EXCEPT !.owner = rmutex.owner, !.refcount = rmutex.refcount]
           /\ \A o \in Thread \cup {NULL} :
                  [rmutex EXCEPT !.owner = o] = [rmutex EXCEPT !.owner = o, !.refcount = rmutex.refcount]
           /\ \A n \in Nat :
                  [rmutex EXCEPT !.refcount = n] = [rmutex EXCEPT !.owner = rmutex.owner, !.refcount = n]
           /\ \A t \in Thread : depth = [depth EXCEPT ![t] = depth[t]]
  BY DEF IInv, TypeOK

\* A call starts.
LEMMA StartStep ==
    ASSUME IInv, NEW t \in Thread, NEW trylock \in BOOLEAN, lock_starts(t, trylock)
    PROVE  IInv'
  <1>1. At(t, "none") /\ UNCHANGED depth /\ try \in [Thread -> BOOLEAN]
    BY TypeFacts DEF lock_starts, IInv
  <1>2. CASE ~rmutex.mutex.locked
    BY <1>1, <1>2, TakeStep DEF lock_starts
  <1>3. CASE rmutex.mutex.locked
    <2>1. /\ Goto(t, "test") /\ try' = [try EXCEPT ![t] = trylock] /\ UNCHANGED rmutex
      BY <1>3 DEF lock_starts
    <2>2. /\ rmutex' = [rmutex EXCEPT !.owner = rmutex.owner, !.refcount = rmutex.refcount]
          /\ depth' = [depth EXCEPT ![t] = depth[t]]
          /\ call' = [call EXCEPT ![t] = "test"]
          /\ UNCHANGED <<sched, pc, other_prio>>
          /\ try' \in [Thread -> BOOLEAN]
      BY <1>1, <2>1, SameFields DEF Goto
    <2>3. /\ TypeOK' /\ Own(t) /\ call'[t] = "test" /\ depth'[t] = depth[t]
      BY <2>2, OwnTypes, TypeFacts DEF IInv
    <2>4. /\ OnRunqueue(sched.status[t]) /\ call[t] = "none" /\ CallOK(t)
          /\ UNCHANGED sched
      BY <1>1, <2>2, AtFacts DEF IInv
    <2>5. Inside(t) <=> Inside(t)'
      BY <2>3, <2>4 DEF Inside
    <2>6. CallOK(t)'
      BY <2>1, <2>3, <2>4, <2>5, StatusFacts DEF CallOK
    <2> QED
      BY <2>1, <2>3, <2>5, <2>6, OutsideStep, InsideStep
  <1> QED
    BY <1>1, <1>2, <1>3, TypeFacts DEF IInv

\* The owner is tested, without a critical section.
LEMMA TestStep ==
    ASSUME IInv, NEW t \in Thread, lock_tests_owner(t)
    PROVE  IInv'
  <1>1. /\ At(t, "test") /\ UNCHANGED <<rmutex, depth>> /\ try \in [Thread -> BOOLEAN]
        /\ try' = [try EXCEPT ![t] = FALSE]
    BY TypeFacts DEF lock_tests_owner, IInv
  <1>2. PICK point \in {"own", "none", "lock"} :
            Goto(t, point) /\ (point = "own" <=> rmutex.owner = t)
    BY DEF lock_tests_owner
  <1>3. /\ rmutex' = [rmutex EXCEPT !.owner = rmutex.owner, !.refcount = rmutex.refcount]
        /\ depth' = [depth EXCEPT ![t] = depth[t]]
        /\ call' = [call EXCEPT ![t] = point]
        /\ UNCHANGED <<sched, pc, other_prio>>
        /\ try' \in [Thread -> BOOLEAN]
    BY <1>1, <1>2, SameFields DEF Goto
  <1>4. TypeOK' /\ Own(t) /\ call'[t] = point /\ depth'[t] = depth[t]
    BY <1>3, OwnTypes, TypeFacts DEF IInv
  <1>5. OnRunqueue(sched.status[t]) /\ call[t] = "test" /\ CallOK(t) /\ UNCHANGED sched
    BY <1>1, <1>3, AtFacts DEF IInv
  <1>6. rmutex.owner = t <=> depth[t] > 0
    BY <1>5 DEF CallOK
  <1>7. Inside(t) <=> Inside(t)'
    BY <1>2, <1>4, <1>5, <1>6 DEF Inside
  <1>8. CallOK(t)'
    <2>1. depth[t] \in Nat
      BY TypeFacts DEF IInv
    <2> QED
      BY <1>1, <1>2, <1>4, <1>5, <1>6, <1>7, <2>1, StatusFacts DEF CallOK
  <1> QED
    BY <1>1, <1>4, <1>7, <1>8, OutsideStep, InsideStep

\* A thread that was woken has the mutex.
LEMMA WokenStep ==
    ASSUME IInv, NEW t \in Thread, lock_woken(t)
    PROVE  IInv'
  <1>1. /\ At(t, "wait") /\ UNCHANGED <<rmutex, try, depth>> /\ Goto(t, "own")
    BY DEF lock_woken
  <1>2. /\ rmutex' = [rmutex EXCEPT !.owner = rmutex.owner, !.refcount = rmutex.refcount]
        /\ depth' = [depth EXCEPT ![t] = depth[t]]
        /\ call' = [call EXCEPT ![t] = "own"]
        /\ UNCHANGED <<sched, pc, other_prio>>
        /\ try' \in [Thread -> BOOLEAN]
    BY <1>1, SameFields, TypeFacts DEF Goto, IInv
  <1>3. TypeOK' /\ Own(t) /\ call'[t] = "own" /\ depth'[t] = depth[t]
    BY <1>2, OwnTypes, TypeFacts DEF IInv
  <1>4. OnRunqueue(sched.status[t]) /\ call[t] = "wait" /\ CallOK(t) /\ UNCHANGED sched
    BY <1>1, <1>2, AtFacts DEF IInv
  <1>5. Inside(t) /\ Inside(t)'
    BY <1>3, <1>4 DEF Inside
  <1>6. CallOK(t)'
    BY <1>1, <1>3, <1>4, <1>5, StatusFacts DEF CallOK
  <1> QED
    BY <1>1, <1>3, <1>5, <1>6, InsideStep

\* The steps of the thread inside on owner and refcount: lock_sets_owner,
\* lock_counts, unlock_counts and unlock_resets_owner
LEMMA FieldStep ==
    ASSUME IInv, NEW t \in Thread,
           \/ lock_sets_owner(t)
           \/ lock_counts(t)
           \/ unlock_counts(t)
           \/ unlock_resets_owner(t)
    PROVE  IInv'
  <1>1. /\ rmutex.refcount \in Nat /\ rmutex.owner \in Thread \cup {NULL} /\ depth[t] \in Nat
        /\ NULL \notin Thread /\ try \in [Thread -> BOOLEAN] /\ CallOK(t)
    BY TypeFacts DEF IInv
  <1>2. ASSUME NEW point, At(t, point)
        PROVE  OnRunqueue(sched.status[t]) /\ call[t] = point
    BY <1>2, AtFacts
  <1>3. ASSUME NEW o \in Thread \cup {NULL}, NEW n \in Nat, NEW d \in Nat,
               NEW point \in {"none", "count", "reset", "unlock"},
               rmutex' = [rmutex EXCEPT !.owner = o, !.refcount = n],
               call' = [call EXCEPT ![t] = point], depth' = [depth EXCEPT ![t] = d],
               UNCHANGED <<sched, pc, other_prio, try>>,
               OnRunqueue(sched.status[t]), Inside(t), n = d,
               point = "none" => d > 0,
               point \in {"reset", "unlock"} => d = 0,
               o = IF point = "unlock" THEN NULL ELSE t
        PROVE  IInv'
    <2>1. /\ TypeOK' /\ Own(t) /\ call'[t] = point /\ depth'[t] = d
          /\ rmutex'.owner = o /\ rmutex'.refcount = n /\ rmutex'.mutex = rmutex.mutex
      BY <1>1, <1>3, OwnTypes
    <2>2. Inside(t)'
      BY <1>3, <2>1 DEF Inside
    <2>3. UNCHANGED sched /\ OnRunqueue(sched'.status[t])
      BY <1>3
    <2>4. CallOK(t)'
      <3>1. sched'.status[t] \in {"running", "pending", "sleeping", "mutex_blocked"}
        BY <1>1, <2>3 DEF CallOK
      <3>2. sched'.status[t] # "mutex_blocked" /\ sched'.status[t] # "sleeping"
        BY <2>3, StatusFacts
      <3>3. rmutex'.owner = t <=> (depth'[t] > 0 \/ call'[t] \in {"count", "reset"})
        BY <1>1, <1>3, <2>1
      <3>4. call'[t] \in {"lock", "wait", "reset", "unlock"} => depth'[t] = 0
        BY <1>3, <2>1
      <3> QED
        BY <1>3, <2>1, <3>1, <3>2, <3>3, <3>4 DEF CallOK
    <2>5. rmutex'.owner \in {rmutex.owner, t, NULL}
      BY <1>3, <2>1
    <2> QED
      BY <1>3, <2>1, <2>2, <2>4, <2>5, InsideStep
  <1>4. CASE lock_sets_owner(t)
    <2>1. /\ rmutex' = [rmutex EXCEPT !.owner = t] /\ Goto(t, "count") /\ UNCHANGED <<try, depth>>
          /\ call[t] = "own" /\ OnRunqueue(sched.status[t])
      BY <1>2, <1>4 DEF lock_sets_owner
    <2>2. Inside(t) /\ rmutex.refcount = depth[t]
      BY <1>1, <2>1 DEF Inside, CallOK
    <2>3. /\ rmutex' = [rmutex EXCEPT !.owner = t, !.refcount = rmutex.refcount]
          /\ depth' = [depth EXCEPT ![t] = depth[t]]
          /\ call' = [call EXCEPT ![t] = "count"]
          /\ UNCHANGED <<sched, pc, other_prio, try>>
      BY <2>1, SameFields DEF Goto
    <2> QED
      BY <1>1, <1>3, <2>1, <2>2, <2>3
  <1>5. CASE lock_counts(t)
    <2>1. /\ rmutex' = [rmutex EXCEPT !.refcount = rmutex.refcount + 1] /\ Goto(t, "none")
          /\ depth' = [depth EXCEPT ![t] = depth[t] + 1] /\ UNCHANGED try
          /\ call[t] = "count" /\ OnRunqueue(sched.status[t])
      BY <1>2, <1>5 DEF lock_counts
    <2>2. Inside(t) /\ rmutex.refcount = depth[t] /\ rmutex.owner = t
      BY <1>1, <2>1 DEF Inside, CallOK
    <2>3. rmutex.refcount + 1 \in Nat /\ depth[t] + 1 \in Nat /\ depth[t] + 1 > 0
      BY <1>1
    <2>4. /\ rmutex' = [rmutex EXCEPT !.owner = t, !.refcount = rmutex.refcount + 1]
          /\ call' = [call EXCEPT ![t] = "none"]
          /\ UNCHANGED <<sched, pc, other_prio, try>>
      BY <2>1, <2>2, <2>3, SameFields DEF Goto
    <2> QED
      BY <1>1, <1>3, <2>1, <2>2, <2>3, <2>4
  <1>6. CASE unlock_counts(t)
    <2> DEFINE point == IF rmutex.refcount = 1 THEN "reset" ELSE "none"
    <2>1. /\ rmutex' = [rmutex EXCEPT !.refcount = rmutex.refcount - 1] /\ Goto(t, point)
          /\ depth' = [depth EXCEPT ![t] = depth[t] - 1] /\ UNCHANGED try
          /\ call[t] = "none" /\ OnRunqueue(sched.status[t]) /\ depth[t] > 0
      BY <1>2, <1>6 DEF unlock_counts
    <2>2. Inside(t) /\ rmutex.refcount = depth[t] /\ rmutex.owner = t
      BY <1>1, <2>1 DEF Inside, CallOK
    <2>3. /\ rmutex.refcount - 1 \in Nat /\ depth[t] - 1 \in Nat
          /\ point = "none" => depth[t] - 1 > 0
          /\ point = "reset" => depth[t] - 1 = 0
      BY <1>1, <2>1, <2>2
    <2>4. /\ rmutex' = [rmutex EXCEPT !.owner = t, !.refcount = rmutex.refcount - 1]
          /\ call' = [call EXCEPT ![t] = point]
          /\ UNCHANGED <<sched, pc, other_prio, try>>
      BY <2>1, <2>2, <2>3, SameFields DEF Goto
    <2>5. point \in {"none", "reset"}
      OBVIOUS
    <2> HIDE DEF point
    <2> QED
      BY <1>1, <1>3, <2>1, <2>2, <2>3, <2>4, <2>5
  <1>7. CASE unlock_resets_owner(t)
    <2>1. /\ rmutex' = [rmutex EXCEPT !.owner = NULL] /\ Goto(t, "unlock") /\ UNCHANGED <<try, depth>>
          /\ call[t] = "reset" /\ OnRunqueue(sched.status[t])
      BY <1>2, <1>7 DEF unlock_resets_owner
    <2>2. Inside(t) /\ rmutex.refcount = depth[t] /\ depth[t] = 0
      BY <1>1, <2>1 DEF Inside, CallOK
    <2>3. /\ rmutex' = [rmutex EXCEPT !.owner = NULL, !.refcount = rmutex.refcount]
          /\ depth' = [depth EXCEPT ![t] = depth[t]]
          /\ call' = [call EXCEPT ![t] = "unlock"]
          /\ UNCHANGED <<sched, pc, other_prio, try>>
      BY <2>1, SameFields DEF Goto
    <2> QED
      BY <1>1, <1>3, <2>1, <2>2, <2>3
  <1> QED
    BY <1>4, <1>5, <1>6, <1>7

----------------------------------------------------------------------------
(* Steps that change the status of threads                                 *)

\* A context switch, in a handler, from the idle loop or by a thread.
LEMMA RescheduleStep ==
    ASSUME IInv, Reschedule
    PROVE  IInv'
  <1>1. UNCHANGED <<rmutex, call, try, depth>> /\ Dispatch
    BY DEF Reschedule, rmutexVars
  <1>2. /\ SchedOK(sched') /\ ActiveOK' /\ SameBlocked(sched, sched')
        /\ pc' \in [Thread -> {"app", "yield", "switch"}]
        /\ other_prio' \in [Thread -> Prio]
    BY <1>1, DispatchOK DEF IInv, TypeOK
  <1>3. TypeOK'
    BY <1>1, <1>2 DEF IInv, TypeOK, SchedOK
  <1>4. ASSUME NEW t \in Thread
        PROVE  /\ OnRunqueue(sched'.status[t]) <=> OnRunqueue(sched.status[t])
               /\ sched'.status[t] = "mutex_blocked" <=> sched.status[t] = "mutex_blocked"
               /\ sched'.status[t] = "sleeping" <=> sched.status[t] = "sleeping"
    BY <1>2, StatusFacts DEF SameBlocked
  <1>5. \A t \in Thread : Inside(t)' <=> Inside(t)
    BY <1>1, <1>4 DEF Inside
  <1>6. QueueOK'
    BY <1>1, <1>4 DEF IInv, QueueOK
  <1>7. ASSUME NEW t \in Thread PROVE CallOK(t)'
    <2>1. CallOK(t)
      BY DEF IInv
    <2>2. sched'.status[t] \in {"running", "pending", "sleeping", "mutex_blocked"}
      BY <1>4, <2>1 DEF CallOK, OnRunqueue, RunnableStatus
    <2> QED
      BY <1>1, <1>4, <1>5, <2>1, <2>2 DEF CallOK
  <1>8. Excludes'
    BY <1>1, <1>5 DEF IInv, Excludes
  <1> QED
    BY <1>2, <1>3, <1>6, <1>7, <1>8 DEF IInv

\* The active thread leaves its run queue and is about to give up the processor.
LEMMA LeaveStep ==
    ASSUME IInv, NEW t \in Thread, NEW point, At(t, point),
           NEW st \in {"sleeping", "mutex_blocked"},
           sched' = sched_set_status(sched, t, st), pc' = [pc EXCEPT ![t] = "yield"]
    PROVE  /\ SchedOK(sched') /\ ActiveOK'
           /\ sched'.status = [sched.status EXCEPT ![t] = st]
           /\ pc' \in [Thread -> {"app", "yield", "switch"}]
  <1>1. /\ OnRunqueue(sched.status[t]) /\ IsHead(sched, t) /\ sched.active = t
        /\ SchedOK(sched) /\ st \in BlockedStatus
    BY AtFacts DEF At, Executes, IInv, BlockedStatus
  <1>2. pc'[t] = "yield" /\ pc' \in [Thread -> {"app", "yield", "switch"}]
    BY TypeFacts DEF IInv
  <1>3. SchedOK(sched') /\ ActiveOK' /\ StatusSet(sched, sched', t, st)
    BY <1>1, <1>2, BlockedActive
  <1> QED
    BY <1>2, <1>3 DEF StatusSet

\* A thread waits for the mutex.
LEMMA WaitStep ==
    ASSUME IInv, NEW t \in Thread, lock_waits(t)
    PROVE  IInv'
  <1> DEFINE k == mutex_block(sched, rmutex.mutex, t)
             q == thread_add_to_list(sched, rmutex.mutex.queue, t)
  <1>1. At(t, "lock") /\ UNCHANGED <<try, depth>> /\ try \in [Thread -> BOOLEAN]
    BY TypeFacts DEF lock_waits, IInv
  <1>2. CASE ~rmutex.mutex.locked
    BY <1>1, <1>2, TakeStep DEF lock_waits
  <1>3. CASE rmutex.mutex.locked
    <2>1. /\ rmutex' = [rmutex EXCEPT !.mutex = k.mutex] /\ sched' = k.sched
          /\ pc' = [pc EXCEPT ![t] = "yield"] /\ call' = [call EXCEPT ![t] = "wait"]
          /\ UNCHANGED other_prio
      BY <1>3 DEF lock_waits
    <2>2. /\ k.sched = sched_set_status(sched, t, "mutex_blocked")
          /\ k.mutex = [rmutex.mutex EXCEPT !.queue = q]
      BY BlockEffect DEF IInv, QueueOK
    <2> HIDE DEF k
    <2>3. /\ SchedOK(sched') /\ ActiveOK'
          /\ sched'.status = [sched.status EXCEPT ![t] = "mutex_blocked"]
          /\ pc' \in [Thread -> {"app", "yield", "switch"}]
      BY <1>1, <2>1, <2>2, LeaveStep
    <2>4. /\ rmutex.mutex \in MutexType /\ rmutex.mutex.queue \in Seq(Thread)
          /\ sched.status \in [Thread -> Status] /\ depth \in [Thread -> Nat]
          /\ call \in [Thread -> {"none", "test", "lock", "wait", "own", "count", "reset", "unlock"}]
      BY TypeFacts DEF IInv
    <2>5. OnRunqueue(sched.status[t]) /\ call[t] = "lock" /\ CallOK(t)
      BY <1>1, AtFacts DEF IInv
    <2>6. t \notin Range(rmutex.mutex.queue) /\ IsInjective(rmutex.mutex.queue)
      BY <2>5, StatusFacts DEF IInv, QueueOK
    <2>7. q \in Seq(Thread) /\ IsInjective(q) /\ Range(q) = Range(rmutex.mutex.queue) \cup {t}
      BY <2>4, <2>6, AddFacts
    <2> HIDE DEF q
    <2>8. /\ rmutex'.mutex = [rmutex.mutex EXCEPT !.queue = q]
          /\ rmutex'.owner = rmutex.owner /\ rmutex'.refcount = rmutex.refcount
          /\ rmutex' \in [mutex : MutexType, owner : Thread \cup {NULL}, refcount : Nat]
      <3>1. k.mutex \in MutexType
        BY <2>2, <2>4, <2>7, QueueUpdated
      <3> QED
        BY <2>1, <2>2, <3>1 DEF IInv, TypeOK
    <2>9. /\ rmutex'.mutex.locked = rmutex.mutex.locked /\ rmutex'.mutex.queue = q
          /\ rmutex'.mutex.inherits = rmutex.mutex.inherits
      BY <2>4, <2>7, <2>8, QueueUpdated
    <2>10. TypeOK'
      BY <1>1, <2>1, <2>3, <2>8 DEF IInv, TypeOK, SchedOK
    <2>11. QueueOK'
      <3>1. Range(q) = {u \in Thread : sched'.status[u] = "mutex_blocked"}
        BY <2>3, <2>4, <2>7 DEF IInv, QueueOK
      <3> QED
        BY <1>3, <2>7, <2>9, <3>1 DEF IInv, QueueOK
    <2>12. call'[t] = "wait" /\ depth[t] = 0 /\ sched'.status[t] = "mutex_blocked"
      BY <2>1, <2>3, <2>4, <2>5 DEF CallOK
    <2>13. ASSUME NEW u \in Thread \ {t}
           PROVE  call'[u] = call[u] /\ sched'.status[u] = sched.status[u]
      BY <2>1, <2>3, <2>4
    <2>14. ASSUME NEW u \in Thread PROVE Inside(u)' <=> Inside(u)
      <3>1. CASE u = t
        BY <1>1, <2>4, <2>5, <2>12, <3>1, StatusFacts DEF Inside
      <3>2. CASE u # t
        BY <1>1, <2>13, <3>2 DEF Inside
      <3> QED
        BY <3>1, <3>2
    <2>15. ASSUME NEW u \in Thread PROVE CallOK(u)'
      <3>1. CASE u = t
        BY <1>1, <2>5, <2>8, <2>12, <2>14, <3>1 DEF CallOK
      <3>2. CASE u # t
        BY <1>1, <2>8, <2>13, <2>14, <3>2 DEF CallOK, IInv
      <3> QED
        BY <3>1, <3>2
    <2>16. Excludes'
      BY <2>8, <2>9, <2>14 DEF IInv, Excludes
    <2> QED
      BY <2>3, <2>10, <2>11, <2>15, <2>16 DEF IInv
  <1> QED
    BY <1>2, <1>3, TypeFacts DEF IInv

\* A thread sleeps outside the calls.
LEMMA SleepStep ==
    ASSUME IInv, NEW t \in Thread, thread_sleep(t)
    PROVE  IInv'
  <1>1. /\ At(t, "none") /\ sched' = sched_set_status(sched, t, "sleeping")
        /\ pc' = [pc EXCEPT ![t] = "yield"] /\ UNCHANGED <<other_prio, rmutex, call, try, depth>>
    BY DEF thread_sleep, rmutexVars
  <1>2. /\ SchedOK(sched') /\ ActiveOK'
        /\ sched'.status = [sched.status EXCEPT ![t] = "sleeping"]
        /\ pc' \in [Thread -> {"app", "yield", "switch"}]
    BY <1>1, LeaveStep
  <1>3. OnRunqueue(sched.status[t]) /\ call[t] = "none"
    BY <1>1, AtFacts
  <1>4. /\ sched'.status[t] = "sleeping" /\ sched.status[t] # "mutex_blocked"
        /\ \A u \in Thread \ {t} : sched'.status[u] = sched.status[u]
    BY <1>2, <1>3, StatusFacts, TypeFacts DEF IInv
  <1>5. TypeOK'
    BY <1>1, <1>2 DEF IInv, TypeOK, SchedOK
  <1>6. \A u \in Thread : Inside(u)' <=> Inside(u)
    BY <1>1, <1>3, <1>4 DEF Inside
  <1>7. QueueOK'
    BY <1>1, <1>4 DEF IInv, QueueOK
  <1>8. ASSUME NEW u \in Thread PROVE CallOK(u)'
    BY <1>1, <1>3, <1>4, <1>6 DEF IInv, CallOK
  <1>9. Excludes'
    BY <1>1, <1>6 DEF IInv, Excludes
  <1> QED
    BY <1>2, <1>5, <1>7, <1>8, <1>9 DEF IInv

\* An interrupt handler wakes a sleeping thread.
LEMMA WakeupStep ==
    ASSUME IInv, NEW t \in Thread, isr_thread_wakeup(t)
    PROVE  IInv'
  <1> DEFINE r == sched_set_status(sched, t, "running")
  <1>1. /\ sched.status[t] = "sleeping" /\ sched' \in isr_sched_switch(r, sched.priority[t])
        /\ UNCHANGED <<pc, other_prio, rmutex, call, try, depth>>
    BY DEF isr_thread_wakeup, rmutexVars
  <1>2. /\ SchedOK(sched) /\ ~OnRunqueue(sched.status[t])
        /\ sched.status \in [Thread -> Status] /\ CallOK(t)
    BY <1>1, StatusFacts, TypeFacts DEF IInv
  <1>3. SchedOK(r)
    BY <1>2, StatusFacts, SetStatusOK
  <1>4. \E b \in BOOLEAN : sched' = [r EXCEPT !.request = b]
    BY <1>1, <1>3, IsrSwitch
  <1>5. /\ SchedOK(sched') /\ ActiveOK'
        /\ sched'.status = [sched.status EXCEPT ![t] = "running"]
    BY <1>1, <1>2, <1>4, RunnableActive DEF IInv, RunnableStatus
  <1>6. /\ sched'.status[t] = "running" /\ call[t] = "none"
        /\ \A u \in Thread \ {t} : sched'.status[u] = sched.status[u]
    BY <1>1, <1>2, <1>5 DEF CallOK
  <1>7. TypeOK'
    BY <1>1, <1>5 DEF IInv, TypeOK, SchedOK
  <1>8. \A u \in Thread : Inside(u)' <=> Inside(u)
    BY <1>1, <1>6 DEF Inside
  <1>9. QueueOK'
    BY <1>1, <1>6 DEF IInv, QueueOK
  <1>10. ASSUME NEW u \in Thread PROVE CallOK(u)'
    BY <1>1, <1>6, <1>8 DEF IInv, CallOK
  <1>11. Excludes'
    BY <1>1, <1>8 DEF IInv, Excludes
  <1> QED
    BY <1>5, <1>7, <1>9, <1>10, <1>11 DEF IInv

\* The last unlock gives the underlying mutex to the first thread that waits,
\* or leaves it free.
LEMMA ReleaseStep ==
    ASSUME IInv, NEW t \in Thread, unlock_releases(t)
    PROVE  IInv'
  <1> DEFINE mx == rmutex.mutex
             r  == mutex_release(sched, mx)
  <1>1. /\ At(t, "unlock")
        /\ sched' = IF r.yields THEN sched_run(r.sched) ELSE r.sched
        /\ rmutex' = [rmutex EXCEPT !.mutex = r.mutex]
        /\ pc' = [pc EXCEPT ![t] = IF r.woken = NULL THEN @ ELSE "switch"]
        /\ other_prio' = [other_prio EXCEPT
               ![t] = IF r.woken = NULL THEN @ ELSE sched.priority[r.woken]]
        /\ call' = [call EXCEPT ![t] = "none"]
        /\ UNCHANGED <<try, depth>>
    BY DEF unlock_releases
  <1>2. /\ mx \in MutexType /\ mx.queue \in Seq(Thread) /\ ~mx.inherits
        /\ sched.status \in [Thread -> Status] /\ sched.priority \in [Thread -> Prio]
        /\ depth \in [Thread -> Nat] /\ NULL \notin Thread
        /\ call \in [Thread -> {"none", "test", "lock", "wait", "own", "count", "reset", "unlock"}]
        /\ pc \in [Thread -> {"app", "yield", "switch"}] /\ other_prio \in [Thread -> Prio]
        /\ rmutex \in [mutex : MutexType, owner : Thread \cup {NULL}, refcount : Nat]
    BY TypeFacts DEF IInv, QueueOK, TypeOK
  <1>3. /\ OnRunqueue(sched.status[t]) /\ call[t] = "unlock" /\ CallOK(t) /\ pc[t] = "app"
        /\ Inside(t) /\ depth[t] = 0 /\ rmutex.refcount = 0 /\ rmutex.owner # t
    <2>1. OnRunqueue(sched.status[t]) /\ call[t] = "unlock" /\ CallOK(t) /\ pc[t] = "app"
      BY <1>1, AtFacts DEF IInv
    <2>2. Inside(t) /\ depth[t] = 0
      BY <2>1 DEF Inside, CallOK
    <2> QED
      BY <2>1, <2>2 DEF CallOK
  <1>4. \A u \in Thread \ {t} : ~Inside(u) /\ depth[u] = 0 /\ call'[u] = call[u]
    BY <1>1, <1>2, <1>3 DEF IInv, Excludes, Inside
  <1>5. call'[t] = "none" /\ ~Inside(t)'
    BY <1>1, <1>2, <1>3 DEF Inside
  <1>6. CASE mx.queue = <<>>
    <2>1. r.sched = sched /\ r.mutex = [mx EXCEPT !.locked = FALSE] /\ r.woken = NULL /\ ~r.yields
      BY <1>2, <1>6 DEF mutex_release, mutex_hand_over
    <2> HIDE DEF r
    <2>2. UNCHANGED <<sched, pc, other_prio>> /\ rmutex' = [rmutex EXCEPT !.mutex = [mx EXCEPT !.locked = FALSE]]
      BY <1>1, <1>2, <2>1
    <2>3. /\ [mx EXCEPT !.locked = FALSE] \in MutexType
          /\ [mx EXCEPT !.locked = FALSE].locked = FALSE
          /\ [mx EXCEPT !.locked = FALSE].queue = mx.queue
          /\ [mx EXCEPT !.locked = FALSE].inherits = mx.inherits
      BY <1>2, LockedUpdate
    <2>4. /\ rmutex'.mutex = [mx EXCEPT !.locked = FALSE]
          /\ rmutex'.owner = rmutex.owner /\ rmutex'.refcount = rmutex.refcount
          /\ rmutex' \in [mutex : MutexType, owner : Thread \cup {NULL}, refcount : Nat]
      BY <1>2, <2>2, <2>3
    <2>5. TypeOK'
      BY <1>1, <1>2, <2>2, <2>4 DEF IInv, TypeOK
    <2>6. \A u \in Thread : ~Inside(u)'
      BY <1>1, <1>4, <1>5, <2>2 DEF Inside
    <2>7. ASSUME NEW u \in Thread PROVE CallOK(u)'
      <3>1. CASE u = t
        BY <1>1, <1>3, <1>5, <2>2, <2>4, <2>6, <3>1, StatusFacts DEF CallOK
      <3>2. CASE u # t
        BY <1>1, <1>4, <2>2, <2>4, <2>6, <3>2 DEF IInv, CallOK
      <3> QED
        BY <3>1, <3>2
    <2>8. Excludes'
      BY <1>3, <2>3, <2>4, <2>6 DEF Excludes
    <2>9. QueueOK'
      BY <1>6, <2>2, <2>3, <2>4 DEF IInv, QueueOK
    <2> QED
      BY <2>2, <2>5, <2>7, <2>8, <2>9 DEF IInv, ActiveOK
  <1>7. CASE mx.queue # <<>>
    <2>0. PICK w : w = Head(mx.queue)
      OBVIOUS
    <2>1. /\ r.sched = sched_set_status(sched, w, "pending")
          /\ r.mutex = [mx EXCEPT !.queue = Tail(mx.queue)] /\ r.woken = w /\ ~r.yields
      BY <1>2, <1>7, <2>0 DEF mutex_release, mutex_hand_over
    <2> HIDE DEF r
    <2>2. /\ w \in Range(mx.queue) /\ Tail(mx.queue) \in Seq(Thread) /\ IsInjective(Tail(mx.queue))
          /\ Range(Tail(mx.queue)) = Range(mx.queue) \ {w}
      BY <1>2, <1>7, <2>0, TailFacts DEF IInv, QueueOK
    <2>3. w \in Thread /\ sched.status[w] = "mutex_blocked"
      BY <2>2 DEF IInv, QueueOK
    <2>4. w # t /\ ~OnRunqueue(sched.status[w]) /\ call[w] = "wait" /\ CallOK(w)
      BY <1>3, <2>3, StatusFacts DEF IInv, CallOK
    <2>5. /\ sched' = sched_set_status(sched, w, "pending")
          /\ pc' = [pc EXCEPT ![t] = "switch"]
          /\ other_prio' = [other_prio EXCEPT ![t] = sched.priority[w]]
          /\ rmutex' = [rmutex EXCEPT !.mutex = [mx EXCEPT !.queue = Tail(mx.queue)]]
      BY <1>1, <1>2, <2>1, <2>3
    <2>6. /\ pc' \in [Thread -> {"app", "yield", "switch"}] /\ other_prio' \in [Thread -> Prio]
          /\ \A v \in Thread : pc[v] = "yield" => pc'[v] = "yield"
      BY <1>2, <1>3, <2>3, <2>5
    <2>7. sched' = [sched_set_status(sched, w, "pending") EXCEPT !.request = sched'.request]
          /\ sched'.request \in BOOLEAN
      <3>1. SchedOK(sched')
        BY <2>3, <2>4, <2>5, StatusFacts, SetStatusOK DEF IInv
      <3> QED
        BY <2>5, <3>1 DEF SchedOK, SchedType
    <2>8. /\ SchedOK(sched') /\ ActiveOK'
          /\ sched'.status = [sched.status EXCEPT ![w] = "pending"]
      BY <2>3, <2>4, <2>6, <2>7, RunnableActive DEF IInv, RunnableStatus
    <2>9. /\ sched'.status[w] = "pending"
          /\ \A u \in Thread \ {w} : sched'.status[u] = sched.status[u]
      BY <1>2, <2>3, <2>8
    <2>10. /\ [mx EXCEPT !.queue = Tail(mx.queue)] \in MutexType
           /\ [mx EXCEPT !.queue = Tail(mx.queue)].locked = mx.locked
           /\ [mx EXCEPT !.queue = Tail(mx.queue)].queue = Tail(mx.queue)
           /\ [mx EXCEPT !.queue = Tail(mx.queue)].inherits = mx.inherits
      BY <1>2, <2>2, QueueUpdated
    <2>11. /\ rmutex'.mutex = [mx EXCEPT !.queue = Tail(mx.queue)]
           /\ rmutex'.owner = rmutex.owner /\ rmutex'.refcount = rmutex.refcount
           /\ rmutex' \in [mutex : MutexType, owner : Thread \cup {NULL}, refcount : Nat]
      BY <1>2, <2>5, <2>10
    <2>12. TypeOK'
      BY <1>1, <1>2, <2>6, <2>8, <2>11 DEF IInv, TypeOK, SchedOK
    <2>13. mx.locked
      BY <1>7 DEF IInv, QueueOK
    <2>14. QueueOK'
      <3>1. Range(Tail(mx.queue)) = {u \in Thread : sched'.status[u] = "mutex_blocked"}
        BY <2>2, <2>3, <2>9 DEF IInv, QueueOK
      <3> QED
        BY <1>2, <2>2, <2>10, <2>11, <2>13, <3>1 DEF QueueOK
    <2>15. /\ Inside(w)'
           /\ \A u \in Thread \ {w} : ~Inside(u)'
      BY <1>1, <1>4, <1>5, <2>3, <2>4, <2>9, StatusFacts DEF Inside
    <2>16. ASSUME NEW u \in Thread PROVE CallOK(u)'
      <3>1. CASE u = t
        BY <1>1, <1>3, <1>5, <2>4, <2>9, <2>11, <2>15, <3>1, StatusFacts DEF CallOK
      <3>2. CASE u = w
        BY <1>1, <1>3, <1>4, <2>3, <2>4, <2>9, <2>11, <3>2 DEF CallOK
      <3>3. CASE u # t /\ u # w
        BY <1>1, <1>4, <2>9, <2>11, <2>15, <3>3 DEF IInv, CallOK
      <3> QED
        BY <3>1, <3>2, <3>3
    <2>17. Excludes'
      BY <2>3, <2>10, <2>11, <2>13, <2>15 DEF Excludes
    <2> QED
      BY <2>8, <2>12, <2>14, <2>16, <2>17 DEF IInv
  <1> QED
    BY <1>6, <1>7

----------------------------------------------------------------------------
(* The results                                                             *)

LEMMA StepOK ==
    ASSUME IInv, [Next]_vars
    PROVE  IInv'
  <1>1. CASE Reschedule
    BY <1>1, RescheduleStep
  <1>2. ASSUME NEW t \in Thread, NEW trylock \in BOOLEAN, lock_starts(t, trylock)
        PROVE  IInv'
    BY <1>2, StartStep
  <1>3. ASSUME NEW t \in Thread, Locks(t) \/ unlock_counts(t) \/ Unlocks(t)
        PROVE  IInv'
    BY <1>3, TestStep, WaitStep, WokenStep, FieldStep, ReleaseStep DEF Locks, Unlocks
  <1>4. ASSUME NEW t \in Thread, thread_sleep(t) \/ isr_thread_wakeup(t)
        PROVE  IInv'
    BY <1>4, SleepStep, WakeupStep
  <1>5. CASE UNCHANGED vars
    <2>1. UNCHANGED <<sched, pc, other_prio, rmutex, call, try, depth>>
      BY <1>5 DEF vars
    <2>2. TypeOK' /\ SchedOK(sched') /\ ActiveOK'
      BY <2>1 DEF IInv, TypeOK, ActiveOK
    <2>3. QueueOK'
      BY <2>1 DEF IInv, QueueOK
    <2>4. \A t \in Thread : Inside(t)' <=> Inside(t)
      BY <2>1 DEF Inside
    <2>5. \A t \in Thread : CallOK(t)'
      BY <2>1, <2>4 DEF IInv, CallOK
    <2>6. Excludes'
      BY <2>1, <2>4 DEF IInv, Excludes
    <2> QED
      BY <2>2, <2>3, <2>5, <2>6 DEF IInv
  <1> QED
    BY <1>1, <1>2, <1>3, <1>4, <1>5 DEF Next

\* The threads have been created, the first one is on its way into the
\* scheduler, and the mutex is as rmutex_init leaves it.
LEMMA InitOK ==
    ASSUME PriorityInheritance = FALSE, Init
    PROVE  IInv
  <1>1. /\ sched = all_created(ThreadPrio) /\ SchedOK(sched)
        /\ pc = [t \in Thread |-> IF t = 1 THEN "yield" ELSE "app"]
        /\ other_prio = [t \in Thread |-> 0]
        /\ rmutex = [mutex |-> mutex_init(FALSE, FALSE), owner |-> NULL, refcount |-> 0]
        /\ call = [t \in Thread |-> "none"] /\ try = [t \in Thread |-> FALSE]
        /\ depth = [t \in Thread |-> 0]
    BY RMutexAssumption, CreatedOK DEF Init
  <1>2. sched.active = 1 /\ \A t \in Thread : sched.status[t] \in {"running", "pending"}
    BY <1>1 DEF all_created
  <1>3. 0 \in Prio /\ NULL \notin Thread
    BY SchedAssumption DEF Prio, NULL, Thread
  <1>4. /\ rmutex.mutex \in MutexType /\ ~rmutex.mutex.locked /\ ~rmutex.mutex.inherits
        /\ rmutex.mutex.queue = <<>> /\ rmutex.owner = NULL /\ rmutex.refcount = 0
    BY <1>1, <1>3 DEF mutex_init, MutexType
  <1>5. TypeOK
    BY <1>1, <1>3, <1>4 DEF TypeOK, SchedOK
  <1>6. ActiveOK
    BY <1>1, <1>2 DEF ActiveOK
  <1>7. QueueOK
    <2>1. IsInjective(<<>>) /\ Range(<<>>) = {}
      BY DEF IsInjective, Range
    <2> QED
      BY <1>2, <1>4, <2>1 DEF QueueOK
  <1>8. \A t \in Thread : ~Inside(t)
    BY <1>1 DEF Inside
  <1>9. ASSUME NEW t \in Thread PROVE CallOK(t)
    BY <1>1, <1>2, <1>3, <1>4, <1>8 DEF CallOK
  <1>10. Excludes
    BY <1>4, <1>8 DEF Excludes
  <1> QED
    BY <1>1, <1>5, <1>6, <1>7, <1>9, <1>10 DEF IInv

\* In a build without priority inheritance the recursive mutex excludes,
\* whatever the number of threads, their priorities and the depth of nesting,
\* though owner and refcount are read and written with interrupts enabled.
THEOREM Exclusion ==
    ASSUME PriorityInheritance = FALSE
    PROVE  Spec => []MutualExclusion
  <1>1. IInv => MutualExclusion
    BY DEF IInv, Excludes, MutualExclusion
  <1> QED
    BY <1>1, InitOK, StepOK, PTL DEF Spec

\* The argument in the comment of _lock, for every instance: a thread that
\* compares owner with itself gets the answer that its own calls determine,
\* whatever other threads store there meanwhile.
THEOREM OwnerTest ==
    ASSUME PriorityInheritance = FALSE
    PROVE  Spec => []OwnerTestStable
  <1>1. IInv => OwnerTestStable
    BY DEF IInv, CallOK, OwnerTestStable
  <1> QED
    BY <1>1, InitOK, StepOK, PTL DEF Spec

\* The assertions of rmutex_unlock hold for every thread that holds the mutex,
\* and refcount is how often it does.
THEOREM UnlockIsOwners ==
    ASSUME PriorityInheritance = FALSE
    PROVE  Spec => []UnlockAsserts
  <1>1. ASSUME IInv PROVE UnlockAsserts
    BY <1>1 DEF IInv, CallOK, Inside, UnlockAsserts
  <1> QED
    BY <1>1, InitOK, StepOK, PTL DEF Spec
=============================================================================
