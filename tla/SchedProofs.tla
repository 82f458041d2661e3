---------------------------- MODULE SchedProofs ----------------------------
(***************************************************************************)
(* Facts about the operators of Sched, for every number of threads and of  *)
(* priorities: what each does to the run queues and to the bit cache.      *)
(***************************************************************************)
EXTENDS Sched, SequenceTheorems, FiniteSetTheorems, WellFoundedInduction, TLAPS

\* A scheduler state in which the run queues keep their promise
SchedOK(s) == s \in SchedType /\ RunqueueOK(s) /\ BitcacheOK(s)

\* r is s with the run queue of priority p replaced by q, the bit cache by b
\* and the status of t by st.
QueueChange(s, r, p, q, b, t, st) ==
    /\ r \in SchedType
    /\ r.threads = s.threads /\ r.num = s.num /\ r.priority = s.priority
    /\ r.active = s.active /\ r.request = s.request /\ r.idle = s.idle
    /\ r.status = [s.status EXCEPT ![t] = st]
    /\ r.runqueues = [s.runqueues EXCEPT ![p] = q]
    /\ r.bitcache = b

\* What the callers of sched_set_status(s, t, st) rely on, r being its result:
\* a thread made runnable joins its queue behind the others.
StatusSet(s, r, t, st) ==
    /\ r.threads = s.threads /\ r.num = s.num /\ r.priority = s.priority
    /\ r.active = s.active /\ r.request = s.request /\ r.idle = s.idle
    /\ r.status = [s.status EXCEPT ![t] = st]
    /\ OnRunqueue(st) => /\ r.bitcache = s.bitcache \cup {s.priority[t]}
                         /\ \A u \in Thread : IsHead(s, u) => IsHead(r, u)
    /\ ~OnRunqueue(s.status[t]) /\ ~OnRunqueue(st) => /\ r.runqueues = s.runqueues
                                                      /\ r.bitcache = s.bitcache

\* r is s with another thread elected, or with the processor idle.
Elected(s, r) ==
    /\ r.threads = s.threads /\ r.num = s.num /\ r.priority = s.priority
    /\ r.runqueues = s.runqueues /\ r.bitcache = s.bitcache
    /\ \A u \in Thread : /\ OnRunqueue(r.status[u]) <=> OnRunqueue(s.status[u])
                         /\ ~OnRunqueue(s.status[u]) => r.status[u] = s.status[u]
    /\ IF s.bitcache = {}
       THEN r.idle
       ELSE /\ ~r.idle
            /\ ~r.request
            /\ r.active \in Thread
            /\ r.active = Head(s.runqueues[Min(s.bitcache)])
            /\ r.priority[r.active] = Min(s.bitcache)
            /\ OnRunqueue(r.status[r.active])
            /\ IsHead(r, r.active)

----------------------------------------------------------------------------
(* Sequences                                                               *)

\* A queue of threads is empty exactly when it has no entry.
LEMMA EmptyQueue ==
    ASSUME NEW q \in Seq(Thread)
    PROVE  /\ Range(q) \subseteq Thread
           /\ q = <<>> <=> Range(q) = {}
  <1>1. Len(q) \in Nat /\ DOMAIN q = 1 .. Len(q) /\ \A i \in DOMAIN q : q[i] \in Thread
    OBVIOUS
  <1>2. q = <<>> <=> Len(q) = 0
    BY EmptySeq
  <1>3. Len(q) = 0 <=> DOMAIN q = {}
    <2>1. Len(q) # 0 => 1 \in DOMAIN q
      BY <1>1
    <2>2. Len(q) = 0 => DOMAIN q = {}
      BY <1>1
    <2> QED
      BY <2>1, <2>2
  <1> QED
    BY <1>1, <1>2, <1>3 DEF Range

\* A thread appended to a queue it is not in (clist_rpush)
LEMMA AppendFacts ==
    ASSUME NEW q \in Seq(Thread), IsInjective(q), NEW t \in Thread, t \notin Range(q)
    PROVE  /\ Append(q, t) \in Seq(Thread)
           /\ IsInjective(Append(q, t))
           /\ Range(Append(q, t)) = Range(q) \cup {t}
           /\ Head(Append(q, t)) = IF q = <<>> THEN t ELSE Head(q)
  <1> DEFINE a == Append(q, t)
  <1>1. /\ a \in Seq(Thread)
        /\ Len(q) \in Nat
        /\ DOMAIN q = 1 .. Len(q)
        /\ DOMAIN a = 1 .. Len(q) + 1
        /\ \A i \in 1 .. Len(q) : a[i] = q[i]
        /\ a[Len(q) + 1] = t
    OBVIOUS
  <1>2. Head(a) = IF q = <<>> THEN t ELSE Head(q)
    OBVIOUS
  <1> HIDE DEF a
  <1>3. DOMAIN a = DOMAIN q \cup {Len(q) + 1}
    BY <1>1
  <1>4. IsInjective(a)
    BY <1>1, <1>3 DEF IsInjective, Range
  <1>5. Range(a) = Range(q) \cup {t}
    BY <1>1, <1>3 DEF Range
  <1> QED
    BY <1>1, <1>2, <1>4, <1>5 DEF a

\* The head removed from a queue (clist_lpop)
LEMMA TailFacts ==
    ASSUME NEW q \in Seq(Thread), IsInjective(q), q # <<>>
    PROVE  /\ Head(q) \in Range(q)
           /\ Tail(q) \in Seq(Thread)
           /\ IsInjective(Tail(q))
           /\ Range(Tail(q)) = Range(q) \ {Head(q)}
  <1> DEFINE r == Tail(q)
  <1>1. Len(q) \in Nat \ {0} /\ DOMAIN q = 1 .. Len(q)
    OBVIOUS
  <1>2. Head(q) = q[1] /\ r \in Seq(Thread) /\ DOMAIN r = 1 .. Len(q) - 1
    OBVIOUS
  <1>3. \A i \in 1 .. Len(q) - 1 : r[i] = q[i + 1]
    OBVIOUS
  <1> HIDE DEF r
  <1>4. IsInjective(r)
    <2> SUFFICES ASSUME NEW i \in DOMAIN r, NEW j \in DOMAIN r, r[i] = r[j]
                 PROVE  i = j
      BY DEF IsInjective
    <2>1. i + 1 \in DOMAIN q /\ j + 1 \in DOMAIN q /\ q[i + 1] = q[j + 1]
      BY <1>1, <1>2, <1>3
    <2>2. i + 1 = j + 1
      BY <2>1 DEF IsInjective
    <2> QED
      BY <1>1, <1>2, <2>2
  <1>5. \A i \in DOMAIN r : r[i] \in Range(q) /\ r[i] # q[1]
    BY <1>1, <1>2, <1>3 DEF IsInjective, Range
  <1>6. \A i \in DOMAIN q : i # 1 => i - 1 \in DOMAIN r /\ r[i - 1] = q[i]
    BY <1>1, <1>2, <1>3
  <1>7. Range(r) = Range(q) \ {q[1]}
    BY <1>1, <1>5, <1>6 DEF Range
  <1>8. q[1] \in Range(q)
    BY <1>1 DEF Range
  <1> QED
    BY <1>2, <1>4, <1>7, <1>8 DEF r

\* A queue with its head moved to its end (clist_lpoprpush)
LEMMA RotateFacts ==
    ASSUME NEW q \in Seq(Thread), IsInjective(q)
    PROVE  /\ clist_lpoprpush(q) \in Seq(Thread)
           /\ IsInjective(clist_lpoprpush(q))
           /\ Range(clist_lpoprpush(q)) = Range(q)
  <1>1. CASE q = <<>>
    BY <1>1 DEF clist_lpoprpush
  <1>2. CASE q # <<>>
    <2>1. Head(q) \in Thread
      BY <1>2, TailFacts, EmptyQueue
    <2>2. /\ Tail(q) \in Seq(Thread) /\ IsInjective(Tail(q))
          /\ Range(Tail(q)) = Range(q) \ {Head(q)}
          /\ Head(q) \in Range(q)
      BY <1>2, TailFacts
    <2>3. /\ Append(Tail(q), Head(q)) \in Seq(Thread)
          /\ IsInjective(Append(Tail(q), Head(q)))
          /\ Range(Append(Tail(q), Head(q))) = Range(Tail(q)) \cup {Head(q)}
      BY <2>1, <2>2, AppendFacts
    <2> QED
      BY <1>2, <2>2, <2>3 DEF clist_lpoprpush
  <1> QED
    BY <1>1, <1>2

\* The lowest bit set in a bit cache that is not zero
LEMMA MinFacts ==
    ASSUME NEW S \in SUBSET Nat, S # {}
    PROVE  Min(S) \in S /\ \A y \in S : Min(S) <= y
  <1> DEFINE R == {ss \in Nat \X Nat : ss[1] < ss[2]}
  <1>1. IsWellFoundedOn(R, Nat)
    BY NatLessThanWellFounded, Zenon DEF OpToRel
  <1> HIDE DEF R
  <1>2. PICK x \in S : \A y \in S : ~ (<<y, x>> \in R)
    BY <1>1, WFMin
  <1>3. \A y \in S : x <= y
    <2> SUFFICES ASSUME NEW y \in S PROVE x <= y
      OBVIOUS
    <2>1. <<y, x>> \in Nat \X Nat /\ <<y, x>>[1] = y /\ <<y, x>>[2] = x
      OBVIOUS
    <2>2. ~(y < x)
      BY <1>2, <2>1 DEF R
    <2> QED
      BY <2>2
  <1> QED
    BY <1>3 DEF Min

----------------------------------------------------------------------------
(* sched_set_status                                                        *)

\* An update of the fields that sched_set_status writes is a QueueChange.
LEMMA QueueUpdate ==
    ASSUME NEW s \in SchedType, NEW p \in Prio, NEW q \in Seq(Thread), NEW b \in SUBSET Prio,
           NEW t \in Thread, NEW st \in Status
    PROVE  QueueChange(s, [[s EXCEPT !.runqueues[p] = q, !.bitcache = b] EXCEPT !.status[t] = st],
                       p, q, b, t, st)
  BY DEF SchedType, QueueChange

\* sched_set_status makes a thread runnable that was not: it enters the run
\* queue of its priority at the end.
LEMMA PushEffect ==
    ASSUME NEW s \in SchedType, NEW t \in Thread, NEW st \in RunnableStatus,
           ~OnRunqueue(s.status[t])
    PROVE  QueueChange(s, sched_set_status(s, t, st), s.priority[t],
                       Append(s.runqueues[s.priority[t]], t),
                       s.bitcache \cup {s.priority[t]}, t, st)
  <1> DEFINE p == s.priority[t]
             q == Append(s.runqueues[p], t)
             b == s.bitcache \cup {p}
  <1>1. st \in Status
    BY DEF Status
  <1>2. sched_set_status(s, t, st) = [[s EXCEPT !.runqueues[p] = q, !.bitcache = b] EXCEPT !.status[t] = st]
    BY DEF sched_set_status, OnRunqueue, runqueue_push
  <1>3. p \in Prio /\ s.runqueues[p] \in Seq(Thread) /\ b \in SUBSET Prio
    BY DEF SchedType
  <1>4. q \in Seq(Thread)
    BY <1>3
  <1> HIDE DEF p, q, b
  <1>5. QueueChange(s, [[s EXCEPT !.runqueues[p] = q, !.bitcache = b] EXCEPT !.status[t] = st],
                    p, q, b, t, st)
    BY <1>1, <1>3, <1>4, QueueUpdate
  <1> QED
    BY <1>2, <1>5 DEF p, q, b

\* sched_set_status blocks a thread that was runnable: the head of the run
\* queue of its priority leaves it.
LEMMA PopEffect ==
    ASSUME NEW s \in SchedType, NEW t \in Thread, NEW st \in BlockedStatus,
           OnRunqueue(s.status[t]), s.runqueues[s.priority[t]] # <<>>
    PROVE  QueueChange(s, sched_set_status(s, t, st), s.priority[t],
                       Tail(s.runqueues[s.priority[t]]),
                       IF Tail(s.runqueues[s.priority[t]]) = <<>>
                       THEN s.bitcache \ {s.priority[t]} ELSE s.bitcache, t, st)
  <1> DEFINE p == s.priority[t]
             q == Tail(s.runqueues[p])
             b == IF q = <<>> THEN s.bitcache \ {p} ELSE s.bitcache
  <1>1. st \in Status /\ ~OnRunqueue(st)
    BY DEF Status, OnRunqueue, BlockedStatus, RunnableStatus
  <1>2. sched_set_status(s, t, st) = [[s EXCEPT !.runqueues[p] = q, !.bitcache = b] EXCEPT !.status[t] = st]
    BY <1>1 DEF sched_set_status, runqueue_pop, clist_lpop
  <1>3. p \in Prio /\ s.runqueues[p] \in Seq(Thread) /\ b \in SUBSET Prio
    BY DEF SchedType
  <1>4. q \in Seq(Thread)
    BY <1>3
  <1> HIDE DEF p, q, b
  <1>5. QueueChange(s, [[s EXCEPT !.runqueues[p] = q, !.bitcache = b] EXCEPT !.status[t] = st],
                    p, q, b, t, st)
    BY <1>1, <1>3, <1>4, QueueUpdate
  <1> QED
    BY <1>2, <1>5 DEF p, q, b

\* A scheduler state keeps its promise when thread t enters or leaves the
\* queue of its priority as its status says.
LEMMA RequeueOK ==
    ASSUME NEW s, SchedOK(s), NEW r, NEW t \in Thread, NEW st \in Status, NEW q \in Seq(Thread),
           IsInjective(q),
           Range(q) = IF OnRunqueue(st) THEN Range(s.runqueues[s.priority[t]]) \cup {t}
                                        ELSE Range(s.runqueues[s.priority[t]]) \ {t},
           QueueChange(s, r, s.priority[t], q,
                       IF q = <<>> THEN s.bitcache \ {s.priority[t]}
                                   ELSE s.bitcache \cup {s.priority[t]}, t, st)
    PROVE  SchedOK(r)
  <1> DEFINE p == s.priority[t]
  <1>1. /\ s \in SchedType /\ r \in SchedType
        /\ p \in Prio
        /\ s.runqueues \in [Prio -> Seq(Thread)]
        /\ s.status \in [Thread -> Status]
        /\ s.priority \in [Thread -> Prio]
        /\ s.bitcache \in SUBSET Prio
    BY DEF SchedOK, SchedType, QueueChange
  <1>2. /\ r.priority = s.priority
        /\ r.bitcache = IF q = <<>> THEN s.bitcache \ {p} ELSE s.bitcache \cup {p}
        /\ r.runqueues[p] = q
        /\ \A o \in Prio \ {p} : r.runqueues[o] = s.runqueues[o]
        /\ \A u \in Thread : r.status[u] = IF u = t THEN st ELSE s.status[u]
    BY <1>1 DEF QueueChange
  <1>3. RunqueueOK(r)
    <2> SUFFICES ASSUME NEW o \in Prio
                 PROVE  /\ IsInjective(r.runqueues[o])
                        /\ Range(r.runqueues[o])
                             = {u \in Thread : r.priority[u] = o /\ OnRunqueue(r.status[u])}
      BY DEF RunqueueOK
    <2>1. /\ IsInjective(s.runqueues[o])
          /\ Range(s.runqueues[o])
               = {u \in Thread : s.priority[u] = o /\ OnRunqueue(s.status[u])}
      BY DEF SchedOK, RunqueueOK
    <2>2. CASE o = p
      BY <1>2, <2>1, <2>2
    <2>3. CASE o # p
      BY <1>2, <2>1, <2>3
    <2> QED
      BY <2>2, <2>3
  <1>4. BitcacheOK(r)
    BY <1>1, <1>2 DEF SchedOK, BitcacheOK
  <1> QED
    BY <1>1, <1>3, <1>4 DEF SchedOK

\* Making a thread runnable keeps the promise of the run queues.
LEMMA PushOK ==
    ASSUME NEW s, SchedOK(s), NEW t \in Thread, NEW st \in RunnableStatus,
           ~OnRunqueue(s.status[t])
    PROVE  SchedOK(sched_set_status(s, t, st))
  <1> DEFINE p == s.priority[t]
             q == s.runqueues[p]
  <1>1. s \in SchedType /\ p \in Prio /\ q \in Seq(Thread) /\ st \in Status
    BY DEF SchedOK, SchedType, Status
  <1>2. IsInjective(q) /\ t \notin Range(q)
    BY <1>1 DEF SchedOK, RunqueueOK
  <1>3. /\ Append(q, t) \in Seq(Thread)
        /\ IsInjective(Append(q, t))
        /\ Range(Append(q, t)) = Range(q) \cup {t}
    BY <1>1, <1>2, AppendFacts
  <1>4. Append(q, t) # <<>>
    BY <1>1, <1>3, EmptyQueue
  <1>5. QueueChange(s, sched_set_status(s, t, st), p, Append(q, t), s.bitcache \cup {p}, t, st)
    BY <1>1, PushEffect
  <1>6. OnRunqueue(st)
    BY DEF OnRunqueue
  <1> QED
    BY <1>1, <1>3, <1>4, <1>5, <1>6, RequeueOK

\* Blocking the head of its run queue keeps the promise of the run queues.
LEMMA PopOK ==
    ASSUME NEW s, SchedOK(s), NEW t \in Thread, NEW st \in BlockedStatus,
           OnRunqueue(s.status[t]), IsHead(s, t)
    PROVE  SchedOK(sched_set_status(s, t, st))
  <1> DEFINE p == s.priority[t]
             q == s.runqueues[p]
             b == IF Tail(q) = <<>> THEN s.bitcache \ {p} ELSE s.bitcache
  <1>1. s \in SchedType /\ p \in Prio /\ q \in Seq(Thread) /\ st \in Status
    BY DEF SchedOK, SchedType, Status
  <1>2. IsInjective(q) /\ q # <<>> /\ Head(q) = t
    BY <1>1 DEF SchedOK, RunqueueOK, IsHead
  <1>3. /\ Tail(q) \in Seq(Thread)
        /\ IsInjective(Tail(q))
        /\ Range(Tail(q)) = Range(q) \ {t}
    BY <1>1, <1>2, TailFacts
  <1>4. QueueChange(s, sched_set_status(s, t, st), p, Tail(q), b, t, st)
    BY <1>1, <1>2, PopEffect
  <1>5. b = IF Tail(q) = <<>> THEN s.bitcache \ {p} ELSE s.bitcache \cup {p}
    BY <1>1, <1>2 DEF SchedOK, BitcacheOK
  <1>6. ~OnRunqueue(st)
    BY DEF OnRunqueue, BlockedStatus, RunnableStatus
  <1> HIDE DEF b
  <1>7. QueueChange(s, sched_set_status(s, t, st), p, Tail(q),
                    IF Tail(q) = <<>> THEN s.bitcache \ {p} ELSE s.bitcache \cup {p}, t, st)
    BY <1>4, <1>5
  <1> QED
    BY <1>1, <1>3, <1>6, <1>7, RequeueOK

----------------------------------------------------------------------------
(* The other operators                                                     *)

\* A change that leaves alone the queues and who is on them keeps the promise.
LEMMA FrameOK ==
    ASSUME NEW s, SchedOK(s), NEW r \in SchedType,
           r.runqueues = s.runqueues, r.bitcache = s.bitcache,
           \A u \in Thread : /\ OnRunqueue(r.status[u]) <=> OnRunqueue(s.status[u])
                             /\ OnRunqueue(s.status[u]) => r.priority[u] = s.priority[u]
    PROVE  SchedOK(r)
  <1>1. ASSUME NEW p \in Prio
        PROVE  {t \in Thread : r.priority[t] = p /\ OnRunqueue(r.status[t])}
                 = {t \in Thread : s.priority[t] = p /\ OnRunqueue(s.status[t])}
    OBVIOUS
  <1>2. RunqueueOK(r)
    BY <1>1 DEF SchedOK, RunqueueOK
  <1>3. BitcacheOK(r)
    BY DEF SchedOK, BitcacheOK
  <1> QED
    BY <1>2, <1>3 DEF SchedOK

\* sched_runq_advance keeps the promise and changes one run queue only.
LEMMA AdvanceOK ==
    ASSUME NEW s, SchedOK(s), NEW p \in Prio
    PROVE  /\ SchedOK(sched_runq_advance(s, p))
           /\ \E q \in Seq(Thread) : sched_runq_advance(s, p) = [s EXCEPT !.runqueues[p] = q]
  <1> DEFINE q == clist_lpoprpush(s.runqueues[p])
             r == [s EXCEPT !.runqueues[p] = q]
  <1>1. s \in SchedType /\ s.runqueues[p] \in Seq(Thread) /\ IsInjective(s.runqueues[p])
    BY DEF SchedOK, SchedType, RunqueueOK
  <1>2. q \in Seq(Thread) /\ IsInjective(q) /\ Range(q) = Range(s.runqueues[p])
    BY <1>1, RotateFacts
  <1>3. q = <<>> <=> s.runqueues[p] = <<>>
    BY <1>1, <1>2, EmptyQueue
  <1>4. sched_runq_advance(s, p) = r
    BY DEF sched_runq_advance
  <1> HIDE DEF q
  <1>5. /\ r \in SchedType
        /\ r.status = s.status /\ r.priority = s.priority /\ r.bitcache = s.bitcache
        /\ r.runqueues[p] = q
        /\ \A o \in Prio \ {p} : r.runqueues[o] = s.runqueues[o]
    BY <1>1, <1>2 DEF SchedType
  <1>6. RunqueueOK(r)
    BY <1>1, <1>2, <1>5 DEF SchedOK, RunqueueOK
  <1>7. BitcacheOK(r)
    BY <1>1, <1>3, <1>5 DEF SchedOK, BitcacheOK
  <1> QED
    BY <1>2, <1>4, <1>5, <1>6, <1>7 DEF SchedOK

\* The thread that sched_run elects is the head of the highest run queue.
LEMMA ElectOK ==
    ASSUME NEW s, SchedOK(s), s.bitcache # {}
    PROVE  SchedOK(sched_elect(s)) /\ Elected(s, sched_elect(s))
  <1> DEFINE m    == Min(s.bitcache)
             next == Head(s.runqueues[m])
             st   == sched_elect(s).status
             r    == [s EXCEPT !.request = FALSE, !.idle = FALSE, !.active = next, !.status = st]
  <1>1. s \in SchedType /\ s.status \in [Thread -> Status]
    BY DEF SchedOK, SchedType
  <1>2. m \in s.bitcache /\ m \in Prio
    <2>1. s.bitcache \in SUBSET Nat /\ s.bitcache \in SUBSET Prio
      BY <1>1, SchedAssumption DEF SchedType, Prio
    <2> QED
      BY <2>1, MinFacts
  <1>3. s.runqueues[m] \in Seq(Thread) /\ s.runqueues[m] # <<>> /\ IsInjective(s.runqueues[m])
    BY <1>1, <1>2 DEF SchedOK, SchedType, BitcacheOK, RunqueueOK
  <1>4. next \in Thread /\ s.priority[next] = m /\ OnRunqueue(s.status[next])
    <2>1. next \in Range(s.runqueues[m])
      BY <1>3, TailFacts
    <2> QED
      BY <1>2, <2>1 DEF SchedOK, RunqueueOK
  <1> HIDE DEF next
  <1>5. st = LET running == [s.status EXCEPT ![next] = "running"]
             IN  IF s.active = next THEN running
                 ELSE unschedule(running, IF s.idle THEN NULL ELSE s.active)
    BY <1>1 DEF sched_elect, next, get_prio_queue_from_runqueue, SchedType
  <1>6. /\ st \in [Thread -> Status]
        /\ \A u \in Thread : /\ OnRunqueue(st[u]) <=> OnRunqueue(s.status[u])
                             /\ ~OnRunqueue(s.status[u]) => st[u] = s.status[u]
    BY <1>1, <1>4, <1>5 DEF unschedule, OnRunqueue, RunnableStatus, Status, NULL
  <1>7. sched_elect(s) = r
    BY <1>1, <1>5 DEF sched_elect, next, get_prio_queue_from_runqueue
  <1> HIDE DEF st, m
  <1>8. /\ r \in SchedType
        /\ r.threads = s.threads /\ r.num = s.num /\ r.priority = s.priority
        /\ r.runqueues = s.runqueues /\ r.bitcache = s.bitcache /\ r.status = st
        /\ r.request = FALSE /\ r.idle = FALSE /\ r.active = next
    BY <1>1, <1>4, <1>6 DEF SchedType
  <1> HIDE DEF r
  <1>9. SchedOK(r)
    BY <1>6, <1>8, FrameOK
  <1>10. IsHead(r, next)
    BY <1>3, <1>4, <1>8 DEF IsHead, next
  <1>11. Elected(s, r)
    BY <1>4, <1>6, <1>8, <1>10 DEF Elected, next, m
  <1> QED
    BY <1>7, <1>9, <1>11

\* What sched_run does, whether it elects a thread or starts to idle
LEMMA RunOK ==
    ASSUME NEW s, SchedOK(s)
    PROVE  SchedOK(sched_run(s)) /\ Elected(s, sched_run(s))
  <1>1. CASE s.bitcache # {}
    BY <1>1, ElectOK DEF sched_run
  <1>2. CASE s.bitcache = {}
    <2> DEFINE st == unschedule(s.status, s.active)
               r  == [s EXCEPT !.status = st, !.idle = TRUE]
    <2>1. s \in SchedType
      BY DEF SchedOK
    <2>2. /\ st \in [Thread -> Status]
          /\ \A u \in Thread : /\ OnRunqueue(st[u]) <=> OnRunqueue(s.status[u])
                               /\ ~OnRunqueue(s.status[u]) => st[u] = s.status[u]
      BY <2>1 DEF unschedule, OnRunqueue, RunnableStatus, Status, NULL, SchedType
    <2>3. sched_run(s) = r
      BY <1>2 DEF sched_run
    <2> HIDE DEF st
    <2>4. /\ r \in SchedType
          /\ r.threads = s.threads /\ r.num = s.num /\ r.priority = s.priority
          /\ r.runqueues = s.runqueues /\ r.bitcache = s.bitcache /\ r.status = st
          /\ r.idle = TRUE
      BY <2>1, <2>2 DEF SchedType
    <2> HIDE DEF r
    <2>5. SchedOK(r)
      BY <2>2, <2>4, FrameOK
    <2>6. Elected(s, r)
      BY <1>2, <2>2, <2>4 DEF Elected
    <2> QED
      BY <2>3, <2>5, <2>6
  <1> QED
    BY <1>1, <1>2

\* sched_change_priority moves a runnable thread from the head of one run
\* queue to the end of another.
LEMMA ChangeOK ==
    ASSUME NEW s, SchedOK(s), NEW t \in Thread, NEW prio \in Prio, prio # s.priority[t],
           OnRunqueue(s.status[t]), IsHead(s, t)
    PROVE  /\ SchedOK(change_priority(s, t, prio))
           /\ change_priority(s, t, prio).threads = s.threads
           /\ change_priority(s, t, prio).status = s.status
           /\ change_priority(s, t, prio).active = s.active
           /\ change_priority(s, t, prio).num = s.num
  <1> DEFINE p == s.priority[t]
             q == s.runqueues[p]
             o == s.runqueues[prio]
             d == Tail(q)
             a == Append(o, t)
             b == IF d = <<>> THEN s.bitcache \ {p} ELSE s.bitcache
             u == [s EXCEPT !.runqueues[p] = d, !.bitcache = b]
             v == [u EXCEPT !.runqueues[prio] = a, !.bitcache = b \cup {prio}]
             r == [v EXCEPT !.priority[t] = prio]
  <1>1. /\ s \in SchedType /\ p \in Prio /\ q \in Seq(Thread) /\ o \in Seq(Thread)
        /\ s.priority \in [Thread -> Prio]
        /\ b \in SUBSET Prio /\ s.bitcache \in SUBSET Prio
        /\ s.runqueues \in [Prio -> Seq(Thread)]
    BY DEF SchedOK, SchedType
  <1>2. IsInjective(q) /\ IsInjective(o) /\ q # <<>> /\ Head(q) = t /\ t \notin Range(o)
    BY <1>1 DEF SchedOK, RunqueueOK, IsHead
  <1>3. /\ d \in Seq(Thread)
        /\ IsInjective(d)
        /\ Range(d) = Range(q) \ {t}
    BY <1>1, <1>2, TailFacts
  <1>4. /\ a \in Seq(Thread)
        /\ IsInjective(a)
        /\ Range(a) = Range(o) \cup {t}
    BY <1>1, <1>2, AppendFacts
  <1>5. a # <<>>
    BY <1>4, EmptyQueue
  <1>6. runqueue_pop(s, t) = u
    BY <1>2 DEF runqueue_pop, clist_lpop
  <1>7. p # prio /\ p = s.priority[t] /\ q = s.runqueues[p] /\ o = s.runqueues[prio]
    OBVIOUS
  <1>8. b = IF d = <<>> THEN s.bitcache \ {p} ELSE s.bitcache
    OBVIOUS
  <1> HIDE DEF p, q, o, d, b
  <1>9. /\ u \in SchedType /\ u.runqueues[prio] = o /\ u.bitcache = b
        /\ u.runqueues = [s.runqueues EXCEPT ![p] = d]
        /\ u.threads = s.threads /\ u.priority = s.priority /\ u.status = s.status
        /\ u.active = s.active /\ u.num = s.num
    BY <1>1, <1>3, <1>7 DEF SchedType
  <1> HIDE DEF u
  <1>10. change_priority(s, t, prio) = r
    BY <1>6, <1>9 DEF change_priority, thread_is_active, runqueue_push
  <1> HIDE DEF a
  <1>11. /\ v \in SchedType /\ v.bitcache = b \cup {prio}
         /\ v.runqueues = [u.runqueues EXCEPT ![prio] = a]
         /\ v.threads = s.threads /\ v.priority = s.priority /\ v.status = s.status
         /\ v.active = s.active /\ v.num = s.num
    BY <1>1, <1>4, <1>9 DEF SchedType
  <1> HIDE DEF v
  <1>12. /\ r \in SchedType
         /\ r.bitcache = b \cup {prio}
         /\ r.runqueues = v.runqueues
         /\ r.priority = [s.priority EXCEPT ![t] = prio]
         /\ r.threads = s.threads /\ r.status = s.status /\ r.active = s.active
         /\ r.num = s.num
    BY <1>1, <1>11 DEF SchedType
  <1> HIDE DEF r
  <1>13. /\ r.runqueues[p] = d
         /\ r.runqueues[prio] = a
         /\ \A x \in Prio \ {p, prio} : r.runqueues[x] = s.runqueues[x]
    BY <1>1, <1>7, <1>9, <1>11, <1>12
  <1>14. RunqueueOK(r)
    <2> SUFFICES ASSUME NEW x \in Prio
                 PROVE  /\ IsInjective(r.runqueues[x])
                        /\ Range(r.runqueues[x])
                             = {w \in Thread : r.priority[w] = x /\ OnRunqueue(r.status[w])}
      BY DEF RunqueueOK
    <2>1. /\ IsInjective(s.runqueues[x])
          /\ Range(s.runqueues[x])
               = {w \in Thread : s.priority[w] = x /\ OnRunqueue(s.status[w])}
      BY DEF SchedOK, RunqueueOK
    <2>2. \A w \in Thread : r.priority[w] = IF w = t THEN prio ELSE s.priority[w]
      BY <1>1, <1>12
    <2>3. CASE x = p
      BY <1>3, <1>7, <1>12, <1>13, <2>1, <2>2, <2>3
    <2>4. CASE x = prio
      BY <1>4, <1>7, <1>12, <1>13, <2>1, <2>2, <2>4
    <2>5. CASE x # p /\ x # prio
      BY <1>7, <1>12, <1>13, <2>1, <2>2, <2>5
    <2> QED
      BY <2>3, <2>4, <2>5
  <1>15. BitcacheOK(r)
    <2>1. p \in s.bitcache
      BY <1>1, <1>2, <1>7 DEF SchedOK, BitcacheOK
    <2>2. \A x \in Prio : x \in r.bitcache <=> r.runqueues[x] # <<>>
      BY <1>1, <1>5, <1>7, <1>8, <1>12, <1>13, <2>1 DEF SchedOK, BitcacheOK
    <2> QED
      BY <1>1, <1>12, <2>2 DEF BitcacheOK
  <1> QED
    BY <1>10, <1>12, <1>14, <1>15 DEF SchedOK

\* sched_set_status, for every change of status the kernel asks of it: the
\* thread is blocked and stays so, is blocked and becomes runnable, or is the
\* head of its run queue and blocks.
LEMMA SetStatusOK ==
    ASSUME NEW s, SchedOK(s), NEW t \in Thread, NEW st \in Status,
           OnRunqueue(s.status[t]) => ~OnRunqueue(st) /\ IsHead(s, t)
    PROVE  SchedOK(sched_set_status(s, t, st)) /\ StatusSet(s, sched_set_status(s, t, st), t, st)
  <1> DEFINE r == sched_set_status(s, t, st)
             p == s.priority[t]
             q == s.runqueues[p]
  <1>1. /\ s \in SchedType /\ p \in Prio /\ q \in Seq(Thread)
        /\ s.runqueues \in [Prio -> Seq(Thread)] /\ s.priority \in [Thread -> Prio]
    BY DEF SchedOK, SchedType
  <1>2. CASE OnRunqueue(s.status[t])
    <2>1. st \in BlockedStatus
      BY <1>2 DEF Status, OnRunqueue
    <2>2. SchedOK(r)
      BY <1>2, <2>1, PopOK
    <2>3. q # <<>>
      BY <1>2 DEF IsHead
    <2>4. QueueChange(s, r, p, Tail(q), IF Tail(q) = <<>> THEN s.bitcache \ {p} ELSE s.bitcache, t, st)
      BY <1>1, <1>2, <2>1, <2>3, PopEffect
    <2> QED
      BY <1>2, <2>2, <2>4 DEF QueueChange, StatusSet
  <1>3. CASE ~OnRunqueue(s.status[t]) /\ OnRunqueue(st)
    <2>1. st \in RunnableStatus
      BY <1>3 DEF OnRunqueue
    <2>2. SchedOK(r)
      BY <1>3, <2>1, PushOK
    <2>3. QueueChange(s, r, p, Append(q, t), s.bitcache \cup {p}, t, st)
      BY <1>1, <1>3, <2>1, PushEffect
    <2>4. IsInjective(q) /\ t \notin Range(q)
      BY <1>1, <1>3 DEF SchedOK, RunqueueOK
    <2>5. /\ Append(q, t) \in Seq(Thread)
          /\ Range(Append(q, t)) = Range(q) \cup {t}
          /\ Head(Append(q, t)) = IF q = <<>> THEN t ELSE Head(q)
      BY <1>1, <2>4, AppendFacts
    <2>6. Append(q, t) # <<>>
      BY <2>5, EmptyQueue
    <2> DEFINE a == Append(q, t)
    <2> HIDE DEF r, p, a
    <2>7. ASSUME NEW u \in Thread, IsHead(s, u)
          PROVE  IsHead(r, u)
      <3>1. r.priority = s.priority /\ r.runqueues = [s.runqueues EXCEPT ![p] = a]
        BY <2>3 DEF QueueChange, a
      <3>2. CASE s.priority[u] = p
        BY <1>1, <2>5, <2>6, <2>7, <3>1, <3>2 DEF IsHead, a
      <3>3. CASE s.priority[u] # p
        BY <1>1, <2>7, <3>1, <3>3 DEF IsHead
      <3> QED
        BY <3>2, <3>3
    <2>8. StatusSet(s, r, t, st)
      BY <1>3, <2>3, <2>7 DEF QueueChange, StatusSet, p
    <2> QED
      BY <2>2, <2>8 DEF r
  <1>4. CASE ~OnRunqueue(s.status[t]) /\ ~OnRunqueue(st)
    <2>1. r = [s EXCEPT !.status[t] = st]
      BY <1>4 DEF sched_set_status
    <2> HIDE DEF r
    <2>2. /\ r \in SchedType /\ r.threads = s.threads /\ r.num = s.num /\ r.priority = s.priority
          /\ r.active = s.active /\ r.request = s.request /\ r.idle = s.idle
          /\ r.status = [s.status EXCEPT ![t] = st]
          /\ r.runqueues = s.runqueues /\ r.bitcache = s.bitcache
      BY <1>1, <2>1 DEF SchedType
    <2>3. \A u \in Thread : OnRunqueue(r.status[u]) <=> OnRunqueue(s.status[u])
      BY <1>1, <1>4, <2>2 DEF SchedType
    <2>4. SchedOK(r)
      BY <2>2, <2>3, FrameOK
    <2> QED
      BY <1>4, <2>2, <2>4 DEF StatusSet, r
  <1> QED
    BY <1>2, <1>3, <1>4

----------------------------------------------------------------------------
(* The active thread and the head of its run queue                         *)

\* The active thread, unless it is about to give up the processor, is the head
\* of its run queue: so _runqueue_pop, which removes the head, removes the
\* thread that the services ask it to remove.
ActiveOK ==
    \A t \in Thread :
        sched.active = t /\ ~sched.idle /\ pc[t] # "yield" =>
            OnRunqueue(sched.status[t]) /\ IsHead(sched, t)

\* The active thread is about to give up the processor, having left its run
\* queue.
LEMMA BlockedActive ==
    ASSUME SchedOK(sched), NEW t \in Thread, sched.active = t,
           OnRunqueue(sched.status[t]), IsHead(sched, t), NEW st \in BlockedStatus,
           sched' = sched_set_status(sched, t, st), pc'[t] = "yield"
    PROVE  /\ SchedOK(sched') /\ ActiveOK' /\ StatusSet(sched, sched', t, st)
  <1>1. st \in Status /\ ~OnRunqueue(st)
    BY DEF Status, OnRunqueue, RunnableStatus, BlockedStatus
  <1>2. SchedOK(sched') /\ StatusSet(sched, sched', t, st)
    BY <1>1, SetStatusOK
  <1>3. sched'.active = t
    BY <1>2 DEF StatusSet
  <1>4. ActiveOK'
    BY <1>3 DEF ActiveOK
  <1> QED
    BY <1>2, <1>4

\* A thread is made runnable: the heads of the run queues stay heads.
LEMMA RunnableActive ==
    ASSUME SchedOK(sched), ActiveOK, NEW u \in Thread, ~OnRunqueue(sched.status[u]),
           NEW st \in RunnableStatus,
           NEW b \in BOOLEAN, sched' = [sched_set_status(sched, u, st) EXCEPT !.request = b],
           \A v \in Thread : pc[v] = "yield" => pc'[v] = "yield"
    PROVE  /\ SchedOK(sched') /\ ActiveOK'
           /\ sched'.status = [sched.status EXCEPT ![u] = st]
           /\ sched'.priority = sched.priority
  <1> DEFINE r == sched_set_status(sched, u, st)
  <1>1. st \in Status /\ OnRunqueue(st) /\ sched.status \in [Thread -> Status]
    BY DEF Status, OnRunqueue, SchedOK, SchedType
  <1>2. SchedOK(r) /\ StatusSet(sched, r, u, st)
    BY <1>1, SetStatusOK
  <1> HIDE DEF r
  <1>3. sched' = [r EXCEPT !.request = b]
    BY DEF r
  <1>4. /\ sched' \in SchedType
        /\ sched'.status = r.status /\ sched'.priority = r.priority
        /\ sched'.runqueues = r.runqueues /\ sched'.bitcache = r.bitcache
        /\ sched'.active = r.active /\ sched'.idle = r.idle
    BY <1>2, <1>3 DEF SchedOK, SchedType
  <1>5. SchedOK(sched')
    BY <1>2, <1>4, FrameOK
  <1>6. ActiveOK'
    <2> SUFFICES ASSUME NEW v \in Thread, sched'.active = v, ~sched'.idle, pc'[v] # "yield"
                 PROVE  OnRunqueue(sched'.status[v]) /\ IsHead(sched', v)
      BY DEF ActiveOK
    <2>1. OnRunqueue(sched.status[v]) /\ IsHead(sched, v)
      BY <1>2, <1>4 DEF ActiveOK, StatusSet
    <2>2. IsHead(r, v) /\ OnRunqueue(r.status[v])
      BY <1>1, <1>2, <2>1 DEF StatusSet
    <2> QED
      BY <1>4, <2>2 DEF IsHead
  <1> QED
    BY <1>2, <1>4, <1>5, <1>6 DEF StatusSet

\* sched_switch in an interrupt handler changes nothing but the request.
LEMMA IsrSwitch ==
    ASSUME NEW r, SchedOK(r), NEW prio, NEW s \in isr_sched_switch(r, prio)
    PROVE  \E b \in BOOLEAN : s = [r EXCEPT !.request = b]
  <1>1. r.request \in BOOLEAN /\ r = [r EXCEPT !.request = r.request]
    BY DEF SchedOK, SchedType
  <1>2. switch_needed(r, prio) \in BOOLEAN
    BY DEF switch_needed, OnRunqueue
  <1> QED
    BY <1>1, <1>2 DEF isr_sched_switch

----------------------------------------------------------------------------
(* The state in which the threads start                                    *)

\* in_order(S) lists the threads of S, each of them once.
LEMMA InOrder ==
    ASSUME NEW S \in SUBSET Thread
    PROVE  /\ in_order(S) \in Seq(Thread)
           /\ IsInjective(in_order(S)) /\ Range(in_order(S)) = S
           /\ in_order(S) = <<>> <=> S = {}
  <1> DEFINE k == Cardinality(S)
             below(t) == {u \in S : u <= t}
             rank == [t \in S |-> Cardinality(below(t))]
             q == in_order(S)
  <1>1. S \subseteq Int /\ IsFiniteSet(S) /\ k \in Nat
    <2>1. IsFiniteSet(Thread) /\ Thread \subseteq Int
      BY SchedAssumption, FS_Interval DEF Thread
    <2> QED
      BY <2>1, FS_Subset, FS_CardinalityType
  <1>2. ASSUME NEW t \in S
        PROVE  /\ t \in below(t) /\ below(t) \in SUBSET S
               /\ IsFiniteSet(below(t)) /\ rank[t] \in 1 .. k
    <2>1. t \in below(t) /\ below(t) \in SUBSET S
      BY <1>1
    <2>2. IsFiniteSet(below(t)) /\ Cardinality(below(t)) <= k
      BY <1>1, <2>1, FS_Subset
    <2>3. Cardinality(below(t)) \in Nat /\ Cardinality(below(t)) # 0
      BY <2>1, <2>2, FS_CardinalityType, FS_EmptySet
    <2> QED
      BY <1>1, <2>1, <2>2, <2>3
  <1>3. ASSUME NEW t \in S, NEW u \in S, rank[t] = rank[u], t <= u
        PROVE  t = u
    <2>1. \A v \in S : v <= t => v <= u
      BY <1>1, <1>3
    <2>2. below(t) \in SUBSET below(u)
      BY <2>1
    <2>3. below(u) = below(t)
      BY <1>2, <1>3, <2>2, FS_Subset
    <2>4. u <= t
      BY <1>2, <2>3
    <2> QED
      BY <1>1, <1>3, <2>4
  <1>4. rank \in Injection(S, 1 .. k)
    <2>1. \A t, u \in S : rank[t] = rank[u] => t = u
      BY <1>1, <1>3
    <2>2. rank \in [S -> 1 .. k]
      BY <1>2
    <2> QED
      BY <2>1, <2>2 DEF Injection, IsInjective
  <1>5. rank \in Surjection(S, 1 .. k)
    <2>1. IsFiniteSet(1 .. k) /\ Cardinality(1 .. k) = k
      BY <1>1, FS_Interval
    <2> QED
      BY <1>4, <2>1, FS_Injection
  <1>6. ASSUME NEW i \in 1 .. k
        PROVE  q[i] \in S /\ rank[q[i]] = i
    <2>1. \E t \in S : Cardinality({u \in S : u <= t}) = i
      BY <1>5 DEF Surjection
    <2>2. q[i] = CHOOSE t \in S : Cardinality({u \in S : u <= t}) = i
      BY DEF in_order
    <2> QED
      BY <2>1, <2>2
  <1>7. q = [i \in 1 .. k |-> q[i]]
    BY DEF in_order
  <1>8. k = 0 <=> S = {}
    BY <1>1, FS_EmptySet
  <1>9. \A t \in S : rank[t] \in 1 .. k
    BY <1>2
  <1>10. \A t, u \in S : rank[t] = rank[u] => t = u
    BY <1>4 DEF Injection, IsInjective
  <1> HIDE DEF k, rank, q
  <1>11. q \in [1 .. k -> S] /\ DOMAIN q = 1 .. k
    BY <1>6, <1>7
  <1>12. q \in Seq(Thread) /\ Len(q) = k
    <2>1. q \in [1 .. k -> Thread]
      BY <1>11
    <2> QED
      BY <1>1, <2>1
  <1>13. IsInjective(q)
    <2>1. \A i, j \in 1 .. k : q[i] = q[j] => i = j
      BY <1>6
    <2> QED
      BY <1>11, <2>1 DEF IsInjective
  <1>14. Range(q) = S
    <2>1. \A t \in S : \E i \in DOMAIN q : q[i] = t
      BY <1>6, <1>9, <1>10, <1>11
    <2>2. \A i \in DOMAIN q : q[i] \in S
      BY <1>6, <1>11
    <2> QED
      BY <2>1, <2>2 DEF Range
  <1>15. q = <<>> <=> S = {}
    BY <1>8, <1>12
  <1> QED
    BY <1>12, <1>13, <1>14, <1>15 DEF q

\* The run queues and status with which the threads start agree.
LEMMA CreatedOK ==
    ASSUME NEW prio \in [Thread -> Prio]
    PROVE  SchedOK(all_created(prio))
  <1> DEFINE s == all_created(prio)
             of(p) == {t \in Thread : prio[t] = p}
  <1>1. /\ s.threads = Thread /\ s.num = MAXTHREADS /\ s.priority = prio
        /\ s.status = [t \in Thread |-> IF t = 1 THEN "running" ELSE "pending"]
        /\ s.runqueues = [p \in Prio |-> in_order(of(p))]
        /\ s.bitcache = {prio[t] : t \in Thread}
    BY DEF all_created
  <1>2. \A p \in Prio : /\ in_order(of(p)) \in Seq(Thread)
                        /\ IsInjective(in_order(of(p))) /\ Range(in_order(of(p))) = of(p)
                        /\ in_order(of(p)) = <<>> <=> of(p) = {}
    BY InOrder
  <1>3. "running" \in Status /\ "pending" \in Status /\ OnRunqueue("running") /\ OnRunqueue("pending")
    BY DEF Status, OnRunqueue, RunnableStatus
  <1>4. s \in SchedType
    <2>1. s.runqueues \in [Prio -> Seq(Thread)]
      BY <1>1, <1>2
    <2>2. 1 \in Thread /\ MAXTHREADS \in Int
      BY SchedAssumption DEF Thread
    <2> QED
      BY <1>1, <1>3, <2>1, <2>2 DEF SchedType, all_created
  <1>5. RunqueueOK(s)
    BY <1>1, <1>2, <1>3 DEF RunqueueOK
  <1>6. BitcacheOK(s)
    BY <1>1, <1>2 DEF BitcacheOK
  <1> QED
    BY <1>4, <1>5, <1>6 DEF SchedOK
=============================================================================
