--------------------------- MODULE MutexOpsProofs ---------------------------
(***************************************************************************)
(* Facts about the waiting lists of kernel objects and about the operators *)
(* of MutexOps in a build without priority inheritance.                    *)
(***************************************************************************)
EXTENDS MutexOps, SchedProofs

----------------------------------------------------------------------------
(* Context switches                                                        *)

\* The threads that block, and the status they have, are the same in r and s.
SameBlocked(s, r) ==
    \A t \in Thread : /\ OnRunqueue(r.status[t]) <=> OnRunqueue(s.status[t])
                      /\ ~OnRunqueue(s.status[t]) => r.status[t] = s.status[t]

\* isr_pendsv, the end of the idle loop, thread_yield_higher and sched_switch
\* keep the run queues and block or wake nobody.
LEMMA DispatchOK ==
    ASSUME SchedOK(sched), ActiveOK, pc \in [Thread -> {"app", "yield", "switch"}],
           other_prio \in [Thread -> Prio], Dispatch
    PROVE  /\ SchedOK(sched') /\ ActiveOK' /\ SameBlocked(sched, sched')
           /\ pc' \in [Thread -> {"app", "yield", "switch"}]
           /\ other_prio' \in [Thread -> Prio]
  <1>1. ASSUME SchedOK(sched'), Elected(sched, sched')
        PROVE  SchedOK(sched') /\ ActiveOK' /\ SameBlocked(sched, sched')
    BY <1>1 DEF ActiveOK, Elected, SameBlocked
  <1>2. CASE isr_pendsv
    BY <1>1, <1>2, RunOK DEF isr_pendsv
  <1>3. CASE sched_idle_exit
    BY <1>1, <1>3, ElectOK DEF sched_idle_exit
  <1>4. ASSUME NEW t \in Thread, thread_yield_higher(t)
        PROVE  /\ SchedOK(sched') /\ ActiveOK' /\ SameBlocked(sched, sched')
               /\ pc' \in [Thread -> {"app", "yield", "switch"}]
               /\ other_prio' \in [Thread -> Prio]
    BY <1>1, <1>4, RunOK DEF thread_yield_higher
  <1>5. ASSUME NEW t \in Thread, sched_switch(t)
        PROVE  /\ SchedOK(sched') /\ ActiveOK' /\ SameBlocked(sched, sched')
               /\ pc' \in [Thread -> {"app", "yield", "switch"}]
               /\ other_prio' \in [Thread -> Prio]
    <2>1. /\ pc[t] = "switch" /\ pc' = [pc EXCEPT ![t] = "app"]
          /\ other_prio' = [other_prio EXCEPT ![t] = 0]
      BY <1>5 DEF sched_switch
    <2>2. /\ pc' \in [Thread -> {"app", "yield", "switch"}] /\ other_prio' \in [Thread -> Prio]
      BY <2>1, SchedAssumption DEF Prio
    <2>3. CASE switch_needed(sched, other_prio[t])
      BY <1>1, <1>5, <2>2, <2>3, RunOK DEF sched_switch
    <2>4. CASE ~switch_needed(sched, other_prio[t])
      <3>1. sched' = sched
        BY <1>5, <2>4 DEF sched_switch
      <3> QED
        BY <2>1, <2>2, <3>1 DEF ActiveOK, SameBlocked
    <2> QED
      BY <2>3, <2>4
  <1> QED
    BY <1>2, <1>3, <1>4, <1>5 DEF Dispatch, isr_pendsv, sched_idle_exit

----------------------------------------------------------------------------
(* Waiting lists                                                           *)

\* thread_add_to_list puts t somewhere into the list, the other entries keep
\* their order.
LEMMA AddFacts ==
    ASSUME NEW s, NEW q \in Seq(Thread), IsInjective(q), NEW t \in Thread, t \notin Range(q)
    PROVE  /\ thread_add_to_list(s, q, t) \in Seq(Thread)
           /\ IsInjective(thread_add_to_list(s, q, t))
           /\ Range(thread_add_to_list(s, q, t)) = Range(q) \cup {t}
  <1> DEFINE passed == {i \in DOMAIN q : \A j \in 1 .. i : s.priority[q[j]] <= s.priority[t]}
             n      == Cardinality(passed)
             r      == SubSeq(q, 1, n) \o <<t>> \o SubSeq(q, n + 1, Len(q))
  <1>1. thread_add_to_list(s, q, t) = r
    BY DEF thread_add_to_list
  <1>2. Len(q) \in Nat /\ DOMAIN q = 1 .. Len(q) /\ \A i \in 1 .. Len(q) : q[i] \in Thread
    OBVIOUS
  <1>3. n \in 0 .. Len(q)
    <2>1. passed \subseteq 1 .. Len(q)
      BY <1>2
    <2> HIDE DEF passed
    <2>2. IsFiniteSet(1 .. Len(q)) /\ Cardinality(1 .. Len(q)) = Len(q)
      <3> DEFINE m == Len(q)
      <3>1. m \in Int /\ 1 \in Int /\ m >= 0
        BY <1>2
      <3> HIDE DEF m
      <3>2. IsFiniteSet(1 .. m) /\ Cardinality(1 .. m) = IF 1 > m THEN 0 ELSE m - 1 + 1
        BY <3>1, FS_Interval
      <3> QED
        BY <3>1, <3>2 DEF m
    <2>3. IsFiniteSet(passed) /\ Cardinality(passed) <= Len(q)
      <3>1. PICK all : all = 1 .. Len(q)
        OBVIOUS
      <3>2. IsFiniteSet(all) /\ passed \in SUBSET all
        BY <2>1, <2>2, <3>1
      <3>3. IsFiniteSet(passed) /\ Cardinality(passed) <= Cardinality(all)
        BY <3>2, FS_Subset
      <3> QED
        BY <2>2, <3>1, <3>3
    <2> QED
      BY <1>2, <2>3, FS_CardinalityType
  <1> HIDE DEF n
  <1>4. /\ r \in Seq(Thread) /\ Len(r) = Len(q) + 1 /\ DOMAIN r = 1 .. Len(q) + 1
        /\ \A i \in 1 .. Len(q) + 1 :
               r[i] = IF i <= n THEN q[i] ELSE IF i = n + 1 THEN t ELSE q[i - 1]
    <2> DEFINE a == SubSeq(q, 1, n)
               b == SubSeq(q, n + 1, Len(q))
    <2>1. a \in Seq(Thread) /\ Len(a) = n /\ \A i \in 1 .. n : a[i] = q[i]
      BY <1>2, <1>3
    <2>2. b \in Seq(Thread) /\ Len(b) = Len(q) - n /\ \A i \in 1 .. Len(q) - n : b[i] = q[n + i]
      <3>1. n + 1 \in 1 .. Len(q) + 1 /\ Len(q) \in (n + 1) - 1 .. Len(q)
        BY <1>2, <1>3
      <3>2. /\ b \in Seq(Thread) /\ Len(b) = Len(q) - (n + 1) + 1
            /\ \A i \in 1 .. Len(q) - (n + 1) + 1 : b[i] = q[(n + 1) + i - 1]
        BY <3>1, SubSeqProperties
      <3> HIDE DEF b
      <3>3. Len(q) - (n + 1) + 1 = Len(q) - n
        BY <1>2, <1>3
      <3>4. ASSUME NEW i \in 1 .. Len(q) - n PROVE b[i] = q[n + i]
        <4>1. b[i] = q[(n + 1) + i - 1] /\ (n + 1) + i - 1 = n + i
          BY <1>2, <1>3, <3>2, <3>3
        <4> QED
          BY <4>1
      <3> QED
        BY <3>2, <3>3, <3>4
    <2> HIDE DEF a, b
    <2>3. r = a \o <<t>> \o b
      BY DEF a, b
    <2>4. /\ a \o <<t>> \in Seq(Thread) /\ Len(a \o <<t>>) = n + 1
          /\ \A i \in 1 .. n + 1 : (a \o <<t>>)[i] = IF i <= n THEN q[i] ELSE t
      BY <1>3, <2>1
    <2> DEFINE c == a \o <<t>>
    <2> HIDE DEF c
    <2>5. /\ c \o b \in Seq(Thread) /\ Len(c \o b) = Len(q) + 1
          /\ \A i \in 1 .. Len(q) + 1 : (c \o b)[i] = IF i <= n + 1 THEN c[i] ELSE b[i - (n + 1)]
      <3>1. c \in Seq(Thread) /\ Len(c) = n + 1
        BY <2>4 DEF c
      <3>2. /\ c \o b \in Seq(Thread) /\ Len(c \o b) = Len(c) + Len(b)
            /\ \A i \in 1 .. Len(c) + Len(b) : (c \o b)[i] = IF i <= Len(c) THEN c[i] ELSE b[i - Len(c)]
        BY <2>2, <3>1, ConcatProperties
      <3>3. Len(c) + Len(b) = Len(q) + 1
        BY <1>2, <1>3, <2>2, <3>1
      <3> QED
        BY <3>1, <3>2, <3>3
    <2>6. r = c \o b /\ \A i \in 1 .. n + 1 : c[i] = IF i <= n THEN q[i] ELSE t
      BY <2>3, <2>4 DEF c
    <2> HIDE DEF r
    <2>7. r \in Seq(Thread) /\ Len(r) = Len(q) + 1 /\ DOMAIN r = 1 .. Len(q) + 1
      BY <2>5, <2>6
    <2>8. ASSUME NEW i \in 1 .. Len(q) + 1
          PROVE  r[i] = IF i <= n THEN q[i] ELSE IF i = n + 1 THEN t ELSE q[i - 1]
      <3>1. r[i] = IF i <= n + 1 THEN c[i] ELSE b[i - (n + 1)]
        BY <2>5, <2>6
      <3>2. CASE i <= n + 1
        BY <1>2, <1>3, <2>6, <3>1, <3>2
      <3>3. CASE i > n + 1
        <4>1. i - (n + 1) \in 1 .. Len(q) - n /\ n + (i - (n + 1)) = i - 1
          BY <1>2, <1>3, <3>3
        <4>2. b[i - (n + 1)] = q[i - 1]
          BY <2>2, <4>1
        <4> QED
          BY <1>2, <1>3, <3>1, <3>3, <4>2
      <3> QED
        BY <1>2, <1>3, <3>2, <3>3
    <2> QED
      BY <2>7, <2>8
  <1> HIDE DEF r
  <1>5. IsInjective(r)
    <2> SUFFICES ASSUME NEW i \in DOMAIN r, NEW j \in DOMAIN r, r[i] = r[j]
                 PROVE  i = j
      BY DEF IsInjective
    <2>1. \A k \in 1 .. Len(q) : q[k] # t
      BY <1>2 DEF Range
    <2>2. \A k, l \in 1 .. Len(q) : q[k] = q[l] => k = l
      BY <1>2 DEF IsInjective
    <2> DEFINE p(k) == IF k <= n THEN k ELSE k - 1
    <2>3. ASSUME NEW k \in DOMAIN r, k # n + 1
          PROVE  p(k) \in 1 .. Len(q) /\ r[k] = q[p(k)]
      BY <1>2, <1>3, <1>4, <2>3
    <2>4. r[n + 1] = t /\ n + 1 \in DOMAIN r
      BY <1>2, <1>3, <1>4
    <2>5. CASE i = n + 1 \/ j = n + 1
      BY <2>1, <2>3, <2>4, <2>5
    <2>6. CASE i # n + 1 /\ j # n + 1
      <3>1. p(i) = p(j)
        BY <2>2, <2>3, <2>6
      <3> QED
        BY <1>2, <1>3, <1>4, <2>6, <3>1
    <2> QED
      BY <2>5, <2>6
  <1>6. Range(r) = Range(q) \cup {t}
    <2>1. \A k \in 1 .. Len(q) : \E i \in DOMAIN r : r[i] = q[k]
      <3> SUFFICES ASSUME NEW k \in 1 .. Len(q) PROVE \E i \in DOMAIN r : r[i] = q[k]
        OBVIOUS
      <3>1. CASE k <= n
        <4>1. k \in DOMAIN r /\ r[k] = q[k]
          BY <1>2, <1>3, <1>4, <3>1
        <4> QED
          BY <4>1
      <3>2. CASE k > n
        <4>1. k + 1 \in DOMAIN r /\ r[k + 1] = q[k]
          BY <1>2, <1>3, <1>4, <3>2
        <4> QED
          BY <4>1
      <3> QED
        BY <1>2, <1>3, <3>1, <3>2
    <2>2. n + 1 \in DOMAIN r /\ r[n + 1] = t
      BY <1>2, <1>3, <1>4
    <2>3. \A i \in DOMAIN r : r[i] = t \/ \E k \in 1 .. Len(q) : r[i] = q[k]
      BY <1>2, <1>3, <1>4
    <2> QED
      BY <1>2, <2>1, <2>2, <2>3 DEF Range
  <1> QED
    BY <1>1, <1>4, <1>5, <1>6

\* list_remove takes t out of the list, the other entries keep their order.
LEMMA RemoveFacts ==
    ASSUME NEW q \in Seq(Thread), IsInjective(q), NEW t \in Range(q)
    PROVE  /\ list_remove(q, t) \in Seq(Thread)
           /\ IsInjective(list_remove(q, t))
           /\ Range(list_remove(q, t)) = Range(q) \ {t}
  <1> DEFINE k == CHOOSE i \in DOMAIN q : q[i] = t
             r == SubSeq(q, 1, k - 1) \o SubSeq(q, k + 1, Len(q))
  <1>1. list_remove(q, t) = r
    BY DEF list_remove
  <1>2. Len(q) \in Nat /\ DOMAIN q = 1 .. Len(q) /\ \A i \in 1 .. Len(q) : q[i] \in Thread
    OBVIOUS
  <1>3. k \in 1 .. Len(q) /\ q[k] = t
    <2>1. \E i \in DOMAIN q : q[i] = t
      BY DEF Range
    <2> QED
      BY <1>2, <2>1
  <1> HIDE DEF k
  <1>4. /\ r \in Seq(Thread) /\ Len(r) = Len(q) - 1 /\ DOMAIN r = 1 .. Len(q) - 1
        /\ \A i \in 1 .. Len(q) - 1 : r[i] = IF i < k THEN q[i] ELSE q[i + 1]
    <2> DEFINE a == SubSeq(q, 1, k - 1)
               b == SubSeq(q, k + 1, Len(q))
    <2>1. a \in Seq(Thread) /\ Len(a) = k - 1 /\ \A i \in 1 .. k - 1 : a[i] = q[i]
      BY <1>2, <1>3
    <2>2. b \in Seq(Thread) /\ Len(b) = Len(q) - k /\ \A i \in 1 .. Len(q) - k : b[i] = q[k + i]
      <3>1. k + 1 \in Int /\ Len(q) \in Int /\ \A i \in k + 1 .. Len(q) : q[i] \in Thread
        BY <1>2, <1>3
      <3>2. /\ b \in Seq(Thread)
            /\ Len(b) = IF k + 1 <= Len(q) THEN Len(q) - (k + 1) + 1 ELSE 0
            /\ \A i \in 1 .. Len(q) - (k + 1) + 1 : b[i] = q[(k + 1) + i - 1]
        BY <3>1, SubSeqProperties
      <3> HIDE DEF b
      <3>3. Len(q) - (k + 1) + 1 = Len(q) - k
        BY <1>2, <1>3
      <3>4. Len(b) = Len(q) - k
        <4> DEFINE n == Len(q)
        <4>1. n \in Nat /\ k \in Nat /\ k <= n
          BY <1>2, <1>3
        <4>2. Len(b) = IF k + 1 <= n THEN n - (k + 1) + 1 ELSE 0
          BY <3>2
        <4> HIDE DEF n
        <4>3. Len(b) = n - k
          BY <4>1, <4>2
        <4> QED
          BY <4>3 DEF n
      <3>5. ASSUME NEW i \in 1 .. Len(q) - k PROVE b[i] = q[k + i]
        <4>1. (k + 1) + i - 1 = k + i
          BY <1>2, <1>3
        <4>2. i \in 1 .. Len(q) - (k + 1) + 1
          BY <3>3
        <4>3. b[i] = q[(k + 1) + i - 1]
          BY <3>2, <4>2
        <4> QED
          BY <4>1, <4>3
      <3> QED
        BY <3>2, <3>4, <3>5
    <2> HIDE DEF a, b
    <2>3. r = a \o b
      BY DEF a, b
    <2> HIDE DEF r
    <2>4. /\ r \in Seq(Thread) /\ Len(r) = Len(a) + Len(b)
          /\ \A i \in 1 .. Len(a) + Len(b) : r[i] = IF i <= Len(a) THEN a[i] ELSE b[i - Len(a)]
      BY <2>1, <2>2, <2>3, ConcatProperties
    <2>5. Len(r) = Len(q) - 1 /\ DOMAIN r = 1 .. Len(q) - 1
      BY <1>2, <1>3, <2>1, <2>2, <2>4
    <2>6. ASSUME NEW i \in 1 .. Len(q) - 1
          PROVE  r[i] = IF i < k THEN q[i] ELSE q[i + 1]
      <3>1. CASE i < k
        <4>1. i \in 1 .. k - 1 /\ i \in 1 .. Len(a) + Len(b) /\ i <= Len(a)
          BY <1>2, <1>3, <2>1, <2>2, <3>1
        <4> QED
          BY <2>1, <2>4, <3>1, <4>1
      <3>2. CASE i >= k
        <4>1. i - (k - 1) \in 1 .. Len(q) - k /\ k + (i - (k - 1)) = i + 1
          BY <1>2, <1>3, <3>2
        <4>2. i \in 1 .. Len(a) + Len(b) /\ ~(i <= Len(a)) /\ i - Len(a) = i - (k - 1)
          BY <1>2, <1>3, <2>1, <2>2, <3>2
        <4>3. r[i] = b[i - (k - 1)]
          BY <2>4, <4>2
        <4> QED
          BY <1>2, <1>3, <2>2, <3>2, <4>1, <4>3
      <3> QED
        BY <1>2, <1>3, <3>1, <3>2
    <2> QED
      BY <2>4, <2>5, <2>6
  <1> HIDE DEF r
  <1>5. \A i, j \in 1 .. Len(q) : q[i] = q[j] => i = j
    BY <1>2 DEF IsInjective
  <1>6. IsInjective(r)
    <2> SUFFICES ASSUME NEW i \in DOMAIN r, NEW j \in DOMAIN r, r[i] = r[j]
                 PROVE  i = j
      BY DEF IsInjective
    <2> DEFINE p(l) == IF l < k THEN l ELSE l + 1
    <2>1. ASSUME NEW l \in DOMAIN r
          PROVE  p(l) \in 1 .. Len(q) /\ r[l] = q[p(l)]
      BY <1>2, <1>3, <1>4
    <2>2. p(i) = p(j)
      BY <1>5, <2>1
    <2> QED
      BY <1>2, <1>3, <1>4, <2>2
  <1>7. Range(r) = Range(q) \ {t}
    <2>1. ASSUME NEW i \in 1 .. Len(q), q[i] # t
          PROVE  \E j \in DOMAIN r : r[j] = q[i]
      <3>1. CASE i < k
        BY <1>2, <1>3, <1>4, <3>1
      <3>2. CASE i > k
        <4>1. i - 1 \in DOMAIN r /\ r[i - 1] = q[i]
          BY <1>2, <1>3, <1>4, <3>2
        <4> QED
          BY <4>1
      <3> QED
        BY <1>2, <1>3, <2>1, <3>1, <3>2
    <2>2. ASSUME NEW j \in DOMAIN r
          PROVE  r[j] # t /\ \E i \in 1 .. Len(q) : r[j] = q[i]
      BY <1>2, <1>3, <1>4, <1>5
    <2> QED
      BY <1>2, <2>1, <2>2 DEF Range
  <1> QED
    BY <1>1, <1>4, <1>6, <1>7

----------------------------------------------------------------------------
(* Mutexes                                                                 *)

\* The record of a mutex that is locked or unlocked
LEMMA LockedUpdate ==
    ASSUME NEW m \in MutexType, NEW b \in BOOLEAN
    PROVE  /\ [m EXCEPT !.locked = b] \in MutexType
           /\ [m EXCEPT !.locked = b].locked = b
           /\ [m EXCEPT !.locked = b].queue = m.queue
           /\ [m EXCEPT !.locked = b].inherits = m.inherits
  BY DEF MutexType

\* The record of a mutex with another queue
LEMMA QueueUpdated ==
    ASSUME NEW m \in MutexType, NEW q \in Seq(Thread)
    PROVE  /\ [m EXCEPT !.queue = q] \in MutexType
           /\ [m EXCEPT !.queue = q].locked = m.locked
           /\ [m EXCEPT !.queue = q].queue = q
           /\ [m EXCEPT !.queue = q].inherits = m.inherits
  BY DEF MutexType

\* Without inheritance _block changes the status of the thread, and the queue.
LEMMA BlockEffect ==
    ASSUME NEW s, NEW mx, ~mx.inherits, NEW t
    PROVE  /\ mutex_block(s, mx, t).sched = sched_set_status(s, t, "mutex_blocked")
           /\ mutex_block(s, mx, t).mutex = [mx EXCEPT !.queue = thread_add_to_list(s, mx.queue, t)]
  BY DEF mutex_block

\* Without inheritance mutex_unlock only hands over.
LEMMA ReleaseEffect ==
    ASSUME NEW s, NEW mx, ~mx.inherits
    PROVE  /\ mutex_release(s, mx).sched = mutex_hand_over(s, mx).sched
           /\ mutex_release(s, mx).mutex = mutex_hand_over(s, mx).mutex
           /\ mutex_release(s, mx).woken = mutex_hand_over(s, mx).woken
           /\ ~mutex_release(s, mx).yields
  BY DEF mutex_release
=============================================================================
