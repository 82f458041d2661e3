------------------------------- MODULE RMutex -------------------------------
(***************************************************************************)
(* The recursive mutex, RIOT/core/lib/rmutex.c, on top of the mutex of     *)
(* module MutexOps. Its owner and refcount are read and written with       *)
(* interrupts enabled, so each access is a step of its own.                *)
(*                                                                         *)
(*   rmutex.mutex, .owner, .refcount   the fields of the rmutex_t          *)
(*   call[t]    where thread t is: "none", "test" after mutex_trylock      *)
(*              failed, "lock" before mutex_lock, "wait" while that one    *)
(*              waits, "own" before the store to owner, "count" before the *)
(*              increment; in rmutex_unlock "reset" after the last         *)
(*              reference is gone, "unlock" before mutex_unlock            *)
(*   try[t]     the call at point "test" is rmutex_trylock                 *)
(*   depth[t]   how many locks the calls of t have reported, less the      *)
(*              unlocks it has called                                      *)
(***************************************************************************)
EXTENDS MutexOps

CONSTANTS PriorityInheritance,   \* the build has core_mutex_priority_inheritance
          ThreadPrio,
          MaxDepth      \* bound on the nesting of locks

ASSUME RMutexAssumption ==
    /\ PriorityInheritance \in BOOLEAN
    /\ ThreadPrio \in [Thread -> Prio]
    /\ MaxDepth \in Nat

VARIABLES rmutex, call, try, depth

rmutexVars == <<rmutex, call, try, depth>>
vars == <<sched, pc, other_prio, rmutex, call, try, depth>>

At(t, point) == Executes(t) /\ pc[t] = "app" /\ call[t] = point

\* The step takes thread t to a point and leaves the scheduler alone.
Goto(t, point) ==
    /\ call' = [call EXCEPT ![t] = point]
    /\ UNCHANGED <<sched, pc, other_prio>>

Init ==
    /\ sched = all_created(ThreadPrio)
    /\ pc = [t \in Thread |-> IF t = 1 THEN "yield" ELSE "app"]
    /\ other_prio = [t \in Thread |-> 0]
    /\ rmutex = [mutex |-> mutex_init(FALSE, PriorityInheritance), owner |-> NULL, refcount |-> 0]
    /\ call = [t \in Thread |-> "none"]
    /\ try = [t \in Thread |-> FALSE]
    /\ depth = [t \in Thread |-> 0]

----------------------------------------------------------------------------
(* rmutex_lock and rmutex_trylock                                          *)

lock_starts(t, trylock) ==
    /\ At(t, "none")
    /\ depth[t] < MaxDepth
    /\ \/ /\ ~rmutex.mutex.locked
          /\ rmutex' = [rmutex EXCEPT !.mutex = mutex_take(sched, @, t)]
          /\ Goto(t, "own")
          /\ UNCHANGED try
       \/ /\ rmutex.mutex.locked
          /\ Goto(t, "test")
          /\ try' = [try EXCEPT ![t] = trylock]
          /\ UNCHANGED rmutex
    /\ UNCHANGED depth

\* Mutant: an owner that is not known is taken for the thread itself.
lock_tests_owner_undef(t) ==
    /\ At(t, "test")
    /\ Goto(t, CASE rmutex.owner \in {t, NULL} -> "own"
                 [] rmutex.owner \notin {t, NULL} /\ try[t] -> "none"
                 [] OTHER -> "lock")
    /\ try' = [try EXCEPT ![t] = FALSE]
    /\ UNCHANGED <<rmutex, depth>>

\* Mutant: the owner is read again until it has left.
lock_tests_owner_spins(t) ==
    /\ At(t, "test")
    /\ \/ rmutex.owner = t /\ Goto(t, "own")
       \/ rmutex.owner \notin {t, NULL} /\ Goto(t, "test")
       \/ rmutex.owner = NULL /\ Goto(t, "lock")
    /\ try' = [try EXCEPT ![t] = FALSE]
    /\ UNCHANGED <<rmutex, depth>>

\* The owner is read, and a thread that is not the owner has to wait.
lock_tests_owner(t) ==
    /\ At(t, "test")
    /\ \/ rmutex.owner = t /\ Goto(t, "own")
       \/ rmutex.owner # t /\ try[t] /\ Goto(t, "none")
       \/ rmutex.owner # t /\ ~try[t] /\ Goto(t, "lock")
    /\ try' = [try EXCEPT ![t] = FALSE]
    /\ UNCHANGED <<rmutex, depth>>

lock_waits(t) ==
    LET k == mutex_block(sched, rmutex.mutex, t)
    IN  /\ At(t, "lock")
        /\ \/ /\ ~rmutex.mutex.locked
              /\ rmutex' = [rmutex EXCEPT !.mutex = mutex_take(sched, @, t)]
              /\ Goto(t, "own")
           \/ /\ rmutex.mutex.locked
              /\ rmutex' = [rmutex EXCEPT !.mutex = k.mutex]
              /\ sched' = k.sched
              /\ pc' = [pc EXCEPT ![t] = "yield"]
              /\ call' = [call EXCEPT ![t] = "wait"]
              /\ UNCHANGED other_prio
        /\ UNCHANGED <<try, depth>>

lock_woken(t) ==
    /\ At(t, "wait")
    /\ Goto(t, "own")
    /\ UNCHANGED <<rmutex, try, depth>>

lock_sets_owner(t) ==
    /\ At(t, "own")
    /\ rmutex' = [rmutex EXCEPT !.owner = t]
    /\ Goto(t, "count")
    /\ UNCHANGED <<try, depth>>

\* Mutant: the count restarts whenever the mutex is locked.
lock_counts_one(t) ==
    /\ At(t, "count")
    /\ rmutex' = [rmutex EXCEPT !.refcount = 1]
    /\ depth' = [depth EXCEPT ![t] = @ + 1]
    /\ Goto(t, "none")
    /\ UNCHANGED try

lock_counts(t) ==
    /\ At(t, "count")
    /\ rmutex' = [rmutex EXCEPT !.refcount = @ + 1]
    /\ depth' = [depth EXCEPT ![t] = @ + 1]
    /\ Goto(t, "none")
    /\ UNCHANGED try

----------------------------------------------------------------------------
(* rmutex_unlock                                                           *)

unlock_counts(t) ==
    /\ At(t, "none")
    /\ depth[t] > 0
    /\ rmutex' = [rmutex EXCEPT !.refcount = @ - 1]
    /\ depth' = [depth EXCEPT ![t] = @ - 1]
    /\ Goto(t, IF rmutex.refcount = 1 THEN "reset" ELSE "none")
    /\ UNCHANGED try

\* Mutant: owner keeps the pid of the thread that unlocked last.
unlock_resets_nothing(t) ==
    /\ At(t, "reset")
    /\ Goto(t, "unlock")
    /\ UNCHANGED <<rmutex, try, depth>>

unlock_resets_owner(t) ==
    /\ At(t, "reset")
    /\ rmutex' = [rmutex EXCEPT !.owner = NULL]
    /\ Goto(t, "unlock")
    /\ UNCHANGED <<try, depth>>

unlock_releases(t) ==
    LET r == mutex_release(sched, rmutex.mutex)
    IN  /\ At(t, "unlock")
        /\ sched' = IF r.yields THEN sched_run(r.sched) ELSE r.sched
        /\ rmutex' = [rmutex EXCEPT !.mutex = r.mutex]
        /\ pc' = [pc EXCEPT ![t] = IF r.woken = NULL THEN @ ELSE "switch"]
        /\ other_prio' = [other_prio EXCEPT
               ![t] = IF r.woken = NULL THEN @ ELSE sched.priority[r.woken]]
        /\ call' = [call EXCEPT ![t] = "none"]
        /\ UNCHANGED <<try, depth>>

----------------------------------------------------------------------------
(* Threads outside the calls: an interrupt that wakes a thread preempts at  *)
(* any step of another one.                                                 *)

thread_sleep(t) ==
    /\ At(t, "none")
    /\ sched' = sched_set_status(sched, t, "sleeping")
    /\ pc' = [pc EXCEPT ![t] = "yield"]
    /\ UNCHANGED <<other_prio, rmutexVars>>

isr_thread_wakeup(t) ==
    /\ sched.status[t] = "sleeping"
    /\ sched' \in isr_sched_switch(sched_set_status(sched, t, "running"), sched.priority[t])
    /\ UNCHANGED <<pc, other_prio, rmutexVars>>

Locks(t) ==
    \/ lock_tests_owner(t)
    \/ lock_waits(t)
    \/ lock_woken(t)
    \/ lock_sets_owner(t)
    \/ lock_counts(t)

Unlocks(t) ==
    \/ unlock_resets_owner(t)
    \/ unlock_releases(t)

Reschedule == Dispatch /\ UNCHANGED rmutexVars

Next ==
    \/ Reschedule
    \/ \E t \in Thread :
           \/ \E trylock \in BOOLEAN : lock_starts(t, trylock)
           \/ Locks(t)
           \/ unlock_counts(t)
           \/ Unlocks(t)
           \/ thread_sleep(t)
           \/ isr_thread_wakeup(t)

Spec == Init /\ [][Next]_vars

(***************************************************************************)
(* Fairness: a thread that has the processor goes on with its call, one    *)
(* that holds the mutex and gets the processor again and again leaves its  *)
(* outermost section, and every sleeping thread is woken some time and     *)
(* sleeps again.                                                           *)
(***************************************************************************)
Fairness ==
    /\ WF_vars(Reschedule)
    /\ \A t \in Thread :
           /\ WF_vars(Locks(t) \/ Unlocks(t))
           /\ SF_vars(unlock_counts(t))
           /\ SF_vars(depth[t] = 1 /\ unlock_counts(t))
           /\ SF_vars(thread_sleep(t))
           /\ WF_vars(isr_thread_wakeup(t))

FairSpec == Spec /\ Fairness

----------------------------------------------------------------------------
(* Properties                                                              *)

\* Types of the kernel variables and of the recursive mutex.
TypeOK ==
    /\ sched \in SchedType
    /\ pc \in [Thread -> {"app", "yield", "switch"}]
    /\ other_prio \in [Thread -> Prio]
    /\ rmutex \in [mutex : MutexType, owner : Thread \cup {NULL}, refcount : Nat]
    /\ call \in [Thread -> {"none", "test", "lock", "wait", "own", "count", "reset", "unlock"}]
    /\ try \in [Thread -> BOOLEAN]
    /\ depth \in [Thread -> Nat]

\* t holds the recursive mutex, or has the underlying one and is on its way to
\* holding the recursive one or to giving the underlying one up.
Inside(t) ==
    \/ depth[t] > 0
    \/ call[t] \in {"own", "count", "reset", "unlock"}
    \/ call[t] = "wait" /\ OnRunqueue(sched.status[t])

\* The recursive mutex excludes: one thread at a time is inside, while the
\* underlying mutex is locked. The owner is compared outside any critical
\* section while other threads lock and unlock.
MutualExclusion ==
    /\ TypeOK
    /\ \A t, u \in Thread : Inside(t) /\ Inside(u) => t = u
    /\ rmutex.mutex.locked <=> \E t \in Thread : Inside(t)

\* The assertions of rmutex_unlock hold for a thread that holds the mutex, and
\* refcount is its nesting depth, so that the mutex is released by the last
\* unlock and by no other.
UnlockAsserts ==
    \A t \in Thread : depth[t] > 0 /\ call[t] = "none" =>
        /\ rmutex.owner = t
        /\ rmutex.refcount = depth[t]

\* The comment in _lock: the test of the owner answers "is it me" whatever the
\* other threads do, so a holder relocks and no other thread does.
OwnerTestStable ==
    \A t \in Thread : call[t] = "test" => (rmutex.owner = t <=> depth[t] > 0)

\* A call of rmutex_lock or rmutex_trylock by a thread that none outranks
\* returns, if the holders unlock: a holder never waits for itself, and the
\* thread that is woken has the mutex.
LockReturns ==
    \A t \in {u \in Thread : \A v \in Thread : ThreadPrio[u] <= ThreadPrio[v]} :
        call[t] # "none" ~> call[t] = "none"
=============================================================================
