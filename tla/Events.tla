------------------------------- MODULE Events -------------------------------
(***************************************************************************)
(* Event queues, RIOT/sys/event/event.c: events are posted to the queues   *)
(* of one thread, which waits for them with thread flags. The queues are   *)
(* the circular lists of module Clist, because an event counts as queued   *)
(* while its pointer is not NULL, which is not always while it is in a     *)
(* list.                                                                   *)
(*                                                                         *)
(*   owner      the thread that claims the queues, or NULL where there are *)
(*              no queues and the threads use their flags as they like; it *)
(*              never changes                                              *)
(*   waiter     the field waiter of the queues                             *)
(*   next       the pointers of the events and the queues                  *)
(*   at[t]      where thread t is in a call on an event, or "out"          *)
(*   result     the event that the owner has taken out of a queue          *)
(*   timer[t]   whether a timer that sets THREAD_FLAG_TIMEOUT of t runs    *)
(*   due        the events posted since they were last returned to the     *)
(*              owner or cancelled                                         *)
(***************************************************************************)
EXTENDS ThreadFlags

CONSTANTS Owners,         \* the values of owner, of Thread \cup {NULL}
          NQueues,        \* the number of queues
          Home,           \* the queue that each event is posted to
          OthersCancel    \* whether threads other than the owner cancel events

ASSUME EventsAssumption ==
    /\ Owners \subseteq Thread \cup {NULL}
    /\ NQueues \in Nat \ {0}
    /\ Home \in Seq(1 .. NQueues)
    /\ OthersCancel \in BOOLEAN
    /\ NFlags = 2

VARIABLES owner, waiter, next, at, result, timer, due

eventVars == <<owner, waiter, next, at, result, timer, due>>
evVars == <<vars, eventVars>>

C == INSTANCE Clist

Event == DOMAIN Home
\* The address of a queue, after those of the events.
list(q) == Len(Home) + q
home(e) == list(Home[e])

THREAD_FLAG_EVENT == 1
THREAD_FLAG_TIMEOUT == 2

EventInit ==
    /\ Init
    /\ owner \in Owners
    /\ waiter = NULL
    /\ next = [n \in Event \cup {list(q) : q \in 1 .. NQueues} |-> NULL]
    /\ at = [t \in Thread |-> "out"]
    /\ result = NULL
    /\ timer = [t \in Thread |-> FALSE]
    /\ due = {}

\* Thread t runs application code, or is at a place of a call on an event.
Is(t, place) == owner # NULL /\ InApp(t) /\ at[t] = place

goto(t, place) == at' = [at EXCEPT ![t] = place]

----------------------------------------------------------------------------
event_queues_claim(t) ==
    /\ Is(t, "out") /\ t = owner /\ waiter = NULL
    /\ waiter' = t
    /\ UNCHANGED <<vars, owner, next, at, result, timer, due>>


\* The critical section of event_post
queue_event(e) ==
    /\ next' = IF next[e] = NULL THEN C!clist_rpush(next, home(e), e) ELSE next
    /\ due' = due \cup {e}

event_post(t, e) ==
    /\ Is(t, "out")
    /\ queue_event(e)
    /\ goto(t, IF waiter = NULL THEN "out" ELSE "post")
    /\ UNCHANGED <<vars, owner, waiter, result, timer>>

\* event_post has read the waiter and sets its flag.
event_post_sets(t) ==
    /\ Is(t, "post")
    /\ thread_flags_set(t, waiter, {THREAD_FLAG_EVENT})
    /\ goto(t, "out")
    /\ UNCHANGED <<owner, waiter, next, result, timer, due>>

\* event_post in an interrupt handler
isr_event_post(e) ==
    /\ owner # NULL
    /\ queue_event(e)
    /\ \/ waiter = NULL /\ UNCHANGED vars
       \/ waiter # NULL /\ isr_thread_flags_set(waiter, {THREAD_FLAG_EVENT})
    /\ UNCHANGED <<owner, waiter, at, result, timer>>

event_cancel(t, e) ==
    /\ Is(t, "out") /\ (t = owner \/ OthersCancel)
    /\ next' = [C!clist_remove(next, home(e), e) EXCEPT ![e] = NULL]
    /\ due' = due \ {e}
    /\ UNCHANGED <<vars, owner, waiter, at, result, timer>>

----------------------------------------------------------------------------
(* Taking events                                                           *)


\* Takes the first event of a list; its pointer is set to NULL after interrupts
\* have been enabled again.
take(t, l, place) ==
    /\ next[l] # NULL
    /\ result' = C!clist_lpeek(next, l)
    /\ next' = C!clist_lpop(next, l)
    /\ goto(t, place)
    /\ UNCHANGED <<vars, owner, waiter, timer, due>>

\* event_get outside a wait; nothing happens where the queue is empty.
event_get(t, q) == Is(t, "out") /\ t = waiter /\ take(t, list(q), "got")

event_wait_multi(t) ==
    /\ Is(t, "out") /\ t = waiter
    /\ goto(t, "multi")
    /\ UNCHANGED <<vars, owner, waiter, next, result, timer, due>>

\* One round of the loop of event_wait_multi: the first queue that is not empty
\* gives the event, otherwise the thread waits for its flag.
wait_multi(t) ==
    /\ Is(t, "multi")
    /\ \/ \E q \in 1 .. NQueues :
              /\ \A p \in 1 .. q - 1 : next[list(p)] = NULL
              /\ take(t, list(q), "got")
       \/ /\ \A q \in 1 .. NQueues : next[list(q)] = NULL
          /\ flags_wait(t, "any", {THREAD_FLAG_EVENT})
          /\ UNCHANGED eventVars

\* event_wait_timeout of the first queue, up to the start of its timer: the flag
\* is cleared first, and no timer of the thread runs.
event_wait_timeout(t) ==
    /\ Is(t, "out") /\ t = waiter
    /\ thread_flags_clear(t, {THREAD_FLAG_TIMEOUT})
    /\ timer' = [timer EXCEPT ![t] = TRUE]
    /\ goto(t, "timeout")
    /\ UNCHANGED <<owner, waiter, next, result, due>>

\* One round of the loop of _wait_timeout
wait_timeout(t) ==
    /\ Is(t, "timeout")
    /\ \/ take(t, list(1), "got")
       \/ /\ next[list(1)] = NULL
          /\ flags_wait(t, "any", {THREAD_FLAG_EVENT, THREAD_FLAG_TIMEOUT})
          /\ UNCHANGED eventVars

\* thread_flags_wait_any returns; _wait_timeout goes on only where
\* THREAD_FLAG_EVENT is among the flags.
flags_wait_returns(t) ==
    /\ owner # NULL
    /\ wait_clears(t)
    /\ goto(t, IF at[t] = "timeout" /\ THREAD_FLAG_EVENT \notin flags[t]
               THEN "out" ELSE at[t])
    /\ UNCHANGED <<owner, waiter, next, result, timer, due>>

\* The event is marked as not queued, the timer, if any, is removed, and the
\* event is returned.
returns_event(t) ==
    /\ Is(t, "got")
    /\ next' = [next EXCEPT ![result] = NULL]
    /\ due' = due \ {result}
    /\ result' = NULL
    /\ timer' = [timer EXCEPT ![t] = FALSE]
    /\ goto(t, "out")
    /\ UNCHANGED <<vars, owner, waiter>>

----------------------------------------------------------------------------
\* A thread that is not the owner sleeps until its timer sets its flag.
sleeps(t) ==
    /\ Is(t, "out") /\ t # owner
    /\ flags_wait(t, "any", {THREAD_FLAG_TIMEOUT})
    /\ timer' = [timer EXCEPT ![t] = TRUE]
    /\ UNCHANGED <<owner, waiter, next, at, result, due>>

\* The timer of thread t expires.
isr_timeout(t) ==
    /\ timer[t]
    /\ timer' = [timer EXCEPT ![t] = FALSE]
    /\ isr_thread_flags_set(t, {THREAD_FLAG_TIMEOUT})
    /\ UNCHANGED <<owner, waiter, next, at, result, due>>

----------------------------------------------------------------------------
\* The steps of a call that has begun.
Goes(t) ==
    \/ event_post_sets(t)
    \/ wait_multi(t)
    \/ wait_timeout(t)
    \/ flags_wait_returns(t)
    \/ returns_event(t)

Waits(t) == event_wait_multi(t) \/ event_wait_timeout(t)

EventCall(t) ==
    \/ event_queues_claim(t)
    \/ \E e \in Event : event_post(t, e) \/ event_cancel(t, e)
    \/ \E q \in 1 .. NQueues : event_get(t, q)
    \/ Waits(t)
    \/ Goes(t)
    \/ sleeps(t)

EventsReschedule == owner # NULL /\ Reschedule /\ UNCHANGED eventVars

FlagsOnly == owner = NULL /\ Next /\ UNCHANGED eventVars

EventNext ==
    \/ FlagsOnly
    \/ EventsReschedule
    \/ \E t \in Thread : EventCall(t) \/ isr_timeout(t)
    \/ \E e \in Event : isr_event_post(e)

\* A thread that may go on does, a request for a switch is served, and the owner
\* claims its queues and returns from every handler to wait for the next event,
\* as event_loop does.
Fairness ==
    /\ WF_evVars(EventsReschedule)
    /\ \A t \in Thread :
           /\ WF_evVars(Goes(t) \/ event_queues_claim(t))
           /\ SF_evVars(Waits(t))

EventSpec == EventInit /\ [][EventNext]_evVars /\ Fairness

----------------------------------------------------------------------------
(* Properties                                                              *)



\* A thread blocked in event_wait_timeout will be woken: its timer runs.
TimeoutKept ==
    \A t \in Thread :
        at[t] = "timeout" /\ sched.status[t] = "flag_blocked_any" => timer[t]
=============================================================================
