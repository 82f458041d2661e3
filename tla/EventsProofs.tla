---------------------------- MODULE EventsProofs ----------------------------
(***************************************************************************)
(* Event queues use thread flags as any program may: every behaviour of    *)
(* Events is, seen through the flags, one of ThreadFlags. So what is       *)
(* proved of thread flags holds below event queues.                        *)
(***************************************************************************)
EXTENDS Events, ThreadFlagsProofs

Place == {"out", "post", "multi", "timeout", "got"}

\* The waiter is the owner of the queues, and where a thread is about to set a
\* flag of the waiter there is one.
WaiterOK ==
    /\ owner \in Thread \cup {NULL}
    /\ waiter \in {NULL, owner}
    /\ at \in [Thread -> Place]
    /\ \A t \in Thread : at[t] = "post" => waiter # NULL

LEMMA FlagsOfEvents ==
    /\ THREAD_FLAG_EVENT \in Flag /\ THREAD_FLAG_TIMEOUT \in Flag
    /\ {THREAD_FLAG_EVENT} \in SUBSET Flag /\ {THREAD_FLAG_TIMEOUT} \in SUBSET Flag
    /\ {THREAD_FLAG_EVENT, THREAD_FLAG_TIMEOUT} \in SUBSET Flag
    /\ NULL \notin Thread
  BY EventsAssumption, SchedAssumption
     DEF THREAD_FLAG_EVENT, THREAD_FLAG_TIMEOUT, Flag, NULL, Thread

LEMMA WaiterInit == EventInit => WaiterOK
  BY EventsAssumption DEF EventInit, WaiterOK, Place

\* A thread moves, or none does, and the queues stay with the thread that
\* claimed them.
LEMMA Moved ==
    ASSUME WaiterOK, UNCHANGED <<owner, waiter>>,
           \/ UNCHANGED at
           \/ \E t \in Thread, place \in Place :
                  goto(t, place) /\ (place = "post" => waiter # NULL)
    PROVE  WaiterOK'
  BY DEF WaiterOK, goto

\* The step of a thread is one that a user of thread flags may take, or leaves
\* the flags alone.
LEMMA CallMaps ==
    ASSUME WaiterOK, NEW t \in Thread, EventCall(t)
    PROVE  WaiterOK' /\ (Call(t) \/ UNCHANGED vars)
  <1>0. {"out", "post", "multi", "timeout", "got"} = Place
    BY DEF Place
  <1>1. CASE event_queues_claim(t)
    BY <1>1, FlagsOfEvents DEF event_queues_claim, WaiterOK
  <1>2. ASSUME NEW e \in Event, event_post(t, e)
        PROVE  WaiterOK' /\ (Call(t) \/ UNCHANGED vars)
    BY <1>0, <1>2, Moved DEF event_post
  <1>3. ASSUME NEW e \in Event, event_cancel(t, e)
        PROVE  WaiterOK' /\ (Call(t) \/ UNCHANGED vars)
    BY <1>3, Moved DEF event_cancel
  <1>4. ASSUME NEW q \in 1 .. NQueues, event_get(t, q)
        PROVE  WaiterOK' /\ (Call(t) \/ UNCHANGED vars)
    BY <1>0, <1>4, Moved DEF event_get, take
  <1>5. CASE event_wait_multi(t)
    BY <1>0, <1>5, Moved DEF event_wait_multi
  <1>6. CASE event_wait_timeout(t)
    BY <1>0, <1>6, Moved, FlagsOfEvents DEF event_wait_timeout, Call
  <1>7. CASE event_post_sets(t)
    <2>1. waiter \in Thread
      BY <1>7 DEF event_post_sets, Is, WaiterOK
    <2> QED
      BY <1>0, <1>7, <2>1, Moved, FlagsOfEvents DEF event_post_sets, Call
  <1>8. CASE wait_multi(t)
    <2>1. ASSUME NEW q \in 1 .. NQueues, take(t, list(q), "got")
          PROVE  WaiterOK' /\ UNCHANGED vars
      BY <1>0, <2>1, Moved DEF take
    <2>2. CASE flags_wait(t, "any", {THREAD_FLAG_EVENT}) /\ UNCHANGED eventVars
      BY <2>2, Moved, FlagsOfEvents DEF eventVars, Call
    <2> QED
      BY <1>8, <2>1, <2>2 DEF wait_multi
  <1>9. CASE wait_timeout(t)
    <2>1. CASE take(t, list(1), "got")
      BY <1>0, <2>1, Moved DEF take
    <2>2. CASE /\ flags_wait(t, "any", {THREAD_FLAG_EVENT, THREAD_FLAG_TIMEOUT})
               /\ UNCHANGED eventVars
      BY <2>2, Moved, FlagsOfEvents DEF eventVars, Call
    <2> QED
      BY <1>9, <2>1, <2>2 DEF wait_timeout
  <1>10. CASE flags_wait_returns(t)
    <2>1. \E place \in Place : goto(t, place) /\ (place = "post" => waiter # NULL)
      BY <1>0, <1>10 DEF flags_wait_returns, WaiterOK
    <2> QED
      BY <1>10, <2>1, Moved DEF flags_wait_returns, Call
  <1>11. CASE returns_event(t)
    BY <1>0, <1>11, Moved DEF returns_event
  <1>12. CASE sleeps(t)
    BY <1>12, Moved, FlagsOfEvents DEF sleeps, Call
  <1> QED
    BY <1>1, <1>2, <1>3, <1>4, <1>5, <1>6, <1>7, <1>8, <1>9, <1>10, <1>11, <1>12
       DEF EventCall, Goes, Waits

\* So is every other step.
LEMMA StepMaps ==
    ASSUME WaiterOK, [EventNext]_evVars
    PROVE  WaiterOK' /\ [Next]_vars
  <1>1. CASE FlagsOnly
    BY <1>1, Moved DEF FlagsOnly, eventVars
  <1>2. CASE EventsReschedule
    BY <1>2, Moved DEF EventsReschedule, eventVars, Next
  <1>3. ASSUME NEW t \in Thread, EventCall(t) PROVE WaiterOK' /\ [Next]_vars
    BY <1>3, CallMaps DEF Next
  <1>4. ASSUME NEW t \in Thread, isr_timeout(t) PROVE WaiterOK' /\ [Next]_vars
    BY <1>4, Moved, FlagsOfEvents DEF isr_timeout, Next
  <1>5. ASSUME NEW e \in Event, isr_event_post(e) PROVE WaiterOK' /\ [Next]_vars
    <2>1. waiter # NULL => waiter \in Thread
      BY DEF WaiterOK
    <2> QED
      BY <1>5, <2>1, Moved, FlagsOfEvents DEF isr_event_post, Next
  <1>6. CASE UNCHANGED evVars
    BY <1>6, Moved DEF evVars, eventVars
  <1> QED
    BY <1>1, <1>2, <1>3, <1>4, <1>5, <1>6 DEF EventNext

\* The event queues of sys/event implement a program that uses thread flags:
\* whatever is posted, cancelled, waited for and timed out, by threads and in
\* interrupt handlers, is a behaviour of ThreadFlags.
THEOREM EventsUseFlags == EventSpec => Spec
  <1>1. EventInit => Init
    BY DEF EventInit
  <1>2. WaiterOK /\ [EventNext]_evVars => WaiterOK' /\ [Next]_vars
    BY StepMaps
  <1> QED
    BY <1>1, <1>2, WaiterInit, PTL DEF EventSpec, Spec

\* No event queue makes a thread sleep on with the flags it waits for, for any
\* number of queues and events.
THEOREM EventsSafety == EventSpec => []WaitsExact
  BY EventsUseFlags, FlagSafety, PTL
=============================================================================
