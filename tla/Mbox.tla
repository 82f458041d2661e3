-------------------------------- MODULE Mbox --------------------------------
(***************************************************************************)
(* Mailboxes, RIOT/core/mbox.c: threads put messages into one mailbox and  *)
(* get them from it, blocking or not; an interrupt handler tries to put.   *)
(*                                                                         *)
(*   mbox.cib       the counters of the ring buffer                        *)
(*   mbox.msg_array the messages in its places                             *)
(*   mbox.readers   the threads blocked in mbox_get                        *)
(*   mbox.writers   the threads blocked in mbox_put                        *)
(*   call[t]        the blocking call thread t is in, or "out"             *)
(*   count          how many messages each sender has put into the         *)
(*                  mailbox and which of these have been taken, numbered   *)
(*                  from 1                                                 *)
(***************************************************************************)
EXTENDS Sched, SequencesExt, Cib

CONSTANTS ThreadPrio,
          Sizes,     \* the sizes of the mailbox
          Calls,     \* the calls made, of {"put", "try_put", "isr_put", "try_get"}
          MaxMsgs    \* bound on the messages of a sender

ASSUME MboxAssumption ==
    /\ ThreadPrio \in [Thread -> Prio]
    /\ Sizes \subseteq {0} \cup {2^i : i \in 0 .. UINT_BITS - 1}
    /\ MaxMsgs \in Nat
    /\ Calls \subseteq {"put", "try_put", "isr_put", "try_get"}

VARIABLES mbox, call, count

vars == <<sched, pc, other_prio, mbox, call, count>>

ISR == MAXTHREADS + 1
Sender == 1 .. ISR

InApp(t) == Executes(t) /\ pc[t] = "app" /\ call[t] = "out"

Init ==
    /\ sched = all_created(ThreadPrio)
    /\ pc = [t \in Thread |-> IF t = 1 THEN "yield" ELSE "app"]
    /\ other_prio = [t \in Thread |-> 0]
    /\ mbox \in {[cib |-> cib_init(size), msg_array |-> [i \in 0 .. size - 1 |-> NULL],
                  readers |-> <<>>, writers |-> <<>>] : size \in Sizes}
    /\ call = [t \in Thread |-> "out"]
    /\ count = [put |-> [s \in Sender |-> 0], taken |-> [s \in Sender |-> {}]]

----------------------------------------------------------------------------
\* The message that cib_get_unsafe gives.
first == mbox.msg_array[get_index(mbox.cib)]

full == cib_full(mbox.cib)
empty == cib_avail(mbox.cib) = 0

MaySend(s) == count.put[s] < MaxMsgs

\* The next message of sender s.
message(s) == [from |-> s, no |-> count.put[s] + 1]

\* _wake_waiter up to its sched_switch
wake_waiter(w) == sched_set_status(sched, w, "pending")

\* _wait up to its thread_yield
wait(t, list, name) ==
    /\ sched' = sched_set_status(sched, t, "mbox_blocked")
    /\ mbox' = [mbox EXCEPT ![list] = thread_add_to_list(sched, @, t)]
    /\ pc' = [pc EXCEPT ![t] = "wait"]
    /\ call' = [call EXCEPT ![t] = name]
    /\ UNCHANGED other_prio

\* Mutant: the reader stays in the list.
hand_over_stays(s) ==
    /\ count' = [count EXCEPT !.put[s] = @ + 1, !.taken[s] = @ \cup {message(s).no}]
    /\ UNCHANGED mbox

\* A message goes to the first blocked reader, count being updated.
hand_over(s) ==
    /\ mbox' = [mbox EXCEPT !.readers = Tail(@)]
    /\ count' = [count EXCEPT !.put[s] = @ + 1, !.taken[s] = @ \cup {message(s).no}]

enqueue(s) ==
    /\ mbox' = [mbox EXCEPT !.msg_array[put_index(mbox.cib)] = message(s),
                            !.cib = cib_put_unsafe(@)]
    /\ count' = [count EXCEPT !.put[s] = @ + 1]

\* Mutant: a place in the queue is used before the readers are looked at.
mbox_put_queues(t, blocking) ==
    /\ InApp(t)
    /\ MaySend(t)
    /\ ~full
    /\ enqueue(t)
    /\ UNCHANGED <<sched, pc, other_prio, call>>

\* _mbox_put by a thread
mbox_put(t, blocking) ==
    LET r == Head(mbox.readers)
    IN  /\ InApp(t)
        /\ MaySend(t)
        /\ \/ /\ mbox.readers # <<>>
              /\ hand_over(t)
              /\ sched' = wake_waiter(r)
              /\ pc' = [pc EXCEPT ![t] = "switch"]
              /\ other_prio' = [other_prio EXCEPT ![t] = sched.priority[r]]
              /\ UNCHANGED call
           \/ /\ mbox.readers = <<>> /\ ~full
              /\ enqueue(t)
              /\ UNCHANGED <<sched, pc, other_prio, call>>
           \/ /\ mbox.readers = <<>> /\ full /\ blocking
              /\ wait(t, "writers", "put")
              /\ UNCHANGED count

\* A writer goes on in the loop of _mbox_put: it looks at the queue again, and
\* not at the readers.
mbox_put_woken(t) ==
    /\ Executes(t) /\ pc[t] = "app" /\ call[t] = "put"
    /\ \/ /\ ~full
          /\ enqueue(t)
          /\ call' = [call EXCEPT ![t] = "out"]
          /\ UNCHANGED <<sched, pc, other_prio>>
       \/ /\ full
          /\ wait(t, "writers", "put")
          /\ UNCHANGED count

\* Mutant: the message is read with cib_peek.
mbox_get_peeks(t, blocking) ==
    /\ InApp(t)
    /\ \/ /\ ~empty
          /\ count' = [count EXCEPT !.taken[first.from] = @ \cup {first.no}]
          /\ UNCHANGED <<sched, pc, other_prio, mbox, call>>
       \/ /\ empty /\ blocking
          /\ wait(t, "readers", "get")
          /\ UNCHANGED count

\* Mutant: the writers are not looked at.
mbox_get_quiet(t, blocking) ==
    /\ InApp(t)
    /\ \/ /\ ~empty
          /\ mbox' = [mbox EXCEPT !.cib = cib_get_unsafe(@)]
          /\ count' = [count EXCEPT !.taken[first.from] = @ \cup {first.no}]
          /\ UNCHANGED <<sched, pc, other_prio, call>>
       \/ /\ empty /\ blocking
          /\ wait(t, "readers", "get")
          /\ UNCHANGED count

\* _mbox_get by a thread: it takes a message and wakes the first writer.
mbox_get(t, blocking) ==
    LET m == first
        w == Head(mbox.writers)
    IN  /\ InApp(t)
        /\ \/ /\ ~empty
              /\ count' = [count EXCEPT !.taken[m.from] = @ \cup {m.no}]
              /\ \/ /\ mbox.writers # <<>>
                    /\ mbox' = [mbox EXCEPT !.cib = cib_get_unsafe(@), !.writers = Tail(@)]
                    /\ sched' = wake_waiter(w)
                    /\ pc' = [pc EXCEPT ![t] = "switch"]
                    /\ other_prio' = [other_prio EXCEPT ![t] = sched.priority[w]]
                 \/ /\ mbox.writers = <<>>
                    /\ mbox' = [mbox EXCEPT !.cib = cib_get_unsafe(@)]
                    /\ UNCHANGED <<sched, pc, other_prio>>
              /\ UNCHANGED call
           \/ /\ empty /\ blocking
              /\ wait(t, "readers", "get")
              /\ UNCHANGED count

\* The message has been copied to the blocked reader, and mbox_get returns.
mbox_get_woken(t) ==
    /\ Executes(t) /\ pc[t] = "app" /\ call[t] = "get"
    /\ call' = [call EXCEPT ![t] = "out"]
    /\ UNCHANGED <<sched, pc, other_prio, mbox, count>>

\* thread_yield of _wait up to its thread_yield_higher: an interrupt may have
\* made the thread runnable again.
wait_yields(t) ==
    /\ Executes(t) /\ pc[t] = "wait"
    /\ sched' = IF thread_is_active(sched, t)
                THEN sched_runq_advance(sched, sched.priority[t]) ELSE sched
    /\ pc' = [pc EXCEPT ![t] = "yield"]
    /\ UNCHANGED <<other_prio, mbox, call, count>>

\* mbox_try_put in an interrupt handler
isr_mbox_try_put ==
    LET r == Head(mbox.readers)
    IN  /\ "isr_put" \in Calls
        /\ MaySend(ISR)
        /\ \/ /\ mbox.readers # <<>>
              /\ hand_over(ISR)
              /\ sched' \in isr_sched_switch(wake_waiter(r), sched.priority[r])
           \/ /\ mbox.readers = <<>> /\ ~full
              /\ enqueue(ISR)
              /\ UNCHANGED sched
        /\ UNCHANGED <<pc, other_prio, call>>

----------------------------------------------------------------------------
Call(t) ==
    \/ "put" \in Calls /\ mbox_put(t, TRUE)
    \/ "try_put" \in Calls /\ mbox_put(t, FALSE)
    \/ "try_get" \in Calls /\ mbox_get(t, FALSE)
    \/ mbox_get(t, TRUE)
    \/ mbox_put_woken(t)
    \/ mbox_get_woken(t)
    \/ wait_yields(t)

Reschedule == Dispatch /\ UNCHANGED <<mbox, call, count>>

Next ==
    \/ Reschedule
    \/ \E t \in Thread : Call(t)
    \/ isr_mbox_try_put

Spec == Init /\ [][Next]_vars

----------------------------------------------------------------------------
(* Properties                                                              *)

\* The messages in a mailbox, oldest first.
queue(m) ==
    [i \in 1 .. cib_avail(m.cib) |->
        m.msg_array[and(unsigned(m.cib.read_count + i - 1), m.cib.mask)]]

\* Types of the kernel variables and of the mailbox, whose queue never holds
\* more messages than there are places.
TypeOK ==
    /\ sched \in SchedType
    /\ pc \in [Thread -> {"app", "yield", "switch", "wait"}]
    /\ other_prio \in [Thread -> Prio]
    /\ cib_avail(mbox.cib) <= Cardinality(DOMAIN mbox.msg_array)
    /\ Range(queue(mbox)) \subseteq [from : Sender, no : Nat]
    /\ Range(mbox.readers) \cup Range(mbox.writers) \subseteq Thread
    /\ call \in [Thread -> {"out", "put", "get"}]
    /\ count \in [put : [Sender -> Nat], taken : [Sender -> SUBSET (1 .. MaxMsgs)]]

\* A message that was put is in the mailbox until it is taken, and is taken
\* once, by a reader that was blocked or not.
ExactlyOnce ==
    \A s \in Sender :
        LET queued == SelectSeq(queue(mbox), LAMBDA m : m.from = s)
        IN  /\ IsInjective(queued)
            /\ {m.no : m \in Range(queued)} = 1 .. count.put[s] \ count.taken[s]

\* A thread blocks in mbox_get only while the mailbox is empty, and a message
\* goes to a blocked thread before the queue. The one step that leaves a
\* blocked reader beside a message is that of a writer woken in _mbox_put.
OnlyWokenWriterPasses ==
    [][/\ mbox.readers = <<>> \/ empty
       /\ mbox'.readers # <<>> /\ cib_avail(mbox'.cib) > 0
       => \E t \in Thread : call[t] = "put" /\ call'[t] = "out"]_vars

\* No thread is blocked in mbox_put while there is a place in the mailbox, or
\* another writer has been woken to take it.
WriterServed ==
    mbox.writers # <<>> /\ ~full =>
        \E t \in Thread : call[t] = "put" /\ OnRunqueue(sched.status[t])

\* The queue keeps to its size. rq_entry is one list node: a thread waits in
\* one list, once, exactly while it is blocked, and the run queues have the same
\* entries as in module Threads, though _wait advances a queue after an
\* interrupt may have changed it.
ListsConsistent ==
    /\ TypeOK
    /\ IsInjective(mbox.readers \o mbox.writers)
    /\ Range(mbox.readers \o mbox.writers)
       = {t \in Thread : sched.status[t] = "mbox_blocked"}
    /\ RunqueueOK(sched) /\ BitcacheOK(sched)
=============================================================================
