-------------------------------- MODULE Msg --------------------------------
(***************************************************************************)
(* Messages between threads, RIOT/core/msg.c (without the module           *)
(* core_thread_flags), and the list of a message bus, core/msg_bus.c.      *)
(*                                                                         *)
(* A message is a record: from is sender_pid (ISR for KERNEL_PID_ISR), no  *)
(* numbers the messages of that sender to that receiver, request tells     *)
(* that it was sent with msg_send_receive. ipc holds the thread_t fields:  *)
(*   queue     the messages in msg_array, oldest first                     *)
(*   size      the number of entries of msg_array, 0 without a queue       *)
(*   waiters   msg_waiters                                                 *)
(*   out       the message wait_data points to, of a sender that blocks    *)
(* and the message bus, for events of one type:                            *)
(*   subs      the threads of the entries in its list                      *)
(*   mask      those of them that have subscribed, by event_mask           *)
(* and what the threads have learnt:                                       *)
(*   sent      [s][r] the number of messages s has sent to r               *)
(*   got       [r][s] the number of the last message r received from s     *)
(*   owes      [r] the threads whose request r has received and not        *)
(*             replied to                                                  *)
(***************************************************************************)
EXTENDS Sched, SequencesExt

CONSTANTS ThreadPrio,
          QueueSize,    \* the size thread t gives to msg_init_queue; 0: it does not
          Calls,        \* the calls the threads make, beside msg_send and msg_receive
          Uses,         \* the programs, one of which runs
          Exits,        \* the threads that exit
          MaxMsgs       \* bound on the messages of a sender to one receiver

\* A program: which senders send to which receivers, which of these with
\* msg_send_receive, and the threads that attach themselves to the message bus.
ASSUME MsgAssumption ==
    /\ ThreadPrio \in [Thread -> Prio]
    /\ QueueSize \in [Thread -> {0} \cup {2^i : i \in 0 .. 10}]
    /\ Calls \subseteq {"try_send", "send_int", "reply_int", "bus"}
    /\ \A u \in Uses :
        /\ u.requests \subseteq u.flows /\ u.flows \subseteq (1 .. MAXTHREADS + 1) \X Thread
        /\ u.subscribers \subseteq Thread
    /\ Exits \subseteq Thread
    /\ MaxMsgs \in [1 .. MAXTHREADS + 1 -> Nat]

VARIABLES use, ipc

vars == <<use, sched, pc, other_prio, ipc>>

Flows == use.flows
Requests == use.requests
Subscribers == use.subscribers

ISR == MAXTHREADS + 1
Sender == Thread \cup {ISR}
Msgs == [from : Sender, no : Nat, request : BOOLEAN]

IpcType ==
    [queue   : [Thread -> Seq(Msgs)],
     size    : [Thread -> Nat],
     waiters : [Thread -> Seq(Thread)],
     out     : [Thread -> Msgs],
     subs    : Seq(Thread),
     mask    : SUBSET Thread,
     sent    : [Sender -> [Thread -> Nat]],
     got     : [Thread -> [Sender -> Nat]],
     owes    : [Thread -> SUBSET Thread]]

Init ==
    /\ use \in Uses
    /\ sched = all_created(ThreadPrio)
    /\ pc = [t \in Thread |-> IF t = 1 THEN "yield" ELSE "app"]
    /\ other_prio = [t \in Thread |-> 0]
    /\ ipc = [queue   |-> [t \in Thread |-> <<>>],
              size    |-> [t \in Thread |-> 0],
              waiters |-> [t \in Thread |-> <<>>],
              out     |-> [t \in Thread |-> [from |-> t, no |-> 1, request |-> FALSE]],
              subs    |-> <<>>,
              mask    |-> {},
              sent    |-> [s \in Sender |-> [r \in Thread |-> 0]],
              got     |-> [r \in Thread |-> [s \in Sender |-> 0]],
              owes    |-> [r \in Thread |-> {}]]

InApp(t) == Executes(t) /\ pc[t] = "app"

----------------------------------------------------------------------------
(* Operators on the kernel state k = [sched, ipc]                          *)

Kernel == [sched |-> sched, ipc |-> ipc]

\* The next message of s to r, if the bound allows one more
MaySend(s, r) == <<s, r>> \in Flows /\ ipc.sent[s][r] < MaxMsgs[s]

message(k, s, r, request) ==
    [from |-> s, no |-> k.ipc.sent[s][r] + 1, request |-> request]

counted(k, m, r) == [k EXCEPT !.ipc.sent[m.from][r] = m.no]

\* Message m gets to the variable r passed to msg_receive.
received(k, r, m) ==
    [k EXCEPT !.ipc.got[r][m.from] = m.no,
              !.ipc.owes[r] = IF m.request THEN @ \cup {m.from} ELSE @]

\* Mutant: the queue takes one message more than it has room for.
has_room_off_by_one(k, r) == Len(k.ipc.queue[r]) <= k.ipc.size[r]

has_room(k, r) == Len(k.ipc.queue[r]) < k.ipc.size[r]

queue_msg(k, r, m) == [counted(k, m, r) EXCEPT !.ipc.queue[r] = Append(@, m)]

\* The receiver waits in msg_receive: the message is copied and it is woken.
copy_and_wake(k, r, m) ==
    LET c == received(counted(k, m, r), r, m)
    IN  [c EXCEPT !.sched = sched_set_status(@, r, "pending")]

\* Mutant: a thread blocked in msg_receive is not looked for.
msg_send_oneway_queues(k, s, r) ==
    IF r \in k.sched.threads /\ has_room(k, r)
    THEN queue_msg(k, r, message(k, s, r, FALSE))
    ELSE k

\* _msg_send_oneway; a message that finds no room is dropped.
msg_send_oneway(k, s, r) ==
    LET m == message(k, s, r, FALSE)
    IN  IF k.sched.status[r] = "receive_blocked"
        THEN [copy_and_wake(k, r, m) EXCEPT !.sched.request = TRUE]
        ELSE IF r \in k.sched.threads /\ has_room(k, r)
             THEN queue_msg(k, r, m)
             ELSE k

Becomes(k) == sched' = k.sched /\ ipc' = k.ipc

----------------------------------------------------------------------------
(* Calls by threads                                                        *)

\* _msg_send from thread t to r, k being the state when it is entered and m
\* the message. It goes on at a point after irq_restore.
msg_send_from(t, r, k, m, block) ==
    \/ /\ r \notin k.sched.threads
       /\ Becomes(k)
       /\ UNCHANGED pc
    \/ /\ k.sched.status[r] = "receive_blocked"
       /\ Becomes(copy_and_wake(k, r, m))
       /\ pc' = [pc EXCEPT ![t] = "yield"]
    \/ /\ r \in k.sched.threads
       /\ k.sched.status[r] # "receive_blocked"
       /\ has_room(k, r)
       /\ Becomes(queue_msg(k, r, m))
       /\ pc' = [pc EXCEPT ![t] = "queued"]
    \/ /\ r \in k.sched.threads
       /\ k.sched.status[r] # "receive_blocked"
       /\ ~has_room(k, r)
       /\ block
       /\ LET c == counted(k, m, r)
          IN  Becomes([c EXCEPT
                  !.sched = sched_set_status(@, t, IF @.status[t] = "reply_blocked"
                                                   THEN "reply_blocked" ELSE "send_blocked"),
                  !.ipc.out[t] = m,
                  !.ipc.waiters[r] = thread_add_to_list(k.sched, @, t)])
       /\ pc' = [pc EXCEPT ![t] = "yield"]

\* A send to itself only queues.
msg_send(t, r) ==
    LET m == message(Kernel, t, r, FALSE)
    IN  /\ InApp(t)
        /\ MaySend(t, r)
        /\ \/ /\ t # r
              /\ msg_send_from(t, r, Kernel, m, TRUE)
           \/ /\ t = r
              /\ has_room(Kernel, t)
              /\ Becomes(queue_msg(Kernel, t, m))
              /\ UNCHANGED pc
        /\ UNCHANGED other_prio

msg_try_send(t, r) ==
    /\ "try_send" \in Calls
    /\ InApp(t)
    /\ t # r
    /\ MaySend(t, r)
    /\ msg_send_from(t, r, Kernel, message(Kernel, t, r, FALSE), FALSE)
    /\ UNCHANGED other_prio

\* The caller is taken off the run queue before _msg_send looks for the
\* target.
msg_send_receive(t, r) ==
    /\ <<t, r>> \in Requests
    /\ InApp(t)
    /\ t # r
    /\ MaySend(t, r)
    /\ msg_send_from(t, r, [Kernel EXCEPT !.sched = sched_set_status(@, t, "reply_blocked")],
                     message(Kernel, t, r, TRUE), TRUE)
    /\ UNCHANGED other_prio

\* _msg_send after its message was queued and interrupts are enabled
msg_send_queued(t) ==
    /\ Executes(t)
    /\ pc[t] = "queued"
    /\ pc' = [pc EXCEPT ![t] = IF sched.status[t] = "reply_blocked" THEN "yield" ELSE "app"]
    /\ UNCHANGED <<sched, other_prio, ipc>>

\* Mutant: a sender that waits for a reply is woken, too.
release_waiter_wakes(k, r) ==
    [k EXCEPT !.ipc.waiters[r] = Tail(@),
              !.sched = sched_set_status(@, Head(k.ipc.waiters[r]), "pending")]

\* The first sender in msg_waiters leaves the list; only one that does not
\* wait for a reply is woken.
release_waiter(k, r) ==
    LET s == Head(k.ipc.waiters[r])
    IN  [k EXCEPT !.ipc.waiters[r] = Tail(@),
                  !.sched = IF @.status[s] = "reply_blocked" THEN @
                            ELSE sched_set_status(@, s, "pending")]

\* Mutant: the message of the waiting sender is not put into the queue.
take_message_drops(t) ==
    LET queue  == ipc.queue[t]
        waits  == ipc.waiters[t] # <<>>
        m      == IF queue # <<>> THEN Head(queue) ELSE ipc.out[Head(ipc.waiters[t])]
        k      == received([Kernel EXCEPT !.ipc.queue[t] = IF @ = <<>> THEN @ ELSE Tail(@)], t, m)
    IN  IF waits THEN release_waiter(k, t) ELSE k

\* _msg_receive when a message is there: the oldest queued one, whose place is
\* taken by that of the first waiting sender, or else that of the first
\* waiting sender.
take_message(t) ==
    LET queue  == ipc.queue[t]
        waits  == ipc.waiters[t] # <<>>
        sender == Head(ipc.waiters[t])
        m      == IF queue # <<>> THEN Head(queue) ELSE ipc.out[sender]
        rest   == CASE queue = <<>> -> <<>>
                    [] queue # <<>> /\ waits -> Append(Tail(queue), ipc.out[sender])
                    [] OTHER -> Tail(queue)
        k      == received([Kernel EXCEPT !.ipc.queue[t] = rest], t, m)
    IN  IF waits THEN release_waiter(k, t) ELSE k

\* The call of sched_switch at the end of _msg_receive
wakes_sender(t) ==
    /\ ipc.waiters[t] # <<>>
    /\ LET s == Head(ipc.waiters[t])
       IN  /\ sched.status[s] # "reply_blocked"
           /\ sched.priority[s] < SCHED_PRIO_LEVELS - 1

\* msg_receive and msg_try_receive, which fails without a message
msg_receive(t) ==
    /\ InApp(t)
    /\ \/ /\ ipc.queue[t] # <<>> \/ ipc.waiters[t] # <<>>
          /\ Becomes(take_message(t))
          /\ pc' = [pc EXCEPT ![t] = IF wakes_sender(t) THEN "switch" ELSE @]
          /\ other_prio' = [other_prio EXCEPT
                 ![t] = IF wakes_sender(t) THEN sched.priority[Head(ipc.waiters[t])] ELSE @]
       \/ /\ ipc.queue[t] = <<>> /\ ipc.waiters[t] = <<>>
          /\ sched' = sched_set_status(sched, t, "receive_blocked")
          /\ pc' = [pc EXCEPT ![t] = "yield"]
          /\ UNCHANGED <<other_prio, ipc>>

\* The reply is copied and the thread that waits for it is woken.
reply_and_wake(k, t, s) ==
    [k EXCEPT !.sched = sched_set_status(@, s, "pending"),
              !.ipc.owes[t] = @ \ {s}]

msg_reply(t, s) ==
    /\ InApp(t)
    /\ s \in ipc.owes[t]
    /\ sched.status[s] = "reply_blocked"
    /\ Becomes(reply_and_wake(Kernel, t, s))
    /\ pc' = [pc EXCEPT ![t] = "switch"]
    /\ other_prio' = [other_prio EXCEPT ![t] = sched.priority[s]]

msg_init_queue(t) ==
    /\ InApp(t)
    /\ ipc.size[t] # QueueSize[t]
    /\ ipc' = [ipc EXCEPT !.size[t] = QueueSize[t]]
    /\ UNCHANGED <<sched, pc, other_prio>>

\* The new entry is the first of the list and has subscribed to nothing.
msg_bus_attach(t) ==
    /\ t \in Subscribers /\ t \notin Range(ipc.subs)
    /\ InApp(t)
    /\ ipc' = [ipc EXCEPT !.subs = <<t>> \o @, !.mask = @ \ {t}]
    /\ UNCHANGED <<sched, pc, other_prio>>

msg_bus_detach(t) ==
    /\ t \in Range(ipc.subs)
    /\ InApp(t)
    /\ ipc' = [ipc EXCEPT !.subs = list_remove(@, t), !.mask = @ \ {t}]
    /\ UNCHANGED <<sched, pc, other_prio>>

msg_bus_subscribe(t) ==
    /\ t \in Range(ipc.subs)
    /\ InApp(t)
    /\ ipc' = [ipc EXCEPT !.mask = @ \cup {t}]
    /\ UNCHANGED <<sched, pc, other_prio>>

msg_bus_unsubscribe(t) ==
    /\ t \in Range(ipc.subs)
    /\ InApp(t)
    /\ ipc' = [ipc EXCEPT !.mask = @ \ {t}]
    /\ UNCHANGED <<sched, pc, other_prio>>

\* The entries of the list that msg_send_bus does not pass over.
Listening == SelectSeq(ipc.subs, LAMBDA t : t \in ipc.mask)

\* msg_send_bus: every subscriber is sent a copy with _msg_send_oneway.
bus(s) == FoldLeft(LAMBDA k, r : msg_send_oneway(k, s, r), Kernel, Listening)

\* A thread yields after it if some subscriber was woken.
msg_send_bus(t) ==
    /\ "bus" \in Calls
    /\ InApp(t)
    /\ \A r \in Range(Listening) : MaySend(t, r)
    /\ Becomes(bus(t))
    /\ UNCHANGED <<pc, other_prio>>

\* "Call this function before the thread terminates" (msg_bus_detach).
sched_task_exit(t) ==
    /\ t \in Exits /\ t \notin Range(ipc.subs)
    /\ InApp(t)
    /\ sched' = [sched_set_status([sched EXCEPT !.threads = @ \ {t}, !.num = @ - 1],
                                  t, "stopped")
                   EXCEPT !.active = NULL, !.request = TRUE]
    /\ UNCHANGED <<pc, other_prio, ipc>>

----------------------------------------------------------------------------
(* Interrupt handlers                                                      *)

msg_send_int(r) ==
    /\ "send_int" \in Calls
    /\ MaySend(ISR, r)
    /\ Becomes(msg_send_oneway(Kernel, ISR, r))
    /\ UNCHANGED <<pc, other_prio>>

isr_msg_send_bus ==
    /\ {"bus", "send_int"} \subseteq Calls
    /\ \A r \in Range(Listening) : MaySend(ISR, r)
    /\ Becomes(bus(ISR))
    /\ UNCHANGED <<pc, other_prio>>

\* A handler replies to a request thread t has received.
msg_reply_int(t, s) ==
    /\ "reply_int" \in Calls
    /\ s \in ipc.owes[t]
    /\ sched.status[s] = "reply_blocked"
    /\ Becomes([reply_and_wake(Kernel, t, s) EXCEPT !.sched.request = TRUE])
    /\ UNCHANGED <<pc, other_prio>>

----------------------------------------------------------------------------
Call(t) ==
    \/ \E r \in Thread : msg_send(t, r) \/ msg_try_send(t, r) \/ msg_send_receive(t, r)
    \/ \E s \in Thread : msg_reply(t, s)
    \/ msg_send_queued(t)
    \/ msg_receive(t)
    \/ msg_init_queue(t)
    \/ msg_bus_attach(t) \/ msg_bus_subscribe(t)
    \/ msg_bus_unsubscribe(t) \/ msg_bus_detach(t)
    \/ msg_send_bus(t)
    \/ sched_task_exit(t)

Interrupt ==
    \/ \E r \in Thread : msg_send_int(r)
    \/ \E t, s \in Thread : msg_reply_int(t, s)
    \/ isr_msg_send_bus

Reschedule == Dispatch /\ UNCHANGED ipc

Next ==
    /\ \/ Reschedule
       \/ \E t \in Thread : Call(t)
       \/ Interrupt
    /\ UNCHANGED use

Spec == Init /\ [][Next]_vars

----------------------------------------------------------------------------
(* Properties                                                              *)

\* Types of the kernel variables and of the messages.
TypeOK ==
    /\ sched \in SchedType
    /\ pc \in [Thread -> {"app", "yield", "switch", "queued"}]
    /\ other_prio \in [Thread -> Prio]
    /\ ipc \in IpcType

\* The numbers of the messages of s that r has not received yet, in the order
\* in which it will: those queued, then the one s waits with.
Underway(s, r) ==
    LET queued == SelectSeq(ipc.queue[r], LAMBDA m : m.from = s)
    IN  [i \in DOMAIN queued |-> queued[i].no]
        \o (IF s \in Range(ipc.waiters[r]) THEN <<ipc.out[s].no>> ELSE <<>>)

\* Messages of one sender to one receiver are neither lost nor duplicated nor
\* reordered, whether they are copied, queued, or taken from a waiting sender.
InOrder ==
    \A s \in Sender, r \in Thread :
        Underway(s, r) =
            [i \in 1 .. ipc.sent[s][r] - ipc.got[r][s] |-> ipc.got[r][s] + i]

\* msg_send looks at the status of the receiver only: a thread blocked in
\* msg_receive has no message queued and no sender waiting for it.
ReceiverStarves ==
    \A r \in Thread : sched.status[r] = "receive_blocked" =>
        ipc.queue[r] = <<>> /\ ipc.waiters[r] = <<>>

\* The places a reply to thread s can come from: its request is queued, or
\* waits in msg_waiters, or has been received and not replied to.
RequestPlaces(s) ==
    UNION {{<<"queue", r, i>> : i \in {j \in DOMAIN ipc.queue[r] :
                /\ ipc.queue[r][j].from = s
                /\ ipc.queue[r][j].request}} : r \in Thread}
    \cup {<<"waiters", r>> : r \in {q \in Thread : s \in Range(ipc.waiters[q]) /\ ipc.out[s].request}}
    \cup {<<"owes", r>> : r \in {q \in Thread : s \in ipc.owes[q]}}

\* A thread that waits for a reply has exactly one request outstanding, and a
\* thread that does not has none: no reply is lost and none goes to a thread
\* that waits for something else.
ReplyExpected ==
    \A s \in Thread :
        Cardinality(RequestPlaces(s)) = IF sched.status[s] = "reply_blocked" THEN 1 ELSE 0

\* The queues are of their types and sizes: _msg_receive puts the message of a
\* waiting sender into the queue without a look at the result of cib_put.
\* rq_entry is one list node: a thread that waits in msg_waiters does so once,
\* for one receiver, and is blocked; one blocked in msg_send is in such a list;
\* and the run queues have the same entries as in module Threads. Sending,
\* receiving and replying, by a thread or in an interrupt handler, lose no
\* preemption: the head of the highest run queue runs.
ListsConsistent ==
    /\ TypeOK
    /\ \A r \in Thread :
           /\ Len(ipc.queue[r]) <= ipc.size[r]
           /\ IsInjective(ipc.waiters[r])
           /\ \A t \in Range(ipc.waiters[r]) :
                  /\ sched.status[t] \in {"send_blocked", "reply_blocked"}
                  /\ \A q \in Thread \ {r} : t \notin Range(ipc.waiters[q])
    /\ \A t \in Thread : sched.status[t] = "send_blocked" =>
           \E r \in Thread : t \in Range(ipc.waiters[r])
    /\ RunqueueOK(sched) /\ BitcacheOK(sched)
    /\ \A t \in Thread : InApp(t) =>
           sched.bitcache # {} /\ t = Head(sched.runqueues[Min(sched.bitcache)])
=============================================================================
