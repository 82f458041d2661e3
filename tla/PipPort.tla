------------------------------ MODULE PipPort ------------------------------
(***************************************************************************)
(* Context switches on Pip: RIOT/cpu/cortexm_common_pip (thread_arch.c,    *)
(* vectors_cortexm.c, irq_arch.h, thread_arch.h) and the dispatcher of     *)
(* cpu/nrf52_pip/vectors, composed with the scheduler.                     *)
(*                                                                         *)
(* RIOT is a partition of Pip. Pip delivers an interrupt by saving what    *)
(* runs where contexts[9] of the VIDT points to, and starting the          *)
(* dispatcher, which calls the handler on the stack of the interrupted     *)
(* thread and then restores the copy of the context on that stack.         *)
(* Handlers therefore nest on the stacks of threads, and a handler that    *)
(* yields is suspended with the thread it interrupted.                     *)
(*                                                                         *)
(*   stack[t]   what is active on the stack of thread t, the oldest first, *)
(*              each an activation: the function fn, the point "at" where  *)
(*              it is or will go on, the local variable cur of isr_pendsv, *)
(*              and the interrupt state "flags" (pipflags) of the copy of  *)
(*              its context that lies above it while it does not run       *)
(*   intctx[t]  the interrupted context reserved at the top of the stack   *)
(*   contexts9  contexts[9] of the VIDT, which points to the intctx of a   *)
(*              thread or is NULL. contexts[0] and contexts[47] are set    *)
(*              right before each Pip_yield that uses them                 *)
(*   cpu        the thread on whose stack the processor works, or BOOT     *)
(*   ints       the interrupt state of the partition                       *)
(*   noyld      the global of that name                                    *)
(*   skipped    isr_pendsv has returned because of noyld, and sched_run    *)
(*              has not been called since (history variable)               *)
(*   fault      an assertion failed or a null pointer was followed         *)
(***************************************************************************)
EXTENDS SchedOps

CONSTANTS ThreadPrio,  \* the priorities the threads were created with
          MaxNest,     \* how many activations a stack has room for
          Early,       \* whether interrupts arrive before the first thread
          NoYld        \* how noyld is used: "never" set, set around code that
                       \* calls no "service", or around "any" code

ASSUME PipPortAssumption ==
    /\ ThreadPrio \in [Thread -> Prio]
    /\ MaxNest \in Nat
    /\ Early \in BOOLEAN
    /\ NoYld \in {"never", "service", "any"}

VARIABLES sched, stack, intctx, contexts9, cpu, ints, noyld, skipped, fault

vars == <<sched, stack, intctx, contexts9, cpu, ints, noyld, skipped, fault>>

\* The stack RIOT starts on, before the first thread.
BOOT == NULL

Activation(fn, at) == [fn |-> fn, at |-> at, cur |-> NULL, flags |-> TRUE]

Depth(t) == Len(stack[t])
Top(t) == stack[t][Depth(t)]

\* The registers of a context saved while t is at the given point: they say
\* where on its stack it is and what it does next.
Frame(t, point) == [of |-> t, depth |-> Depth(t), fn |-> Top(t).fn, at |-> point]

\* The processor is at that point of that function.
At(fn, point) == ~fault /\ Top(cpu).fn = fn /\ Top(cpu).at = point

Goto(point) == stack' = [stack EXCEPT ![cpu][Depth(cpu)].at = point]

\* The activations of a stack when the context of the last one is restored.
resumed(acts) == [acts EXCEPT ![Len(acts)].flags = TRUE]

\* thread_stack_init: both contexts of a new thread start its function.
thread_stack_init(t) ==
    [frame |-> [of |-> t, depth |-> 1, fn |-> "thread", at |-> "app"], pipflags |-> TRUE]

\* kernel_init has created the threads and is in cpu_switch_context_exit,
\* which has enabled interrupts.
Init ==
    /\ sched = [all_created(ThreadPrio) EXCEPT !.active = NULL,
                                               !.status = [t \in Thread |-> "pending"]]
    /\ stack = [t \in Thread \cup {BOOT} |->
                    <<Activation("thread", IF t = BOOT THEN "exit" ELSE "app")>>]
    /\ intctx = [t \in Thread |-> thread_stack_init(t)]
    /\ contexts9 = NULL
    /\ cpu = BOOT
    /\ ints = TRUE
    /\ noyld = FALSE
    /\ skipped = FALSE
    /\ fault = FALSE

----------------------------------------------------------------------------
(* Pip and the dispatcher                                                  *)

\* Pip writes a context where an entry of the VIDT points to, if anywhere.
save(pointer, point, flags) ==
    intctx' = IF pointer = NULL THEN intctx
              ELSE [intctx EXCEPT ![pointer] = [frame |-> Frame(cpu, point), pipflags |-> flags]]

\* Mutant: the copy of the context on the stack keeps the flags it happens to
\* have.
dispatcher_no_flags(fn, point, flags) ==
    /\ save(contexts9, point, flags)
    /\ \E f \in BOOLEAN :
           stack' = [stack EXCEPT ![cpu] =
                        Append([@ EXCEPT ![Depth(cpu)].at = point, ![Depth(cpu)].flags = f],
                               Activation(fn, "start"))]
    /\ ints' = FALSE
    /\ fault' = (fn = "isr" /\ contexts9 = NULL)
    /\ UNCHANGED <<contexts9, cpu, noyld, skipped>>

\* The running activation will go on at the given point, with the given
\* flags; Pip saves it and starts the dispatcher, which copies the flags to
\* the context on the stack and calls fn. The dispatcher of peripheral
\* interrupts does not expect contexts[9] to be NULL.
dispatcher(fn, point, flags) ==
    /\ save(contexts9, point, flags)
    /\ stack' = [stack EXCEPT ![cpu] =
                    Append([@ EXCEPT ![Depth(cpu)].at = point, ![Depth(cpu)].flags = flags],
                           Activation(fn, "start"))]
    /\ ints' = FALSE
    /\ fault' = (fn = "isr" /\ contexts9 = NULL)
    /\ UNCHANGED <<contexts9, cpu, noyld, skipped>>

\* The handler has returned to the dispatcher, which disables interrupts and
\* restores the context on the stack. There is none on the first stack.
dispatcher_returns ==
    /\ \E fn \in {"isr", "pendsv"} : At(fn, "return")
    /\ stack' = [stack EXCEPT ![cpu] = resumed(SubSeq(@, 1, Depth(cpu) - 1))]
    /\ ints' = stack[cpu][Depth(cpu) - 1].flags
    /\ fault' = (contexts9 = NULL)
    /\ UNCHANGED <<sched, intctx, contexts9, cpu, noyld, skipped>>

\* An interrupt of a peripheral.
Interrupt ==
    /\ ints /\ ~fault
    /\ Depth(cpu) < MaxNest
    /\ cpu = BOOT => Early
    /\ dispatcher("isr", Top(cpu).at, TRUE)
    /\ UNCHANGED sched

\* thread_yield_higher: Pip_yield to the handler of PendSV, saving at
\* contexts[9], with interrupts enabled when the caller goes on.
thread_yield_higher(point) == dispatcher("pendsv", point, TRUE)

----------------------------------------------------------------------------
(* isr_pendsv                                                              *)

\* isr_pendsv goes back to the dispatcher, with interrupts disabled.
returns ==
    /\ stack' = [stack EXCEPT ![cpu][Depth(cpu)].at = "return", ![cpu][Depth(cpu)].cur = NULL]
    /\ ints' = FALSE

\* The end of isr_pendsv: the sanity check compares the two contexts of the new
\* thread. Pip_yield saves the handler itself at contexts[47], to go on with
\* interrupts enabled; which flags the copy on the stack gets is up to Pip. If
\* cur is NULL nothing is saved, and nothing comes back to this stack.
suspend_for(new, cur) ==
    /\ fault' = (intctx[new].frame # Frame(new, Top(new).at))
    /\ save(cur, "return", TRUE)
    /\ \E f \in BOOLEAN :
           LET top  == [Top(cpu) EXCEPT !.at = "return", !.cur = NULL, !.flags = f]
               left == IF cur = NULL THEN <<Activation("thread", "exit")>>
                       ELSE [stack[cpu] EXCEPT ![Depth(cpu)] = top]
           IN  stack' = [stack EXCEPT ![cpu] = left, ![new] = resumed(@)]
    /\ cpu' = new
    /\ ints' = Top(new).flags

\* Mutant: the next interrupt is saved in the context of the old thread.
switch_keeps_9(s, cur) ==
    /\ sched' = s
    /\ skipped' = FALSE
    /\ IF s.active = cur
       THEN returns /\ UNCHANGED <<intctx, contexts9, cpu, fault>>
       ELSE suspend_for(s.active, cur) /\ UNCHANGED contexts9
    /\ UNCHANGED noyld

\* isr_pendsv after sched_run returned with state s, cur being the thread that
\* was active before.
switch(s, cur) ==
    /\ sched' = s
    /\ skipped' = FALSE
    /\ IF s.active = cur
       THEN returns /\ UNCHANGED <<intctx, contexts9, cpu, fault>>
       ELSE suspend_for(s.active, cur) /\ contexts9' = s.active
    /\ UNCHANGED noyld

\* isr_pendsv up to the switch, or to the idle loop of sched_run.
isr_pendsv ==
    /\ At("pendsv", "start")
    /\ \/ /\ noyld
          /\ returns
          /\ skipped' = TRUE
          /\ UNCHANGED <<sched, intctx, contexts9, cpu, noyld, fault>>
       \/ /\ ~noyld
          /\ sched.bitcache # {}
          /\ switch(sched_run(sched), sched.active)
       \/ /\ ~noyld
          /\ sched.bitcache = {}
          /\ sched' = [sched_run(sched) EXCEPT !.idle = FALSE]
          /\ stack' = [stack EXCEPT ![cpu][Depth(cpu)].at = "idle",
                                    ![cpu][Depth(cpu)].cur = sched.active]
          /\ UNCHANGED <<intctx, contexts9, cpu, ints, noyld, skipped, fault>>

\* The idle loop enables interrupts for a moment.
sched_arch_idle ==
    /\ At("pendsv", "idle")
    /\ Goto("wait")
    /\ ints' = TRUE
    /\ UNCHANGED <<sched, intctx, contexts9, cpu, noyld, skipped, fault>>

\* Interrupts are disabled again, and the loop ends when a thread is runnable.
\* The local variables of sched_run and isr_pendsv are those of before.
sched_idle_ends ==
    /\ At("pendsv", "wait")
    /\ \/ /\ sched.bitcache = {}
          /\ Goto("idle")
          /\ ints' = FALSE
          /\ UNCHANGED <<sched, intctx, contexts9, cpu, noyld, skipped, fault>>
       \/ /\ sched.bitcache # {}
          /\ switch(sched_elect([sched EXCEPT !.idle = TRUE, !.active = Top(cpu).cur]),
                    Top(cpu).cur)

PendSV == isr_pendsv \/ sched_arch_idle \/ sched_idle_ends

----------------------------------------------------------------------------
(* Interrupt handlers                                                      *)

\* irq_is_in reads the IPSR, which is 0 in a partition, so that sched_switch
\* yields in the middle of a handler.
sched_switch_in_isr(s, prio) ==
    LET needed == IF s.active = NULL THEN BOOLEAN ELSE {switch_needed(s, prio)}
    IN  /\ sched' = s
        /\ \/ TRUE \in needed /\ thread_yield_higher("end")
           \/ FALSE \in needed /\ Goto("end") /\ UNCHANGED <<intctx, contexts9, cpu, ints, noyld, skipped, fault>>

\* A handler that wakes a thread as thread_wakeup does.
isr_thread_wakeup(t) ==
    /\ At("isr", "start")
    /\ sched.status[t] = "sleeping"
    /\ sched_switch_in_isr(sched_set_status(sched, t, "running"), sched.priority[t])

\* A handler that sets sched_context_switch_request, as msg_send_int does.
isr_msg_send_int(t) ==
    /\ At("isr", "start")
    /\ sched.status[t] = "sleeping"
    /\ sched' = [sched_set_status(sched, t, "pending") EXCEPT !.request = TRUE]
    /\ Goto("end")
    /\ UNCHANGED <<intctx, contexts9, cpu, ints, noyld, skipped, fault>>

\* A handler without any effect on threads.
isr_other ==
    /\ At("isr", "start")
    /\ Goto("end")
    /\ UNCHANGED <<sched, intctx, contexts9, cpu, ints, noyld, skipped, fault>>

\* Mutant: the request is left to the next handler.
cortexm_isr_end_ignores ==
    /\ At("isr", "end")
    /\ UNCHANGED sched
    /\ Goto("return")
    /\ UNCHANGED <<intctx, contexts9, cpu, ints, noyld, skipped, fault>>

cortexm_isr_end ==
    /\ At("isr", "end")
    /\ UNCHANGED sched
    /\ \/ sched.request /\ thread_yield_higher("return")
       \/ ~sched.request /\ Goto("return") /\ UNCHANGED <<intctx, contexts9, cpu, ints, noyld, skipped, fault>>

Handler ==
    \/ \E t \in Thread : isr_thread_wakeup(t) \/ isr_msg_send_int(t)
    \/ isr_other
    \/ cortexm_isr_end
    \/ dispatcher_returns

----------------------------------------------------------------------------
(* Threads                                                                 *)

\* A thread calls a service. While it has noyld set, it does so only if NoYld
\* is "any".
Calls == At("thread", "app") /\ (noyld => NoYld = "any")

thread_sleep ==
    /\ Calls
    /\ sched' = sched_set_status(sched, cpu, "sleeping")
    /\ Goto("yield")
    /\ UNCHANGED <<intctx, contexts9, cpu, ints, noyld, skipped, fault>>

thread_yield ==
    /\ Calls
    /\ sched' = sched_runq_advance(sched, sched.priority[cpu])
    /\ Goto("yield")
    /\ UNCHANGED <<intctx, contexts9, cpu, ints, noyld, skipped, fault>>

\* sched_task_exit and the beginning of cpu_switch_context_exit
sched_task_exit ==
    /\ Calls
    /\ sched' = [sched_set_status([sched EXCEPT !.threads = @ \ {cpu}, !.num = @ - 1], cpu, "stopped")
                    EXCEPT !.active = NULL]
    /\ Goto("exit")
    /\ UNCHANGED <<intctx, contexts9, cpu, ints, noyld, skipped, fault>>

\* thread_yield_higher at the end of a service, and in cpu_switch_context_exit,
\* which it does not come back to.
thread_yields ==
    /\ \/ At("thread", "yield") /\ thread_yield_higher("app")
       \/ At("thread", "exit") /\ thread_yield_higher("unreachable")
    /\ UNCHANGED sched

set_noyld ==
    /\ NoYld # "never"
    /\ At("thread", "app")
    /\ noyld' = ~noyld
    /\ UNCHANGED <<sched, stack, intctx, contexts9, cpu, ints, skipped, fault>>

ThreadStep == thread_sleep \/ thread_yield \/ sched_task_exit \/ thread_yields \/ set_noyld

Next == Interrupt \/ PendSV \/ Handler \/ ThreadStep

Spec == Init /\ [][Next]_vars

----------------------------------------------------------------------------
(* Properties                                                              *)

FrameType == [of : Thread \cup {BOOT}, depth : Nat, fn : STRING, at : STRING]

\* Types of the contexts, the stacks and the kernel variables.
TypeOK ==
    /\ sched \in SchedType
    /\ \A t \in Thread \cup {BOOT} :
           stack[t] \in Seq([fn : {"thread", "isr", "pendsv"}, at : STRING,
                             cur : Thread \cup {NULL}, flags : BOOLEAN])
    /\ intctx \in [Thread -> [frame : FrameType, pipflags : BOOLEAN]]
    /\ contexts9 \in Thread \cup {NULL}
    /\ cpu \in Thread \cup {BOOT}
    /\ {ints, noyld, skipped, fault} \subseteq BOOLEAN

\* The sanity check of isr_pendsv can never fail: the interrupted context of
\* every thread that lives and does not run is the context on top of its stack,
\* however deep its handlers are nested, and the next interrupt will be saved
\* for the thread that runs. No null context is followed.
ContextsAgree ==
    /\ TypeOK
    /\ ~fault
    /\ \A t \in sched.threads \ {cpu} : intctx[t].frame = Frame(t, Top(t).at)
    /\ cpu # BOOT => contexts9 = cpu

\* No thread is resumed with interrupts disabled, through any nesting of
\* handlers and switches: it could never be preempted again.
ThreadsInterruptible == Top(cpu).fn = "thread" => ints

\* A thread executes its own code only if it is runnable and the first of the
\* highest priority, with handlers that yield before they have ended and idle
\* loops that are nested on the stacks of other threads. The one exception is
\* that noyld has kept isr_pendsv from switching.
HighestPriorityRuns ==
    At("thread", "app") /\ ~skipped =>
        /\ sched.bitcache # {}
        /\ cpu = Head(sched.runqueues[Min(sched.bitcache)])
        /\ cpu = sched.active

\* "We must not be interrupted in exception handler."
HandlersMasked == Top(cpu).fn = "isr" => ~ints
=============================================================================
