-------------------------------- MODULE Rbpf --------------------------------
(***************************************************************************)
(* The rBPF virtual machine (06-rbpf-bench, sys/rbpf): the checks of an    *)
(* application before it runs (verify.c) and the engine that runs it       *)
(* (engine.c), over all short programs.                                    *)
(*                                                                         *)
(* Of an instruction the model keeps what decides where the engine goes:   *)
(* its kind, and the offset of a jump. Values of registers and memory are  *)
(* left out, so what depends on them (a condition, a divisor that is zero, *)
(* an address in no region) may turn out either way.                       *)
(*                                                                         *)
(*   alu       any instruction that always goes on to the next             *)
(*   div, mem  may end the run with ILLEGAL_DIV, ILLEGAL_MEM               *)
(*   ja, jcc   the jump and the conditional jump                           *)
(*   call, callx       a call, of a function that exists or does not       *)
(*   return    opcode 0x95                                                 *)
(*   lddw      opcode 0x18, of two slots                                   *)
(*   lddwd     opcode 0xB8 or 0xD8, of two slots for the engine alone      *)
(*   illegal   an opcode that the engine does not know                     *)
(*   badreg    an alu instruction with a register above 10                 *)
(***************************************************************************)
EXTENDS Integers, Sequences, FiniteSetsExt

CONSTANTS
    MaxLength,              \* the longest program
    RBPF_BRANCHES_ALLOWED

ASSUME RbpfAssumption == MaxLength \in Nat \ {0} /\ RBPF_BRANCHES_ALLOWED \in Nat \ {0}

Instruction ==
    [op : {"alu", "div", "mem", "call", "callx", "return", "lddw", "lddwd", "illegal", "badreg"},
     offset : {0}]
    \cup [op : {"ja", "jcc"}, offset : -MaxLength .. MaxLength]

Program == UNION {[1 .. n -> Instruction] : n \in 1 .. MaxLength}

VARIABLES
    text,        \* the application's instructions, <<>> before it is set up
    noReturn,    \* RBPF_CONFIG_NO_RETURN
    preflight,   \* RBPF_FLAG_PREFLIGHT_DONE
    pc,          \* the slot of the next instruction
    branches_remaining,
    result,      \* of the last run, "none" before its end
    via,         \* how the engine got to pc: by "start", "step", "jump", or "idle"
    reused       \* the struct was set up again after its application was checked

vars == <<text, noReturn, preflight, pc, branches_remaining, result, via, reused>>

Running == via # "idle"

(***************************************************************************)
(* verify.c                                                                *)
(***************************************************************************)

\* The slots the loop of the checks looks at. It steps over the second slot of
\* an instruction with opcode 0x18, but of no other one: of slots in a row with
\* this opcode, from slot k on, it looks at every other one.
Checked(p) ==
    {n \in DOMAIN p : \E k \in 1 .. n :
        /\ k > 1 => p[k - 1].op # "lddw"
        /\ \A i \in k .. n - 1 : p[i].op = "lddw"
        /\ (n - k) % 2 = 0}

\* Mutant: jumps that leave the text are let through.
instruction_check_no_bounds(p, n) ==
    CASE p[n].op = "badreg" -> "ILLEGAL_REGISTER"
      [] p[n].op = "callx" -> "ILLEGAL_CALL"
      [] OTHER -> "OK"

\* What the checks say of the instruction in a slot. The target of a jump is
\* the slot before the one that the engine goes on with.
instruction_check(p, n) ==
    CASE p[n].op = "badreg" -> "ILLEGAL_REGISTER"
      [] p[n].op \in {"ja", "jcc"} /\ n + p[n].offset \notin 1 .. Len(p) -> "ILLEGAL_JUMP"
      [] p[n].op = "callx" -> "ILLEGAL_CALL"
      [] OTHER -> "OK"

\* The first thing that is wrong; at last, the end of the text must have the
\* opcode of a return instruction.
preflight_result(p) ==
    LET wrong == {n \in Checked(p) : instruction_check(p, n) # "OK"}
    IN  CASE wrong # {} -> instruction_check(p, Min(wrong))
          [] wrong = {} /\ p[Len(p)].op # "return" /\ ~noReturn -> "NO_RETURN"
          [] OTHER -> "OK"

(***************************************************************************)
(* rbpf.c and engine.c                                                     *)
(***************************************************************************)
Init ==
    /\ text = <<>> /\ noReturn = FALSE
    /\ preflight = FALSE /\ reused = FALSE
    /\ pc = 0 /\ via = "idle"
    /\ branches_remaining = 0
    /\ result = "none"

\* Sets up an application, in a struct that is all zero or, with the flags it
\* has, in one that was in use.
rbpf_application_setup(p, nr, fresh) ==
    /\ text' = p /\ noReturn' = nr
    /\ preflight' = (preflight /\ ~fresh)
    /\ reused' = preflight'
    /\ UNCHANGED <<pc, via, branches_remaining, result>>

\* The caller is done with an application.
done ==
    /\ text # <<>> /\ ~Running
    /\ text' = <<>> /\ noReturn' = FALSE /\ reused' = FALSE /\ result' = "none"
    /\ UNCHANGED <<preflight, pc, via, branches_remaining>>

\* The engine stops, with the result of the run.
ends(code) ==
    /\ pc' = 0 /\ via' = "idle" /\ branches_remaining' = 0
    /\ result' = code

\* Mutant: the flag is set before the checks.
preflight_flag_early(ok) == preflight' = TRUE

\* The checks are made once.
preflight_flag(ok) == preflight' = (preflight \/ ok)

\* rbpf_application_run_ctx, up to the first instruction.
rbpf_engine_run ==
    /\ text # <<>> /\ ~Running
    /\ LET res == IF preflight THEN "OK" ELSE preflight_result(text)
       IN  /\ preflight_flag(res = "OK")
           /\ IF res = "OK"
              THEN /\ pc' = 1 /\ via' = "start" /\ result' = "none"
                   /\ branches_remaining' = RBPF_BRANCHES_ALLOWED
              ELSE ends(res)
    /\ UNCHANGED <<text, noReturn, reused>>

\* The engine goes on to the next instruction.
goes_on(how, n) ==
    /\ pc' = n /\ via' = how
    /\ UNCHANGED <<branches_remaining, result>>

\* Mutant: the budget is not counted down.
_rbpf_jump_free == goes_on("jump", pc + text[pc].offset + 1)

\* Every jump takes one of the branches allowed; the counter wraps around for
\* an application that need not return.
_rbpf_jump ==
    LET left == (branches_remaining - 1) % (RBPF_BRANCHES_ALLOWED + 1)
    IN  IF left = 0 /\ ~noReturn
        THEN ends("OUT_OF_BRANCHES")
        ELSE /\ pc' = pc + text[pc].offset + 1 /\ via' = "jump"
             /\ branches_remaining' = left
             /\ UNCHANGED result

\* One instruction, of a slot in the text.
_rbpf_instruction ==
    /\ Running /\ pc \in DOMAIN text
    /\ LET op == text[pc].op
       IN  \/ op \in {"alu", "badreg", "div", "mem", "jcc", "call"} /\ goes_on("step", pc + 1)
           \/ op \in {"lddw", "lddwd"} /\ goes_on("step", pc + 2)
           \/ op \in {"ja", "jcc"} /\ _rbpf_jump
           \/ op = "div" /\ ends("ILLEGAL_DIV")
           \/ op = "mem" /\ ends("ILLEGAL_MEM")
           \/ op = "callx" /\ ends("ILLEGAL_CALL")
           \/ op = "illegal" /\ ends("ILLEGAL_INSTRUCTION")
           \/ op = "return" /\ ends("OK")
    /\ UNCHANGED <<text, noReturn, preflight, reused>>

\* What lies behind the text is no instruction of the application; a run that
\* gets there is not followed further.
lost ==
    /\ Running /\ pc \notin DOMAIN text
    /\ ends("lost")
    /\ UNCHANGED <<text, noReturn, preflight, reused>>

Next ==
    \/ text = <<>> /\ \E p \in Program, nr, fresh \in BOOLEAN : rbpf_application_setup(p, nr, fresh)
    \/ rbpf_engine_run
    \/ _rbpf_instruction
    \/ lost
    \/ done

\* The engine's loop goes on.
Spec == Init /\ [][Next]_vars /\ WF_vars(_rbpf_instruction)

(***************************************************************************)
(* The properties.                                                         *)
(***************************************************************************)

\* The slots an instruction jumps to.
JumpedTo(p) == {n + p[n].offset + 1 : n \in {m \in DOMAIN p : p[m].op \in {"ja", "jcc"}}}

\* The second slot of every double instruction is empty, as compilers write it,
\* with no jump into it, and no jump leads over the last slot.
Regular(p) ==
    /\ \A n \in DOMAIN p : p[n].op \in {"lddw", "lddwd"} =>
        /\ n < Len(p) => p[n + 1].op = "illegal"
        /\ n + 1 \notin JumpedTo(p)
    /\ Len(p) + 1 \notin JumpedTo(p)

\* Of a regular application that has to return the engine runs the
\* instructions that the checks looked at and no other slot, of the text or
\* behind it, or the empty slot of a double instruction (the checks of jumps,
\* of the last instruction and of the length of double instructions, against
\* the program counter of _rbpf_instruction and _rbpf_jump).
RegularStaysInChecked ==
    Running /\ ~reused /\ ~noReturn /\ Regular(text) =>
        /\ pc \in Checked(text)
        /\ pc > 1 => text[pc - 1].op # "lddwd"

\* The engine runs no application that the checks reject, however often it is
\* started, unless its struct had the flag of another application.
RunsChecked == Running => preflight_result(text) = "OK" \/ reused

\* "Short, limited tasks which are guaranteed to exit" (rbpf.h): every run of an
\* application that has to return ends, after fewer jumps than
\* RBPF_BRANCHES_ALLOWED.
RunEnds == Running /\ ~noReturn ~> ~Running \/ pc \notin DOMAIN text

\* The comment of the checks on jumps, "Check if the jump target is within
\* bounds": of a checked application the engine jumps only to its slots.
JumpsStayInText == Running /\ via = "jump" /\ ~reused => pc \in DOMAIN text
=============================================================================
