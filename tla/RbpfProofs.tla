----------------------------- MODULE RbpfProofs -----------------------------
(***************************************************************************)
(* Proofs about the checks of rBPF applications and the engine, for        *)
(* programs of every length and every budget of branches.                  *)
(***************************************************************************)
EXTENDS Rbpf, WellFoundedInduction, TLAPS

\* The flag PREFLIGHT_DONE says what it should of the application set up.
FlagOK == text # <<>> /\ preflight => preflight_result(text) = "OK" \/ reused

TypeOK ==
    /\ text = <<>> \/ text \in Program
    /\ noReturn \in BOOLEAN
    /\ pc \in Int
    /\ Running => text # <<>>

IInv == TypeOK /\ FlagOK /\ RunsChecked /\ RegularStaysInChecked

----------------------------------------------------------------------------
(* Programs and their checks                                               *)

LEMMA ProgramFacts ==
    ASSUME NEW p \in Program
    PROVE  /\ Len(p) \in Nat \ {0}
           /\ DOMAIN p = 1 .. Len(p)
           /\ p # <<>>
           /\ \A n \in DOMAIN p : p[n] \in Instruction /\ p[n].offset \in Int
  <1>1. PICK k \in 1 .. MaxLength : p \in [1 .. k -> Instruction]
    BY DEF Program
  <1>2. k \in Nat \ {0} /\ p \in Seq(Instruction) /\ Len(p) = k
    BY <1>1, RbpfAssumption
  <1>3. \A i \in Instruction : i.offset \in Int
    BY RbpfAssumption DEF Instruction
  <1> QED
    BY <1>1, <1>2, <1>3

\* The least of a set of slots
LEMMA LeastFacts ==
    ASSUME NEW S \in SUBSET Nat, S # {}
    PROVE  Min(S) \in S
  <1> DEFINE R == {ss \in Nat \X Nat : ss[1] < ss[2]}
  <1>1. IsWellFoundedOn(R, Nat)
    BY NatLessThanWellFounded, Zenon DEF OpToRel
  <1> HIDE DEF R
  <1>2. PICK x \in S : \A y \in S : ~ (<<y, x>> \in R)
    BY <1>1, WFMin
  <1>3. ASSUME NEW y \in S PROVE x <= y
    <2>1. <<y, x>> \in Nat \X Nat /\ <<y, x>>[1] = y /\ <<y, x>>[2] = x
      OBVIOUS
    <2> QED
      BY <1>2, <2>1 DEF R
  <1> QED
    BY <1>3 DEF Min

\* What a program that passes the checks is: every slot looked at is in order,
\* and the last one is a return where there must be one.
LEMMA ChecksPassed ==
    ASSUME NEW p \in Program, preflight_result(p) = "OK"
    PROVE  /\ \A n \in Checked(p) : instruction_check(p, n) = "OK"
           /\ ~noReturn => p[Len(p)].op = "return"
  <1> DEFINE wrong == {n \in Checked(p) : instruction_check(p, n) # "OK"}
  <1>1. wrong \in SUBSET Nat
    BY ProgramFacts DEF Checked
  <1>2. wrong = {}
    <2> SUFFICES ASSUME wrong # {} PROVE FALSE
      OBVIOUS
    <2>1. Min(wrong) \in wrong
      BY <1>1, LeastFacts
    <2>2. instruction_check(p, Min(wrong)) # "OK"
      BY <2>1
    <2>3. preflight_result(p) = instruction_check(p, Min(wrong))
      BY DEF preflight_result
    <2> QED
      BY <2>2, <2>3
  <1>3. ~noReturn => p[Len(p)].op = "return"
    BY <1>2 DEF preflight_result
  <1> QED
    BY <1>2, <1>3

\* The checks look at a slot that follows no slot of opcode 0x18.
LEMMA LooksAt ==
    ASSUME NEW p \in Program, NEW n \in DOMAIN p, n > 1 => p[n - 1].op # "lddw"
    PROVE  n \in Checked(p)
  <1>1. n \in Nat \ {0}
    BY ProgramFacts
  <1>2. n \in 1 .. n /\ n .. n - 1 = {} /\ (n - n) % 2 = 0
    BY <1>1
  <1> QED
    BY <1>2 DEF Checked

----------------------------------------------------------------------------
(* The engine                                                              *)

\* The engine is at rest, and nothing is set up.
LEMMA InitOK == Init => IInv
  <1> SUFFICES ASSUME Init PROVE IInv
    OBVIOUS
  <1>1. ~Running /\ text = <<>>
    BY DEF Init, Running
  <1>2. TypeOK
    <2>1. noReturn \in BOOLEAN
      BY Zenon DEF Init
    <2>2. pc \in Int
      BY DEF Init
    <2> QED
      BY <1>1, <2>1, <2>2 DEF TypeOK
  <1>3. FlagOK /\ RunsChecked /\ RegularStaysInChecked
    BY <1>1 DEF FlagOK, RunsChecked, RegularStaysInChecked
  <1> QED
    BY <1>2, <1>3 DEF IInv

\* The result of the checks depends on the program and on NO_RETURN alone.
LEMMA SameResult ==
    ASSUME text' = text, noReturn' = noReturn
    PROVE  /\ preflight_result(text)' = preflight_result(text)
           /\ Checked(text)' = Checked(text)
           /\ Regular(text)' = Regular(text)
  BY DEF preflight_result, Checked, Regular, JumpedTo, instruction_check

\* Where a step of a regular application that has to return leads.
LEMMA RegularStep ==
    ASSUME TypeOK, RunsChecked, RegularStaysInChecked,
           Running, ~reused, ~noReturn, Regular(text),
           NEW to \in Int,
           \/ text[pc].op \notin {"lddw", "lddwd", "return"} /\ to = pc + 1
           \/ text[pc].op \in {"lddw", "lddwd"} /\ to = pc + 2
           \/ text[pc].op \in {"ja", "jcc"} /\ to = pc + text[pc].offset + 1
    PROVE  /\ to \in Checked(text)
           /\ to > 1 => text[to - 1].op # "lddwd"
  <1>1. text \in Program /\ preflight_result(text) = "OK"
    BY DEF TypeOK, RunsChecked
  <1>2. /\ Len(text) \in Nat \ {0}
        /\ DOMAIN text = 1 .. Len(text)
        /\ \A n \in DOMAIN text : text[n].offset \in Int
    BY <1>1, ProgramFacts
  <1>3. pc \in Checked(text) /\ pc \in 1 .. Len(text)
    BY <1>2 DEF RegularStaysInChecked, Checked
  <1>4. instruction_check(text, pc) = "OK" /\ text[Len(text)].op = "return"
    BY <1>1, <1>3, ChecksPassed
  <1>5. to \in 2 .. Len(text) /\ text[to - 1].op \notin {"lddw", "lddwd"}
    <2>1. CASE text[pc].op \notin {"lddw", "lddwd", "return"} /\ to = pc + 1
      BY <1>2, <1>3, <1>4, <2>1
    <2>2. CASE text[pc].op \in {"lddw", "lddwd"} /\ to = pc + 2
      <3>1. pc < Len(text)
        BY <1>2, <1>3, <1>4, <2>2
      <3>2. text[pc + 1].op = "illegal"
        BY <1>2, <1>3, <2>2, <3>1 DEF Regular
      <3>3. pc + 1 # Len(text)
        BY <1>4, <3>2
      <3> QED
        BY <1>2, <1>3, <2>2, <3>1, <3>2, <3>3
    <2>3. CASE text[pc].op \in {"ja", "jcc"} /\ to = pc + text[pc].offset + 1
      <3>1. pc + text[pc].offset \in 1 .. Len(text)
        BY <1>4, <2>3 DEF instruction_check
      <3>2. to \in JumpedTo(text)
        BY <1>2, <1>3, <2>3 DEF JumpedTo
      <3>3. to # Len(text) + 1
        BY <3>2 DEF Regular
      <3>4. to - 1 \in 1 .. Len(text) /\ to - 1 + 1 = to
        BY <1>2, <1>3, <2>3, <3>1
      <3>5. text[to - 1].op \notin {"lddw", "lddwd"}
        BY <1>2, <3>2, <3>4 DEF Regular
      <3> QED
        BY <1>2, <3>3, <3>4, <3>5
    <2> QED
      BY <2>1, <2>2, <2>3
  <1> QED
    BY <1>1, <1>2, <1>5, LooksAt

\* An instruction keeps the invariant.
LEMMA InstructionStep ==
    ASSUME IInv, _rbpf_instruction
    PROVE  IInv'
  <1>1. /\ text \in Program /\ Running /\ pc \in DOMAIN text
        /\ text' = text /\ noReturn' = noReturn
        /\ preflight' = preflight /\ reused' = reused
    BY DEF _rbpf_instruction, IInv, TypeOK
  <1>2. /\ DOMAIN text \subseteq Int
        /\ \A n \in DOMAIN text : text[n].offset \in Int
    BY <1>1, ProgramFacts
  <1>3. PICK to \in Int :
           \/ pc' = 0 /\ via' = "idle"
           \/ /\ pc' = to /\ via' \in {"step", "jump"}
              /\ \/ text[pc].op \notin {"lddw", "lddwd", "return"} /\ to = pc + 1
                 \/ text[pc].op \in {"lddw", "lddwd"} /\ to = pc + 2
                 \/ text[pc].op \in {"ja", "jcc"} /\ to = pc + text[pc].offset + 1
    <2>1. CASE via' = "idle" /\ pc' = 0
      BY <2>1
    <2>2. CASE text[pc].op \in {"alu", "badreg", "div", "mem", "jcc", "call"} /\ goes_on("step", pc + 1)
      BY <1>1, <1>2, <2>2 DEF goes_on
    <2>3. CASE text[pc].op \in {"lddw", "lddwd"} /\ goes_on("step", pc + 2)
      BY <1>1, <1>2, <2>3 DEF goes_on
    <2>4. CASE text[pc].op \in {"ja", "jcc"} /\ _rbpf_jump /\ via' # "idle"
      <3>1. pc' = pc + text[pc].offset + 1 /\ via' = "jump"
        BY <2>4 DEF _rbpf_jump, ends
      <3>2. pc + text[pc].offset + 1 \in Int
        BY <1>1, <1>2
      <3> QED
        BY <2>4, <3>1, <3>2
    <2> QED
      BY <2>1, <2>2, <2>3, <2>4 DEF _rbpf_instruction, _rbpf_jump, ends
  <1>4. TypeOK'
    BY <1>1, <1>3 DEF IInv, TypeOK, Running
  <1>5. FlagOK' /\ RunsChecked'
    BY <1>1, SameResult DEF IInv, FlagOK, RunsChecked
  <1>6. RegularStaysInChecked'
    <2> SUFFICES ASSUME Running', ~reused', ~noReturn', Regular(text)'
                 PROVE  /\ pc' \in Checked(text)'
                        /\ pc' > 1 => text'[pc' - 1].op # "lddwd"
      BY DEF RegularStaysInChecked
    <2>1. ~reused /\ ~noReturn /\ Regular(text) /\ pc' = to
      BY <1>1, <1>3, SameResult DEF Running
    <2>2. /\ to \in Checked(text)
          /\ to > 1 => text[to - 1].op # "lddwd"
      BY <1>1, <1>3, <2>1, RegularStep DEF IInv, Running
    <2> QED
      BY <1>1, <2>1, <2>2, SameResult
  <1> QED
    BY <1>4, <1>5, <1>6 DEF IInv

\* A step that leaves the engine at rest, and the application as it is
LEMMA RestStep ==
    ASSUME IInv, ~Running', text' = text, noReturn' = noReturn, reused' = reused,
           pc' \in Int,
           preflight' => preflight \/ preflight_result(text) = "OK"
    PROVE  IInv'
  <1>1. TypeOK'
    BY DEF IInv, TypeOK
  <1>2. FlagOK'
    BY SameResult DEF IInv, FlagOK
  <1>3. RunsChecked' /\ RegularStaysInChecked'
    BY DEF RunsChecked, RegularStaysInChecked
  <1> QED
    BY <1>1, <1>2, <1>3 DEF IInv

\* An application is set up, in a struct whose flags may be those of another.
LEMMA SetupStep ==
    ASSUME IInv, text = <<>>, NEW p \in Program, NEW nr \in BOOLEAN, NEW fresh \in BOOLEAN,
           rbpf_application_setup(p, nr, fresh)
    PROVE  IInv'
  <1>1. ~Running' /\ pc' = pc /\ text' = p /\ noReturn' = nr
    BY DEF IInv, TypeOK, rbpf_application_setup, Running
  <1>2. TypeOK'
    BY <1>1 DEF IInv, TypeOK
  <1>3. FlagOK'
    BY DEF FlagOK, rbpf_application_setup
  <1>4. RunsChecked' /\ RegularStaysInChecked'
    BY <1>1 DEF RunsChecked, RegularStaysInChecked
  <1> QED
    BY <1>2, <1>3, <1>4 DEF IInv

\* The engine starts at the first slot, after the checks.
LEMMA RunStep ==
    ASSUME IInv, rbpf_engine_run
    PROVE  IInv'
  <1> DEFINE res == IF preflight THEN "OK" ELSE preflight_result(text)
  <1>1. /\ text \in Program /\ text # <<>> /\ ~Running
        /\ text' = text /\ noReturn' = noReturn /\ reused' = reused
        /\ preflight' = (preflight \/ res = "OK")
    BY DEF rbpf_engine_run, IInv, TypeOK, preflight_flag
  <1>2. CASE res # "OK"
    <2>1. pc' = 0 /\ via' = "idle"
      BY <1>2 DEF rbpf_engine_run, ends
    <2>2. preflight' => preflight
      BY <1>1, <1>2
    <2>3. ~Running' /\ pc' \in Int
      BY <2>1 DEF Running
    <2> QED
      BY <1>1, <2>2, <2>3, RestStep
  <1>3. CASE res = "OK"
    <2>1. pc' = 1 /\ via' = "start"
      BY <1>3 DEF rbpf_engine_run
    <2>2. preflight_result(text) = "OK" \/ reused
      BY <1>1, <1>3 DEF IInv, FlagOK
    <2>3. TypeOK'
      BY <1>1, <2>1 DEF IInv, TypeOK
    <2>4. FlagOK' /\ RunsChecked'
      BY <1>1, <2>2, SameResult DEF FlagOK, RunsChecked
    <2>5. 1 \in Checked(text)
      BY <1>1, ProgramFacts, LooksAt
    <2>6. RegularStaysInChecked'
      BY <1>1, <2>1, <2>5, SameResult DEF RegularStaysInChecked
    <2> QED
      BY <2>3, <2>4, <2>6 DEF IInv
  <1> QED
    BY <1>2, <1>3

\* Every step keeps the invariant.
LEMMA StepOK == IInv /\ [Next]_vars => IInv'
  <1> SUFFICES ASSUME IInv, [Next]_vars PROVE IInv'
    OBVIOUS
  <1>1. ASSUME text = <<>>, NEW p \in Program, NEW nr \in BOOLEAN, NEW fresh \in BOOLEAN,
               rbpf_application_setup(p, nr, fresh)
        PROVE  IInv'
    BY <1>1, SetupStep
  <1>2. CASE rbpf_engine_run
    BY <1>2, RunStep
  <1>3. CASE _rbpf_instruction
    BY <1>3, InstructionStep
  <1>4. CASE lost
    <2>1. /\ pc' = 0 /\ via' = "idle" /\ text' = text /\ noReturn' = noReturn
          /\ reused' = reused /\ preflight' = preflight
      BY <1>4 DEF lost, ends
    <2> QED
      BY <2>1, RestStep DEF Running
  <1>5. CASE done
    <2>1. ~Running' /\ text' = <<>> /\ noReturn' = FALSE /\ pc' = pc
      BY <1>5 DEF done, Running
    <2>2. TypeOK'
      BY <2>1 DEF IInv, TypeOK
    <2>3. FlagOK' /\ RunsChecked' /\ RegularStaysInChecked'
      BY <2>1 DEF FlagOK, RunsChecked, RegularStaysInChecked
    <2> QED
      BY <2>2, <2>3 DEF IInv
  <1>6. CASE UNCHANGED vars
    <2>1. /\ text' = text /\ noReturn' = noReturn /\ reused' = reused /\ pc' = pc
          /\ via' = via /\ preflight' = preflight
      BY <1>6 DEF vars
    <2>2. TypeOK'
      BY <2>1 DEF IInv, TypeOK, Running
    <2>3. FlagOK' /\ RunsChecked'
      BY <2>1, SameResult DEF IInv, FlagOK, RunsChecked, Running
    <2>4. RegularStaysInChecked'
      BY <2>1, SameResult DEF IInv, RegularStaysInChecked, Running
    <2> QED
      BY <2>2, <2>3, <2>4 DEF IInv
  <1> QED
    BY <1>1, <1>2, <1>3, <1>4, <1>5, <1>6 DEF Next

\* The engine runs no application that rbpf_application_verify_preflight
\* rejects, whatever its length, however often it is started, unless its struct
\* had the flag PREFLIGHT_DONE of another application.
THEOREM OnlyChecked == Spec => []RunsChecked
  <1>1. IInv => RunsChecked
    BY DEF IInv
  <1> QED
    BY <1>1, InitOK, StepOK, PTL DEF Spec

\* The checks of verify.c are enough for every regular application: of its
\* slots the engine runs those that were looked at, and it never runs off its
\* end.
THEOREM Confinement == Spec => []RegularStaysInChecked
  <1>1. IInv => RegularStaysInChecked
    BY DEF IInv
  <1> QED
    BY <1>1, InitOK, StepOK, PTL DEF Spec
=============================================================================
