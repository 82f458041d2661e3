------------------------------ MODULE SafeExec ------------------------------
(***************************************************************************)
(* The shell command safe_exec (sys/shell/cmds/safe_exec.c), which runs a  *)
(* file in a partition of its own: _main cuts RIOT's two blocks into the   *)
(* blocks of a child, creates it, yields to it, and puts everything back   *)
(* when the dispatcher, which serves the child's system calls and memory   *)
(* faults, yields back.                                                    *)
(*                                                                         *)
(* Each piece of code is the sequence of the calls of Pip, and of the      *)
(* accesses to memory that may be out of RIOT's reach, that it makes; a    *)
(* step makes one. A cell of RAM is 512 bytes, one of flash a unit of      *)
(* which FLASHPAGE_SIZE make a page; a file's header takes one.            *)
(***************************************************************************)
EXTENDS PipMemory, Sequences, SequencesExt

CONSTANTS
    interfaceRamStart,  \* interface->unusedRamStart
    RamEnd,             \* the end of RIOT_BLOCK_ID_1
    FlashStart,         \* RIOT_BLOCK_ID_2
    FlashEnd,
    FLASHPAGE_SIZE,
    Files,              \* the files, in order: [start, size]
    Pointers,           \* the child's blocks that it passes names and buffers in
    InitFree            \* free entries of RIOT's first kernel structure

\* The flash lies behind the RAM, RIOT starts with the entries for two cuts,
\* and the files, page by page, lie inside of the second block.
ASSUME SafeExecAssumption ==
    /\ {interfaceRamStart, RamEnd, FlashStart, FlashEnd, FLASHPAGE_SIZE, InitFree} \subseteq Nat
    /\ 0 < interfaceRamStart /\ RamEnd <= FlashStart /\ InitFree >= 2
    /\ \A i \in DOMAIN Files :
        /\ Files[i].start > FlashStart /\ Files[i].start % FLASHPAGE_SIZE = 0
        /\ Files[i].start + Files[i].size + FLASHPAGE_SIZE <= FlashEnd

VARIABLES
    sys,      \* the memory, and RIOT's own interrupt state and VIDT entries
    script,   \* what the running code of RIOT still has to do
    then,     \* where it goes on
    file,     \* the file being executed, 0 in the shell
    dirty,    \* the cells of RAM that hold data of a child
    fault     \* "none", or how RIOT stopped: "abort", "panic"

vars == <<sys, script, then, file, dirty, fault>>

(***************************************************************************)
(* The layout of the child's memory, _main.                                *)
(***************************************************************************)
ROUND(x, y) == ((x + y - 1) \div y) * y

unusedRamStart == ROUND(interfaceRamStart, 8)

riot_krn_addr == unusedRamStart
child_pd_addr == riot_krn_addr + 1
child_krn_addr == child_pd_addr + 1
child_stk_addr == ROUND(child_krn_addr + 1, 2)
child_vidt_addr == child_stk_addr + 1
child_itf_addr == ROUND(child_vidt_addr + 1, 16)
child_end_addr == child_itf_addr + 16

\* Mutant: a page too many.
child_flash_end_addr_over(f) == ROUND(f.start + f.size, FLASHPAGE_SIZE) + FLASHPAGE_SIZE

child_flash_end_addr(f) == ROUND(f.start + f.size, FLASHPAGE_SIZE)

(***************************************************************************)
(* The steps of scripts.                                                   *)
(***************************************************************************)
cut(id, a, new, slot) == [op |-> "cut", id |-> id, a |-> a, new |-> new, slot |-> slot]
merge(id, second, slot) == [op |-> "merge", id |-> id, second |-> second, slot |-> slot]
mapMPU(p, id, slot) == [op |-> "map", p |-> p, id |-> id, slot |-> slot]
onBlock(op, id) == [op |-> op, id |-> id]
onPartition(op, p, id) == [op |-> op, p |-> p, id |-> id]
setVIDT(a) == [op |-> "setVIDT", a |-> a]
setIntState(on) == [op |-> "ints", on |-> on]
setContexts(dsp) == [op |-> "contexts", dsp |-> dsp]
access(cells) == [op |-> "access", cells |-> cells]
memset(cells) == [op |-> "memset", cells |-> cells]

\* The states a step may lead to; none if it fails.
Results(c) ==
    CASE c.op = "cut" -> Pip_cutMemoryBlock(sys, c.id, c.a, c.new, c.slot)
      [] c.op = "merge" -> Pip_mergeMemoryBlocks(sys, c.id, c.second, c.slot)
      [] c.op = "map" -> Pip_mapMPU(sys, c.p, c.id, c.slot)
      [] c.op = "create" -> Pip_createPartition(sys, c.id)
      [] c.op = "delete" -> Pip_deletePartition(sys, c.id)
      [] c.op = "add" -> Pip_addMemoryBlock(sys, c.id)
      [] c.op = "remove" -> Pip_removeMemoryBlock(sys, c.id)
      [] c.op = "prepare" -> Pip_prepare(sys, c.p, c.id)
      [] c.op = "collect" -> Pip_collect(sys, c.p)
      [] c.op = "setVIDT" -> Pip_setVIDT(sys, c.a)
      [] c.op = "ints" -> {[sys EXCEPT !.ints = c.on]}
      [] c.op = "contexts" -> {[sys EXCEPT !.dsp = c.dsp]}
      [] c.op \in {"access", "memset"} -> IF c.cells \subseteq Mapped(sys, "riot") THEN {sys} ELSE {}

\* _main up to Pip_yield: fills in the child's memory, takes over RIOT's VIDT,
\* cuts the blocks and builds the partition.
set_up(f) ==
    << setIntState(FALSE),
       access({child_stk_addr, child_vidt_addr, child_itf_addr}),
       setContexts(TRUE),
       cut("RIOT_1", riot_krn_addr, "riot_krn", MAP_DISCARD),
       cut("riot_krn", child_pd_addr, "child_pd", 3),
       access({child_itf_addr}),
       mapMPU("riot", NONE, 3),
       onPartition("prepare", "riot", "riot_krn"),
       cut("child_pd", child_krn_addr, "child_krn", MAP_DISCARD),
       cut("child_krn", child_stk_addr, "block_0", MAP_DISCARD),
       cut("block_0", child_itf_addr, "block_1", MAP_DISCARD),
       cut("block_1", child_end_addr, "child_end", MAP_DISCARD),
       cut("RIOT_2", f.start, "block_2", MAP_DISCARD),
       cut("block_2", child_flash_end_addr(f), "flash_end", MAP_DISCARD),
       onBlock("create", "child_pd"),
       onPartition("prepare", "child", "child_krn"),
       onBlock("add", "block_0"), onBlock("add", "block_1"), onBlock("add", "block_2"),
       mapMPU("child", "block_0", 0), mapMPU("child", "block_1", 1),
       mapMPU("child", "block_2", 2),
       setVIDT(child_vidt_addr) >>

\* _main after Pip_yield: takes the partition apart.
take_down ==
    << setVIDT(0),
       mapMPU("child", NONE, 2), mapMPU("child", NONE, 1), mapMPU("child", NONE, 0),
       onBlock("remove", "block_2"), onBlock("remove", "block_1"), onBlock("remove", "block_0"),
       onPartition("collect", "child", "child_krn"),
       onBlock("delete", "child_pd") >>

\* Then it puts RIOT's blocks together again ...
rejoin ==
    << merge("block_2", "flash_end", MAP_DISCARD), merge("RIOT_2", "block_2", 2),
       merge("block_1", "child_end", MAP_DISCARD), merge("block_0", "block_1", MAP_DISCARD),
       merge("child_krn", "block_0", MAP_DISCARD), merge("child_pd", "child_krn", MAP_DISCARD),
       onPartition("collect", "riot", "riot_krn"),
       merge("riot_krn", "child_pd", MAP_DISCARD), merge("RIOT_1", "riot_krn", 1) >>

\* The cells that the memset of 10752 bytes clears.
Cleared == unusedRamStart .. unusedRamStart + 20

\* Mutant: RIOT's VIDT entries are not put back.
restore_keeps_contexts == << setIntState(TRUE), memset(Cleared) >>

\* ... and restores RIOT's VIDT, the interrupt state and the RAM.
restore == << setContexts(FALSE), setIntState(TRUE), memset(Cleared) >>

tear_down == take_down \o rejoin \o restore

(***************************************************************************)
(* The dispatcher's handlers. The child's stack, where its arguments are,  *)
(* is in block 0.                                                          *)
(***************************************************************************)
argv == access({child_stk_addr})

open_slots ==
    << mapMPU("riot", "block_0", 3), mapMPU("riot", "block_1", 4), mapMPU("riot", "block_2", 5), argv >>

close_slots == << mapMPU("riot", NONE, 3), mapMPU("riot", NONE, 4), mapMPU("riot", NONE, 5) >>


_exit == << mapMPU("riot", NONE, 3), mapMPU("riot", NONE, 4), mapMPU("riot", NONE, 5) >>

\* A cell of the child's block that a pointer of it points to.
Pointee(block) ==
    CASE block = "block_0" -> child_stk_addr
      [] block = "block_1" -> child_end_addr - 1
      [] block = "block_2" -> Files[file].start

\* tinyfs_file_search reads the headers up to the file's, or all of them and
\* the one behind the last file for a name that no file has.
header(i) == Files[i].start

searched(i) ==
    IF i \in DOMAIN Files
    THEN {header(j) : j \in 1 .. i}
    ELSE {header(j) : j \in DOMAIN Files}
            \cup {ROUND(header(Len(Files)) + Files[Len(Files)].size, FLASHPAGE_SIZE)}

contents(i) ==
    IF i \in DOMAIN Files THEN header(i) + 1 .. header(i) + Files[i].size ELSE {}

\* The system calls that look at a file take slot 3 for the flash behind it,
\* so the child's block 0 is not mapped while they read its name and write to
\* its buffer.
copy_file(i, name, buf) ==
    << mapMPU("riot", "flash_end", 3),
       access({Pointee(name)} \cup searched(i)), access(contents(i) \cup {Pointee(buf)}),
       mapMPU("riot", "block_0", 3), argv >>

get_file_size(i, name, size) ==
    << mapMPU("riot", "flash_end", 3),
       access({Pointee(name)} \cup searched(i)),
       mapMPU("riot", "block_0", 3), access({Pointee(size)}), argv >>

\* What a system call does between opening and closing the slots: nothing but
\* its arguments (get_temp, isprint, get_led, set_led and an unknown number),
\* an access through a pointer (vprintf, strtol, memset), or a file.
Bodies ==
    {<< argv >>}
    \cup {<< access({Pointee(b)}), argv >> : b \in {"block_0", "block_1", "block_2"}}
    \cup UNION {{copy_file(i, n, b), get_file_size(i, n, b)} :
                    i \in 0 .. Len(Files), n \in Pointers, b \in Pointers \ {"block_2"}}

(***************************************************************************)
(* The specification.                                                      *)
(***************************************************************************)
RiotBlocks ==
    ("RIOT_1" :> [start |-> 1, end |-> RamEnd]) @@ ("RIOT_2" :> [start |-> FlashStart, end |-> FlashEnd])

Before ==
    [blocks |-> RiotBlocks, kernel |-> {}, shared |-> {},
     slots |-> [riot |-> [i \in Slot |-> CASE i = 1 -> "RIOT_1" [] i = 2 -> "RIOT_2" [] OTHER -> NONE],
                child |-> [i \in Slot |-> NONE]],
     free |-> ("riot_init" :> InitFree), entry |-> ("RIOT_1" :> "riot_init") @@ ("RIOT_2" :> "riot_init"),
     child |-> FALSE, vidt |-> 0, ints |-> TRUE, dsp |-> FALSE]

Init ==
    /\ sys = Before
    /\ script = <<>> /\ then = "shell" /\ file = 0
    /\ dirty = {} /\ fault = "none"

InShell == script = <<>> /\ then = "shell"
InChild == script = <<>> /\ then = "child"

\* The command, for a file that is loaded and executable; for any other it
\* returns at once.
safe_exec(i) ==
    /\ InShell /\ fault = "none"
    /\ script' = set_up(Files[i]) /\ then' = "start" /\ file' = i
    /\ UNCHANGED <<sys, dirty, fault>>

\* Pip_yield to _main, whose interrupts are enabled as it goes on.
yield_to_main ==
    /\ script' = tear_down /\ then' = "shell"
    /\ sys' = [sys EXCEPT !.ints = TRUE]
    /\ UNCHANGED <<file, dirty, fault>>

\* The next call or access of RIOT's code. An access that fails is a memory
\* fault, for which the dispatcher, once _main has yielded, yields to _main.
\* Otherwise a failure is the end: RIOT panics, or loops at abort or in an
\* assertion.
step ==
    /\ script # <<>> /\ fault = "none"
    /\ LET c == Head(script)
           isAccess == c.op \in {"access", "memset"}
           results == Results(c)
       IN  IF results # {}
           THEN /\ sys' \in results
                /\ script' = Tail(script)
                /\ file' = IF script' = <<>> /\ then = "shell" THEN 0 ELSE file
                /\ dirty' = IF c.op = "memset" THEN dirty \ Cleared ELSE dirty
                /\ UNCHANGED <<then, fault>>
           ELSE IF isAccess /\ then \in {"resume", "leave"}
           THEN yield_to_main
           ELSE /\ fault' = IF isAccess THEN "panic" ELSE "abort"
                /\ UNCHANGED <<sys, script, then, file, dirty>>

\* _main or the dispatcher yields to the child, where interrupts are enabled
\* and all of its stack and RAM may be written to.
yield_to_child ==
    /\ script = <<>> /\ then \in {"start", "resume"}
    /\ then' = "child"
    /\ sys' = [sys EXCEPT !.ints = TRUE]
    /\ dirty' = dirty \cup (child_stk_addr .. child_end_addr - 1)
    /\ UNCHANGED <<script, file, fault>>

\* A system call enters the dispatcher, in whose context they are disabled.
syscall_handler(body) ==
    /\ InChild
    /\ script' = open_slots \o body \o close_slots /\ then' = "resume"
    /\ sys' = [sys EXCEPT !.ints = FALSE]
    /\ UNCHANGED <<file, dirty, fault>>

\* The system call that ends the child.
syscall_exit ==
    /\ InChild
    /\ script' = open_slots \o _exit /\ then' = "leave"
    /\ sys' = [sys EXCEPT !.ints = FALSE]
    /\ UNCHANGED <<file, dirty, fault>>

\* Mutant: the yield to _main is missing, and the dispatcher's own follows.
_exit_yields_to_child ==
    /\ script = <<>> /\ then = "leave"
    /\ then' = "child"
    /\ sys' = [sys EXCEPT !.ints = TRUE]
    /\ UNCHANGED <<script, file, dirty, fault>>

_exit_yields ==
    /\ script = <<>> /\ then = "leave"
    /\ yield_to_main

\* The child accesses what is not its own.
memfault_handler ==
    /\ InChild
    /\ yield_to_main

dispatcher ==
    /\ InChild
    /\ memfault_handler \/ syscall_exit \/ \E body \in Bodies : syscall_handler(body)

\* RIOT's own steps.
_main == step \/ yield_to_child \/ _exit_yields

Next == (\E i \in DOMAIN Files : safe_exec(i)) \/ _main \/ dispatcher

\* RIOT's code goes on, and a child that makes system calls again and again
\* ends at last, as it must for the command to return.
Fairness == WF_vars(_main) /\ SF_vars(memfault_handler \/ syscall_exit)

Spec == Init /\ [][Next]_vars /\ Fairness

(***************************************************************************)
(* The properties.                                                         *)
(***************************************************************************)

\* While the child runs it can reach its stack and table of contexts, its RAM
\* and the pages of its file, all of them, and no other cell; Pip's structures
\* and descriptors are in nobody's reach (_main, from the cuts to Pip_yield).
ChildConfined ==
    InChild =>
        /\ Mapped(sys, "child") =
               (child_stk_addr .. child_itf_addr - 1) \cup (child_itf_addr .. child_end_addr - 1)
                 \cup {c \in FlashStart .. FlashEnd - 1 :
                         c \div FLASHPAGE_SIZE \in
                            {d \div FLASHPAGE_SIZE : d \in {header(file)} \cup contents(file)}}
        /\ \A k \in sys.kernel, p \in {"riot", "child"} :
               Cells(sys.blocks[k]) \cap Mapped(sys, p) = {}


\* Back in the shell everything is as before the command: RIOT's blocks, its
\* MPU slots, kernel structures and VIDT, and the interrupt state (_main's
\* tear-down). So the command can be given again.
Restored == InShell => sys = Before

\* The command returns, if the child ends: no call of Pip fails in the setup,
\* in the tear-down or in a system call (abort, assert), and RIOT does not
\* panic on its own memory.
CommandReturns == then = "start" ~> InShell

\* RIOT takes no interrupt, so no other thread runs, from the comment "Disable
\* interrupts" in _main to "Enable interrupts", while its RAM is in pieces of
\* which only the first is mapped.
WholeWhenInterruptible ==
    sys.ints /\ ~InChild => 1 .. RamEnd - 1 \subseteq Mapped(sys, "riot")

\* The comment "Clean RAM" in _main: the memory of one child is cleared before
\* the next one is given it.
RamCleaned == InShell => dirty = {}
=============================================================================
