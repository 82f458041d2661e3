------------------------------- MODULE TinyFS -------------------------------
(***************************************************************************)
(* The flash file system, RIOT/sys/gnrc_xipfs/gnrc_xipfs.c, over the flash *)
(* pages of cpu/nrf5x_common_pip/periph/flashpage.c, with the shell        *)
(* commands that change it (mkbin, ldbin, cp, rm, fmtbin) as the host      *)
(* program pyterm sends them. One thread, the shell, uses the file system. *)
(* Power can fail between two writes of a command.                         *)
(*                                                                         *)
(* Flash is measured in cells: a page has FLASHPAGE_SIZE of them, and the  *)
(* file_t at the start of a file takes one. Addresses are relative to      *)
(* first_page. Writing flash clears bits and never sets one.               *)
(***************************************************************************)
EXTENDS Integers, Sequences, FiniteSets, FiniteSetsExt, SequencesExt, TLC

CONSTANTS FLASHPAGE_SIZE,  \* cells of a page
          NBehind,         \* pages behind last_page that are looked at
          NNames,          \* file names
          Sizes,           \* the file sizes mkbin is called with, in cells
          Users            \* the boards and their users, one of which is chosen

\* A user: the pages of the board's file system, the names in use, the sizes
\* of the chunks ldbin is called with, the further things the user does, and
\* the commands that power may fail in.
ASSUME TinyFSAssumption ==
    /\ {FLASHPAGE_SIZE, NBehind, NNames} \subseteq Nat \ {0}
    /\ Sizes \subseteq Nat
    /\ \A u \in Users :
        /\ u.pages \in Nat \ {0} /\ u.names \in 1 .. NNames /\ u.chunks \subseteq Nat \ {0}
        /\ u.calls \subseteq {"fill", "overflow", "rm_loading", "put_again", "cp", "cp_over"}
        /\ u.crash \subseteq {"mkbin", "ldbin", "cp", "rm", "fmtbin"}

VARIABLES user,     \* the member of Users
          flash,    \* the cells
          offset,   \* the static variable of ldbin.c
          sent,     \* how many cells of each file the host has sent
          panic     \* an assertion failed or a command followed a wild pointer

vars == <<user, flash, offset, sent, panic>>

NPages == user.pages
Calls == user.calls
CrashIn == user.crash

Name == 1 .. NNames
first_page == 0
last_page == NPages * FLASHPAGE_SIZE

\* The pages behind last_page stand for what lies behind the file system.
Page == 0 .. NPages + NBehind - 1
Addr == 0 .. (NPages + NBehind) * FLASHPAGE_SIZE - 1

NULL == -3      \* no file
GARBLED == -2   \* some other value, after a write over a value
FREE == -1      \* 0xffffffff

LOADED == 0
LOADING == 1
CREATED == 3

\* A cell is a file_t, which is erased when all its fields are, or data:
\* cell "at" of what the host sends as file "of", or garbled.
Erased == [kind |-> "file", name |-> FREE, size |-> FREE, next |-> FREE,
           status |-> FREE, exec |-> FREE]
Garbled == [kind |-> "garbled"]
Data(n, i) == [kind |-> "data", of |-> n, at |-> i]

ROUND(x) == ((x + FLASHPAGE_SIZE - 1) \div FLASHPAGE_SIZE) * FLASHPAGE_SIZE

cells_at(fl, a, n) == [i \in 1 .. n |-> fl[a + i - 1]]
cells_of(page) == page * FLASHPAGE_SIZE .. (page + 1) * FLASHPAGE_SIZE - 1

----------------------------------------------------------------------------
(* Flash. A command is a sequence of flash operations; power may fail      *)
(* between any two of them.                                                *)

\* The bits that are set in both numbers.
bitand(x, y) == MapThenSumSet(LAMBDA i : 2^i * ((x \div 2^i) % 2) * ((y \div 2^i) % 2), 0 .. 7)

\* What a field of a file_t holds after a write: 0 bits stay 0.
and(field, old, new) ==
    IF old \in {FREE, new} THEN new
    ELSE IF new = FREE THEN old
    ELSE IF field \in {"status", "size"} THEN bitand(old, new)
    ELSE GARBLED

write_field(cell, field, value) ==
    IF cell.kind = "file" THEN [cell EXCEPT ![field] = and(field, @, value)] ELSE Garbled

write_data(cell, value) ==
    IF cell \in {Erased, value} THEN value ELSE IF value = Erased THEN cell ELSE Garbled

\* flashpage_erase of a page, and flashpage_write of a field of the file_t at
\* address a, or of a cell.
execute(fl, op) ==
    CASE op.op = "erase" -> [a \in cells_of(op.page) |-> Erased] @@ fl
      [] op.op = "field" -> [fl EXCEPT ![op.a] = write_field(@, op.field, op.value)]
      [] op.op = "data"  -> [fl EXCEPT ![op.a] = write_data(@, op.value)]

flashpage_erase(page) == [op |-> "erase", page |-> page]

write_file_t(a, file) ==
    LET fields == <<"name", "size", "next", "status", "exec">>
    IN  [i \in 1 .. 5 |-> [op |-> "field", a |-> a, field |-> fields[i], value |-> file[fields[i]]]]

write_cells(a, cells) ==
    [i \in DOMAIN cells |-> [op |-> "data", a |-> a + i - 1, value |-> cells[i]]]

flash_needed(fl, page) == \E a \in cells_of(page) : fl[a] # Erased

flash_pages(fl, page, number) ==
    LET needed == {p \in page .. page + number - 1 : flash_needed(fl, p)}
        pages  == SetToSortSeq(needed, <)
    IN  [i \in DOMAIN pages |-> flashpage_erase(pages[i])]

flash_file(fl, f) ==
    flash_pages(fl, f \div FLASHPAGE_SIZE, ROUND(fl[f].size) \div FLASHPAGE_SIZE)

----------------------------------------------------------------------------
(* The list of files                                                       *)

next(fl, a) == IF fl[a].kind = "file" THEN fl[a].next ELSE GARBLED

\* The addresses reached from first_page by next, in ascending order as long
\* as no pointer is wild; the last one is free, or its next is first_page.
linked(fl) ==
    LET heads == {p * FLASHPAGE_SIZE : p \in Page}
        on[a \in heads] == \/ a = first_page
                           \/ \E b \in heads : b < a /\ next(fl, b) = a /\ on[b]
    IN  {a \in heads : on[a]}

Wild(fl) == \E a \in linked(fl) : next(fl, a) \notin {FREE, first_page} /\ next(fl, a) <= a

\* The files a loop with tinyfs_get_first_file and tinyfs_get_next_file visits:
\* a file whose next is first_page only if it is the first one, and none
\* before the module is initialised.
Files(fl, init) ==
    {a \in linked(fl) : /\ init
                        /\ fl[a].kind = "file"
                        /\ fl[a].next # FREE
                        /\ a # first_page => fl[a].next # first_page}

\* The first file of that name.
tinyfs_file_search(fl, name) ==
    LET found == {f \in Files(fl, TRUE) : fl[f].name = name}
    IN  IF found = {} THEN NULL ELSE Min(found)

\* _get_first_free_page_addr.
first_free_page(fl) ==
    LET free == {a \in linked(fl) : next(fl, a) = FREE}
    IN  IF free = {} THEN NULL ELSE Min(free)

----------------------------------------------------------------------------
(* Start-up                                                                *)

\* _tinyfs_flash_file_content: the file is erased and its file_t restored.
flash_file_content(fl, f) ==
    flash_file(fl, f) \o write_file_t(f, [fl[f] EXCEPT !.status = CREATED])

tinyfs_cleanup(fl, init) ==
    LET loading == SetToSeq({f \in Files(fl, init) : fl[f].status = LOADING})
    IN  FlattenSeq([i \in DOMAIN loading |-> flash_file_content(fl, loading[i])])

\* The module is initialised only after the clean-up.
tinyfs_init(fl) == FoldLeft(execute, fl, tinyfs_cleanup(fl, FALSE))

\* A restart: the variables in RAM are set up again, and the host starts the
\* uploads that are not complete from their beginning.
Restart(fl) ==
    /\ flash' = tinyfs_init(fl)
    /\ offset' = 0
    /\ sent' = [n \in Name |-> 0]
    /\ panic' = FALSE

\* Command cmd executes ops and ends, or is cut by a power failure.
Executes(cmd, ops, off, to) ==
    \/ /\ flash' = FoldLeft(execute, flash, ops)
       /\ offset' = off
       /\ sent' = to
       /\ UNCHANGED panic
    \/ /\ cmd \in CrashIn
       /\ \E i \in 0 .. Len(ops) - 1 : Restart(FoldLeft(execute, flash, SubSeq(ops, 1, i)))

\* An assertion fails, or a command follows a wild pointer.
Fault ==
    /\ panic' = TRUE
    /\ UNCHANGED <<flash, offset, sent>>

Init ==
    /\ user \in Users
    /\ flash = [a \in Addr |-> Erased]
    /\ offset = 0
    /\ sent = [n \in Name |-> 0]
    /\ panic = FALSE

----------------------------------------------------------------------------
(* Operations on files                                                     *)

\* tinyfs_create_file at the first free page. It fails for an empty file and
\* without a free page.
tinyfs_create_file(fl, name, size, exec, status) ==
    LET ffp == first_free_page(fl)
        end == ffp + ROUND(size)
    IN  write_file_t(ffp, [name |-> name, size |-> size,
                           next |-> IF end = last_page THEN first_page ELSE end,
                           status |-> status, exec |-> exec])

CanCreate(size) == size # 0 /\ first_free_page(flash) # NULL

\* tinyfs_file_status with status LOADING or LOADED, the values it is called
\* with, and whether it returns 0: the status is looked at again after the
\* write of CREATED to another.
tinyfs_file_status(f, status) ==
    <<[op |-> "field", a |-> f, field |-> "status", value |-> status]>>

status_ok(old, status) ==
    \/ old \in {FREE, LOADING}
    \/ old = CREATED /\ status = LOADING

tinyfs_file_write(f, size, off, cells) ==
    IF size < off + Len(cells) THEN <<>> ELSE write_cells(f + 1 + off, cells)

\* Mutant: next is copied as it is.
move_file_next(fl, src, dst) ==
    write_file_t(dst, fl[src])
    \o write_cells(dst + 1, cells_at(fl, src + 1, ROUND(fl[src].size) - 1))
    \o flash_file(fl, src)

\* One round of the loop of tinyfs_remove: file src moves up to dst.
move_file(fl, src, dst) ==
    LET size == ROUND(fl[src].size)
        Rest(i) ==
            LET from == src + i * FLASHPAGE_SIZE
                page == from \div FLASHPAGE_SIZE
            IN  IF flash_needed(fl, page)
                THEN write_cells(dst + i * FLASHPAGE_SIZE, cells_at(fl, from, FLASHPAGE_SIZE))
                     \o <<flashpage_erase(page)>>
                ELSE <<>>
    IN  write_file_t(dst, [fl[src] EXCEPT !.next = dst + size])
        \o write_cells(dst + 1, cells_at(fl, src + 1, FLASHPAGE_SIZE - 1))
        \o <<flashpage_erase(src \div FLASHPAGE_SIZE)>>
        \o FlattenSeq([i \in 1 .. size \div FLASHPAGE_SIZE - 1 |-> Rest(i)])

\* The file is erased and the files behind it move up.
tinyfs_remove(fl, f) ==
    LET behind == {g \in Files(fl, TRUE) : g > f}
        order  == SetToSortSeq(behind, <)
        dst(g) == f + MapThenSumSet(LAMBDA h : ROUND(fl[h].size), {h \in behind : h < g})
    IN  flash_file(fl, f)
        \o FlattenSeq([i \in DOMAIN order |-> move_file(fl, order[i], dst(order[i]))])

tinyfs_format(fl) == flash_pages(fl, first_page, NPages)

----------------------------------------------------------------------------
(* Shell commands                                                          *)

\* What the user does unless Calls says more: a new file leaves a page free.
Fits(size) ==
    LET end == first_free_page(flash) + ROUND(size)
    IN  \/ end < last_page
        \/ end = last_page /\ "fill" \in Calls
        \/ end > last_page /\ "overflow" \in Calls

mkbin(name, size) ==
    /\ tinyfs_file_search(flash, name) = NULL
    /\ CanCreate(size) /\ Fits(size)
    /\ Executes("mkbin", tinyfs_create_file(flash, name, size, 1, CREATED),
                offset, [sent EXCEPT ![name] = 0])

count_loading == Cardinality({f \in Files(flash, TRUE) : flash[f].status = LOADING})

\* Mutant: every chunk goes to the beginning of the file.
b64decode_from_start(name, f, n) ==
    [ops    |-> tinyfs_file_write(f, flash[f].size, 0, [i \in 1 .. n |-> Data(name, sent[name] + i - 1)]),
     offset |-> offset + n]


\* The loop of b64decode over a chunk of n cells, which stops at the end of
\* the file.
b64decode(name, f, n) ==
    LET size == flash[f].size
        k    == IF offset < size THEN Min({n, size - offset}) ELSE 0
    IN  [ops    |-> tinyfs_file_write(f, size, offset, [i \in 1 .. k |-> Data(name, sent[name] + i - 1)]),
         offset |-> offset + k]

\* The host sends a file from its beginning to its end, and does so again only
\* if Calls says so.
Sends(name, f, n) ==
    /\ sent[name] + n <= flash[f].size
    /\ flash[f].status = LOADED => "put_again" \in Calls

\* The file becomes LOADING with its first chunk, and LOADED when offset
\* reaches its size. A second file is refused while one is loading; two files
\* that are loading, or a loaded file that is loaded again, fail an assertion.
ldbin(name, n) ==
    LET f       == tinyfs_file_search(flash, name)
        old     == flash[f].status
        chunk   == b64decode(name, f, n)
        done    == chunk.offset = flash[f].size
        loading == IF old = CREATED THEN tinyfs_file_status(f, LOADING) ELSE <<>>
        loaded  == IF done THEN tinyfs_file_status(f, LOADED) ELSE <<>>
        now     == sent[name] + n
    IN  /\ f # NULL
        /\ Sends(name, f, n)
        /\ count_loading = 1 => old = LOADING
        /\ IF count_loading <= 1 /\ (done => status_ok(IF loading = <<>> THEN old ELSE LOADING, LOADED))
           THEN Executes("ldbin", loading \o chunk.ops \o loaded,
                         IF done THEN 0 ELSE chunk.offset,
                         [sent EXCEPT ![name] = IF now = flash[f].size THEN 0 ELSE now])
           ELSE Fault

\* The header of the copy says LOADED before the contents are there. That the
\* new name is in use is not looked for.
cp(source, dest) ==
    LET f    == tinyfs_file_search(flash, source)
        size == flash[f].size
        new  == first_free_page(flash)
    IN  /\ f # NULL
        /\ \/ "cp" \in Calls /\ tinyfs_file_search(flash, dest) = NULL
           \/ "cp_over" \in Calls
        /\ flash[f].status = LOADED
        /\ source # dest
        /\ CanCreate(size) /\ Fits(size)
        /\ Executes("cp", tinyfs_create_file(flash, dest, size, flash[f].exec, LOADED)
                          \o tinyfs_file_write(new, size, 0, cells_at(flash, f + 1, size)),
                    offset, sent)

rm(name) ==
    LET f == tinyfs_file_search(flash, name)
    IN  /\ f # NULL
        /\ flash[f].status = LOADING => "rm_loading" \in Calls
        /\ Executes("rm", tinyfs_remove(flash, f), offset, sent)

fmtbin ==
    /\ count_loading > 0 => "rm_loading" \in Calls
    /\ Executes("fmtbin", tinyfs_format(flash), offset, sent)

\* Power fails between two commands.
Reset ==
    /\ CrashIn # {}
    /\ Restart(flash)

Command ==
    \/ \E name \in 1 .. user.names, size \in Sizes : mkbin(name, size)
    \/ \E name \in Name, n \in user.chunks : ldbin(name, n)
    \/ \E source \in Name, dest \in 1 .. user.names : cp(source, dest)
    \/ \E name \in Name : rm(name)
    \/ fmtbin

Next ==
    \/ ~panic /\ ~Wild(flash) /\ Command /\ UNCHANGED user
    \/ ~panic /\ Wild(flash) /\ Fault /\ UNCHANGED user
    \/ Reset /\ UNCHANGED user

Spec == Init /\ [][Next]_vars

----------------------------------------------------------------------------
(* Properties                                                              *)

Cell == [kind : {"file"}, name : Name \cup {FREE, GARBLED}, size : Int,
         next : Addr \cup {FREE, GARBLED}, status : {FREE, CREATED, LOADING, LOADED},
         exec : {FREE, 0, 1}]
        \cup {Garbled} \cup [kind : {"data"}, of : Name, at : Nat]

\* Types of the flash cells and of the variables.
TypeOK ==
    /\ flash \in [Addr -> Cell]
    /\ offset \in Nat
    /\ sent \in [Name -> Nat]
    /\ panic \in BOOLEAN

\* Every file_t in flash is one the commands see: ls lists all files.
NoOrphans ==
    ~Wild(flash) /\ Files(flash, TRUE) = {a \in Addr : flash[a].kind = "file" /\ flash[a].next # FREE}

\* Files lie one behind the other without a gap, and all behind them is
\* erased, so that what is written there next is not garbled.
Contiguous ==
    LET end == first_free_page(flash)
    IN  /\ \A f \in Files(flash, TRUE) : flash[f].next = f + ROUND(flash[f].size)
        /\ end # NULL => \A a \in Addr : a >= end => flash[a] = Erased

\* A user who removes no file while it is loading, sends no file twice and
\* copies to new names only, on a board where power fails during uploads.
Careful == Calls \subseteq {"cp"} /\ CrashIn \subseteq {"ldbin"}

\* The flash is laid out as the list of files says, whatever a careful user
\* creates, uploads, copies and removes, and however files move; no assertion
\* fails and no command follows a wild pointer.
FlashLayout == Careful => NoOrphans /\ Contiguous /\ ~panic


\* What the commands see of the files.
contents(f) ==
    cells_at(flash, f + 1, CASE flash[f].status = LOADED -> flash[f].size
                             [] flash[f].status = LOADING -> offset
                             [] OTHER -> 0)

stored ==
    LET visible == IF Careful THEN Files(flash, TRUE) ELSE {}
        first(n) == Min({f \in visible : flash[f].name = n})
    IN  [n \in {flash[f].name : f \in visible} |->
            [size |-> flash[first(n)].size, data |-> contents(first(n))]]

Store == INSTANCE FileStore WITH files <- stored

\* To a careful user (the mapping hides the files of others) the commands do
\* what module FileStore says, however often files are moved in flash, and when power fails while a file is loaded.
StoreSpec == Store!Spec
=============================================================================
