---------------------------- MODULE AddressSpace ----------------------------
(***************************************************************************)
(* userprog/pagedir.c, and load(), process_activate() and process_exit()   *)
(* of userprog/process.c: the page tables of the processes, from the       *)
(* segments of an executable to their end.  The processes are preempted    *)
(* anywhere and take pages from the same two pools.                        *)
(*                                                                         *)
(* The command line, argv and argc, is global, and load() keeps its file   *)
(* in a static variable: when one process is started before another is     *)
(* loaded, both may find either's words and file, or what is left of them. *)
(* What such a process gets is left open.                                  *)
(*                                                                         *)
(* A page read from a file is [ofs, read]: its first read bytes are those  *)
(* of the file from ofs on, the others are zero.                           *)
(***************************************************************************)
EXTENDS Naturals, Sequences

CONSTANTS
  Spaces,       \* processes
  Programs,     \* Programs[s], executables: [length, phdrs], phdrs a sequence of Elf32_Phdr
  Words,        \* the lengths of the words of a command line, as many words as
                \* setup_stack()'s array has room for on the kernel's stack
  Overlapping,  \* bound: the executables that are started before another is loaded
  PageSize,     \* PGSIZE
  PHYS_BASE,    \* where kernel addresses start
  TablePages,   \* entries of a page table
  KernelPages, UserPages,  \* the pages of the two pools
  WORD_MAX,     \* 2^32: addresses and sizes are unsigned words
  NoPage

\* Elf32_Phdr, as far as load() uses it.
Elf32_Word == 0 .. WORD_MAX - 1
Elf32_Phdr ==
  [type : STRING, offset : Elf32_Word, vaddr : Elf32_Word, filesz : Elf32_Word,
   memsz : Elf32_Word, writable : BOOLEAN]
Executable == [length : Nat, phdrs : Seq(Elf32_Phdr)]

\* What a process maps at a page.
Entry ==
  [page : KernelPages \cup UserPages, writable : BOOLEAN, data : [ofs : Nat, read : Nat]]

ASSUME AddressSpaceAssumption ==
  /\ {PageSize, TablePages, PHYS_BASE, WORD_MAX} \subseteq Nat \ {0}
  /\ PHYS_BASE % PageSize = 0 /\ PHYS_BASE < WORD_MAX
  /\ KernelPages \subseteq Nat /\ UserPages \subseteq Nat /\ KernelPages \cap UserPages = {}
  /\ NoPage \notin KernelPages \cup UserPages \cup Entry
  /\ \A s \in Spaces : Programs[s] \subseteq Executable
  /\ Words \subseteq Seq(Nat)

VARIABLES
  runs,      \* the process that runs
  cr3,       \* the active page directory, NoPage for init_page_dir
  space_pc,  \* space_pc[s]: where s is
  program,   \* program[s], the executable it loads
  phdr,      \* phdr[s], the number of the program header it is at
  todo,      \* todo[s]: what is left for load_segment(), [upage, ofs, read, zero, writable]
  kpage,     \* kpage[s], the page that load_segment() or setup_stack() has taken
  pagedir,   \* pagedir[s]
  dying,     \* dying[s], the directory that process_exit() destroys
  tables,    \* tables[s][i], the page of the page table i, or NoPage
  ptes,      \* ptes[s][v], the entry of user page v: [page, writable, data], or NoPage
  stack,     \* stack[s], what setup_stack() has laid out, [words, layout]
  file,      \* load()'s static variable: the executable opened last
  mixed,     \* history: the processes started while another was, not loaded yet
  stopped,   \* the kernel has stopped
  free_pages \* pages of the pools that are free

spaceVars == <<runs, cr3, space_pc, program, phdr, todo, kpage, pagedir,
               dying, tables, ptes, stack, file, mixed, stopped, free_pages>>

UserVPages == 0 .. PHYS_BASE \div PageSize - 1
pd_no(v) == v \div TablePages
Tables == {pd_no(v) : v \in UserVPages}
pg_no(addr) == addr \div PageSize

NoSegment == [upage |-> 0, ofs |-> 0, read |-> 0, zero |-> 0, writable |-> FALSE]
EmptySpace == [v \in UserVPages |-> NoPage]
NoTables == [i \in Tables |-> NoPage]

SpaceInit ==
  /\ runs \in Spaces /\ cr3 = NoPage
  /\ space_pc = [s \in Spaces |-> "none"]
  /\ program \in [Spaces -> UNION {Programs[s] : s \in Spaces}]
  /\ \A s \in Spaces : program[s] \in Programs[s]
  /\ phdr = [s \in Spaces |-> 1] /\ todo = [s \in Spaces |-> NoSegment]
  /\ kpage = [s \in Spaces |-> NoPage]
  /\ pagedir = [s \in Spaces |-> NoPage] /\ dying = [s \in Spaces |-> NoPage]
  /\ tables = [s \in Spaces |-> NoTables] /\ ptes = [s \in Spaces |-> EmptySpace]
  /\ stack = [s \in Spaces |-> NoPage]
  /\ file = NoPage /\ mixed = {} /\ stopped = FALSE
  /\ free_pages = KernelPages \cup UserPages

\* palloc_get_page(), the first free page of a pool, and palloc_free_page().
Available(pool) == free_pages \cap pool
FirstOf(pages) == CHOOSE p \in pages : \A q \in pages : p <= q
Take(p) == free_pages' = free_pages \ {p}
Give(p) == free_pages' = free_pages \cup {p}

RunsAt(s, where) == ~stopped /\ runs = s /\ space_pc[s] = where
Then(s, where) == space_pc' = [space_pc EXCEPT ![s] = where]

\* thread_schedule_tail() and process_activate(), after any step of a thread.
Switch(s) ==
  /\ ~stopped /\ s # runs /\ space_pc[s] \notin {"none", "dead"}
  /\ runs' = s /\ cr3' = pagedir[s]
  /\ UNCHANGED <<space_pc, program, phdr, todo, kpage, pagedir, dying,
                 tables, ptes, stack, file, mixed, stopped, free_pages>>

(* process_execute() *)

\* The processes whose command line was read into argv, and is not used up yet.
Starting ==
  {s \in Spaces : space_pc[s] \in {"start", "activate", "phdr", "page", "read", "install", "stack_page",
                                   "stack_install", "stack_words"}}

\* tokenize(), in whatever thread starts s.
process_execute(s) ==
  /\ ~stopped /\ space_pc[s] = "none" /\ Then(s, "start")
  /\ Starting # {} => {program[t] : t \in Starting \cup {s}} \subseteq Overlapping
  /\ mixed' = IF Starting = {} THEN mixed ELSE mixed \cup Starting \cup {s}
  /\ UNCHANGED <<runs, cr3, program, phdr, todo, kpage, pagedir, dying, tables, ptes, stack, file,
                 stopped, free_pages>>

\* The processes whose command line argv may hold when s reads it.
Lines(s) == IF s \in mixed THEN mixed ELSE {s}

(* load() *)

pagedir_create(s) ==
  /\ RunsAt(s, "start")
  /\ IF Available(KernelPages) = {}
     THEN Then(s, "exit") /\ UNCHANGED <<pagedir, free_pages>>
     ELSE /\ pagedir' = [pagedir EXCEPT ![s] = FirstOf(Available(KernelPages))]
          /\ Take(FirstOf(Available(KernelPages)))
          /\ Then(s, "activate")
  /\ UNCHANGED <<runs, cr3, program, phdr, todo, kpage, dying, tables, ptes, stack, file, mixed,
                 stopped>>

\* process_activate(), and opening the file that argv[0] names, which may not be
\* there, or not be an executable.
LoadOpen(s) ==
  /\ RunsAt(s, "activate") /\ cr3' = pagedir[s]
  /\ \/ file' = NoPage /\ Then(s, "exit")
     \/ /\ \E t \in Lines(s) : file' = program[t]
        /\ \E w \in {"phdr", "exit"} : Then(s, w)
  /\ UNCHANGED <<runs, program, phdr, todo, kpage, pagedir, dying, tables, ptes, stack, mixed,
                 stopped, free_pages>>

\* The file that loads share may be null or closed when one of them uses it,
\* and argv may point to pages that are free again: an assertion fails, or the
\* kernel faults.
LoadPanics(s) ==
  /\ RunsAt(s, space_pc[s]) /\ s \in Starting \cap mixed
  /\ stopped' = TRUE
  /\ UNCHANGED <<runs, cr3, space_pc, program, phdr, todo, kpage, pagedir, dying, tables, ptes, stack,
                 file, mixed, free_pages>>

is_user_vaddr(addr) == addr < PHYS_BASE

validate_segment(p, length) ==
  /\ p.offset % PageSize = p.vaddr % PageSize
  /\ p.offset <= length
  /\ p.memsz >= p.filesz
  /\ p.memsz # 0
  /\ is_user_vaddr(p.vaddr) /\ is_user_vaddr((p.vaddr + p.memsz) % WORD_MAX)
  /\ (p.vaddr + p.memsz) % WORD_MAX >= p.vaddr
  /\ p.vaddr >= PageSize

ROUND_UP(x) == ((x + PageSize - 1) \div PageSize) * PageSize

\* The arguments that load() gives load_segment().
Segment(p) ==
  LET page_offset == p.vaddr % PageSize
      read_bytes == IF p.filesz > 0 THEN page_offset + p.filesz ELSE 0
  IN  [upage |-> pg_no(p.vaddr), ofs |-> p.offset - (p.offset % PageSize),
       read |-> read_bytes, zero |-> ROUND_UP(page_offset + p.memsz) - read_bytes,
       writable |-> p.writable]

\* The program header that file_read() returns: the next, or after loads have
\* overlapped, and moved the position of one file, any of the file's.
HeadersRead(s) ==
  IF s \in mixed THEN {file.phdrs[i] : i \in 1 .. Len(file.phdrs)} ELSE {file.phdrs[phdr[s]]}

\* A header that is ignored, one that is refused, or a segment to load.
OneHeader(s, p) ==
  CASE p.type = "ignored" ->
         phdr' = [phdr EXCEPT ![s] = @ + 1] /\ UNCHANGED <<space_pc, todo>>
    [] p.type = "PT_LOAD" /\ validate_segment(p, file.length) ->
         /\ phdr' = [phdr EXCEPT ![s] = @ + 1]
         /\ todo' = [todo EXCEPT ![s] = Segment(p)] /\ Then(s, "page")
    [] OTHER -> Then(s, "exit") /\ UNCHANGED <<phdr, todo>>

\* e_phnum.
Counts(s) == {Len(program[t].phdrs) : t \in Lines(s)}

\* The loop over the headers; after the last, the stack.
ProgramHeader(s) ==
  /\ RunsAt(s, "phdr")
  /\ \E n \in Counts(s) :
       IF phdr[s] > n
       THEN Then(s, "stack_page") /\ UNCHANGED <<phdr, todo>>
       ELSE file # NoPage /\ \E p \in HeadersRead(s) : OneHeader(s, p)
  /\ UNCHANGED <<runs, cr3, program, kpage, pagedir, dying, tables, ptes, stack, file, mixed,
                 stopped, free_pages>>

\* The while loop of load_segment(), up to palloc_get_page().
SegmentPage(s) ==
  /\ RunsAt(s, "page")
  /\ LET left == todo[s].read > 0 \/ todo[s].zero > 0
         user == Available(UserPages)
     IN  CASE ~left -> Then(s, "phdr") /\ UNCHANGED <<kpage, free_pages>>
           [] left /\ user = {} -> Then(s, "exit") /\ UNCHANGED <<kpage, free_pages>>
           [] OTHER -> /\ kpage' = [kpage EXCEPT ![s] = FirstOf(user)] /\ Take(FirstOf(user))
                       /\ Then(s, "read")
  /\ UNCHANGED <<runs, cr3, program, phdr, todo, pagedir, dying, tables, ptes, stack, file,
                 mixed, stopped>>

\* file_read() comes back short at the end of the file.
page_read_bytes(s) == IF todo[s].read < PageSize THEN todo[s].read ELSE PageSize
ReadsAll(s) == page_read_bytes(s) = 0 \/ todo[s].ofs + page_read_bytes(s) <= file.length
SegmentRead(s) ==
  /\ RunsAt(s, "read")
  /\ \/ /\ s \notin mixed => ReadsAll(s)
        /\ Then(s, "install") /\ UNCHANGED <<kpage, free_pages>>
     \/ /\ s \notin mixed => ~ReadsAll(s)
        /\ Then(s, "exit") /\ Give(kpage[s]) /\ kpage' = [kpage EXCEPT ![s] = NoPage]
  /\ UNCHANGED <<runs, cr3, program, phdr, todo, pagedir, dying, tables, ptes, stack, file,
                 mixed, stopped>>

\* lookup_page() with create, for a page without a table, and pagedir_set_page().
NeedsTable(s, v) == tables[s][pd_no(v)] = NoPage
Installs(s, v) == ptes[s][v] = NoPage /\ (NeedsTable(s, v) => Available(KernelPages) # {})

\* install_page(): the table is new if it has to be.
install_page(s, v, entry) ==
  /\ ptes' = [ptes EXCEPT ![s][v] = entry]
  /\ IF NeedsTable(s, v)
     THEN /\ tables' = [tables EXCEPT ![s][pd_no(v)] = FirstOf(Available(KernelPages))]
          /\ Take(FirstOf(Available(KernelPages)))
     ELSE UNCHANGED <<tables, free_pages>>
  /\ kpage' = [kpage EXCEPT ![s] = NoPage]

\* An install_page() that has failed: the page goes back.
InstallFails(s) ==
  /\ Then(s, "exit") /\ Give(kpage[s]) /\ kpage' = [kpage EXCEPT ![s] = NoPage]
  /\ UNCHANGED <<tables, ptes>>

\* The rest of the loop's body.
SegmentInstall(s) ==
  /\ RunsAt(s, "install")
  /\ LET seg == todo[s]
         entry == [page |-> kpage[s], writable |-> seg.writable,
                   data |-> [ofs |-> seg.ofs, read |-> page_read_bytes(s)]]
     IN  IF Installs(s, seg.upage)
         THEN /\ install_page(s, seg.upage, entry) /\ Then(s, "page")
              /\ todo' = [todo EXCEPT ![s] =
                            [seg EXCEPT !.upage = @ + 1, !.ofs = @ + page_read_bytes(s),
                                        !.read = @ - page_read_bytes(s),
                                        !.zero = @ - (PageSize - page_read_bytes(s))]]
         ELSE InstallFails(s) /\ UNCHANGED todo
  /\ UNCHANGED <<runs, cr3, program, phdr, pagedir, dying, stack, file, mixed, stopped>>

StackPage == PHYS_BASE \div PageSize - 1

\* palloc_get_page() of setup_stack().
StackGet(s) ==
  /\ RunsAt(s, "stack_page")
  /\ IF Available(UserPages) = {}
     THEN Then(s, "exit") /\ UNCHANGED <<kpage, free_pages>>
     ELSE /\ kpage' = [kpage EXCEPT ![s] = FirstOf(Available(UserPages))]
          /\ Take(FirstOf(Available(UserPages))) /\ Then(s, "stack_install")
  /\ UNCHANGED <<runs, cr3, program, phdr, todo, pagedir, dying, tables, ptes, stack, file,
                 mixed, stopped>>

\* Where *esp is after words k + 1 to argc have been pushed, each with its null.
EspAfter(lens) ==
  LET Esp[k \in 0 .. Len(lens)] ==
        IF k = Len(lens) THEN PHYS_BASE ELSE Esp[k + 1] - (lens[k + 1] + 1)
  IN  Esp

\* The stores of setup_stack() in their order, [at, size, value], and *esp: the
\* words from the last, the sentinel, the addresses from the last, the address
\* of the first address, argc and a return address.
Layout(lens, esp, argc, aligned, ptr) ==
  [stores |->
     [i \in 1 .. argc |-> [at |-> esp[argc - i], size |-> lens[argc - i + 1] + 1, value |-> argc - i + 1]]
     \o <<[at |-> aligned - 4, size |-> 4, value |-> 0]>>
     \o [i \in 1 .. argc |-> [at |-> aligned - 4 - 4 * i, size |-> 4, value |-> esp[argc - i]]]
     \o <<[at |-> ptr - 4, size |-> 4, value |-> ptr], [at |-> ptr - 8, size |-> 4, value |-> argc],
          [at |-> ptr - 12, size |-> 4, value |-> 0]>>,
   esp |-> ptr - 12]

\* A layout that forgets to round *esp down to a word.
StackLayout_unaligned(lens) ==
  LET esp == EspAfter(lens)
      argc == Len(lens)
  IN  Layout(lens, esp, argc, esp[0], esp[0] - 4 - 4 * argc)

StackLayout(lens) ==
  LET esp == EspAfter(lens)
      argc == Len(lens)
      aligned == esp[0] - (esp[0] % 4)
  IN  Layout(lens, esp, argc, aligned, aligned - 4 - 4 * argc)

\* install_page() of setup_stack().
StackInstall(s) ==
  /\ RunsAt(s, "stack_install")
  /\ IF Installs(s, StackPage)
     THEN /\ install_page(s, StackPage, [page |-> kpage[s], writable |-> TRUE,
                                          data |-> [ofs |-> 0, read |-> 0]])
          /\ Then(s, "stack_words")
     ELSE InstallFails(s)
  /\ UNCHANGED <<runs, cr3, program, phdr, todo, pagedir, dying, stack, file, mixed, stopped>>

\* A store below the stack's page finds a page of a segment, or faults.
Writable(s, esp) ==
  \A v \in pg_no(esp) .. StackPage : v \in UserVPages /\ ptes[s][v] # NoPage /\ ptes[s][v].writable

\* The words of argv, whose lengths nothing has looked at before, and the rest
\* of load().
StackWords(s) ==
  /\ RunsAt(s, "stack_words")
  /\ IF s \in mixed
     THEN Then(s, "run") /\ UNCHANGED <<stack, stopped>>
     ELSE \E w \in Words :
            LET layout == StackLayout(w)
            IN  IF Writable(s, layout.esp)
                THEN /\ stack' = [stack EXCEPT ![s] = [words |-> w, layout |-> layout]]
                     /\ Then(s, "run") /\ UNCHANGED stopped
                ELSE stopped' = TRUE /\ UNCHANGED <<stack, space_pc>>
  /\ UNCHANGED <<runs, cr3, program, phdr, todo, kpage, pagedir, dying, tables, ptes, file, mixed,
                 free_pages>>

(* process_exit() *)

UserExits(s) ==
  /\ RunsAt(s, "run") /\ Then(s, "exit")
  /\ stack' = [stack EXCEPT ![s] = NoPage]
  /\ UNCHANGED <<runs, cr3, program, phdr, todo, kpage, pagedir, dying, tables, ptes,
                 file, mixed, stopped, free_pages>>

\* An ExitForget(s) that leaves cur->pagedir for later.
ExitForget_later(s) ==
  /\ RunsAt(s, "exit") /\ Then(s, IF pagedir[s] = NoPage THEN "dead" ELSE "deactivate")
  /\ dying' = [dying EXCEPT ![s] = pagedir[s]]
  /\ UNCHANGED <<runs, cr3, program, phdr, todo, kpage, tables, ptes, stack, file, mixed, stopped,
                 free_pages, pagedir>>

\* cur->pagedir = NULL, if there is one.
ExitForget(s) ==
  /\ RunsAt(s, "exit") /\ Then(s, IF pagedir[s] = NoPage THEN "dead" ELSE "deactivate")
  /\ dying' = [dying EXCEPT ![s] = pagedir[s]]
  /\ pagedir' = [pagedir EXCEPT ![s] = NoPage]
  /\ UNCHANGED <<runs, cr3, program, phdr, todo, kpage, tables, ptes, stack, file, mixed,
                 stopped, free_pages>>

\* pagedir_activate (NULL)
ExitDeactivate(s) ==
  /\ RunsAt(s, "deactivate") /\ cr3' = NoPage /\ Then(s, "destroy")
  /\ UNCHANGED <<runs, program, phdr, todo, kpage, pagedir, dying, tables, ptes, stack, file, mixed,
                 stopped, free_pages>>

\* pagedir_destroy(): the pages of a table and the table, and in the end the
\* directory.
DestroyTable(s, i) ==
  LET mapped == {v \in UserVPages : pd_no(v) = i /\ ptes[s][v] # NoPage}
  IN  /\ RunsAt(s, "destroy") /\ tables[s][i] # NoPage
      /\ \A j \in Tables : j < i => tables[s][j] = NoPage
      /\ free_pages' = free_pages \cup {ptes[s][v].page : v \in mapped} \cup {tables[s][i]}
      /\ ptes' = [ptes EXCEPT ![s] = [v \in UserVPages |-> IF v \in mapped THEN NoPage ELSE @[v]]]
      /\ tables' = [tables EXCEPT ![s][i] = NoPage]
      /\ UNCHANGED <<runs, cr3, space_pc, program, phdr, todo, kpage, pagedir, dying, stack,
                     file, mixed, stopped>>

DestroyDirectory(s) ==
  /\ RunsAt(s, "destroy") /\ tables[s] = NoTables
  /\ Give(dying[s]) /\ dying' = [dying EXCEPT ![s] = NoPage] /\ Then(s, "dead")
  /\ UNCHANGED <<runs, cr3, program, phdr, todo, kpage, pagedir, tables, ptes, stack, file,
                 mixed, stopped>>

\* New processes, with any program, when all are gone.  What file was before
\* does not matter to them.
NewProcesses ==
  /\ ~stopped /\ \A s \in Spaces : space_pc[s] = "dead"
  /\ space_pc' = [s \in Spaces |-> "none"]
  /\ program' \in [Spaces -> UNION {Programs[s] : s \in Spaces}]
  /\ \A s \in Spaces : program'[s] \in Programs[s]
  /\ phdr' = [s \in Spaces |-> 1] /\ todo' = [s \in Spaces |-> NoSegment]
  /\ file' = NoPage /\ mixed' = {}
  /\ UNCHANGED <<runs, cr3, kpage, pagedir, dying, tables, ptes, stack, stopped, free_pages>>

SpaceNext ==
  \/ NewProcesses
  \/ stopped /\ UNCHANGED spaceVars
  \/ \E s \in Spaces :
       \/ Switch(s) \/ process_execute(s) \/ pagedir_create(s) \/ LoadOpen(s) \/ LoadPanics(s)
       \/ ProgramHeader(s) \/ SegmentPage(s) \/ SegmentRead(s) \/ SegmentInstall(s)
       \/ StackGet(s) \/ StackInstall(s) \/ StackWords(s) \/ UserExits(s)
       \/ ExitForget(s) \/ ExitDeactivate(s) \/ DestroyDirectory(s)
       \/ \E i \in Tables : DestroyTable(s, i)

SpaceSpec == SpaceInit /\ [][SpaceNext]_spaceVars

(* What a running process finds *)

Segments(s) ==
  {program[s].phdrs[i] : i \in {i \in 1 .. Len(program[s].phdrs) : program[s].phdrs[i].type = "PT_LOAD"}}
SegmentPages(p) == pg_no(p.vaddr) .. pg_no(p.vaddr + p.memsz - 1)

\* The byte at addr: a byte of the file, or zero.
ByteAt(s, addr) ==
  LET e == ptes[s][pg_no(addr)].data
      o == addr % PageSize
  IN  IF o < e.read THEN <<"file", e.ofs + o>> ELSE <<"zero", 0>>

\* The stores keep clear of each other, and the C main() finds argc and argv
\* where the calling convention puts them.
StackRight(lens, st) ==
  LET argc == Len(lens)
      Word(addr) == {x.value : x \in {x \in {st.stores[i] : i \in 1 .. Len(st.stores)} : x.at = addr}}
      argv == CHOOSE a \in Word(st.esp + 8) : TRUE
  IN  /\ \A i, j \in 1 .. Len(st.stores) :
           i < j => st.stores[j].at + st.stores[j].size <= st.stores[i].at
      /\ st.esp % 4 = 0
      /\ Word(st.esp + 4) = {argc} /\ Word(argv + 4 * argc) = {0}
      /\ \A k \in 1 .. argc : \E a \in Word(argv + 4 * (k - 1)) : Word(a) = {k}

\* The segments are in their pages, up to the stack pointer esp.
HoldsSegments(s, esp) ==
  /\ \A p \in Segments(s) :
       /\ \A v \in SegmentPages(p) : ptes[s][v] # NoPage /\ ptes[s][v].writable = p.writable
       /\ \A k \in 0 .. p.memsz - 1 : p.vaddr + k < esp =>
            ByteAt(s, p.vaddr + k) = IF k < p.filesz THEN <<"file", p.offset + k>> ELSE <<"zero", 0>>
  /\ {v \in UserVPages : ptes[s][v] # NoPage} = (UNION {SegmentPages(p) : p \in Segments(s)}) \cup {StackPage}

\* load() builds the process its executable describes, unless another process
\* was started between its own start and the end of its load: when a user program
\* begins, every byte of every loadable segment is the file's, or zero past
\* p_filesz, in a page that is writable if and only if the segment is; no other
\* page but the stack's is mapped; and the stack has the words of the command line
\* for main(argc, argv).  setup_stack() does not look whether the words fit in
\* the stack's page: those that do not overwrite the segment below, down to the
\* stack pointer, or stop the kernel.  Segments that share a page, wrap around or
\* do not fit do not get so far.
SpaceHoldsProgram ==
  \A s \in Spaces \ mixed : space_pc[s] = "run" =>
    /\ HoldsSegments(s, stack[s].layout.esp)
    /\ StackRight(stack[s].words, stack[s].layout)

\* Where a process may have a page: its directory, also while process_exit()
\* destroys it, the page in hand, its tables and the pages it maps.
PagePlaces ==
  ({"pagedir", "dying", "kpage"} \X {0}) \cup ({"table"} \X Tables) \cup ({"page"} \X UserVPages)

\* The pages at these places, for values of the five variables.
HeldIn(dirs, dead, hand, tabs, maps) ==
  [h \in Spaces \X PagePlaces |->
     LET s == h[1]
         i == h[2][2]
     IN  CASE h[2][1] = "pagedir" -> dirs[s]
           [] h[2][1] = "dying" -> dead[s]
           [] h[2][1] = "kpage" -> hand[s]
           [] h[2][1] = "table" -> tabs[s][i]
           [] OTHER -> IF maps[s][i] = NoPage THEN NoPage ELSE maps[s][i].page]
Held == HeldIn(pagedir, dying, kpage, tables, ptes)

\* No page is at two places, or at a place and free, and none is nowhere.
EachPageOnce(held, free) ==
  LET used == {h \in DOMAIN held : held[h] # NoPage}
  IN  /\ \A h, k \in used : h # k => held[h] # held[k]
      /\ \A h \in used : held[h] \notin free
      /\ free \cup {held[h] : h \in used} = KernelPages \cup UserPages

\* No page of an address space is used twice, used while free, or lost, whether a
\* load succeeds, fails for want of a page at any point or is preempted there; a
\* process leaves no page behind.  load_segment() installs no page outside user
\* memory (the ASSERT of pagedir_set_page()).  The processor never runs on a page
\* directory that has been given back: process_exit() forgets and deactivates it
\* before it destroys it.
SpacesOwnPages ==
  /\ EachPageOnce(Held, free_pages)
  /\ \A s \in Spaces : space_pc[s] = "dead" => \A w \in PagePlaces : Held[<<s, w>>] = NoPage
  /\ \A s \in Spaces : space_pc[s] = "install" => todo[s].upage \in UserVPages
  /\ cr3 # NoPage => cr3 \in {pagedir[runs], dying[runs]}
=============================================================================
