-------------------------------- MODULE Inode --------------------------------
(***************************************************************************)
(* The free map and the inodes of the file system (filesys/free-map.c,     *)
(* filesys/inode.c, and the allocation of filesys_create()).  The calls    *)
(* are serialized by file_lock, so each is one step; the closes of         *)
(* thread_exit() and process_exit(), which do not take the lock, are here  *)
(* for processes that exit between the others' calls.  A sector on disk is *)
(* an inode_disk, a table of sector numbers or bytes of a file.  Direct    *)
(* stands for the 12 direct sectors, Ptrs for the 128 entries of a table   *)
(* and SectorSize for BLOCK_SECTOR_SIZE.                                   *)
(*                                                                         *)
(* The allocation operators take the state st = [used, disk, fault] and    *)
(* return the one they leave behind.                                       *)
(***************************************************************************)
EXTENDS Naturals, Sequences, FiniteSets, SequencesExt, FiniteSetsExt

CONSTANTS SectorSize, Direct, Ptrs,
          Uses,       \* the disks and what is done with them: the number of
                      \* sectors, the initial lengths of files, the offsets of
                      \* reads and writes, the sizes of reads, the bound
                      \* max_open on the openers of one inode, and whether a
                      \* write may pass the end of its file (grow)
          Payloads,   \* what is written
          NoFile

ASSUME Geometry == Direct \in Nat \ {0} /\ Ptrs \in Nat \ {0, 1} /\ SectorSize \in Nat \ {0}

FREE_MAP_SECTOR == 0
ROOT_DIR_SECTOR == 1

VARIABLES
  use,      \* the one of Uses that this behaviour follows
  used,     \* free_map: the sectors that are marked
  disk,     \* disk[s], what sector s holds
  fault,    \* "panic" after a failed ASSERT, "overrun" after an access past
            \* the end of an array, "clobber" after bytes of a file were
            \* written over an inode or a table; no step follows
  inodes,   \* open_inodes: the open inodes, by sector
  linked,   \* the inodes that a directory entry names
  lost,     \* history: the sectors that the code forgets to give back
  reply     \* the last call and its result

vars == <<use, used, disk, fault, inodes, linked, lost, reply>>
Sectors == 0..(use.sectors - 1)
st == [used |-> used, disk |-> disk, fault |-> fault]

Zeros(n) == [i \in 1..n |-> 0]
Bytes(b) == [kind |-> "data", bytes |-> b]
Table(p) == [kind |-> "table", ptr |-> p]
Node(d, len) == [kind |-> "inode", direct |-> d, indirect |-> 0, doubly |-> 0, length |-> len]

bytes_to_sectors(size) == (size + SectorSize - 1) \div SectorSize
AtLeastOne(n) == IF n = 0 THEN 1 ELSE n
Least(a, b) == IF a < b THEN a ELSE b
Faulty(s, f, cond) == [s EXCEPT !.fault = IF @ = "none" /\ cond THEN f ELSE @]

-----------------------------------------------------------------------------
(* filesys/free-map.c *)

\* The n lowest free sectors, which is what n calls of free_map_allocate(1)
\* find.
FirstFree(u, n) ==
  [i \in 1..n |-> CHOOSE x \in Sectors \ u : Cardinality({y \in Sectors \ u : y < x}) = i - 1]

\* The calls below return [ok, st, ptr] or [ok, st, node].
Marks(s, p, cnt) ==
  [ok |-> TRUE, st |-> [s EXCEPT !.used = @ \cup ToSet(p)], ptr |-> p \o Zeros(cnt - Len(p))]

\* A disk that fills up on the way leaves the numbers it gave back in the array.
free_map_allocate_array(s, cnt, upto) ==
  LET free == Cardinality(Sectors \ s.used)
  IN IF free < upto
     THEN [ok |-> FALSE, st |-> s, ptr |-> FirstFree(s.used, free) \o Zeros(cnt - free)]
     ELSE Marks(s, FirstFree(s.used, upto), cnt)

free_map_release_array(s, ptr, cnt) ==
  LET gone == ToSet(SubSeq(ptr, 1, Least(cnt, Len(ptr))))
  IN Faulty(Faulty([s EXCEPT !.used = @ \ gone],
                   "overrun", cnt > Len(ptr)),
            "panic", ~(gone \subseteq s.used) \/ Cardinality(gone) < cnt)

-----------------------------------------------------------------------------
(* Allocation and release of the sectors of an inode. *)

zero_out(s, size, ptr) ==
  LET cleared == ToSet(SubSeq(ptr, 1, Least(size, Len(ptr))))
  IN Faulty([s EXCEPT !.disk = [x \in Sectors |->
                        IF x \in cleared THEN Bytes(Zeros(SectorSize)) ELSE @[x]]],
            "overrun", size > Len(ptr))

Cleared(a, n) == IF a.ok THEN [a EXCEPT !.st = zero_out(@, n, a.ptr)] ELSE a

\* A failed allocation of an array releases that array and nothing else.
Fails(r) == [r EXCEPT !.ok = FALSE]

SetDirect(r, a) ==
  IF ~a.ok THEN Fails(r) ELSE [r EXCEPT !.st = a.st, !.node.direct = a.ptr]

allocate_direct_blocks(r, sectors) ==
  SetDirect(r, Cleared(free_map_allocate_array(r.st, Direct, Least(sectors, Direct)),
                       Least(sectors, Direct)))

\* Sector x becomes the indirect table, also when its array a was refused.
SetIndirect(r, x, a) ==
  [ok |-> a.ok, st |-> [a.st EXCEPT !.disk[x] = Table(a.ptr)],
   node |-> [r.node EXCEPT !.indirect = x]]

FillIndirect(r, t, n) ==
  IF ~t.ok THEN Fails(r)
  ELSE SetIndirect(r, t.ptr[1], Cleared(free_map_allocate_array(t.st, Ptrs, n), n))

allocate_indirect_blocks(r, sectors) ==
  FillIndirect(r, free_map_allocate_array(r.st, 1, 1), Least(sectors, Ptrs))

\* One turn of the loop over the tables: array a of data sectors, then sector t
\* for the table that lists them.  p is [ok, st, ptr], the tables so far.
LinkTable(p, a, t) ==
  IF ~t.ok THEN [p EXCEPT !.ok = FALSE, !.st = t.st]
  ELSE [ok |-> TRUE, ptr |-> Append(p.ptr, t.ptr[1]),
        st |-> [t.st EXCEPT !.disk[t.ptr[1]] = Table(a.ptr)]]

AddTable(p, a, size) ==
  IF ~a.ok THEN Fails(p)
  ELSE LinkTable(p, a, free_map_allocate_array(zero_out(a.st, size, a.ptr), 1, 1))

\* In the last turn zero_out() gets the count of all sectors.
NextTable(p, sectors, left) ==
  IF ~p.ok \/ left <= 0 THEN p
  ELSE AddTable(p, free_map_allocate_array(p.st, Ptrs, Least(left, Ptrs)),
                IF left < Ptrs THEN sectors ELSE Ptrs)

AllTables(p, sectors) ==
  LET Loop[i \in 0..Ptrs] ==
        IF i = 0 THEN p ELSE NextTable(Loop[i - 1], sectors, sectors - (i - 1) * Ptrs)
  IN Loop[Ptrs]

SetDoubly(r, x, p) ==
  IF ~p.ok THEN [Fails(r) EXCEPT !.st = p.st]
  ELSE [r EXCEPT !.st = [p.st EXCEPT !.disk[x] = Table(p.ptr \o Zeros(Ptrs - Len(p.ptr)))],
                 !.node.doubly = x]

FillDoubly(r, t, sectors) ==
  IF ~t.ok THEN Fails(r)
  ELSE SetDoubly(r, t.ptr[1], AllTables([t EXCEPT !.ptr = <<>>], sectors))

allocate_doubly_indirect_blocks(r, sectors) ==
  IF sectors >= Ptrs * (Ptrs - 1) THEN [Fails(r) EXCEPT !.st = Faulty(@, "panic", TRUE)]
  ELSE FillDoubly(r, free_map_allocate_array(r.st, 1, 1), sectors)

AfterDirect(r, n) ==
  IF ~r.ok \/ n <= Direct THEN r ELSE allocate_indirect_blocks(r, n - Direct)

AfterIndirect(r, n) ==
  IF ~r.ok \/ n <= Direct + Ptrs THEN r
  ELSE allocate_doubly_indirect_blocks(r, n - Direct - Ptrs)

allocate_blocks(s, node, sectors) ==
  IF sectors > Ptrs * Ptrs THEN [ok |-> FALSE, st |-> s, node |-> node]
  ELSE LET n == AtLeastOne(sectors)
       IN AfterIndirect(AfterDirect(
            allocate_direct_blocks([ok |-> TRUE, st |-> s, node |-> node], n), n), n)

\* The sector numbers that a sector holds, whatever it holds them for.
Words(block) ==
  CASE block.kind = "table" -> block.ptr
    [] block.kind = "inode" ->
         SubSeq(block.direct \o <<block.indirect, block.doubly>> \o Zeros(Ptrs), 1, Ptrs)
    [] OTHER -> Zeros(Ptrs)

free_doubly_indirect(s, node, sectors) ==
  LET Loop[i \in 0..Ptrs] ==
        IF i = 0 THEN s
        ELSE free_map_release_array(Loop[i - 1],
               Words(s.disk[Words(s.disk[node.doubly])[i]]),
               Least(sectors - (i - 1) * Ptrs, Ptrs))
  IN Loop[(sectors + Ptrs - 1) \div Ptrs]

free_all_sectors(s, x, sectors) ==
  LET node == s.disk[x]
      d == free_map_release_array(s, node.direct, Least(sectors, Direct))
      table == Words(s.disk[node.indirect])
  IN IF sectors <= Direct THEN d
     ELSE IF sectors <= Direct + Ptrs THEN free_map_release_array(d, table, sectors - Direct)
     ELSE free_doubly_indirect(free_map_release_array(d, table, sectors - Direct),
                               node, sectors - Direct - Ptrs)

-----------------------------------------------------------------------------
(* Reading and writing. *)

\* Mutant: the index into the indirect table is not relative to its start.
byte_to_sector_absolute(dk, x, pos) ==
  LET node == dk[x]
      i == pos \div SectorSize
      j == i - Direct - Ptrs
  IN IF i < Direct THEN node.direct[i + 1]
     ELSE IF i < Direct + Ptrs THEN Words(dk[node.indirect])[(i % Ptrs) + 1]
     ELSE Words(dk[Words(dk[node.doubly])[(j \div Ptrs) + 1]])[(j % Ptrs) + 1]

byte_to_sector(dk, x, pos) ==
  LET node == dk[x]
      i == pos \div SectorSize
      j == i - Direct - Ptrs
  IN IF pos > node.length THEN 1
     ELSE IF i < Direct THEN node.direct[i + 1]
     ELSE IF i < Direct + Ptrs THEN Words(dk[node.indirect])[i - Direct + 1]
     ELSE IF i < Ptrs * Ptrs
     THEN Words(dk[Words(dk[node.doubly])[(j \div Ptrs) + 1]])[(j % Ptrs) + 1]
     ELSE 0

ByteAt(dk, x, pos) ==
  LET b == dk[byte_to_sector(dk, x, pos)]
  IN IF b.kind = "data" THEN b.bytes[(pos % SectorSize) + 1] ELSE 0

inode_read_at(dk, x, size, offset) ==
  LET length == dk[x].length
      n == Least(Least(length, size), length - offset)
  IN IF offset >= length THEN <<>>
     ELSE [i \in 1..n |-> ByteAt(dk, x, offset + i - 1)]

\* The write loop: byte p of the file goes to the sector that holds the
\* first byte of its chunk.
WriteLoop(s, x, data, offset) ==
  LET Start(p) == IF p - (p % SectorSize) < offset THEN offset ELSE p - (p % SectorSize)
      Target(p) == byte_to_sector(s.disk, x, Start(p))
      span == offset..(offset + Len(data) - 1)
      hit == {Target(p) : p \in span}
      New(y) == [i \in 1..SectorSize |->
                   LET here == {p \in span : Target(p) = y /\ p % SectorSize = i - 1}
                   IN IF here # {} THEN data[Max(here) - offset + 1]
                      ELSE IF s.disk[y].kind = "data" THEN s.disk[y].bytes[i] ELSE 0]
  IN Faulty([s EXCEPT !.disk = [y \in Sectors |-> IF y \in hit THEN Bytes(New(y)) ELSE @[y]]],
            "clobber", \E y \in hit : s.disk[y].kind # "data")

\* What follows the allocation r when a file of old bytes is resized, or r
\* itself when it failed or the file was empty.
CopyBack(r, x, old) == IF r.ok /\ old # <<>> THEN WriteLoop(r.st, x, old, 0) ELSE r.st

\* The new inode is built in a local copy, which nothing writes back.
resize_inode(s, x, size) ==
  LET node == s.disk[x]
      sectors == bytes_to_sectors(node.length)
      freed == IF node.length = 0 THEN s ELSE free_all_sectors(s, x, sectors)
  IN CopyBack(allocate_blocks(freed, node, bytes_to_sectors(size)), x,
              inode_read_at(s.disk, x, node.length, 0))

WriteInto(s, x, data, offset) == IF s.fault = "none" THEN WriteLoop(s, x, data, offset) ELSE s

inode_write_at(s, x, data, offset) ==
  LET needs == AtLeastOne(bytes_to_sectors(offset + Len(data)))
      has == AtLeastOne(bytes_to_sectors(s.disk[x].length))
  IN WriteInto(IF needs > has THEN resize_inode(s, x, offset + Len(data)) ELSE s,
               x, data, offset)

-----------------------------------------------------------------------------
(* The calls. *)

Files == linked \cup DOMAIN inodes
IsOpen(x) == x \in DOMAIN inodes
Length(x) == disk[x].length
Openers(x) == IF IsOpen(x) THEN inodes[x].open_cnt ELSE 0

Leaves(s) == used' = s.used /\ disk' = s.disk /\ fault' = s.fault

\* cache_write() of the inode, when its blocks are there.
Saves(r, x) ==
  [ok |-> r.ok /\ r.st.fault = "none",
   st |-> IF r.ok THEN [r.st EXCEPT !.disk[x] = r.node] ELSE r.st]

inode_create(s, x, n) ==
  Saves(allocate_blocks(s, Node(Zeros(Direct), n), bytes_to_sectors(n)), x)

\* What filesys_create() leaves when the blocks c were allocated and dir_add()
\* returned added: the directory entry, or the inode's sector back and no other.
Entered(c, added, x, n) ==
  /\ linked' = IF c.ok /\ added THEN linked \cup {x} ELSE linked
  /\ lost' = IF c.ok /\ ~added THEN lost + AtLeastOne(bytes_to_sectors(n)) ELSE lost
  /\ reply' = IF c.ok /\ added THEN <<"create", x, n>> ELSE <<"none">>
  /\ UNCHANGED <<use, inodes>>

\* Mutant: a failed creation keeps the sector of the inode.
Finish_keeps(c, added, x, n) == Leaves(c.st) /\ Entered(c, added, x, n)

Finish(c, added, x, n) ==
  /\ Leaves(IF c.ok /\ added THEN c.st ELSE free_map_release_array(c.st, <<x>>, 1))
  /\ Entered(c, added, x, n)

CreateAt(one, added, n) ==
  \/ /\ ~one.ok
     /\ reply' = <<"none">>
     /\ UNCHANGED <<use, used, disk, fault, inodes, linked, lost>>
  \/ /\ one.ok
     /\ Finish(inode_create(one.st, one.ptr[1], n), added, one.ptr[1], n)

\* filesys_create(): a sector for the inode, then its blocks, then dir_add(),
\* which refuses a name that is taken.
Create(n, added) == CreateAt(free_map_allocate_array(st, 1, 1), added, n)

inode_open(x) ==
  /\ x \in linked
  /\ Openers(x) < use.max_open
  /\ inodes' = IF IsOpen(x) THEN [inodes EXCEPT ![x].open_cnt = @ + 1]
               ELSE [y \in DOMAIN inodes \cup {x} |->
                       IF y = x THEN [open_cnt |-> 1, removed |-> FALSE, deny_write_cnt |-> 0]
                       ELSE inodes[y]]
  /\ reply' = <<"none">>
  /\ UNCHANGED <<use, used, disk, fault, linked, lost>>

\* What inode_close() does for the last opener of a removed inode.  The sector of
\* a file of length 0 is not given back.
Dispose(x) ==
  LET one == free_map_release_array(st, <<x>>, 1)
  IN  /\ Leaves(free_all_sectors(one, x, bytes_to_sectors(Length(x))))
      /\ lost' = IF Length(x) = 0 THEN lost + 1 ELSE lost

inode_close(x) ==
  /\ IsOpen(x)
  /\ inodes[x].open_cnt > inodes[x].deny_write_cnt   \* not the running program's own
  /\ IF inodes[x].open_cnt > 1
     THEN /\ inodes' = [inodes EXCEPT ![x].open_cnt = @ - 1]
          /\ UNCHANGED <<used, disk, fault, lost>>
     ELSE /\ inodes' = [y \in DOMAIN inodes \ {x} |-> inodes[y]]
          /\ IF inodes[x].removed THEN Dispose(x) ELSE UNCHANGED <<used, disk, fault, lost>>
  /\ reply' = <<"none">>
  /\ UNCHANGED <<use, linked>>

\* Mutant: removal frees the blocks although the file is still open.
inode_remove_early(x) ==
  /\ x \in linked
  /\ linked' = linked \ {x}
  /\ inodes' = [y \in DOMAIN inodes |-> [inodes[y] EXCEPT !.removed = @ \/ y = x]]
  /\ Dispose(x)
  /\ UNCHANGED use
  /\ reply' = <<"none">>

\* dir_remove(): the entry goes, and the inode it opened is marked and closed.
inode_remove(x) ==
  /\ x \in linked
  /\ linked' = linked \ {x}
  /\ IF IsOpen(x)
     THEN /\ inodes' = [inodes EXCEPT ![x].removed = TRUE]
          /\ UNCHANGED <<used, disk, fault, lost>>
     ELSE Dispose(x) /\ UNCHANGED inodes
  /\ UNCHANGED use
  /\ reply' = <<"none">>

\* load() opens the program and denies writes until process_exit() closes it.
inode_deny_write(x) ==
  /\ x \in linked
  /\ Openers(x) < use.max_open
  /\ inodes' = IF IsOpen(x)
               THEN [inodes EXCEPT ![x].open_cnt = @ + 1, ![x].deny_write_cnt = @ + 1]
               ELSE [y \in DOMAIN inodes \cup {x} |->
                       IF y = x THEN [open_cnt |-> 1, removed |-> FALSE, deny_write_cnt |-> 1]
                       ELSE inodes[y]]
  /\ reply' = <<"none">>
  /\ UNCHANGED <<use, used, disk, fault, linked, lost>>

inode_allow_write(x) ==
  /\ IsOpen(x)
  /\ inodes[x].deny_write_cnt > 0
  /\ IF inodes[x].open_cnt > 1
     THEN /\ inodes' = [inodes EXCEPT ![x].open_cnt = @ - 1, ![x].deny_write_cnt = @ - 1]
          /\ UNCHANGED <<used, disk, fault, lost>>
     ELSE /\ inodes' = [y \in DOMAIN inodes \ {x} |-> inodes[y]]
          /\ IF inodes[x].removed THEN Dispose(x) ELSE UNCHANGED <<used, disk, fault, lost>>
  /\ reply' = <<"none">>
  /\ UNCHANGED <<use, linked>>

Write(x, data, offset) ==
  /\ IsOpen(x)
  /\ use.grow \/ offset + Len(data) <= Length(x)
  /\ IF inodes[x].deny_write_cnt > 0
     THEN /\ reply' = <<"write", x, offset, data, 0>>
          /\ UNCHANGED <<used, disk, fault>>
     ELSE /\ Leaves(inode_write_at(st, x, data, offset))
          /\ reply' = <<"write", x, offset, data, Len(data)>>
  /\ UNCHANGED <<use, inodes, linked, lost>>

Read(x, size, offset) ==
  /\ IsOpen(x)
  /\ reply' = <<"read", x, offset, inode_read_at(disk, x, size, offset)>>
  /\ UNCHANGED <<use, used, disk, fault, inodes, linked, lost>>

\* After do_format(): the free map and the root directory have one sector each.
Init ==
  /\ use \in Uses
  /\ used = 0..3
  /\ disk = [x \in Sectors |->
       CASE x = FREE_MAP_SECTOR -> Node(<<2>> \o Zeros(Direct - 1), SectorSize)
         [] x = ROOT_DIR_SECTOR -> Node(<<3>> \o Zeros(Direct - 1), SectorSize)
         [] OTHER -> Bytes(Zeros(SectorSize))]
  /\ fault = "none"
  /\ inodes = [x \in {} |-> 0]
  /\ linked = {} /\ lost = 0
  /\ reply = <<"none">>

Next ==
  /\ fault = "none"
  /\ \/ \E n \in use.lengths, added \in BOOLEAN : Create(n, added)
     \/ \E x \in Files :
          \/ inode_open(x) \/ inode_close(x) \/ inode_remove(x)
          \/ inode_deny_write(x) \/ inode_allow_write(x)
          \/ \E o \in use.offsets :
               \/ \E data \in Payloads : Write(x, data, o)
               \/ \E n \in use.sizes : Read(x, n, o)

Spec == Init /\ [][Next]_vars

-----------------------------------------------------------------------------
(* Properties. *)

\* The free map covers whole sectors, every inode that a directory entry or an
\* opener names is an inode on disk, and the counters of an open inode satisfy
\* the assertions of inode_deny_write() and inode_allow_write().
TypeOK ==
  /\ used \subseteq Sectors
  /\ fault \in {"none", "panic", "overrun", "clobber"}
  /\ fault = "none" => \A x \in Files : disk[x].kind = "inode" /\ Length(x) \in use.lengths
  /\ \A x \in DOMAIN inodes :
       /\ inodes[x].open_cnt \in 1..use.max_open
       /\ inodes[x].deny_write_cnt \in 0..inodes[x].open_cnt
       /\ inodes[x].removed = (x \notin linked)

\* Sectors an inode refers to: itself, its data and its tables.
Owned(x) ==
  LET node == disk[x]
      n == AtLeastOne(bytes_to_sectors(node.length))
      j == n - Direct - Ptrs
      tables == IF j <= 0 THEN {} ELSE
                {Words(disk[node.doubly])[i] : i \in 1..((j + Ptrs - 1) \div Ptrs)}
  IN {x} \cup {byte_to_sector(disk, x, Least(i * SectorSize, node.length)) : i \in 0..(n - 1)}
         \cup (IF n > Direct THEN {node.indirect} ELSE {})
         \cup (IF j > 0 THEN {node.doubly} \cup tables ELSE {})

Reserved == {FREE_MAP_SECTOR, ROOT_DIR_SECTOR}

\* Every variable has its type, and no sector belongs to two files, nor is one
\* that belongs to a file free: what free_map_allocate() hands out stays its
\* owner's until inode_close() gives it back.
SectorsDisjoint ==
  /\ TypeOK
  /\ fault = "none" =>
       /\ \A x \in Files \cup Reserved : Owned(x) \subseteq used
       /\ \A x, y \in Files \cup Reserved : x # y => Owned(x) \cap Owned(y) = {}

\* All files have direct sectors only.
DirectOnly == \A n \in use.lengths : n <= Direct * SectorSize

\* While files have direct sectors only, every marked sector belongs to a file,
\* or is one of those that filesys_create() loses when dir_add() refuses the
\* name, all but the inode's, and inode_close() with a file of length 0, one:
\* any other file that is gone has given back all its sectors, once, and so has
\* a create that ran out of sectors.  No assertion of the free map fails, no
\* array is overrun and no inode is written over with the bytes of a file.
SectorsAccounted ==
  DirectOnly =>
    LET owned == UNION {Owned(x) : x \in Files \cup Reserved}
    IN  fault = "none" /\ owned \subseteq used /\ Cardinality(used \ owned) = lost

\* A file is as long as the write that just returned says it made it.
WriteExtends ==
  (fault = "none" /\ reply[1] = "write" /\ reply[5] > 0) =>
    Length(reply[2]) >= reply[3] + reply[5]

AllSectors == UNION {0..(u.sectors - 1) : u \in Uses}
Store ==
  INSTANCE FileStore WITH
    Names <- AllSectors,
    Lengths <- UNION {u.lengths : u \in Uses},
    Offsets <- UNION {u.offsets : u \in Uses},
    Sizes <- UNION {u.sizes : u \in Uses},
    file <- [x \in AllSectors |->
               IF x \notin Files THEN NoFile
               ELSE inode_read_at(disk, x, Length(x), 0)]

\* inode.c implements FileStore while no write passes the end of its file: every
\* file is a sequence of bytes of its own, which only its writes change, and
\* every read returns it.
InodesAreFiles == Store!Spec
=============================================================================
