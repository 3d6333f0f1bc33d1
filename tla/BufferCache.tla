---------------------------- MODULE BufferCache ----------------------------
(***************************************************************************)
(* filesys/cache.c: a write-back cache of CACHE_SIZE sectors.  LRU_lock is *)
(* held to find a block and until its block_lock is taken; the transfer to *)
(* and from the disk happens under block_lock alone.  A lock is taken and  *)
(* given back in one step, as in LockSpec.                                 *)
(*                                                                         *)
(* Callers are the threads inside the file system; file_lock makes most of *)
(* them wait for each other (file_lock), but load(), chdir and the close   *)
(* of a dying process's files do not take it.  Flusher is the thread that  *)
(* powers the machine off: filesys_done() calls cache_flush().             *)
(***************************************************************************)
EXTENDS Naturals, Sequences

CONSTANTS
  Threads,     \* callers of cache_read() and cache_write()
  Flusher,     \* the caller of cache_flush()
  NoThread,    \* the holder of a free lock
  CACHE_SIZE,  \* blocks in the cache
  SectorCount, \* sectors on fs_device
  Data,        \* contents of a sector
  Blank,       \* the contents of every sector at first
  Uses         \* the uses made of the cache: records of file_lock, whether
               \* callers hold it, the sectors they use and the data they write

ASSUME CacheAssumption ==
  /\ CACHE_SIZE \in Nat \ {0}
  /\ SectorCount \in Nat \ {0}
  /\ Blank \in Data
  /\ Flusher \notin Threads
  /\ NoThread \notin Threads \cup {Flusher}
  /\ Uses \subseteq [file_lock : BOOLEAN, sectors : SUBSET (0 .. SectorCount - 1),
                      data : SUBSET Data]

CacheBlocks == 0 .. CACHE_SIZE - 1
Sectors == 0 .. SectorCount - 1
Holder == Threads \cup {Flusher, NoThread}

VARIABLES
  use,         \* which of Uses this machine makes
  disk,        \* disk[s], the contents of fs_device
  sector_tag,  \* sector_tag[b], struct cache_block
  sector,      \* sector[b], the cached contents
  dirty_bit,   \* dirty_bit[b]
  LRU_list,    \* blocks in use, most recently used first
  LRU_lock,    \* its holder
  block_lock,  \* block_lock[b], its holder
  pc,          \* pc[t], where the call of t is
  op,          \* op[t], "read" or "write"
  want,        \* want[t], the parameter sector
  buffer,      \* buffer[t], what the parameter buffer holds
  block,       \* block[t], the local block, or cache_flush()'s index i
  how,         \* how[t], the branch that found the block
  old_sector,  \* old_sector[t]
  last,        \* history: the last contents copied into each sector
  recent,      \* history: the sectors looked up, most recent first
  stable,      \* history: the sectors not written since cache_flush() began
  raced        \* history: a sector was looked up before its evicted contents
               \* had been written back

diskVars == <<disk, sector_tag, sector, dirty_bit>>
lockVars == <<LRU_list, LRU_lock, block_lock>>
callVars == <<op, want, block, how, old_sector>>
histVars == <<last, recent, stable, raced>>
vars == <<use, diskVars, lockVars, pc, callVars, buffer, histVars>>

TypeOK ==
  /\ use \in Uses
  /\ disk \in [Sectors -> Data]
  /\ sector_tag \in [CacheBlocks -> Sectors]
  /\ sector \in [CacheBlocks -> Data]
  /\ dirty_bit \in [CacheBlocks -> BOOLEAN]
  /\ LRU_list \in Seq(CacheBlocks)
  /\ LRU_lock \in Holder
  /\ block_lock \in [CacheBlocks -> Holder]
  /\ pc \in [Threads \cup {Flusher} ->
               {"idle", "lookup", "lock", "writeback", "fetch", "copy",
                "flush", "flush_lock", "flush_write", "off"}]
  /\ op \in [Threads -> {"read", "write"}]
  /\ want \in [Threads -> Sectors]
  /\ buffer \in [Threads -> Data]
  /\ block \in [Threads \cup {Flusher} -> 0 .. CACHE_SIZE]
  /\ how \in [Threads -> {"hit", "fresh", "evict"}]
  /\ old_sector \in [Threads -> Sectors]
  /\ last \in [Sectors -> Data]
  /\ stable \subseteq Sectors
  /\ raced \in BOOLEAN

\* After cache_init(), with a formatted disk and blocks[] in the zeroed bss.
Init ==
  /\ use \in Uses
  /\ disk = [s \in Sectors |-> Blank]
  /\ sector_tag = [b \in CacheBlocks |-> 0]
  /\ sector = [b \in CacheBlocks |-> Blank]
  /\ dirty_bit = [b \in CacheBlocks |-> FALSE]
  /\ LRU_list = <<>>
  /\ LRU_lock = NoThread
  /\ block_lock = [b \in CacheBlocks |-> NoThread]
  /\ pc = [t \in Threads \cup {Flusher} |-> "idle"]
  /\ op = [t \in Threads |-> "read"]
  /\ want = [t \in Threads |-> 0]
  /\ buffer = [t \in Threads |-> Blank]
  /\ block = [t \in Threads \cup {Flusher} |-> 0]
  /\ how = [t \in Threads |-> "hit"]
  /\ old_sector = [t \in Threads |-> 0]
  /\ last = disk
  /\ recent = <<>>
  /\ stable = {}
  /\ raced = FALSE

On == pc[Flusher] # "off"
Goto(t, label) == pc' = [pc EXCEPT ![t] = label]
Callers == {t \in Threads : pc[t] # "idle"}

\* Element x is taken out of the list, if it is there, and put at the front.
ToFront(x, queue) ==
  LET n == CHOOSE i \in 1 .. Len(queue) : queue[i] = x
  IN  IF \E i \in 1 .. Len(queue) : queue[i] = x
      THEN <<x>> \o SubSeq(queue, 1, n - 1) \o SubSeq(queue, n + 1, Len(queue))
      ELSE <<x>> \o queue

\* lock_release (&block->block_lock) and return: the locals go out of scope.
Return(t) ==
  /\ block_lock' = [block_lock EXCEPT ![block[t]] = NoThread]
  /\ op' = [op EXCEPT ![t] = "read"]
  /\ want' = [want EXCEPT ![t] = 0]
  /\ block' = [block EXCEPT ![t] = 0]
  /\ how' = [how EXCEPT ![t] = "hit"]
  /\ old_sector' = [old_sector EXCEPT ![t] = 0]
  /\ Goto(t, "idle")
-----------------------------------------------------------------------------
(* cache_read() and cache_write() *)

Call(t, o, s, d) ==
  /\ On /\ pc[t] = "idle"
  /\ use.file_lock => Callers = {}
  /\ s \in use.sectors
  /\ IF o = "read" THEN d = Blank ELSE d \in use.data
  /\ op' = [op EXCEPT ![t] = o]
  /\ want' = [want EXCEPT ![t] = s]
  /\ buffer' = [buffer EXCEPT ![t] = d]
  /\ Goto(t, "lookup")
  /\ UNCHANGED <<use, diskVars, lockVars, block, how, old_sector, histVars>>

\* The blocks that the search loop would stop at: those below list_size().
Hits(s) == {b \in 0 .. Len(LRU_list) - 1 : sector_tag[b] = s}

\* lock_acquire (&LRU_lock), the choice of block b and its move to the front.
Found(t, b, branch) ==
  /\ LRU_lock' = t
  /\ LRU_list' = ToFront(b, LRU_list)
  /\ block' = [block EXCEPT ![t] = b]
  /\ how' = [how EXCEPT ![t] = branch]
  /\ recent' = ToFront(want[t], recent)
  /\ raced' = (raced \/ \E u \in Threads : pc[u] = "writeback" /\ old_sector[u] = want[t])
  /\ Goto(t, "lock")
  /\ UNCHANGED <<use, disk, sector, block_lock, op, want, old_sector, buffer, last, stable>>

LookupHit(t) ==
  /\ On /\ pc[t] = "lookup" /\ LRU_lock = NoThread
  /\ \E b \in Hits(want[t]) :
       /\ \A c \in Hits(want[t]) : b <= c
       /\ Found(t, b, "hit")
  /\ UNCHANGED <<sector_tag, dirty_bit>>

LookupFresh(t) ==
  /\ On /\ pc[t] = "lookup" /\ LRU_lock = NoThread
  /\ Hits(want[t]) = {} /\ Len(LRU_list) < CACHE_SIZE
  /\ LET b == Len(LRU_list)
     IN  /\ dirty_bit' = [dirty_bit EXCEPT ![b] = (op[t] = "write")]
         /\ sector_tag' = [sector_tag EXCEPT ![b] = want[t]]
         /\ Found(t, b, "fresh")

\* Evicting the most recently used block.
LookupEvict_front(t) ==
  /\ On /\ pc[t] = "lookup" /\ LRU_lock = NoThread
  /\ Hits(want[t]) = {} /\ Len(LRU_list) = CACHE_SIZE
  /\ Found(t, Head(LRU_list), "evict")
  /\ UNCHANGED <<sector_tag, dirty_bit>>

LookupEvict(t) ==
  /\ On /\ pc[t] = "lookup" /\ LRU_lock = NoThread
  /\ Hits(want[t]) = {} /\ Len(LRU_list) = CACHE_SIZE
  /\ Found(t, LRU_list[Len(LRU_list)], "evict")
  /\ UNCHANGED <<sector_tag, dirty_bit>>

\* Where a caller goes once the block's old contents are safe.
Transfer(t) == IF op[t] = "read" THEN "fetch" ELSE "copy"

\* lock_acquire (&block->block_lock) to lock_release (&LRU_lock), and the
\* test of dirty_bit, which only the holder of block_lock may now change.
LockBlock(t) ==
  LET b == block[t]
  IN  /\ On /\ pc[t] = "lock" /\ block_lock[b] = NoThread
      /\ block_lock' = [block_lock EXCEPT ![b] = t]
      /\ LRU_lock' = NoThread
      /\ IF how[t] = "evict"
         THEN /\ old_sector' = [old_sector EXCEPT ![t] = sector_tag[b]]
              /\ sector_tag' = [sector_tag EXCEPT ![b] = want[t]]
         ELSE UNCHANGED <<old_sector, sector_tag>>
      /\ Goto(t, CASE how[t] = "hit" -> "copy"
                   [] how[t] = "evict" /\ dirty_bit[b] -> "writeback"
                   [] OTHER -> Transfer(t))
      /\ UNCHANGED <<use, disk, sector, dirty_bit, LRU_list, op, want, buffer, block, how, histVars>>

WriteBack(t) ==
  /\ On /\ pc[t] = "writeback"
  /\ disk' = [disk EXCEPT ![old_sector[t]] = sector[block[t]]]
  /\ dirty_bit' = [dirty_bit EXCEPT ![block[t]] = @ /\ op[t] = "write"]
  /\ Goto(t, Transfer(t))
  /\ UNCHANGED <<use, sector_tag, sector, lockVars, callVars, buffer, histVars>>

\* Fetching the sector that was evicted.
Fetch_old(t) ==
  /\ On /\ pc[t] = "fetch"
  /\ sector' = [sector EXCEPT ![block[t]] = disk[old_sector[t]]]
  /\ Goto(t, "copy")
  /\ UNCHANGED <<use, disk, sector_tag, dirty_bit, lockVars, callVars, buffer, histVars>>

Fetch(t) ==
  /\ On /\ pc[t] = "fetch"
  /\ sector' = [sector EXCEPT ![block[t]] = disk[want[t]]]
  /\ Goto(t, "copy")
  /\ UNCHANGED <<use, disk, sector_tag, dirty_bit, lockVars, callVars, buffer, histVars>>

\* A read that returns with the block locked.
CopyOut_keeps(t) ==
  /\ On /\ pc[t] = "copy" /\ op[t] = "read"
  /\ buffer' = [buffer EXCEPT ![t] = sector[block[t]]]
  /\ Goto(t, "idle")
  /\ UNCHANGED <<use, diskVars, lockVars, callVars, histVars>>

CopyOut(t) ==
  /\ On /\ pc[t] = "copy" /\ op[t] = "read"
  /\ buffer' = [buffer EXCEPT ![t] = sector[block[t]]]
  /\ Return(t)
  /\ UNCHANGED <<use, diskVars, LRU_list, LRU_lock, histVars>>

\* A write to a cached sector that leaves the block clean.
CopyIn_clean(t) ==
  /\ On /\ pc[t] = "copy" /\ op[t] = "write"
  /\ sector' = [sector EXCEPT ![block[t]] = buffer[t]]
  /\ last' = [last EXCEPT ![want[t]] = buffer[t]]
  /\ stable' = stable \ {want[t]}
  /\ Return(t)
  /\ UNCHANGED <<use, disk, sector_tag, dirty_bit, LRU_list, LRU_lock, buffer, recent, raced>>

CopyIn(t) ==
  /\ On /\ pc[t] = "copy" /\ op[t] = "write"
  /\ dirty_bit' = [dirty_bit EXCEPT ![block[t]] = TRUE]
  /\ sector' = [sector EXCEPT ![block[t]] = buffer[t]]
  /\ last' = [last EXCEPT ![want[t]] = buffer[t]]
  /\ stable' = stable \ {want[t]}
  /\ Return(t)
  /\ UNCHANGED <<use, disk, sector_tag, LRU_list, LRU_lock, buffer, recent, raced>>
-----------------------------------------------------------------------------
(* cache_flush(), and the end of the machine's power *)

FlushStart ==
  /\ pc[Flusher] = "idle" /\ LRU_lock = NoThread
  /\ LRU_lock' = Flusher
  /\ block' = [block EXCEPT ![Flusher] = 0]
  /\ stable' = Sectors
  /\ Goto(Flusher, "flush")
  /\ UNCHANGED <<use, diskVars, LRU_list, block_lock, op, want, how, old_sector, buffer,
                 last, recent, raced>>

\* The test of dirty_bit, made without block_lock.
FlushTest ==
  LET i == block[Flusher]
  IN  /\ pc[Flusher] = "flush" /\ i < Len(LRU_list)
      /\ IF dirty_bit[i]
         THEN Goto(Flusher, "flush_lock") /\ UNCHANGED block
         ELSE block' = [block EXCEPT ![Flusher] = i + 1] /\ UNCHANGED pc
      /\ UNCHANGED <<use, diskVars, lockVars, op, want, how, old_sector, buffer, histVars>>

FlushLock ==
  LET i == block[Flusher]
  IN  /\ pc[Flusher] = "flush_lock" /\ block_lock[i] = NoThread
      /\ block_lock' = [block_lock EXCEPT ![i] = Flusher]
      /\ Goto(Flusher, "flush_write")
      /\ UNCHANGED <<use, diskVars, LRU_list, LRU_lock, callVars, buffer, histVars>>

FlushWrite ==
  LET i == block[Flusher]
  IN  /\ pc[Flusher] = "flush_write"
      /\ disk' = [disk EXCEPT ![sector_tag[i]] = sector[i]]
      /\ dirty_bit' = [dirty_bit EXCEPT ![i] = FALSE]
      /\ block_lock' = [block_lock EXCEPT ![i] = NoThread]
      /\ block' = [block EXCEPT ![Flusher] = i + 1]
      /\ Goto(Flusher, "flush")
      /\ UNCHANGED <<use, sector_tag, sector, LRU_list, LRU_lock, op, want, how, old_sector,
                     buffer, histVars>>

FlushEnd ==
  /\ pc[Flusher] = "flush" /\ block[Flusher] = Len(LRU_list)
  /\ LRU_lock' = NoThread
  /\ Goto(Flusher, "off")
  /\ UNCHANGED <<use, diskVars, LRU_list, block_lock, callVars, buffer, histVars>>

Off == ~On /\ UNCHANGED vars
-----------------------------------------------------------------------------
Step(t) ==
  \/ LookupHit(t) \/ LookupFresh(t) \/ LookupEvict(t) \/ LockBlock(t)
  \/ WriteBack(t) \/ Fetch(t) \/ CopyOut(t) \/ CopyIn(t)

Flush == FlushStart \/ FlushTest \/ FlushLock \/ FlushWrite \/ FlushEnd

Next ==
  \/ \E t \in Threads :
       \/ \E o \in {"read", "write"}, s \in Sectors, d \in Data : Call(t, o, s, d)
       \/ Step(t)
  \/ Flush
  \/ Off

Spec == Init /\ [][Next]_vars
-----------------------------------------------------------------------------
\* A read returns the last contents written to its sector: when cache_read()
\* is about to copy the block out, the block holds them.
ReadsLatest ==
  \A t \in Threads :
    pc[t] = "copy" /\ op[t] = "read" => sector[block[t]] = last[want[t]]

\* Every variable has its type.  The search loop finds a sector in at most one
\* block, and LRU_list holds exactly the blocks in use, once each, although tags
\* change while LRU_lock has already passed to another caller.  The cache holds
\* the sectors used last, in that order, whenever another caller can look.
LRUOrder ==
  /\ TypeOK
  /\ \A b \in CacheBlocks : b < Len(LRU_list) <=> \E i \in 1 .. Len(LRU_list) : LRU_list[i] = b
  /\ \A s \in Sectors : \A b, c \in Hits(s) : b = c
  /\ LRU_lock \in {NoThread, Flusher} =>
       \A i \in 1 .. Len(LRU_list) : sector_tag[LRU_list[i]] = recent[i]

\* Nobody has looked a sector up between its eviction and its write-back, or
\* callers hold file_lock, which keeps anyone from doing so.
Orderly == use.file_lock \/ ~raced

\* When cache_flush() has returned and the power goes off, the disk holds
\* every sector's last contents, except for writes made during the flush and
\* unless callers raced an eviction.
FlushSaves == ~On /\ Orderly => \A s \in stable : disk[s] = last[s]

\* Nobody waits in a circle: the holder of LRU_lock waits for a block_lock
\* only, and the holder of a block_lock waits for nothing but the disk.
LockOrder ==
  /\ \A b \in CacheBlocks : block_lock[b] # NoThread =>
       pc[block_lock[b]] \in {"writeback", "fetch", "copy", "flush_write"}
  /\ LRU_lock # NoThread => pc[LRU_lock] \in {"lock", "flush", "flush_lock", "flush_write"}

\* The call that each thread is in, for BlockStore.
Pending == [t \in Threads |-> IF pc[t] = "idle" THEN <<>> ELSE <<op[t], want[t]>>]

Store == INSTANCE BlockStore WITH store <- last, request <- Pending

\* As long as callers hold file_lock, or do not race an eviction, the cache
\* implements the array of sectors of BlockStore.
CacheIsStore ==
  Store!Init /\ [][Orderly' => Store!Next]_<<last, Pending, buffer>>
=============================================================================
