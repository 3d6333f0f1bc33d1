------------------------------- MODULE Malloc -------------------------------
(***************************************************************************)
(* threads/malloc.c: blocks carved from pages.  A heap is                  *)
(*   [used_map, arenas, free_lists]                                        *)
(* with the bitmap of the kernel pool, the arena at the start of a page or *)
(* NoArena, and the free list of every block size.  A call runs under its  *)
(* descriptor's lock and is one step; the page allocator's own             *)
(* interleavings are in Palloc.                                            *)
(***************************************************************************)
EXTENDS Naturals, Sequences, FiniteSets, SequencesExt, Bitmap

CONSTANTS
  PGSIZE,      \* 4096 in the code
  ARENA,       \* sizeof (struct arena), 12
  MIN_BLOCK,   \* the smallest block_size, 16
  PoolPages,   \* pages in the kernel pool
  SIZE_T,      \* one more than the largest size_t, 2^32 in the code
  Sizes,       \* sizes that are asked for
  Factors,     \* pairs that calloc() is called with
  MaxLive      \* bound on the blocks in use

ASSUME MallocAssumption ==
  /\ {PGSIZE, MIN_BLOCK, PoolPages} \subseteq Nat \ {0}
  /\ ARENA \in 1 .. PGSIZE - 1 /\ Sizes \subseteq Nat /\ MaxLive \in Nat
  /\ SIZE_T \in Nat \ {0} /\ Factors \subseteq Nat \X Nat

VARIABLES
  heap,
  live    \* the blocks [addr, size] that callers have, size being what malloc() was
          \* asked for

heapVars == <<heap, live>>

NULL_BLOCK == 0
NoArena == [desc |-> 0, free_cnt |-> 0]

\* malloc_init(): a descriptor is known by its block_size.
descs == {MIN_BLOCK * 2 ^ k : k \in {k \in 0 .. PGSIZE : MIN_BLOCK * 2 ^ k < PGSIZE \div 2}}
blocks_per_arena(d) == (PGSIZE - ARENA) \div d

pg_round_down(addr) == addr \div PGSIZE
pg_ofs(addr) == addr % PGSIZE

arena_to_block(page, d, idx) == page * PGSIZE + ARENA + idx * d
ArenaBlocks(page, d) == [i \in 1 .. blocks_per_arena(d) |-> arena_to_block(page, d, i - 1)]

block_to_arena(h, b) == h.arenas[pg_round_down(b)]

\* palloc_get_multiple(0, cnt).  Page i of the pool is page i + 1, so that no
\* block is at address 0.
FirstFree(h, cnt) == bitmap_scan(h.used_map, 0, cnt, FALSE)
GetPages(h, cnt, arena) ==
  [h EXCEPT !.used_map = bitmap_scan_and_flip(@, 0, cnt, FALSE),
            !.arenas[FirstFree(h, cnt) + 1] = arena]
FreePages(h, page, cnt) ==
  [h EXCEPT !.used_map = bitmap_set_multiple(@, page - 1, cnt, FALSE), !.arenas[page] = NoArena]

Result(h, b) == [heap |-> h, block |-> b]

\* An arena with a null desc, in front of the block.
BigBlock(h, cnt) ==
  IF FirstFree(h, cnt) = BITMAP_ERROR THEN Result(h, NULL_BLOCK)
  ELSE Result(GetPages(h, cnt, [desc |-> 0, free_cnt |-> cnt]),
              (FirstFree(h, cnt) + 1) * PGSIZE + ARENA)

PopBlock(h, d, b) ==
  Result([h EXCEPT !.free_lists[d] = Tail(@), !.arenas[pg_round_down(b)].free_cnt = @ - 1], b)

NewArena(h, d) ==
  [GetPages(h, 1, [desc |-> d, free_cnt |-> blocks_per_arena(d)])
     EXCEPT !.free_lists[d] = @ \o ArenaBlocks(FirstFree(h, 1) + 1, d)]

PopFrom(h, d) == PopBlock(h, d, Head(h.free_lists[d]))

SmallBlock(h, d) ==
  IF h.free_lists[d] # <<>> THEN PopFrom(h, d)
  ELSE IF FirstFree(h, 1) = BITMAP_ERROR THEN Result(h, NULL_BLOCK)
  ELSE PopFrom(NewArena(h, d), d)

malloc(h, size) ==
  LET fits == {d \in descs : d >= size}
  IN  CASE size = 0 -> Result(h, NULL_BLOCK)
        [] size > 0 /\ fits = {} -> BigBlock(h, (size + ARENA + PGSIZE - 1) \div PGSIZE)
        [] OTHER -> SmallBlock(h, CHOOSE d \in fits : \A e \in fits : d <= e)

block_size(h, b) ==
  LET a == block_to_arena(h, b)
  IN  IF a.desc # 0 THEN a.desc ELSE PGSIZE * a.free_cnt - pg_ofs(b)

\* The end of free() for a block whose arena has now free_cnt free ones.
ReleaseArena(h, page, d) ==
  FreePages([h EXCEPT !.free_lists[d] =
               SelectSeq(@, LAMBDA b : b \notin ToSet(ArenaBlocks(page, d)))],
            page, 1)

PushBlock(h, b, page, d) ==
  [h EXCEPT !.free_lists[d] = <<b>> \o @, !.arenas[page].free_cnt = @ + 1]

\* A free() that gives the page back and leaves its blocks in the free list.
MaybeRelease_keeps(h, page, d) ==
  IF h.arenas[page].free_cnt >= blocks_per_arena(d) THEN FreePages(h, page, 1) ELSE h

MaybeRelease(h, page, d) ==
  IF h.arenas[page].free_cnt >= blocks_per_arena(d) THEN ReleaseArena(h, page, d) ELSE h

free(h, b) ==
  LET a == block_to_arena(h, b)
      page == pg_round_down(b)
  IN  CASE b = NULL_BLOCK -> h
        [] b # NULL_BLOCK /\ a.desc # 0 -> MaybeRelease(PushBlock(h, b, page, a.desc), page, a.desc)
        [] OTHER -> FreePages(h, page, a.free_cnt)

(* The callers *)

HeapInit ==
  /\ heap = [used_map |-> bitmap_create(PoolPages),
             arenas |-> [page \in 1 .. PoolPages |-> NoArena],
             free_lists |-> [d \in descs |-> <<>>]]
  /\ live = {}

Given(r, size, others) ==
  /\ heap' = r.heap
  /\ live' = IF r.block = NULL_BLOCK THEN others ELSE others \cup {[addr |-> r.block, size |-> size]}

Alloc(size) == Cardinality(live) < MaxLive /\ Given(malloc(heap, size), size, live)

\* calloc() multiplies in a size_t.  It refuses a product that wraps to less than
\* a or b, and no other: with a 64 for SIZE_T, 13 * 17 gets 29 bytes.
calloc(a, b) ==
  LET size == (a * b) % SIZE_T
  IN  /\ Cardinality(live) < MaxLive
      /\ IF size < a \/ size < b THEN UNCHANGED heapVars
         ELSE Given(malloc(heap, size), size, live)

FreeBlock(b) == heap' = free(heap, b.addr) /\ live' = live \ {b}

\* realloc() copies the smaller of the two sizes and frees the old block, unless
\* there is no memory for the new one.
realloc_to(r, b, size) ==
  IF r.block = NULL_BLOCK THEN UNCHANGED heapVars
  ELSE Given(Result(free(r.heap, b.addr), r.block), size, live \ {b})
realloc(b, size) ==
  IF size = 0 THEN FreeBlock(b) ELSE realloc_to(malloc(heap, size), b, size)

HeapNext ==
  \/ \E size \in Sizes : Alloc(size)
  \/ \E f \in Factors : calloc(f[1], f[2])
  \/ \E b \in live : FreeBlock(b)
  \/ \E b \in live, size \in Sizes : realloc(b, size)

HeapSpec == HeapInit /\ [][HeapNext]_heapVars

Bytes(b) == b.addr .. b.addr + b.size - 1
PagesOf(b) == {byte \div PGSIZE : byte \in Bytes(b)}
FreeBlocks(d) == {[addr |-> heap.free_lists[d][i], size |-> d] : i \in 1 .. Len(heap.free_lists[d])}

\* malloc() gives every caller its own memory and loses none: blocks in use and
\* free blocks, of all sizes, share no byte, with each other or with an arena; a
\* block in use has the bytes malloc() was asked for, in pages taken from the
\* pool, and block_size(), which realloc() copies by, says no less; an arena
\* counts its free blocks; and a page without a block in use is back in the pool.
HeapSound ==
  /\ \A b, c \in live : b # c => Bytes(b) \cap Bytes(c) = {}
  /\ \A d \in descs :
       /\ Cardinality(FreeBlocks(d)) = Len(heap.free_lists[d])
       /\ \A f \in FreeBlocks(d) :
            /\ \A b \in live : Bytes(b) \cap Bytes(f) = {}
            /\ \A c \in descs : \A g \in FreeBlocks(c) : f # g => Bytes(f) \cap Bytes(g) = {}
            /\ pg_ofs(f.addr) >= ARENA
            /\ \E b \in live : pg_round_down(b.addr) = pg_round_down(f.addr)
  /\ \A b \in live :
       /\ block_size(heap, b.addr) >= b.size /\ pg_ofs(b.addr) >= ARENA
       /\ \A page \in PagesOf(b) : bitmap_test(heap.used_map, page - 1)
  /\ \A page \in 1 .. PoolPages :
       LET a == heap.arenas[page]
       IN  /\ bitmap_test(heap.used_map, page - 1) => \E b \in live : page \in PagesOf(b)
           /\ a.desc # 0 => a.free_cnt =
                Cardinality({f \in FreeBlocks(a.desc) : pg_round_down(f.addr) = page})
=============================================================================
