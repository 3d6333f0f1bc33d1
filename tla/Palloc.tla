------------------------------- MODULE Palloc -------------------------------
(***************************************************************************)
(* threads/palloc.c: the kernel pool and the user pool of pages, each a    *)
(* bitmap and a lock.  palloc_get_multiple() scans and sets the bitmap     *)
(* under the lock, palloc_free_multiple() resets it without, and a thread  *)
(* can be preempted between any two bits.                                  *)
(***************************************************************************)
EXTENDS Naturals, FiniteSets, Bitmap

CONSTANTS
  PageThreads,      \* threads
  FREE_PAGES,       \* pages of memory from 1 MB to the end of RAM
  user_page_limit,
  BITMAP_PAGES,     \* pages that a pool's bitmap takes, 1 up to 128 MB
  MaxCount,         \* bound on page_cnt
  MaxGroups,        \* bound on the groups of pages a thread holds
  NoOne

Pools == {"kernel_pool", "user_pool"}

ASSUME PallocAssumption ==
  /\ {FREE_PAGES, user_page_limit, MaxCount, MaxGroups} \subseteq Nat
  /\ BITMAP_PAGES \in Nat \ {0} /\ NoOne \notin PageThreads

VARIABLES
  used_map,   \* used_map[p], the bitmap of pool p
  pool_lock,  \* pool_lock[p], the thread that holds it, or NoOne
  palloc_pc,  \* palloc_pc[t]: where t is
  request,    \* request[t]: [pool, cnt, idx, k], what t asks for or frees
  held        \* held[t]: the groups <<first page, cnt>> that t has

pallocVars == <<used_map, pool_lock, palloc_pc, request, held>>

NoPages == [pool |-> "kernel_pool", cnt |-> 0, idx |-> 0, k |-> 0]

PallocTypeOK ==
  /\ \A p \in Pools : used_map[p].bit_cnt \in Nat
  /\ pool_lock \in [Pools -> PageThreads \cup {NoOne}]
  /\ palloc_pc \in [PageThreads -> {"idle", "lock", "scan", "flip", "unlock", "null", "clear"}]
  /\ request \in [PageThreads -> [pool : Pools, cnt : Nat, idx : Nat, k : Nat]]
  /\ held \in [PageThreads -> SUBSET (Nat \X Nat)]

\* palloc_init() gives half of memory, if the limit allows it, to the user pool.
user_pages == IF FREE_PAGES \div 2 > user_page_limit THEN user_page_limit ELSE FREE_PAGES \div 2
page_cnt(p) == IF p = "user_pool" THEN user_pages ELSE FREE_PAGES - user_pages

\* init_pool() keeps the bitmap in the first pages of the pool.  A pool that is
\* too small for it is a panic at boot.
base(p) == BITMAP_PAGES + IF p = "user_pool" THEN page_cnt("kernel_pool") ELSE 0

PallocInit ==
  /\ \A p \in Pools : BITMAP_PAGES <= page_cnt(p)
  /\ used_map = [p \in Pools |-> bitmap_create(page_cnt(p) - BITMAP_PAGES)]
  /\ pool_lock = [p \in Pools |-> NoOne]
  /\ palloc_pc = [t \in PageThreads |-> "idle"]
  /\ request = [t \in PageThreads |-> NoPages]
  /\ held = [t \in PageThreads |-> {}]

Step(t, from, to) == palloc_pc[t] = from /\ palloc_pc' = [palloc_pc EXCEPT ![t] = to]

\* A call with page_cnt 0 returns at once.
palloc_get_multiple(t, p, cnt) ==
  /\ Cardinality(held[t]) < MaxGroups /\ cnt > 0
  /\ Step(t, "idle", "lock")
  /\ request' = [request EXCEPT ![t] = [NoPages EXCEPT !.pool = p, !.cnt = cnt]]
  /\ UNCHANGED <<used_map, pool_lock, held>>

\* A PoolLock(t) that does not take the lock.
PoolLock_unlocked(t) ==
  /\ Step(t, "lock", IF request[t].cnt <= used_map[request[t].pool].bit_cnt THEN "scan" ELSE "null")
  /\ UNCHANGED <<used_map, request, held, pool_lock>>

PoolLock(t) ==
  /\ pool_lock[request[t].pool] = NoOne
  /\ Step(t, "lock", IF request[t].cnt <= used_map[request[t].pool].bit_cnt THEN "scan" ELSE "null")
  /\ pool_lock' = [pool_lock EXCEPT ![request[t].pool] = t]
  /\ UNCHANGED <<used_map, request, held>>

\* bitmap_scan() tests bit k of the group at idx.  The last group is at
\* bit_cnt - cnt.
ScanUsed(t, r) ==
  /\ bitmap_test(used_map[r.pool], r.idx + r.k)
  /\ Step(t, "scan", IF r.idx < used_map[r.pool].bit_cnt - r.cnt THEN "scan" ELSE "null")
  /\ request' = [request EXCEPT ![t].idx = @ + 1, ![t].k = 0]
  /\ UNCHANGED <<used_map, pool_lock, held>>

ScanFree(t, r) ==
  /\ palloc_pc[t] = "scan" => ~bitmap_test(used_map[r.pool], r.idx + r.k)
  /\ Step(t, "scan", IF r.k + 1 < r.cnt THEN "scan" ELSE "flip")
  /\ request' = [request EXCEPT ![t].k = IF r.k + 1 < r.cnt THEN @ + 1 ELSE 0]
  /\ UNCHANGED <<used_map, pool_lock, held>>

\* bitmap_set_multiple() marks bit k of the group it has found.
FlipBit(t, r) ==
  /\ Step(t, "flip", IF r.k + 1 < r.cnt THEN "flip" ELSE "unlock")
  /\ used_map' = [used_map EXCEPT ![r.pool] = bitmap_mark(@, r.idx + r.k)]
  /\ request' = [request EXCEPT ![t].k = @ + 1]
  /\ UNCHANGED <<pool_lock, held>>

PoolUnlock(t, r) ==
  /\ \/ /\ Step(t, "unlock", "idle")
        /\ held' = [held EXCEPT ![t] = @ \cup {<<base(r.pool) + r.idx, r.cnt>>}]
     \/ Step(t, "null", "idle") /\ UNCHANGED held
  /\ pool_lock' = [pool_lock EXCEPT ![r.pool] = NoOne]
  /\ request' = [request EXCEPT ![t] = NoPages]
  /\ UNCHANGED used_map

page_from_pool(p, page) == page \in base(p) .. base(p) + used_map[p].bit_cnt - 1

\* The pages are its caller's no longer.
palloc_free_multiple(t, g) ==
  /\ g \in held[t] /\ Step(t, "idle", "clear")
  /\ LET p == IF page_from_pool("kernel_pool", g[1]) THEN "kernel_pool" ELSE "user_pool"
     IN  request' = [request EXCEPT ![t] = [pool |-> p, cnt |-> g[2], idx |-> g[1] - base(p), k |-> 0]]
  /\ held' = [held EXCEPT ![t] = @ \ {g}]
  /\ UNCHANGED <<used_map, pool_lock>>

ClearBit(t, r) ==
  /\ Step(t, "clear", IF r.k + 1 < r.cnt THEN "clear" ELSE "idle")
  /\ used_map' = [used_map EXCEPT ![r.pool] = bitmap_reset(@, r.idx + r.k)]
  /\ request' = [request EXCEPT ![t] = IF r.k + 1 < r.cnt THEN [@ EXCEPT !.k = r.k + 1] ELSE NoPages]
  /\ UNCHANGED <<pool_lock, held>>

PallocNext ==
  \E t \in PageThreads :
    \/ \E p \in Pools, cnt \in 1 .. MaxCount : palloc_get_multiple(t, p, cnt)
    \/ \E g \in held[t] : palloc_free_multiple(t, g)
    \/ PoolLock(t)
    \/ palloc_pc[t] = "scan" /\ ScanUsed(t, request[t])
    \/ palloc_pc[t] = "scan" /\ ScanFree(t, request[t])
    \/ FlipBit(t, request[t]) \/ PoolUnlock(t, request[t]) \/ ClearBit(t, request[t])

PallocSpec == PallocInit /\ [][PallocNext]_pallocVars

Pages(g) == g[1] .. g[1] + g[2] - 1
IsUsed(page) == \E p \in Pools : page_from_pool(p, page) /\ bitmap_test(used_map[p], page - base(p))

\* Every page has one owner at most, however the bits of a free, which takes no
\* lock, fall between the bits of a scan: the groups that palloc_get_multiple()
\* has returned are disjoint pages of the pools, marked as used, so that the
\* ASSERT of palloc_free_multiple() holds; and when nobody is inside, no other
\* page is marked, so that none is lost.  Every variable has its type.
PagesAccounted ==
  /\ PallocTypeOK
  /\ \A t, u \in PageThreads : \A g \in held[t], h \in held[u] :
       <<t, g>> # <<u, h>> => Pages(g) \cap Pages(h) = {}
  /\ \A t \in PageThreads : \A g \in held[t] : \A page \in Pages(g) : IsUsed(page)
  /\ (\A t \in PageThreads : palloc_pc[t] = "idle") =>
       \A page \in 0 .. FREE_PAGES :
         IsUsed(page) => \E t \in PageThreads : \E g \in held[t] : page \in Pages(g)
=============================================================================
