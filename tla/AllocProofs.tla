---------------------------- MODULE AllocProofs ----------------------------
(***************************************************************************)
(* The page allocator of threads/palloc.c, for any number of threads and   *)
(* pools of any size: the pages that threads hold are exactly those that   *)
(* the bitmaps mark, and no page is handed out twice.                      *)
(***************************************************************************)
EXTENDS Palloc, Integers, TLAPS
-----------------------------------------------------------------------------

\* How many pages a pool has beyond its bitmap.
NBits(p) == page_cnt(p) - BITMAP_PAGES
\* A bitmap of n bits.
BitmapOf(n) == [bit_cnt : {n}, bits : [0 .. elem_cnt(n) - 1 -> SUBSET Nat]]
\* A group of pages; <<0, 0>> is none.
Group == Nat \X (Nat \ {0})
Labels == {"idle", "lock", "scan", "flip", "unlock", "null", "clear"}
Locked == {"scan", "flip", "unlock", "null"}
Request == [pool : Pools, cnt : Nat, idx : Nat, k : Nat]

PoolTypes ==
  /\ \A p \in Pools : NBits(p) \in Nat
  /\ used_map = [p \in Pools |-> used_map[p]] /\ \A p \in Pools : used_map[p] \in BitmapOf(NBits(p))
  /\ pool_lock \in [Pools -> PageThreads \cup {NoOne}]
  /\ palloc_pc \in [PageThreads -> Labels]
  /\ request \in [PageThreads -> Request]
  /\ held \in [PageThreads -> SUBSET Group]

\* Who holds a pool's lock is between palloc_get_multiple()'s lock_acquire() and
\* its lock_release().
LocksRight ==
  \A p \in Pools, t \in PageThreads :
    pool_lock[p] = t <=> request[t].pool = p /\ palloc_pc[t] \in Locked

\* Where a thread is in its scan, its marking or its clearing.
RequestRight(map, pc, r) ==
  /\ pc \in {"lock", "scan", "flip", "unlock", "clear"} => r.cnt > 0
  /\ pc = "lock" => r.idx = 0 /\ r.k = 0
  /\ pc \in {"scan", "flip", "unlock", "clear"} => r.idx + r.cnt <= NBits(r.pool)
  /\ pc \in {"scan", "flip", "clear"} => r.k < r.cnt
  /\ pc = "scan" => \A j \in Nat : j < r.k => ~bitmap_test(map[r.pool], r.idx + j)
  /\ pc = "flip" => \A j \in Nat : r.k <= j /\ j < r.cnt => ~bitmap_test(map[r.pool], r.idx + j)

\* The groups that are held lie in a pool.
GroupsInPools ==
  \A t \in PageThreads : \A g \in held[t] :
    \E p \in Pools : base(p) <= g[1] /\ g[1] + g[2] <= base(p) + NBits(p)

\* The pages that a thread has marked and not returned yet, or not cleared yet.
Working(pc, r) ==
  LET first == base(r.pool) + r.idx IN
  CASE pc = "flip" -> first .. first + r.k - 1
    [] pc = "unlock" -> first .. first + r.cnt - 1
    [] pc = "clear" -> first + r.k .. first + r.cnt - 1
    [] OTHER -> {}

\* A thread and a group that it may hold, or none for what it works on.
Claimant == PageThreads \X (Group \cup {<<0, 0>>})
OwnedIn(pc, rq, hd) ==
  [c \in Claimant |->
     IF c[2] = <<0, 0>> THEN Working(pc[c[1]], rq[c[1]])
     ELSE IF c[2] \in hd[c[1]] THEN Pages(c[2]) ELSE {}]
Owned == OwnedIn(palloc_pc, request, held)
Marked == {page \in Nat : IsUsed(page)}

\* The pages of no two claimants meet, and they are the ones marked.
OneOwner(own, marked) ==
  /\ \A c, d \in Claimant : c # d => own[c] \cap own[d] = {}
  /\ \A page \in Nat : page \in marked <=> \E c \in Claimant : page \in own[c]

PallocInv ==
  /\ PoolTypes /\ LocksRight /\ GroupsInPools
  /\ \A t \in PageThreads : RequestRight(used_map, palloc_pc[t], request[t])
  /\ OneOwner(Owned, Marked)

\* Quotient and remainder.
LEMMA Division ==
  ASSUME NEW x \in Nat, NEW n \in Nat \ {0}
  PROVE  /\ x \div n \in Nat /\ x % n \in Nat /\ x % n < n
         /\ x = n * (x \div n) + (x % n)
  BY SMT

\* The element of a bit is one of the bitmap's.
LEMMA ElementOf ==
  ASSUME NEW n \in Nat, NEW i \in Nat, i < n
  PROVE  elem_idx(i) \in 0 .. elem_cnt(n) - 1
<1>1. ELEM_BITS \in Nat \ {0}
  BY BitmapAssumption, Zenon
<1>2. n + ELEM_BITS - 1 \in Nat
  BY <1>1, SMT
<1>3. PICK q, r, c, d \in Nat :
         /\ q = i \div ELEM_BITS /\ i = ELEM_BITS * q + r
         /\ c = (n + ELEM_BITS - 1) \div ELEM_BITS
         /\ n + ELEM_BITS - 1 = ELEM_BITS * c + d /\ d < ELEM_BITS
  BY <1>1, <1>2, Division, Zenon
<1>4. ELEM_BITS * q < ELEM_BITS * c
  BY <1>1, <1>3, SMT
<1>5. q < c
  BY <1>1, <1>3, <1>4, SMT
<1>6. q \in 0 .. c - 1
  BY <1>3, <1>5, SMT
<1> QED BY <1>3, <1>6, Zenon DEF elem_idx, elem_cnt

\* Different bits have different elements or masks.
LEMMA SameBit ==
  ASSUME NEW i \in Nat, NEW j \in Nat, elem_idx(i) = elem_idx(j), i % ELEM_BITS = j % ELEM_BITS
  PROVE  i = j
<1>1. ELEM_BITS \in Nat \ {0}
  BY BitmapAssumption, Zenon
<1>2. i = ELEM_BITS * (i \div ELEM_BITS) + (i % ELEM_BITS)
  BY <1>1, Division, Zenon
<1>3. j = ELEM_BITS * (j \div ELEM_BITS) + (j % ELEM_BITS)
  BY <1>1, Division, Zenon
<1> QED BY <1>2, <1>3, Zenon DEF elem_idx

\* bitmap_test() looks at one bit of one element.
LEMMA TestIs ==
  ASSUME NEW b, NEW j
  PROVE  bitmap_test(b, j) <=> j % ELEM_BITS \in b.bits[elem_idx(j)]
  BY Zenon DEF bitmap_test, bit_mask

\* bitmap_mark() and bitmap_reset() change one bit.
LEMMA MarkBit ==
  ASSUME NEW n \in Nat, NEW b \in BitmapOf(n), NEW i \in Nat, i < n
  PROVE  /\ bitmap_mark(b, i) \in BitmapOf(n)
         /\ \A j \in Nat : j < n => (bitmap_test(bitmap_mark(b, i), j) <=> j = i \/ bitmap_test(b, j))
<1>1. PICK e : e = elem_idx(i)
  BY Zenon
<1>2. PICK m \in Nat : m = i % ELEM_BITS
  BY BitmapAssumption, Division, Zenon
<1>3. e \in 0 .. elem_cnt(n) - 1
  BY <1>1, ElementOf, Zenon
<1>4. PICK c : c = bitmap_mark(b, i)
  BY Zenon
<1>5. c = [b EXCEPT !.bits[e] = @ \cup {m}]
  BY <1>1, <1>2, <1>4, Zenon DEF bitmap_mark, bit_mask
<1>6. b.bits \in [0 .. elem_cnt(n) - 1 -> SUBSET Nat] /\ b.bit_cnt = n
  BY Zenon DEF BitmapOf
<1>7. c.bits = [b.bits EXCEPT ![e] = @ \cup {m}] /\ c.bit_cnt = b.bit_cnt
  BY <1>5, SMT DEF BitmapOf
<1>8. c \in BitmapOf(n)
  <2>0. b.bits[e] \cup {m} \in SUBSET Nat
    BY <1>2, <1>3, <1>6, Zenon
  <2>1. PICK s : s = b.bits[e] \cup {m}
    BY Zenon
  <2>2. PICK f : f = [b.bits EXCEPT ![e] = s]
    BY Zenon
  <2>3. f \in [0 .. elem_cnt(n) - 1 -> SUBSET Nat]
    BY <1>3, <1>6, <2>0, <2>1, <2>2, Zenon
  <2>4. c = [b EXCEPT !.bits = f]
    BY <1>5, <2>1, <2>2, Zenon
  <2>5. c = [bit_cnt |-> n, bits |-> f]
    BY <1>6, <2>4, SMT DEF BitmapOf
  <2> QED BY <2>3, <2>5, Zenon DEF BitmapOf
<1>9. ASSUME NEW j \in Nat, j < n
      PROVE  bitmap_test(c, j) <=> j = i \/ bitmap_test(b, j)
  <2>1. elem_idx(j) \in 0 .. elem_cnt(n) - 1
    BY <1>9, ElementOf, Zenon
  <2>2. CASE elem_idx(j) = e
    <3>1. c.bits[elem_idx(j)] = b.bits[e] \cup {m}
      BY <1>3, <1>6, <1>7, <2>2, Zenon
    <3>2. j % ELEM_BITS = m => j = i
      BY <1>1, <1>2, <2>2, SameBit, Zenon
    <3> QED BY <1>1, <1>2, <2>2, <3>1, <3>2, TestIs, Zenon
  <2>3. CASE elem_idx(j) # e
    <3>1. c.bits[elem_idx(j)] = b.bits[elem_idx(j)]
      BY <1>6, <1>7, <2>1, <2>3, Zenon
    <3> QED BY <1>1, <2>3, <3>1, TestIs, Zenon
  <2> QED BY <2>2, <2>3, Zenon
<1> QED BY <1>4, <1>8, <1>9, Zenon

\* bitmap_reset() clears one bit and leaves the others.
LEMMA ResetBit ==
  ASSUME NEW n \in Nat, NEW b \in BitmapOf(n), NEW i \in Nat, i < n
  PROVE  /\ bitmap_reset(b, i) \in BitmapOf(n)
         /\ \A j \in Nat : j < n => (bitmap_test(bitmap_reset(b, i), j) <=> j # i /\ bitmap_test(b, j))
<1>1. PICK e : e = elem_idx(i)
  BY Zenon
<1>2. PICK m \in Nat : m = i % ELEM_BITS
  BY BitmapAssumption, Division, Zenon
<1>3. e \in 0 .. elem_cnt(n) - 1
  BY <1>1, ElementOf, Zenon
<1>4. PICK c : c = bitmap_reset(b, i)
  BY Zenon
<1>5. c = [b EXCEPT !.bits[e] = @ \ {m}]
  BY <1>1, <1>2, <1>4, Zenon DEF bitmap_reset, bit_mask
<1>6. b.bits \in [0 .. elem_cnt(n) - 1 -> SUBSET Nat] /\ b.bit_cnt = n
  BY Zenon DEF BitmapOf
<1>7. c.bits = [b.bits EXCEPT ![e] = @ \ {m}] /\ c.bit_cnt = b.bit_cnt
  BY <1>5, SMT DEF BitmapOf
<1>8. c \in BitmapOf(n)
  <2>0. b.bits[e] \ {m} \in SUBSET Nat
    BY <1>2, <1>3, <1>6, Zenon
  <2>1. PICK s : s = b.bits[e] \ {m}
    BY Zenon
  <2>2. PICK f : f = [b.bits EXCEPT ![e] = s]
    BY Zenon
  <2>3. f \in [0 .. elem_cnt(n) - 1 -> SUBSET Nat]
    BY <1>3, <1>6, <2>0, <2>1, <2>2, Zenon
  <2>4. c = [b EXCEPT !.bits = f]
    BY <1>5, <2>1, <2>2, Zenon
  <2>5. c = [bit_cnt |-> n, bits |-> f]
    BY <1>6, <2>4, SMT DEF BitmapOf
  <2> QED BY <2>3, <2>5, Zenon DEF BitmapOf
<1>9. ASSUME NEW j \in Nat, j < n
      PROVE  bitmap_test(c, j) <=> j # i /\ bitmap_test(b, j)
  <2>1. elem_idx(j) \in 0 .. elem_cnt(n) - 1
    BY <1>9, ElementOf, Zenon
  <2>2. CASE elem_idx(j) = e
    <3>1. c.bits[elem_idx(j)] = b.bits[e] \ {m}
      BY <1>3, <1>6, <1>7, <2>2, Zenon
    <3>2. j % ELEM_BITS = m => j = i
      BY <1>1, <1>2, <2>2, SameBit, Zenon
    <3> QED BY <1>1, <1>2, <2>2, <3>1, <3>2, TestIs, Zenon
  <2>3. CASE elem_idx(j) # e
    <3>1. c.bits[elem_idx(j)] = b.bits[elem_idx(j)]
      BY <1>6, <1>7, <2>1, <2>3, Zenon
    <3> QED BY <1>1, <2>3, <3>1, TestIs, Zenon
  <2> QED BY <2>2, <2>3, Zenon
<1> QED BY <1>4, <1>8, <1>9, Zenon

\* own1 is own except for claimant c.
OthersKeep(H, own, own1) == \A d \in Claimant : d \in H \/ own1[d] = own[d]

\* A page that was not marked is marked and c's.
LEMMA OwnerMarks ==
  ASSUME NEW own, NEW own1, NEW M, NEW M1, NEW c \in Claimant, NEW x \in Nat,
         OneOwner(own, M), x \notin M, OthersKeep({c}, own, own1), own1[c] = own[c] \cup {x},
         \A page \in Nat : page \in M1 <=> page = x \/ page \in M
  PROVE  OneOwner(own1, M1)
<1>1. \A d \in Claimant : x \notin own[d]
  BY Zenon DEF OneOwner
<1>2. ASSUME NEW d \in Claimant, NEW e \in Claimant, d # e PROVE own1[d] \cap own1[e] = {}
  <2>1. own[d] \cap own[e] = {}
    BY <1>2, Zenon DEF OneOwner
  <2>2. d = c \/ own1[d] = own[d]
    BY Zenon DEF OthersKeep
  <2>3. e = c \/ own1[e] = own[e]
    BY Zenon DEF OthersKeep
  <2>4. CASE d # c /\ e # c
    BY <2>1, <2>2, <2>3, <2>4, Zenon
  <2>5. CASE d = c
    <3>1. own1[e] = own[e]
      BY <1>2, <2>3, <2>5, Zenon
    <3> QED BY <1>1, <2>1, <2>5, <3>1, Zenon
  <2>6. CASE e = c
    <3>1. own1[d] = own[d]
      BY <1>2, <2>2, <2>6, Zenon
    <3> QED BY <1>1, <2>1, <2>6, <3>1, Zenon
  <2> QED BY <2>4, <2>5, <2>6, Zenon
<1>3. ASSUME NEW page \in Nat PROVE page \in M1 <=> \E d \in Claimant : page \in own1[d]
  <2>1. page \in M <=> \E d \in Claimant : page \in own[d]
    BY Zenon DEF OneOwner
  <2>2. ASSUME NEW d \in Claimant PROVE page \in own1[d] <=> page \in own[d] \/ (d = c /\ page = x)
    <3>1. d = c \/ own1[d] = own[d]
      BY Zenon DEF OthersKeep
    <3>2. CASE d = c
      BY <3>2, Zenon
    <3>3. CASE d # c
      BY <3>1, <3>3, Zenon
    <3> QED BY <3>2, <3>3, Zenon
  <2> QED BY <2>1, <2>2, Zenon
<1> QED BY <1>2, <1>3, Zenon DEF OneOwner

\* A page of c's is marked no longer.
LEMMA OwnerClears ==
  ASSUME NEW own, NEW own1, NEW M, NEW M1, NEW c \in Claimant, NEW x \in Nat,
         OneOwner(own, M), x \in own[c], OthersKeep({c}, own, own1), own1[c] = own[c] \ {x},
         \A page \in Nat : page \in M1 <=> page # x /\ page \in M
  PROVE  OneOwner(own1, M1)
<1>1. \A d \in Claimant : d # c => x \notin own[d]
  BY Zenon DEF OneOwner
<1>2. ASSUME NEW d \in Claimant PROVE own1[d] = own[d] \ {x}
  <2>1. d = c \/ own1[d] = own[d]
    BY Zenon DEF OthersKeep
  <2>2. CASE d = c
    BY <2>2, Zenon
  <2>3. CASE d # c
    BY <1>1, <2>1, <2>3, Zenon
  <2> QED BY <2>2, <2>3, Zenon
<1>3. ASSUME NEW d \in Claimant, NEW e \in Claimant, d # e PROVE own1[d] \cap own1[e] = {}
  <2>1. own[d] \cap own[e] = {}
    BY <1>3, Zenon DEF OneOwner
  <2> QED BY <1>2, <2>1, Zenon
<1>4. ASSUME NEW page \in Nat PROVE page \in M1 <=> \E d \in Claimant : page \in own1[d]
  <2>1. page \in M <=> \E d \in Claimant : page \in own[d]
    BY Zenon DEF OneOwner
  <2> QED BY <1>2, <2>1, Zenon
<1> QED BY <1>3, <1>4, Zenon DEF OneOwner

\* The pages of c become d's.
LEMMA OwnerMoves ==
  ASSUME NEW own, NEW own1, NEW M, NEW c \in Claimant, NEW d \in Claimant, c # d,
         OneOwner(own, M), own[d] = {}, OthersKeep({c, d}, own, own1), own1[d] = own[c], own1[c] = {}
  PROVE  OneOwner(own1, M)
<1>1. ASSUME NEW e \in Claimant PROVE e = c \/ e = d \/ (e # c /\ e # d /\ own1[e] = own[e])
  BY Zenon DEF OthersKeep
<1>2. ASSUME NEW e \in Claimant, NEW h \in Claimant, e # h PROVE own1[e] \cap own1[h] = {}
  <2>1. own[e] \cap own[h] = {}
    BY <1>2, Zenon DEF OneOwner
  <2>2. \A k \in Claimant : k # c => own[k] \cap own[c] = {}
    BY Zenon DEF OneOwner
  <2>3. CASE e = c \/ h = c
    BY <2>3, Zenon
  <2>4. CASE e = d /\ h # c
    <3>1. own1[h] = own[h]
      BY <1>1, <1>2, <2>4, Zenon
    <3> QED BY <2>2, <2>4, <3>1, Zenon
  <2>5. CASE h = d /\ e # c
    <3>1. own1[e] = own[e]
      BY <1>1, <1>2, <2>5, Zenon
    <3> QED BY <2>2, <2>5, <3>1, Zenon
  <2>6. CASE e # c /\ e # d /\ h # c /\ h # d
    BY <1>1, <2>1, <2>6, Zenon
  <2> QED BY <2>3, <2>4, <2>5, <2>6, Zenon
<1>3. ASSUME NEW page \in Nat PROVE page \in M <=> \E e \in Claimant : page \in own1[e]
  <2>1. page \in M <=> \E e \in Claimant : page \in own[e]
    BY Zenon DEF OneOwner
  <2>2. ASSUME NEW e \in Claimant, page \in own[e] PROVE \E h \in Claimant : page \in own1[h]
    <3>1. CASE e = c
      BY <2>2, <3>1, Zenon
    <3>2. CASE e = d
      BY <2>2, <3>2, Zenon
    <3>3. CASE e # c /\ e # d
      BY <1>1, <2>2, <3>3, Zenon
    <3> QED BY <3>1, <3>2, <3>3, Zenon
  <2>3. ASSUME NEW e \in Claimant, page \in own1[e] PROVE \E h \in Claimant : page \in own[h]
    <3>1. CASE e = c
      BY <2>3, <3>1, Zenon
    <3>2. CASE e = d
      BY <2>3, <3>2, Zenon
    <3>3. CASE e # c /\ e # d
      BY <1>1, <2>3, <3>3, Zenon
    <3> QED BY <3>1, <3>2, <3>3, Zenon
  <2> QED BY <2>1, <2>2, <2>3, Zenon
<1> QED BY <1>2, <1>3, Zenon DEF OneOwner

\* Nothing has changed hands.
LEMMA OwnersStay ==
  ASSUME NEW own, NEW own1, NEW M, OneOwner(own, M), OthersKeep({}, own, own1)
  PROVE  OneOwner(own1, M)
<1>1. \A e \in Claimant : own1[e] = own[e]
  BY Zenon DEF OthersKeep
<1> QED BY <1>1, Zenon DEF OneOwner
-----------------------------------------------------------------------------
\* The two pools.

InPool(p, page) == base(p) <= page /\ page < base(p) + NBits(p)

\* The pools start at page numbers, and no page is in two of them.
LEMMA PoolNumbers ==
  ASSUME \A p \in Pools : NBits(p) \in Nat
  PROVE  /\ \A p \in Pools : base(p) \in Nat
         /\ \A p, q \in Pools, page \in Nat : InPool(p, page) /\ InPool(q, page) => p = q
<1>1. FREE_PAGES \in Nat /\ user_page_limit \in Nat /\ BITMAP_PAGES \in Nat
  BY PallocAssumption, Zenon
<1>2. FREE_PAGES \div 2 \in Nat /\ FREE_PAGES \div 2 <= FREE_PAGES
  BY <1>1, SMT
<1>3. PICK u : u = user_pages
  BY Zenon
<1>4. u \in Nat /\ u <= FREE_PAGES
  BY <1>1, <1>2, <1>3, SMT DEF user_pages
<1>5. PICK n : n = FREE_PAGES - u
  BY Zenon
<1>6. n \in Nat
  BY <1>1, <1>4, <1>5, SMT
<1>7. page_cnt("kernel_pool") = n /\ page_cnt("user_pool") = u
  BY <1>3, <1>5, Zenon DEF page_cnt
<1>8. base("kernel_pool") = BITMAP_PAGES + 0 /\ base("user_pool") = BITMAP_PAGES + n
  BY <1>7, Zenon DEF base
<1>9. base("kernel_pool") = BITMAP_PAGES
  BY <1>1, <1>8, SMT
<1>10. NBits("kernel_pool") = n - BITMAP_PAGES /\ NBits("user_pool") = u - BITMAP_PAGES
  BY <1>7, Zenon DEF NBits
<1>11. ASSUME NEW page \in Nat PROVE ~(InPool("kernel_pool", page) /\ InPool("user_pool", page))
  <2>1. SUFFICES ASSUME BITMAP_PAGES <= page, page < BITMAP_PAGES + (n - BITMAP_PAGES),
                        BITMAP_PAGES + n <= page
                 PROVE  FALSE
    BY <1>8, <1>9, <1>10, Zenon DEF InPool
  <2> QED BY <1>1, <1>6, <2>1, SMT
<1>12. BITMAP_PAGES + n \in Nat
  BY <1>1, <1>6, SMT
<1>13. \A p \in Pools : p = "kernel_pool" \/ p = "user_pool"
  BY Zenon DEF Pools
<1> QED BY <1>1, <1>8, <1>9, <1>11, <1>12, <1>13, Zenon

\* A page is marked when its bit in the pool's bitmap is set.
UsedIn(map, page) == \E p \in Pools : InPool(p, page) /\ bitmap_test(map[p], page - base(p))

\* UsedIn(), with the bounds that the code computes.
LEMMA UsedIs ==
  ASSUME NEW map, \A p \in Pools : NBits(p) \in Nat /\ map[p].bit_cnt = NBits(p)
  PROVE  \A page \in Nat :
           UsedIn(map, page) <=>
             \E p \in Pools : page \in base(p) .. base(p) + map[p].bit_cnt - 1 /\ bitmap_test(map[p], page - base(p))
<1>1. ASSUME NEW p \in Pools, NEW page \in Nat
      PROVE  page \in base(p) .. base(p) + map[p].bit_cnt - 1 <=> InPool(p, page)
  <2>1. map[p].bit_cnt = NBits(p)
    BY Zenon
  <2>2. base(p) \in Nat /\ NBits(p) \in Nat
    BY PoolNumbers, Zenon
  <2>3. page \in base(p) .. base(p) + NBits(p) - 1 <=> base(p) <= page /\ page < base(p) + NBits(p)
    BY <2>2, SMT
  <2> QED BY <2>1, <2>3, Zenon DEF InPool
<1> QED BY <1>1, Zenon DEF UsedIn

\* The marked pages are those whose bit is set.
LEMMA MarkedIs ==
  /\ PoolTypes => \A page \in Nat : page \in Marked <=> UsedIn(used_map, page)
  /\ PoolTypes' => \A page \in Nat : page \in Marked' <=> UsedIn(used_map', page)
<1>1. ASSUME PoolTypes PROVE \A page \in Nat : page \in Marked <=> UsedIn(used_map, page)
  <2>1. \A p \in Pools : NBits(p) \in Nat /\ used_map[p].bit_cnt = NBits(p)
    BY <1>1, Zenon DEF PoolTypes, BitmapOf
  <2> QED BY <2>1, UsedIs, Zenon DEF Marked, IsUsed, page_from_pool
<1>2. ASSUME PoolTypes' PROVE \A page \in Nat : page \in Marked' <=> UsedIn(used_map', page)
  <2>1. PICK map : map = used_map'
    BY Zenon
  <2>2. \A p \in Pools : NBits(p) \in Nat /\ map[p].bit_cnt = NBits(p)
    BY <1>2, <2>1, Zenon DEF PoolTypes, BitmapOf
  <2>3. \A page \in Nat :
          page \in Marked' <=>
             \E p \in Pools : page \in base(p) .. base(p) + map[p].bit_cnt - 1 /\ bitmap_test(map[p], page - base(p))
    BY <2>1, Zenon DEF Marked, IsUsed, page_from_pool
  <2>4. \A page \in Nat : page \in Marked' <=> UsedIn(map, page)
    BY <2>2, <2>3, UsedIs, Zenon
  <2> QED BY <2>1, <2>4, Zenon
<1> QED BY <1>1, <1>2, Zenon

\* The bit of a page.
LEMMA BitOfPage ==
  ASSUME PoolTypes, NEW p \in Pools, NEW i \in Nat, i < NBits(p)
  PROVE  base(p) + i \in Nat /\ InPool(p, base(p) + i) /\ (base(p) + i) - base(p) = i
<1>1. base(p) \in Nat /\ NBits(p) \in Nat
  BY PoolNumbers, Zenon DEF PoolTypes
<1> QED BY <1>1, SMT DEF InPool

\* The bit of a page is one of its pool's.
LEMMA PageOfBit ==
  ASSUME PoolTypes, NEW p \in Pools, NEW page \in Nat, InPool(p, page)
  PROVE  page - base(p) \in Nat /\ page - base(p) < NBits(p) /\ base(p) + (page - base(p)) = page
<1>1. base(p) \in Nat /\ NBits(p) \in Nat
  BY PoolNumbers, Zenon DEF PoolTypes
<1> QED BY <1>1, SMT DEF InPool

\* map1 is map with bit i of pool p set, or reset.
SetsBit(map, map1, p, i) ==
  \A q \in Pools, j \in Nat : j < NBits(q) =>
    (bitmap_test(map1[q], j) <=> (q = p /\ j = i) \/ bitmap_test(map[q], j))
ResetsBit(map, map1, p, i) ==
  \A q \in Pools, j \in Nat : j < NBits(q) =>
    (bitmap_test(map1[q], j) <=> ~(q = p /\ j = i) /\ bitmap_test(map[q], j))

\* A bit that is set marks its page and no other.
LEMMA SetsPage ==
  ASSUME PoolTypes, NEW map, NEW map1, NEW p \in Pools, NEW i \in Nat, i < NBits(p),
         SetsBit(map, map1, p, i)
  PROVE  \A page \in Nat : UsedIn(map1, page) <=> page = base(p) + i \/ UsedIn(map, page)
<1> SUFFICES ASSUME NEW page \in Nat
             PROVE  UsedIn(map1, page) <=> page = base(p) + i \/ UsedIn(map, page)
  BY Zenon
<1>1. ASSUME NEW q \in Pools, InPool(q, page)
      PROVE  bitmap_test(map1[q], page - base(q)) <=>
               (q = p /\ page = base(p) + i) \/ bitmap_test(map[q], page - base(q))
  <2>1. PICK j \in Nat : j = page - base(q) /\ j < NBits(q) /\ base(q) + j = page
    BY <1>1, PageOfBit, Zenon
  <2>2. ASSUME q = p PROVE j = i <=> page = base(p) + i
    <3>1. j = page - base(p) /\ base(p) + j = page
      BY <2>1, <2>2, Zenon
    <3>2. PICK b \in Nat : b = base(p)
      BY PoolNumbers, Zenon DEF PoolTypes
    <3>3. j = i <=> page = b + i
      BY <3>1, <3>2, SMT
    <3> QED BY <3>2, <3>3, Zenon
  <2> QED BY <2>1, <2>2, Zenon DEF SetsBit
<1>2. InPool(p, base(p) + i)
  BY BitOfPage, Zenon
<1> QED BY <1>1, <1>2, Zenon DEF UsedIn

\* A bit that is cleared releases its page and no other.
LEMMA ResetsPage ==
  ASSUME PoolTypes, NEW map, NEW map1, NEW p \in Pools, NEW i \in Nat, i < NBits(p),
         ResetsBit(map, map1, p, i)
  PROVE  \A page \in Nat : UsedIn(map1, page) <=> page # base(p) + i /\ UsedIn(map, page)
<1> SUFFICES ASSUME NEW page \in Nat
             PROVE  UsedIn(map1, page) <=> page # base(p) + i /\ UsedIn(map, page)
  BY Zenon
<1>1. ASSUME NEW q \in Pools, InPool(q, page)
      PROVE  bitmap_test(map1[q], page - base(q)) <=>
               ~(q = p /\ page = base(p) + i) /\ bitmap_test(map[q], page - base(q))
  <2>1. PICK j \in Nat : j = page - base(q) /\ j < NBits(q) /\ base(q) + j = page
    BY <1>1, PageOfBit, Zenon
  <2>2. ASSUME q = p PROVE j = i <=> page = base(p) + i
    <3>1. j = page - base(p) /\ base(p) + j = page
      BY <2>1, <2>2, Zenon
    <3>2. PICK b \in Nat : b = base(p)
      BY PoolNumbers, Zenon DEF PoolTypes
    <3>3. j = i <=> page = b + i
      BY <3>1, <3>2, SMT
    <3> QED BY <3>2, <3>3, Zenon
  <2> QED BY <2>1, <2>2, Zenon DEF ResetsBit
<1>2. InPool(p, base(p) + i)
  BY BitOfPage, Zenon
<1>3. \A q \in Pools : InPool(q, page) /\ page = base(p) + i => q = p
  BY <1>2, PoolNumbers, Zenon DEF PoolTypes
<1> QED BY <1>1, <1>2, <1>3, Zenon DEF UsedIn
-----------------------------------------------------------------------------
\* What a thread works on, and a group that it may hold.
WorkOf(t) == <<t, <<0, 0>>>>
GroupOf(t, g) == <<t, g>>

\* A claimant is a thread at work or one of its groups.
LEMMA ClaimantKinds ==
  /\ \A t \in PageThreads : WorkOf(t) \in Claimant
  /\ \A t \in PageThreads, g \in Group : GroupOf(t, g) \in Claimant /\ g # <<0, 0>>
  /\ \A c \in Claimant : \E t \in PageThreads : c = WorkOf(t) \/ \E g \in Group : c = GroupOf(t, g)
<1>1. \A t \in PageThreads : WorkOf(t) \in Claimant
  BY Zenon DEF WorkOf, Claimant
<1>2. \A t \in PageThreads, g \in Group : GroupOf(t, g) \in Claimant
  BY Zenon DEF GroupOf, Claimant
<1>3. \A g \in Group : g # <<0, 0>>
  BY SMT DEF Group
<1>4. ASSUME NEW c \in Claimant
      PROVE  \E t \in PageThreads : c = WorkOf(t) \/ \E g \in Group : c = GroupOf(t, g)
  BY SMT DEF Claimant, WorkOf, GroupOf
<1> QED BY <1>1, <1>2, <1>3, <1>4, Zenon

\* own gives the pages of each claimant.
Claims(own, pc, rq, hd) ==
  /\ \A t \in PageThreads : own[WorkOf(t)] = Working(pc[t], rq[t])
  /\ \A t \in PageThreads, g \in Group : own[GroupOf(t, g)] = IF g \in hd[t] THEN Pages(g) ELSE {}

\* OwnedIn() is what the claimants claim.
LEMMA OwnedClaims ==
  ASSUME NEW pc, NEW rq, NEW hd
  PROVE  Claims(OwnedIn(pc, rq, hd), pc, rq, hd)
<1>1. ASSUME NEW t \in PageThreads PROVE OwnedIn(pc, rq, hd)[WorkOf(t)] = Working(pc[t], rq[t])
  <2>1. WorkOf(t) \in Claimant /\ WorkOf(t)[1] = t /\ WorkOf(t)[2] = <<0, 0>>
    BY ClaimantKinds, Zenon DEF WorkOf
  <2> QED BY <2>1, Zenon DEF OwnedIn
<1>2. ASSUME NEW t \in PageThreads, NEW g \in Group
      PROVE  OwnedIn(pc, rq, hd)[GroupOf(t, g)] = IF g \in hd[t] THEN Pages(g) ELSE {}
  <2>1. GroupOf(t, g) \in Claimant /\ GroupOf(t, g)[1] = t /\ GroupOf(t, g)[2] = g /\ g # <<0, 0>>
    BY ClaimantKinds, Zenon DEF GroupOf
  <2> QED BY <2>1, Zenon DEF OwnedIn
<1> QED BY <1>1, <1>2, Zenon DEF Claims

\* Only t and only its group g are affected.
OnlyGroup(t, g, pc, rq, hd, pc1, rq1, hd1) ==
  /\ \A u \in PageThreads : u = t \/ (pc1[u] = pc[u] /\ rq1[u] = rq[u] /\ hd1[u] = hd[u])
  /\ \A h \in Group : h = g \/ (h \in hd1[t] <=> h \in hd[t])

\* A step of thread t on group g changes the claims of these two only.
LEMMA ClaimsStep ==
  ASSUME NEW own, NEW own1, NEW t \in PageThreads, NEW g,
         NEW pc, NEW rq, NEW hd, NEW pc1, NEW rq1, NEW hd1,
         Claims(own, pc, rq, hd), Claims(own1, pc1, rq1, hd1),
         OnlyGroup(t, g, pc, rq, hd, pc1, rq1, hd1)
  PROVE  OthersKeep({WorkOf(t), GroupOf(t, g)}, own, own1)
<1> SUFFICES ASSUME NEW c \in Claimant
             PROVE  c = WorkOf(t) \/ c = GroupOf(t, g) \/ own1[c] = own[c]
  BY Zenon DEF OthersKeep
<1>1. PICK u \in PageThreads : c = WorkOf(u) \/ \E h \in Group : c = GroupOf(u, h)
  BY ClaimantKinds, Zenon
<1>2. u = t \/ (pc1[u] = pc[u] /\ rq1[u] = rq[u] /\ hd1[u] = hd[u])
  BY Zenon DEF OnlyGroup
<1>3. CASE c = WorkOf(u)
  <2>1. own1[c] = Working(pc1[u], rq1[u]) /\ own[c] = Working(pc[u], rq[u])
    BY <1>3, Zenon DEF Claims
  <2> QED BY <1>2, <1>3, <2>1, Zenon
<1>4. CASE \E h \in Group : c = GroupOf(u, h)
  <2>1. PICK h \in Group : c = GroupOf(u, h)
    BY <1>4, Zenon
  <2>2. own1[c] = IF h \in hd1[u] THEN Pages(h) ELSE {}
    BY <2>1, Zenon DEF Claims
  <2>3. own[c] = IF h \in hd[u] THEN Pages(h) ELSE {}
    BY <2>1, Zenon DEF Claims
  <2>4. u = t => (h = g \/ (h \in hd1[t] <=> h \in hd[t]))
    BY Zenon DEF OnlyGroup
  <2>5. (u = t /\ h = g) \/ (h \in hd1[u] <=> h \in hd[u])
    BY <1>2, <2>4, Zenon
  <2>6. CASE u = t /\ h = g
    BY <2>1, <2>6, Zenon
  <2>7. CASE h \in hd1[u] <=> h \in hd[u]
    BY <2>2, <2>3, <2>7, Zenon
  <2> QED BY <2>5, <2>6, <2>7, Zenon
<1> QED BY <1>1, <1>3, <1>4, Zenon
-----------------------------------------------------------------------------
\* Thread t is at another label, with another request.
MovesTo(t, to, r) ==
  palloc_pc' = [palloc_pc EXCEPT ![t] = to] /\ request' = [request EXCEPT ![t] = r]

\* Where the threads are after one has moved.
LEMMA Moved ==
  ASSUME PoolTypes, NEW t \in PageThreads, NEW to \in Labels, NEW r \in Request, MovesTo(t, to, r)
  PROVE  /\ palloc_pc' \in [PageThreads -> Labels] /\ request' \in [PageThreads -> Request]
         /\ palloc_pc'[t] = to /\ request'[t] = r
         /\ \A u \in PageThreads : u # t => palloc_pc'[u] = palloc_pc[u] /\ request'[u] = request[u]
  BY Zenon DEF PoolTypes, MovesTo

\* The parts of the invariant.
LEMMA InvParts ==
  ASSUME PallocInv
  PROVE  /\ PoolTypes /\ LocksRight /\ GroupsInPools
         /\ \A t \in PageThreads : RequestRight(used_map, palloc_pc[t], request[t])
         /\ OneOwner(Owned, Marked)
  BY Zenon DEF PallocInv

\* The request of a thread whose bits have not been set still is right.
LEMMA RequestKept ==
  ASSUME NEW map, NEW map1, NEW pc \in Labels, NEW r \in Request, NBits(r.pool) \in Nat,
         RequestRight(map, pc, r),
         pc \in {"scan", "flip"} =>
           \A j \in Nat : j < NBits(r.pool) /\ bitmap_test(map1[r.pool], j) => bitmap_test(map[r.pool], j)
  PROVE  RequestRight(map1, pc, r)
<1>1. r.cnt \in Nat /\ r.idx \in Nat /\ r.k \in Nat
  BY Zenon DEF Request
<1>2. ASSUME pc = "scan", NEW j \in Nat, j < r.k PROVE ~bitmap_test(map1[r.pool], r.idx + j)
  <2>1. r.k < r.cnt /\ r.idx + r.cnt <= NBits(r.pool) /\ ~bitmap_test(map[r.pool], r.idx + j)
    BY <1>2, Zenon DEF RequestRight
  <2>2. r.idx + j \in Nat /\ r.idx + j < NBits(r.pool)
    BY <1>1, <1>2, <2>1, SMT
  <2> QED BY <1>2, <2>1, <2>2, Zenon
<1>3. ASSUME pc = "flip", NEW j \in Nat, r.k <= j, j < r.cnt PROVE ~bitmap_test(map1[r.pool], r.idx + j)
  <2>1. r.idx + r.cnt <= NBits(r.pool) /\ ~bitmap_test(map[r.pool], r.idx + j)
    BY <1>3, Zenon DEF RequestRight
  <2>2. r.idx + j \in Nat /\ r.idx + j < NBits(r.pool)
    BY <1>1, <1>3, <2>1, SMT
  <2> QED BY <1>3, <2>1, <2>2, Zenon
<1> QED BY <1>2, <1>3, Zenon DEF RequestRight

\* The locks: the thread keeps what it has, takes its pool's lock or gives it back.
LEMMA LocksKept ==
  ASSUME PoolTypes, LocksRight, NEW t \in PageThreads, NEW to \in Labels, NEW r \in Request, MovesTo(t, to, r),
         pool_lock' = pool_lock, to \in Locked <=> palloc_pc[t] \in Locked,
         to \in Locked => r.pool = request[t].pool
  PROVE  LocksRight'
<1> SUFFICES ASSUME NEW p \in Pools, NEW u \in PageThreads
             PROVE  pool_lock'[p] = u <=> request'[u].pool = p /\ palloc_pc'[u] \in Locked
  BY Zenon DEF LocksRight
<1>1. pool_lock[p] = u <=> request[u].pool = p /\ palloc_pc[u] \in Locked
  BY Zenon DEF LocksRight
<1>2. CASE u = t
  <2>1. request'[u] = r /\ palloc_pc'[u] = to
    BY <1>2, Moved, Zenon
  <2> QED BY <1>1, <1>2, <2>1, Zenon
<1>3. CASE u # t
  BY <1>1, <1>3, Moved, Zenon
<1> QED BY <1>2, <1>3, Zenon

\* lock_acquire() of a free pool lock.
LEMMA LockTaken ==
  ASSUME PoolTypes, LocksRight, NEW t \in PageThreads, NEW to \in Locked, NEW r \in Request, MovesTo(t, to, r),
         pool_lock[r.pool] = NoOne, pool_lock' = [pool_lock EXCEPT ![r.pool] = t],
         palloc_pc[t] \notin Locked
  PROVE  LocksRight'
<1>0. to \in Labels /\ r.pool \in Pools /\ pool_lock \in [Pools -> PageThreads \cup {NoOne}]
  BY Zenon DEF Labels, Locked, Request, PoolTypes
<1> SUFFICES ASSUME NEW p \in Pools, NEW u \in PageThreads
             PROVE  pool_lock'[p] = u <=> request'[u].pool = p /\ palloc_pc'[u] \in Locked
  BY Zenon DEF LocksRight
<1>1. pool_lock[p] = u <=> request[u].pool = p /\ palloc_pc[u] \in Locked
  BY Zenon DEF LocksRight
<1>2. pool_lock'[p] = IF p = r.pool THEN t ELSE pool_lock[p]
  BY <1>0, Zenon
<1>3. u # NoOne
  BY PallocAssumption, Zenon
<1>4. CASE u = t
  <2>1. request'[u] = r /\ palloc_pc'[u] = to
    BY <1>0, <1>4, Moved, Zenon
  <2> QED BY <1>0, <1>1, <1>2, <1>4, <2>1, Zenon
<1>5. CASE u # t
  <2>1. request'[u] = request[u] /\ palloc_pc'[u] = palloc_pc[u]
    BY <1>0, <1>5, Moved, Zenon
  <2> QED BY <1>1, <1>2, <1>3, <1>5, <2>1, Zenon
<1> QED BY <1>4, <1>5, Zenon

\* lock_release() of the pool lock.
LEMMA LockGiven ==
  ASSUME PoolTypes, LocksRight, NEW t \in PageThreads, NEW r \in Request, MovesTo(t, "idle", r),
         palloc_pc[t] \in Locked, pool_lock' = [pool_lock EXCEPT ![request[t].pool] = NoOne]
  PROVE  LocksRight'
<1>0. "idle" \in Labels /\ "idle" \notin Locked /\ request[t].pool \in Pools /\ pool_lock \in [Pools -> PageThreads \cup {NoOne}]
  BY Zenon DEF Labels, Locked, Request, PoolTypes
<1> SUFFICES ASSUME NEW p \in Pools, NEW u \in PageThreads
             PROVE  pool_lock'[p] = u <=> request'[u].pool = p /\ palloc_pc'[u] \in Locked
  BY Zenon DEF LocksRight
<1>1. pool_lock[p] = u <=> request[u].pool = p /\ palloc_pc[u] \in Locked
  BY Zenon DEF LocksRight
<1>2. pool_lock'[p] = IF p = request[t].pool THEN NoOne ELSE pool_lock[p]
  BY <1>0, Zenon
<1>3. u # NoOne /\ t # NoOne
  BY PallocAssumption, Zenon
<1>4. pool_lock[request[t].pool] = t
  <2>1. PICK q \in Pools : q = request[t].pool
    BY <1>0, Zenon
  <2> QED BY <2>1, Zenon DEF LocksRight
<1>5. CASE u = t
  <2>1. palloc_pc'[u] = "idle"
    BY <1>0, <1>5, Moved, Zenon
  <2> QED BY <1>0, <1>1, <1>2, <1>3, <1>5, <2>1, Zenon
<1>6. CASE u # t
  <2>1. request'[u] = request[u] /\ palloc_pc'[u] = palloc_pc[u]
    BY <1>0, <1>6, Moved, Zenon
  <2>2. CASE p = request[t].pool
    BY <1>1, <1>2, <1>3, <1>4, <1>6, <2>1, <2>2, Zenon
  <2>3. CASE p # request[t].pool
    BY <1>1, <1>2, <2>1, <2>3, Zenon
  <2> QED BY <2>2, <2>3, Zenon
<1> QED BY <1>5, <1>6, Zenon
-----------------------------------------------------------------------------
\* At most the group g of thread t is taken or given back.
HeldBut(t, g) ==
  /\ \A u \in PageThreads : u # t => held'[u] = held[u]
  /\ \A h \in Group : h = g \/ (h \in held'[t] <=> h \in held[t])

\* What a step of thread t does to who owns which page.
LEMMA OwnersMove ==
  ASSUME PoolTypes, NEW t \in PageThreads, NEW to \in Labels, NEW r \in Request, NEW g,
         MovesTo(t, to, r), HeldBut(t, g)
  PROVE  /\ OthersKeep({WorkOf(t), GroupOf(t, g)}, Owned, Owned')
         /\ Owned[WorkOf(t)] = Working(palloc_pc[t], request[t]) /\ Owned'[WorkOf(t)] = Working(to, r)
         /\ \A h \in Group : Owned[GroupOf(t, h)] = IF h \in held[t] THEN Pages(h) ELSE {}
         /\ \A h \in Group : Owned'[GroupOf(t, h)] = IF h \in held'[t] THEN Pages(h) ELSE {}
<1>1. PICK pc1, rq1, hd1 : pc1 = palloc_pc' /\ rq1 = request' /\ hd1 = held'
  BY Zenon
<1>2. PICK own, own1 : own = Owned /\ own1 = Owned'
  BY Zenon
<1>3. Claims(own, palloc_pc, request, held) /\ Claims(own1, pc1, rq1, hd1)
  BY <1>1, <1>2, OwnedClaims, Zenon DEF Owned
<1>4. pc1[t] = to /\ rq1[t] = r
  BY <1>1, Moved, Zenon
<1>5. OnlyGroup(t, g, palloc_pc, request, held, pc1, rq1, hd1)
  BY <1>1, Moved, Zenon DEF OnlyGroup, HeldBut
<1>6. OthersKeep({WorkOf(t), GroupOf(t, g)}, own, own1)
  BY <1>3, <1>5, ClaimsStep, Zenon
<1>7. own[WorkOf(t)] = Working(palloc_pc[t], request[t]) /\ own1[WorkOf(t)] = Working(to, r)
  BY <1>3, <1>4, Zenon DEF Claims
<1>8. \A h \in Group : own[GroupOf(t, h)] = IF h \in held[t] THEN Pages(h) ELSE {}
  BY <1>3, Zenon DEF Claims
<1>9. \A h \in Group : own1[GroupOf(t, h)] = IF h \in hd1[t] THEN Pages(h) ELSE {}
  BY <1>3, Zenon DEF Claims
<1> QED BY <1>1, <1>2, <1>6, <1>7, <1>8, <1>9, Zenon

\* A step that changes no holdings.
LEMMA HeldStays ==
  ASSUME held' = held, NEW t \in PageThreads
  PROVE  HeldBut(t, <<0, 0>>)
  BY Zenon DEF HeldBut

\* A step that changes neither the bitmaps nor who has what.
LEMMA QuietKept ==
  ASSUME PallocInv, NEW t \in PageThreads, NEW to \in Labels, NEW r \in Request, MovesTo(t, to, r),
         UNCHANGED <<used_map, held>>, Working(to, r) = Working(palloc_pc[t], request[t]),
         RequestRight(used_map, to, r), pool_lock' \in [Pools -> PageThreads \cup {NoOne}], LocksRight'
  PROVE  PallocInv'
<1>0. PoolTypes /\ used_map' = used_map /\ held' = held
  BY InvParts, Zenon
<1>1. PoolTypes'
  BY <1>0, Moved, Zenon DEF PoolTypes
<1>2. GroupsInPools'
  BY <1>0, InvParts, Zenon DEF GroupsInPools
<1>3. ASSUME NEW u \in PageThreads PROVE RequestRight(used_map', palloc_pc'[u], request'[u])
  <2>1. CASE u = t
    BY <1>0, <2>1, Moved, Zenon
  <2>2. CASE u # t
    <3>1. palloc_pc'[u] = palloc_pc[u] /\ request'[u] = request[u]
      BY <1>0, <2>2, Moved, Zenon
    <3>2. RequestRight(used_map, palloc_pc[u], request[u])
      BY InvParts, Zenon
    <3> QED BY <1>0, <3>1, <3>2, Zenon
  <2> QED BY <2>1, <2>2, Zenon
<1>4. OneOwner(Owned', Marked)
  <2>1. PICK own, own1 : own = Owned /\ own1 = Owned'
    BY Zenon
  <2>2. OthersKeep({WorkOf(t), GroupOf(t, <<0, 0>>)}, own, own1) /\ own1[WorkOf(t)] = own[WorkOf(t)]
    BY <1>0, <2>1, OwnersMove, HeldStays, Zenon
  <2>3. OthersKeep({}, own, own1)
    BY <2>2, Zenon DEF OthersKeep, WorkOf, GroupOf
  <2>4. OneOwner(own, Marked)
    BY <2>1, InvParts, Zenon
  <2>5. OneOwner(own1, Marked)
    BY <2>3, <2>4, OwnersStay, Zenon
  <2> QED BY <2>1, <2>5, Zenon
<1>5. Marked' = Marked
  BY <1>0, Zenon DEF Marked, IsUsed, page_from_pool
<1> QED BY <1>1, <1>2, <1>3, <1>4, <1>5, Zenon DEF PallocInv

\* Thread t marks a bit of the group it has found.
LEMMA FlipKept ==
  ASSUME PallocInv, NEW t \in PageThreads, FlipBit(t, request[t])
  PROVE  PallocInv'
<1>0. PoolTypes /\ LocksRight
  BY InvParts, Zenon
<1>1. PICK r \in Request : r = request[t]
  BY <1>0, Zenon DEF PoolTypes
<1>2. r.pool \in Pools /\ r.cnt \in Nat /\ r.idx \in Nat /\ r.k \in Nat
  BY Zenon DEF Request
<1>3. palloc_pc[t] = "flip"
  BY Zenon DEF FlipBit, Step
<1>4. /\ r.k < r.cnt /\ r.idx + r.cnt <= NBits(r.pool)
      /\ \A j \in Nat : r.k <= j /\ j < r.cnt => ~bitmap_test(used_map[r.pool], r.idx + j)
  <2>1. RequestRight(used_map, palloc_pc[t], r)
    BY <1>1, InvParts, Zenon
  <2> QED BY <1>3, <2>1, Zenon DEF RequestRight
<1>5. PICK i \in Nat, k1 \in Nat : i = r.idx + r.k /\ k1 = r.k + 1
  BY <1>2, SMT
<1>6. NBits(r.pool) \in Nat /\ base(r.pool) \in Nat
  BY <1>0, <1>2, PoolNumbers, Zenon DEF PoolTypes
<1>7. i < NBits(r.pool)
  BY <1>2, <1>4, <1>5, <1>6, SMT
<1>8. ~bitmap_test(used_map[r.pool], i)
  <2>1. r.k <= r.k
    BY <1>2, SMT
  <2> QED BY <1>2, <1>4, <1>5, <2>1, Zenon
<1>9. PICK to \in {"flip", "unlock"} : to = IF k1 < r.cnt THEN "flip" ELSE "unlock"
  BY Zenon
<1>10. PICK r1 \in Request : r1 = [r EXCEPT !.k = k1]
  BY Zenon DEF Request
<1>11. r1.pool = r.pool /\ r1.cnt = r.cnt /\ r1.idx = r.idx /\ r1.k = k1
  BY <1>10, Zenon DEF Request
<1>12. to \in Labels /\ to \in Locked
  BY <1>9, Zenon DEF Labels, Locked
<1>13. MovesTo(t, to, r1)
  <2>1. palloc_pc' = [palloc_pc EXCEPT ![t] = to]
    BY <1>1, <1>5, <1>9, Zenon DEF FlipBit, Step
  <2>2. request' = [request EXCEPT ![t].k = @ + 1]
    BY Zenon DEF FlipBit
  <2>3. request' = [request EXCEPT ![t] = r1]
    BY <1>0, <1>1, <1>5, <1>10, <2>2, Zenon DEF PoolTypes
  <2> QED BY <2>1, <2>3, Zenon DEF MovesTo
<1>14. /\ used_map' = [used_map EXCEPT ![r.pool] = bitmap_mark(@, i)] /\ pool_lock' = pool_lock /\ held' = held
  BY <1>1, <1>5, Zenon DEF FlipBit
<1>15. PICK b : b = bitmap_mark(used_map[r.pool], i)
  BY Zenon
<1>16. used_map[r.pool] \in BitmapOf(NBits(r.pool))
  BY <1>0, <1>2, Zenon DEF PoolTypes
<1>17. /\ b \in BitmapOf(NBits(r.pool))
       /\ \A j \in Nat : j < NBits(r.pool) => (bitmap_test(b, j) <=> j = i \/ bitmap_test(used_map[r.pool], j))
  BY <1>6, <1>7, <1>15, <1>16, MarkBit, Zenon
<1>18. used_map' = [used_map EXCEPT ![r.pool] = b]
  BY <1>14, <1>15, Zenon
<1>19. /\ used_map' = [p \in Pools |-> used_map'[p]] /\ used_map'[r.pool] = b
       /\ \A p \in Pools : p # r.pool => used_map'[p] = used_map[p]
  BY <1>0, <1>2, <1>18, Zenon DEF PoolTypes
<1>20. PoolTypes'
  <2>1. \A p \in Pools : used_map'[p] \in BitmapOf(NBits(p))
    BY <1>0, <1>17, <1>19, Zenon DEF PoolTypes
  <2>2. palloc_pc' \in [PageThreads -> Labels] /\ request' \in [PageThreads -> Request]
    BY <1>0, <1>12, <1>13, Moved, Zenon
  <2> QED BY <1>0, <1>14, <1>19, <2>1, <2>2, Zenon DEF PoolTypes
<1>21. SetsBit(used_map, used_map', r.pool, i)
  BY <1>17, <1>19, Zenon DEF SetsBit
<1>22. LocksRight'
  <2>1. palloc_pc[t] \in Locked /\ r1.pool = request[t].pool
    BY <1>1, <1>3, <1>11, Zenon DEF Locked
  <2> QED BY <1>0, <1>12, <1>13, <1>14, <2>1, LocksKept, Zenon
<1>23. GroupsInPools'
  BY <1>14, InvParts, Zenon DEF GroupsInPools
<1>24. ASSUME NEW u \in PageThreads PROVE RequestRight(used_map', palloc_pc'[u], request'[u])
  <2>1. CASE u = t
    <3>1. palloc_pc'[u] = to /\ request'[u] = r1
      BY <1>0, <1>12, <1>13, <2>1, Moved, Zenon
    <3>2. r1.cnt > 0 /\ r1.idx + r1.cnt <= NBits(r1.pool)
      BY <1>2, <1>4, <1>11, SMT
    <3>3. to = "flip" => r1.k < r1.cnt
      BY <1>9, <1>11, Zenon
    <3>4. ASSUME NEW j \in Nat, r1.k <= j, j < r1.cnt PROVE ~bitmap_test(used_map'[r1.pool], r1.idx + j)
      <4>1. r.k <= j /\ j < r.cnt /\ r.idx + j # i /\ r.idx + j \in Nat /\ r.idx + j < NBits(r.pool)
        BY <1>2, <1>4, <1>5, <1>6, <1>11, <3>4, SMT
      <4>2. ~bitmap_test(used_map[r.pool], r.idx + j)
        BY <1>4, <4>1, Zenon
      <4>3. ~bitmap_test(b, r.idx + j)
        BY <1>17, <4>1, <4>2, Zenon
      <4> QED BY <1>11, <1>19, <4>3, Zenon
    <3> QED BY <1>9, <3>1, <3>2, <3>3, <3>4, Zenon DEF RequestRight
  <2>2. CASE u # t
    <3>1. palloc_pc'[u] = palloc_pc[u] /\ request'[u] = request[u]
      BY <1>0, <1>12, <1>13, <2>2, Moved, Zenon
    <3>2. PICK pc \in Labels, s \in Request : pc = palloc_pc[u] /\ s = request[u]
      BY <1>0, Zenon DEF PoolTypes
    <3>3. RequestRight(used_map, pc, s)
      BY <3>2, InvParts, Zenon
    <3>4. s.pool \in Pools
      BY Zenon DEF Request
    <3>5. pc \in {"scan", "flip"} => s.pool # r.pool
      <4>1. pool_lock[r.pool] = t
        BY <1>0, <1>1, <1>2, <1>3, Zenon DEF LocksRight, Locked
      <4>2. pc \in {"scan", "flip"} => pool_lock[s.pool] = u
        BY <1>0, <3>2, <3>4, Zenon DEF LocksRight, Locked
      <4> QED BY <2>2, <4>1, <4>2, Zenon
    <3>6. pc \in {"scan", "flip"} => used_map'[s.pool] = used_map[s.pool]
      BY <1>19, <3>4, <3>5, Zenon
    <3>7. NBits(s.pool) \in Nat
      BY <1>0, <3>4, Zenon DEF PoolTypes
    <3>8. RequestRight(used_map', pc, s)
      BY <3>3, <3>6, <3>7, RequestKept, Zenon
    <3> QED BY <3>1, <3>2, <3>8, Zenon
  <2> QED BY <2>1, <2>2, Zenon
<1>25. PICK x \in Nat : x = base(r.pool) + i
  BY <1>6, SMT
<1>26. \A page \in Nat : page \in Marked' <=> page = x \/ page \in Marked
  <2>0. PICK p \in Pools : p = r.pool
    BY <1>2, Zenon
  <2>a. PICK map1 : map1 = used_map'
    BY Zenon
  <2>1. \A page \in Nat : UsedIn(map1, page) <=> page = base(p) + i \/ UsedIn(used_map, page)
    <3>1. i < NBits(p) /\ SetsBit(used_map, map1, p, i)
      BY <1>7, <1>21, <2>0, <2>a, Zenon
    <3> QED BY <1>0, <3>1, SetsPage, Zenon
  <2>2. \A page \in Nat : page \in Marked <=> UsedIn(used_map, page)
    BY <1>0, MarkedIs, Zenon
  <2>4. \A page \in Nat : page \in Marked' <=> UsedIn(used_map', page)
    BY <1>20, MarkedIs, Zenon
  <2> QED BY <1>25, <2>0, <2>a, <2>1, <2>2, <2>4, Zenon
<1>27. x \notin Marked
  <2>0. PICK p \in Pools : p = r.pool
    BY <1>2, Zenon
  <2>1. InPool(r.pool, x) /\ x - base(r.pool) = i
    <3>1. i < NBits(p) /\ x = base(p) + i
      BY <1>7, <1>25, <2>0, Zenon
    <3>2. InPool(p, base(p) + i) /\ (base(p) + i) - base(p) = i
      BY <1>0, <3>1, BitOfPage, Zenon
    <3> QED BY <2>0, <3>1, <3>2, Zenon
  <2>2. \A q \in Pools : InPool(q, x) => q = r.pool
    <3>1. \A q \in Pools : NBits(q) \in Nat
      BY <1>0, Zenon DEF PoolTypes
    <3>2. \A q \in Pools : InPool(p, x) /\ InPool(q, x) => p = q
      BY <3>1, PoolNumbers, Zenon
    <3> QED BY <2>0, <2>1, <3>2, Zenon
  <2>3. ~UsedIn(used_map, x)
    BY <1>8, <2>1, <2>2, Zenon DEF UsedIn
  <2> QED BY <1>0, <2>3, MarkedIs, Zenon
<1>28. OneOwner(Owned', Marked')
  <2>1. PICK own, own1 : own = Owned /\ own1 = Owned'
    BY Zenon
  <2>2. HeldBut(t, <<0, 0>>)
    BY <1>14, HeldStays, Zenon
  <2>3. OthersKeep({WorkOf(t), GroupOf(t, <<0, 0>>)}, own, own1)
    BY <1>0, <1>12, <1>13, <2>1, <2>2, OwnersMove, Zenon
  <2>4. OthersKeep({WorkOf(t)}, own, own1)
    BY <2>3, Zenon DEF OthersKeep, WorkOf, GroupOf
  <2>5. own[WorkOf(t)] = Working("flip", r) /\ own1[WorkOf(t)] = Working(to, r1)
    BY <1>0, <1>1, <1>3, <1>12, <1>13, <2>1, <2>2, OwnersMove, Zenon
  <2>6. Working(to, r1) = Working("flip", r) \cup {x}
    <3>1. PICK f \in Nat : f = base(r.pool) + r.idx
      BY <1>2, <1>6, SMT
    <3>2. Working("flip", r) = f .. f + r.k - 1
      BY <3>1, Zenon DEF Working
    <3>3. Working(to, r1) = f .. f + k1 - 1
      <4>1. CASE k1 < r.cnt
        BY <1>9, <1>11, <3>1, <4>1, Zenon DEF Working
      <4>2. CASE ~(k1 < r.cnt)
        <5>1. k1 = r.cnt
          BY <1>2, <1>4, <1>5, <4>2, SMT
        <5> QED BY <1>9, <1>11, <3>1, <4>2, <5>1, Zenon DEF Working
      <4> QED BY <4>1, <4>2, Zenon
    <3>4. x = f + r.k
      BY <1>2, <1>5, <1>6, <1>25, <3>1, SMT
    <3>5. f .. f + k1 - 1 = (f .. f + r.k - 1) \cup {x}
      BY <1>2, <1>5, <3>4, SMT
    <3> QED BY <3>2, <3>3, <3>5, Zenon
  <2>7. OneOwner(own, Marked)
    BY <2>1, InvParts, Zenon
  <2>8. WorkOf(t) \in Claimant
    BY ClaimantKinds, Zenon
  <2>9. own1[WorkOf(t)] = own[WorkOf(t)] \cup {x}
    BY <2>5, <2>6, Zenon
  <2>10. OneOwner(own1, Marked')
    BY <1>26, <1>27, <2>4, <2>7, <2>8, <2>9, OwnerMarks, Zenon
  <2> QED BY <2>1, <2>10, Zenon
<1> QED BY <1>20, <1>22, <1>23, <1>24, <1>28, Zenon DEF PallocInv

\* Thread t clears a bit of the group that it gives back.
LEMMA ClearKept ==
  ASSUME PallocInv, NEW t \in PageThreads, ClearBit(t, request[t])
  PROVE  PallocInv'
<1>0. PoolTypes /\ LocksRight
  BY InvParts, Zenon
<1>1. PICK r \in Request : r = request[t]
  BY <1>0, Zenon DEF PoolTypes
<1>2. r.pool \in Pools /\ r.cnt \in Nat /\ r.idx \in Nat /\ r.k \in Nat
  BY Zenon DEF Request
<1>3. palloc_pc[t] = "clear"
  BY Zenon DEF ClearBit, Step
<1>4. r.k < r.cnt /\ r.idx + r.cnt <= NBits(r.pool)
  <2>1. RequestRight(used_map, palloc_pc[t], r)
    BY <1>1, InvParts, Zenon
  <2> QED BY <1>3, <2>1, Zenon DEF RequestRight
<1>5. PICK i \in Nat, k1 \in Nat : i = r.idx + r.k /\ k1 = r.k + 1
  BY <1>2, SMT
<1>6. NBits(r.pool) \in Nat /\ base(r.pool) \in Nat
  BY <1>0, <1>2, PoolNumbers, Zenon DEF PoolTypes
<1>7. i < NBits(r.pool)
  BY <1>2, <1>4, <1>5, <1>6, SMT
<1>9. PICK to \in {"clear", "idle"} : to = IF k1 < r.cnt THEN "clear" ELSE "idle"
  BY Zenon
<1>10. PICK r1 \in Request : r1 = IF k1 < r.cnt THEN [r EXCEPT !.k = k1] ELSE NoPages
  <2>1. [r EXCEPT !.k = k1] \in Request
    BY Zenon DEF Request
  <2>2. NoPages \in Request
    BY SMT DEF NoPages, Request, Pools
  <2> QED BY <2>1, <2>2, Zenon
<1>11. k1 < r.cnt => r1.pool = r.pool /\ r1.cnt = r.cnt /\ r1.idx = r.idx /\ r1.k = k1
  <2>1. PICK r2 \in Request : r2 = [r EXCEPT !.k = k1]
    BY Zenon DEF Request
  <2>2. r2.pool = r.pool /\ r2.cnt = r.cnt /\ r2.idx = r.idx /\ r2.k = k1
    BY <2>1, Zenon DEF Request
  <2> QED BY <1>10, <2>1, <2>2, Zenon
<1>12. to \in Labels /\ to \notin Locked
  BY <1>9, Zenon DEF Labels, Locked
<1>13. MovesTo(t, to, r1)
  <2>1. palloc_pc' = [palloc_pc EXCEPT ![t] = to]
    BY <1>1, <1>5, <1>9, Zenon DEF ClearBit, Step
  <2>2. request' = [request EXCEPT ![t] = IF k1 < r.cnt THEN [@ EXCEPT !.k = k1] ELSE NoPages]
    BY <1>1, <1>5, Zenon DEF ClearBit
  <2>3. request' = [request EXCEPT ![t] = r1]
    BY <1>1, <1>10, <2>2, Zenon
  <2> QED BY <2>1, <2>3, Zenon DEF MovesTo
<1>14. /\ used_map' = [used_map EXCEPT ![r.pool] = bitmap_reset(@, i)] /\ pool_lock' = pool_lock /\ held' = held
  BY <1>1, <1>5, Zenon DEF ClearBit
<1>15. PICK b : b = bitmap_reset(used_map[r.pool], i)
  BY Zenon
<1>16. used_map[r.pool] \in BitmapOf(NBits(r.pool))
  BY <1>0, <1>2, Zenon DEF PoolTypes
<1>17. /\ b \in BitmapOf(NBits(r.pool))
       /\ \A j \in Nat : j < NBits(r.pool) => (bitmap_test(b, j) <=> j # i /\ bitmap_test(used_map[r.pool], j))
  <2>1. PICK n \in Nat : n = NBits(r.pool)
    BY <1>6, Zenon
  <2>2. PICK c \in BitmapOf(n) : c = used_map[r.pool]
    BY <1>16, <2>1, Zenon
  <2>3. i < n /\ b = bitmap_reset(c, i)
    BY <1>7, <1>15, <2>1, <2>2, Zenon
  <2>4. b \in BitmapOf(n) /\ \A j \in Nat : j < n => (bitmap_test(b, j) <=> j # i /\ bitmap_test(c, j))
    BY <2>3, ResetBit, Zenon
  <2> QED BY <2>1, <2>2, <2>4, Zenon
<1>18. used_map' = [used_map EXCEPT ![r.pool] = b]
  BY <1>14, <1>15, Zenon
<1>19. /\ used_map' = [p \in Pools |-> used_map'[p]] /\ used_map'[r.pool] = b
       /\ \A p \in Pools : p # r.pool => used_map'[p] = used_map[p]
  BY <1>0, <1>2, <1>18, Zenon DEF PoolTypes
<1>20. PoolTypes'
  <2>1. \A p \in Pools : used_map'[p] \in BitmapOf(NBits(p))
    BY <1>0, <1>17, <1>19, Zenon DEF PoolTypes
  <2>2. palloc_pc' \in [PageThreads -> Labels] /\ request' \in [PageThreads -> Request]
    BY <1>0, <1>12, <1>13, Moved, Zenon
  <2> QED BY <1>0, <1>14, <1>19, <2>1, <2>2, Zenon DEF PoolTypes
<1>21. ResetsBit(used_map, used_map', r.pool, i)
  BY <1>17, <1>19, Zenon DEF ResetsBit
<1>22. LocksRight'
  <2>1. palloc_pc[t] \notin Locked
    BY <1>3, Zenon DEF Locked
  <2> QED BY <1>0, <1>12, <1>13, <1>14, <2>1, LocksKept, Zenon
<1>23. GroupsInPools'
  BY <1>14, InvParts, Zenon DEF GroupsInPools
<1>24. ASSUME NEW u \in PageThreads PROVE RequestRight(used_map', palloc_pc'[u], request'[u])
  <2>1. CASE u = t
    <3>1. palloc_pc'[u] = to /\ request'[u] = r1
      BY <1>0, <1>12, <1>13, <2>1, Moved, Zenon
    <3>2. CASE k1 < r.cnt
      <4>1. r1.cnt > 0 /\ r1.idx + r1.cnt <= NBits(r1.pool) /\ r1.k < r1.cnt
        BY <1>2, <1>4, <1>11, <3>2, SMT
      <4> QED BY <1>9, <3>1, <3>2, <4>1, Zenon DEF RequestRight
    <3>3. CASE ~(k1 < r.cnt)
      BY <1>9, <3>1, <3>3, Zenon DEF RequestRight
    <3> QED BY <3>2, <3>3, Zenon
  <2>2. CASE u # t
    <3>1. palloc_pc'[u] = palloc_pc[u] /\ request'[u] = request[u]
      BY <1>0, <1>12, <1>13, <2>2, Moved, Zenon
    <3>2. PICK pc \in Labels, s \in Request : pc = palloc_pc[u] /\ s = request[u]
      BY <1>0, Zenon DEF PoolTypes
    <3>3. RequestRight(used_map, pc, s)
      BY <3>2, InvParts, Zenon
    <3>4. s.pool \in Pools
      BY Zenon DEF Request
    <3>5. \A j \in Nat : j < NBits(s.pool) /\ bitmap_test(used_map'[s.pool], j) => bitmap_test(used_map[s.pool], j)
      BY <1>21, <3>4, Zenon DEF ResetsBit
    <3>7. NBits(s.pool) \in Nat
      BY <1>0, <3>4, Zenon DEF PoolTypes
    <3>8. RequestRight(used_map', pc, s)
      BY <3>3, <3>5, <3>7, RequestKept, Zenon
    <3> QED BY <3>1, <3>2, <3>8, Zenon
  <2> QED BY <2>1, <2>2, Zenon
<1>25. PICK x \in Nat : x = base(r.pool) + i
  BY <1>6, SMT
<1>26. \A page \in Nat : page \in Marked' <=> page # x /\ page \in Marked
  <2>0. PICK p \in Pools : p = r.pool
    BY <1>2, Zenon
  <2>a. PICK map1 : map1 = used_map'
    BY Zenon
  <2>1. \A page \in Nat : UsedIn(map1, page) <=> page # base(p) + i /\ UsedIn(used_map, page)
    <3>1. i < NBits(p) /\ ResetsBit(used_map, map1, p, i)
      BY <1>7, <1>21, <2>0, <2>a, Zenon
    <3> QED BY <1>0, <3>1, ResetsPage, Zenon
  <2>2. \A page \in Nat : page \in Marked <=> UsedIn(used_map, page)
    BY <1>0, MarkedIs, Zenon
  <2>4. \A page \in Nat : page \in Marked' <=> UsedIn(used_map', page)
    BY <1>20, MarkedIs, Zenon
  <2> QED BY <1>25, <2>0, <2>a, <2>1, <2>2, <2>4, Zenon
<1>28. OneOwner(Owned', Marked')
  <2>1. PICK own, own1 : own = Owned /\ own1 = Owned'
    BY Zenon
  <2>2. HeldBut(t, <<0, 0>>)
    BY <1>14, HeldStays, Zenon
  <2>3. OthersKeep({WorkOf(t), GroupOf(t, <<0, 0>>)}, own, own1)
    BY <1>0, <1>12, <1>13, <2>1, <2>2, OwnersMove, Zenon
  <2>4. OthersKeep({WorkOf(t)}, own, own1)
    BY <2>3, Zenon DEF OthersKeep, WorkOf, GroupOf
  <2>5. own[WorkOf(t)] = Working("clear", r) /\ own1[WorkOf(t)] = Working(to, r1)
    BY <1>0, <1>1, <1>3, <1>12, <1>13, <2>1, <2>2, OwnersMove, Zenon
  <2>6. x \in Working("clear", r) /\ Working(to, r1) = Working("clear", r) \ {x}
    <3>1. PICK f \in Nat : f = base(r.pool) + r.idx
      BY <1>2, <1>6, SMT
    <3>2. Working("clear", r) = f + r.k .. f + r.cnt - 1
      BY <3>1, Zenon DEF Working
    <3>3. x = f + r.k
      BY <1>2, <1>5, <1>6, <1>25, <3>1, SMT
    <3>4. x \in f + r.k .. f + r.cnt - 1
      BY <1>2, <1>4, <3>3, SMT
    <3>5. CASE k1 < r.cnt
      <4>1. Working(to, r1) = f + k1 .. f + r.cnt - 1
        BY <1>9, <1>11, <3>1, <3>5, Zenon DEF Working
      <4>2. PICK c \in Int : c = f + r.cnt - 1
        BY <1>2, SMT
      <4>3. f + k1 = x + 1
        BY <1>2, <1>5, <3>3, SMT
      <4>4. x + 1 .. c = (x .. c) \ {x}
        BY SMT
      <4>5. f + k1 .. f + r.cnt - 1 = (f + r.k .. f + r.cnt - 1) \ {x}
        BY <3>3, <4>2, <4>3, <4>4, Zenon
      <4> QED BY <3>2, <3>4, <4>1, <4>5, Zenon
    <3>6. CASE ~(k1 < r.cnt)
      <4>1. Working(to, r1) = {}
        BY <1>9, <3>6, Zenon DEF Working
      <4>2. \A y \in f + r.k .. f + r.cnt - 1 : y = x
        <5>1. r.cnt = r.k + 1
          BY <1>2, <1>4, <1>5, <3>6, SMT
        <5>2. f + r.cnt - 1 = x
          BY <1>2, <3>3, <5>1, SMT
        <5> QED BY <3>3, <5>2, SMT
      <4> QED BY <3>2, <3>4, <4>1, <4>2, Zenon
    <3> QED BY <3>5, <3>6, Zenon
  <2>7. OneOwner(own, Marked)
    BY <2>1, InvParts, Zenon
  <2>8. WorkOf(t) \in Claimant
    BY ClaimantKinds, Zenon
  <2>9. x \in own[WorkOf(t)] /\ own1[WorkOf(t)] = own[WorkOf(t)] \ {x}
    BY <2>5, <2>6, Zenon
  <2>10. OneOwner(own1, Marked')
    BY <1>26, <2>4, <2>7, <2>8, <2>9, OwnerClears, Zenon
  <2> QED BY <2>1, <2>10, Zenon
<1> QED BY <1>20, <1>22, <1>23, <1>24, <1>28, Zenon DEF PallocInv

\* Thread t is done with palloc_get_multiple(): it has the group.
LEMMA UnlockKept ==
  ASSUME PallocInv, NEW t \in PageThreads, palloc_pc[t] = "unlock", PoolUnlock(t, request[t])
  PROVE  PallocInv'
<1>0. PoolTypes /\ LocksRight
  BY InvParts, Zenon
<1>1. PICK r \in Request : r = request[t]
  BY <1>0, Zenon DEF PoolTypes
<1>2. r.pool \in Pools /\ r.cnt \in Nat /\ r.idx \in Nat
  BY Zenon DEF Request
<1>3. r.cnt > 0 /\ r.idx + r.cnt <= NBits(r.pool)
  <2>1. RequestRight(used_map, palloc_pc[t], r)
    BY <1>1, InvParts, Zenon
  <2> QED BY <2>1, Zenon DEF RequestRight
<1>4. NBits(r.pool) \in Nat /\ base(r.pool) \in Nat
  BY <1>0, <1>2, PoolNumbers, Zenon DEF PoolTypes
<1>5. PICK f \in Nat : f = base(r.pool) + r.idx
  BY <1>2, <1>4, SMT
<1>6. PICK g \in Group : g = <<f, r.cnt>>
  <2>1. r.cnt \in Nat \ {0}
    BY <1>2, <1>3, SMT
  <2> QED BY <2>1, Zenon DEF Group
<1>7. g[1] = f /\ g[2] = r.cnt
  BY <1>6, Zenon
<1>8. /\ palloc_pc' = [palloc_pc EXCEPT ![t] = "idle"] /\ held' = [held EXCEPT ![t] = @ \cup {g}]
      /\ pool_lock' = [pool_lock EXCEPT ![r.pool] = NoOne]
      /\ request' = [request EXCEPT ![t] = NoPages] /\ used_map' = used_map
  BY <1>1, <1>5, <1>6, Zenon DEF PoolUnlock, Step
<1>9. NoPages \in Request /\ "idle" \in Labels
  <2>1. NoPages \in Request
    BY SMT DEF NoPages, Request, Pools
  <2> QED BY <2>1, Zenon DEF Labels
<1>10. PICK to \in Labels, r1 \in Request : to = "idle" /\ r1 = NoPages
  BY <1>9, Zenon
<1>11. MovesTo(t, to, r1)
  BY <1>8, <1>10, Zenon DEF MovesTo
<1>12. held \in [PageThreads -> SUBSET Group]
  BY <1>0, Zenon DEF PoolTypes
<1>13. held' \in [PageThreads -> SUBSET Group] /\ held'[t] = held[t] \cup {g}
  BY <1>8, <1>12, Zenon
<1>14. \A u \in PageThreads : u # t => held'[u] = held[u]
  BY <1>8, <1>12, Zenon
<1>15. PoolTypes'
  <2>1. palloc_pc' \in [PageThreads -> Labels] /\ request' \in [PageThreads -> Request]
    BY <1>0, <1>11, Moved, Zenon
  <2>2. pool_lock' \in [Pools -> PageThreads \cup {NoOne}]
    BY <1>0, <1>8, Zenon DEF PoolTypes
  <2> QED BY <1>0, <1>8, <1>13, <2>1, <2>2, Zenon DEF PoolTypes
<1>16. LocksRight'
  <2>1. palloc_pc[t] \in Locked /\ pool_lock' = [pool_lock EXCEPT ![request[t].pool] = NoOne]
    BY <1>1, <1>8, Zenon DEF Locked
  <2> QED BY <1>0, <1>10, <1>11, <2>1, LockGiven, Zenon
<1>17. GroupsInPools'
  <2>1. base(r.pool) <= g[1] /\ g[1] + g[2] <= base(r.pool) + NBits(r.pool)
    BY <1>2, <1>3, <1>4, <1>5, <1>7, SMT
  <2>2. GroupsInPools
    BY InvParts, Zenon
  <2> QED BY <1>2, <1>13, <1>14, <2>1, <2>2, Zenon DEF GroupsInPools
<1>18. ASSUME NEW u \in PageThreads PROVE RequestRight(used_map', palloc_pc'[u], request'[u])
  <2>1. CASE u = t
    <3>1. palloc_pc'[u] = "idle"
      BY <1>0, <1>10, <1>11, <2>1, Moved, Zenon
    <3> QED BY <3>1, Zenon DEF RequestRight
  <2>2. CASE u # t
    <3>1. palloc_pc'[u] = palloc_pc[u] /\ request'[u] = request[u]
      BY <1>0, <1>11, <2>2, Moved, Zenon
    <3>2. RequestRight(used_map, palloc_pc[u], request[u])
      BY InvParts, Zenon
    <3> QED BY <1>8, <3>1, <3>2, Zenon
  <2> QED BY <2>1, <2>2, Zenon
<1>19. Marked' = Marked
  BY <1>8, Zenon DEF Marked, IsUsed, page_from_pool
<1>20. OneOwner(Owned', Marked)
  <2>1. PICK own, own1 : own = Owned /\ own1 = Owned'
    BY Zenon
  <2>2. HeldBut(t, g)
    BY <1>13, <1>14, Zenon DEF HeldBut
  <2>3. OthersKeep({WorkOf(t), GroupOf(t, g)}, own, own1)
    BY <1>0, <1>11, <2>1, <2>2, OwnersMove, Zenon
  <2>4. own[WorkOf(t)] = Working(palloc_pc[t], r) /\ own1[WorkOf(t)] = Working(to, r1)
    BY <1>0, <1>1, <1>11, <2>1, <2>2, OwnersMove, Zenon
  <2>5. \A h \in Group : own[GroupOf(t, h)] = IF h \in held[t] THEN Pages(h) ELSE {}
    BY <1>0, <1>11, <2>1, <2>2, OwnersMove, Zenon
  <2>6. \A h \in Group : own1[GroupOf(t, h)] = IF h \in held'[t] THEN Pages(h) ELSE {}
    BY <1>0, <1>11, <2>1, <2>2, OwnersMove, Zenon
  <2>7. Working(palloc_pc[t], r) = Pages(g)
    BY <1>5, <1>7, Zenon DEF Working, Pages
  <2>8. Working(to, r1) = {}
    BY <1>10, Zenon DEF Working
  <2>9. OneOwner(own, Marked)
    BY <2>1, InvParts, Zenon
  <2>10. WorkOf(t) \in Claimant /\ GroupOf(t, g) \in Claimant /\ WorkOf(t) # GroupOf(t, g)
    BY ClaimantKinds, Zenon DEF WorkOf, GroupOf
  <2>11. f \in Pages(g)
    BY <1>2, <1>3, <1>7, SMT DEF Pages
  <2>12. own[WorkOf(t)] \cap own[GroupOf(t, g)] = {}
    BY <2>9, <2>10, Zenon DEF OneOwner
  <2>13. g \notin held[t]
    BY <2>4, <2>5, <2>7, <2>11, <2>12, Zenon
  <2>14. own[GroupOf(t, g)] = {}
    BY <2>5, <2>13, Zenon
  <2>15. own1[GroupOf(t, g)] = own[WorkOf(t)] /\ own1[WorkOf(t)] = {}
    BY <1>13, <2>4, <2>6, <2>7, <2>8, Zenon
  <2>16. OneOwner(own1, Marked)
    BY <2>3, <2>9, <2>10, <2>14, <2>15, OwnerMoves, Zenon
  <2> QED BY <2>1, <2>16, Zenon
<1> QED BY <1>15, <1>16, <1>17, <1>18, <1>19, <1>20, Zenon DEF PallocInv

\* Thread t begins palloc_free_multiple() of a group that it has.
LEMMA FreeKept ==
  ASSUME PallocInv, NEW t \in PageThreads, NEW g, palloc_free_multiple(t, g)
  PROVE  PallocInv'
<1>0. PoolTypes /\ LocksRight
  BY InvParts, Zenon
<1>1. held \in [PageThreads -> SUBSET Group] /\ g \in held[t] /\ palloc_pc[t] = "idle"
  BY <1>0, Zenon DEF PoolTypes, palloc_free_multiple, Step
<1>2. g \in Group
  BY <1>1, Zenon
<1>3. g[1] \in Nat /\ g[2] \in Nat /\ g[2] > 0
  BY <1>2, SMT DEF Group
<1>4. PICK p \in Pools : base(p) <= g[1] /\ g[1] + g[2] <= base(p) + NBits(p)
  BY <1>1, InvParts, Zenon DEF GroupsInPools
<1>5. \A q \in Pools : base(q) \in Nat /\ NBits(q) \in Nat
  BY <1>0, PoolNumbers, Zenon DEF PoolTypes
<1>6. base(p) \in Nat /\ NBits(p) \in Nat
  BY <1>5, Zenon
<1>7. p = IF page_from_pool("kernel_pool", g[1]) THEN "kernel_pool" ELSE "user_pool"
  <2>1. \A q \in Pools : used_map[q].bit_cnt = NBits(q)
    BY <1>0, Zenon DEF PoolTypes, BitmapOf
  <2>2. ASSUME NEW q \in Pools PROVE page_from_pool(q, g[1]) <=> InPool(q, g[1])
    <3>1. base(q) \in Nat /\ NBits(q) \in Nat
      BY <1>5, Zenon
    <3>2. g[1] \in base(q) .. base(q) + NBits(q) - 1 <=> base(q) <= g[1] /\ g[1] < base(q) + NBits(q)
      BY <1>3, <3>1, SMT
    <3> QED BY <2>1, <3>2, Zenon DEF page_from_pool, InPool
  <2>3. InPool(p, g[1])
    BY <1>3, <1>4, <1>6, SMT DEF InPool
  <2>4. \A q \in Pools : InPool(q, g[1]) => p = q
    BY <1>3, <1>5, <2>3, PoolNumbers, Zenon
  <2>5. "kernel_pool" \in Pools /\ (p = "kernel_pool" \/ p = "user_pool")
    BY Zenon DEF Pools
  <2> QED BY <2>2, <2>3, <2>4, <2>5, Zenon
<1>8. PICK i \in Nat : i = g[1] - base(p)
  BY <1>3, <1>4, <1>6, SMT
<1>9. PICK r \in Request : r = [pool |-> p, cnt |-> g[2], idx |-> i, k |-> 0]
  <2>1. 0 \in Nat
    BY SMT
  <2> QED BY <1>3, <2>1, Zenon DEF Request
<1>10. r.pool = p /\ r.cnt = g[2] /\ r.idx = i /\ r.k = 0
  BY <1>9, Zenon
<1>11. /\ palloc_pc' = [palloc_pc EXCEPT ![t] = "clear"] /\ held' = [held EXCEPT ![t] = @ \ {g}]
       /\ pool_lock' = pool_lock /\ used_map' = used_map
  BY Zenon DEF palloc_free_multiple, Step
<1>12. request' = [request EXCEPT ![t] = r]
  BY <1>7, <1>8, <1>9, Zenon DEF palloc_free_multiple
<1>13. PICK to \in Labels : to = "clear"
  BY Zenon DEF Labels
<1>14. MovesTo(t, to, r)
  BY <1>11, <1>12, <1>13, Zenon DEF MovesTo
<1>15. held' \in [PageThreads -> SUBSET Group] /\ held'[t] = held[t] \ {g}
  BY <1>1, <1>11, Zenon
<1>16. \A u \in PageThreads : u # t => held'[u] = held[u]
  BY <1>1, <1>11, Zenon
<1>17. PoolTypes'
  <2>1. palloc_pc' \in [PageThreads -> Labels] /\ request' \in [PageThreads -> Request]
    BY <1>0, <1>14, Moved, Zenon
  <2> QED BY <1>0, <1>11, <1>15, <2>1, Zenon DEF PoolTypes
<1>18. LocksRight'
  <2>1. to \notin Locked /\ palloc_pc[t] \notin Locked
    BY <1>1, <1>13, Zenon DEF Locked
  <2> QED BY <1>0, <1>11, <1>14, <2>1, LocksKept, Zenon
<1>19. GroupsInPools'
  <2>1. \A u \in PageThreads : \A h \in held'[u] : h \in held[u]
    BY <1>15, <1>16, Zenon
  <2>2. GroupsInPools
    BY InvParts, Zenon
  <2> QED BY <2>1, <2>2, Zenon DEF GroupsInPools
<1>20. ASSUME NEW u \in PageThreads PROVE RequestRight(used_map', palloc_pc'[u], request'[u])
  <2>1. CASE u = t
    <3>1. palloc_pc'[u] = "clear" /\ request'[u] = r
      BY <1>0, <1>13, <1>14, <2>1, Moved, Zenon
    <3>2. r.cnt > 0 /\ r.idx + r.cnt <= NBits(r.pool) /\ r.k < r.cnt
      BY <1>3, <1>4, <1>6, <1>8, <1>10, SMT
    <3> QED BY <3>1, <3>2, Zenon DEF RequestRight
  <2>2. CASE u # t
    <3>1. palloc_pc'[u] = palloc_pc[u] /\ request'[u] = request[u]
      BY <1>0, <1>14, <2>2, Moved, Zenon
    <3>2. RequestRight(used_map, palloc_pc[u], request[u])
      BY InvParts, Zenon
    <3> QED BY <1>11, <3>1, <3>2, Zenon
  <2> QED BY <2>1, <2>2, Zenon
<1>21. Marked' = Marked
  BY <1>11, Zenon DEF Marked, IsUsed, page_from_pool
<1>22. OneOwner(Owned', Marked)
  <2>1. PICK own, own1 : own = Owned /\ own1 = Owned'
    BY Zenon
  <2>2. HeldBut(t, g)
    BY <1>15, <1>16, Zenon DEF HeldBut
  <2>3. OthersKeep({WorkOf(t), GroupOf(t, g)}, own, own1)
    BY <1>0, <1>14, <2>1, <2>2, OwnersMove, Zenon
  <2>4. own[WorkOf(t)] = Working(palloc_pc[t], request[t]) /\ own1[WorkOf(t)] = Working(to, r)
    BY <1>0, <1>14, <2>1, <2>2, OwnersMove, Zenon
  <2>5. \A h \in Group : own[GroupOf(t, h)] = IF h \in held[t] THEN Pages(h) ELSE {}
    BY <1>0, <1>14, <2>1, <2>2, OwnersMove, Zenon
  <2>6. \A h \in Group : own1[GroupOf(t, h)] = IF h \in held'[t] THEN Pages(h) ELSE {}
    BY <1>0, <1>14, <2>1, <2>2, OwnersMove, Zenon
  <2>7. own[WorkOf(t)] = {}
    BY <1>1, <2>4, Zenon DEF Working
  <2>8. Working(to, r) = Pages(g)
    <3>1. Working(to, r) = (base(p) + i) + 0 .. (base(p) + i) + g[2] - 1
      BY <1>10, <1>13, Zenon DEF Working
    <3>2. (base(p) + i) + 0 = g[1] /\ base(p) + i = g[1]
      BY <1>3, <1>6, <1>8, SMT
    <3> QED BY <3>1, <3>2, Zenon DEF Pages
  <2>9. OneOwner(own, Marked)
    BY <2>1, InvParts, Zenon
  <2>10. WorkOf(t) \in Claimant /\ GroupOf(t, g) \in Claimant /\ GroupOf(t, g) # WorkOf(t)
    BY <1>2, ClaimantKinds, Zenon DEF WorkOf, GroupOf
  <2>11. own1[GroupOf(t, g)] = {} /\ own1[WorkOf(t)] = own[GroupOf(t, g)]
    BY <1>1, <1>2, <1>15, <2>4, <2>5, <2>6, <2>8, Zenon
  <2>12. OthersKeep({GroupOf(t, g), WorkOf(t)}, own, own1)
    BY <2>3, Zenon DEF OthersKeep
  <2>13. OneOwner(own1, Marked)
    BY <2>7, <2>9, <2>10, <2>11, <2>12, OwnerMoves, Zenon
  <2> QED BY <2>1, <2>13, Zenon
<1> QED BY <1>17, <1>18, <1>19, <1>20, <1>21, <1>22, Zenon DEF PallocInv
-----------------------------------------------------------------------------
\* palloc_get_multiple() begins.
LEMMA GetKept ==
  ASSUME PallocInv, NEW t \in PageThreads, NEW p \in Pools, NEW n \in 1 .. MaxCount,
         palloc_get_multiple(t, p, n)
  PROVE  PallocInv'
<1>0. PoolTypes /\ LocksRight
  BY InvParts, Zenon
<1>1. n \in Nat /\ n > 0 /\ MaxCount \in Nat
  BY PallocAssumption, SMT
<1>a. NoPages \in Request /\ NoPages.idx = 0 /\ NoPages.k = 0
  BY SMT DEF NoPages, Request, Pools
<1>b. PICK q \in Request : q = [NoPages EXCEPT !.pool = p]
  BY <1>a, Zenon DEF Request
<1>2. PICK r \in Request : r = [q EXCEPT !.cnt = n]
  BY <1>1, Zenon DEF Request
<1>c. q.pool = p /\ q.idx = 0 /\ q.k = 0
  BY <1>a, <1>b, Zenon DEF Request
<1>3. r.pool = p /\ r.cnt = n /\ r.idx = 0 /\ r.k = 0
  BY <1>2, <1>c, Zenon DEF Request
<1>4. PICK to \in Labels : to = "lock"
  BY Zenon DEF Labels
<1>5. MovesTo(t, to, r)
  <2>1. [NoPages EXCEPT !.pool = p, !.cnt = n] = r
    BY <1>b, <1>2, Zenon
  <2> QED BY <1>4, <2>1, Zenon DEF palloc_get_multiple, Step, MovesTo
<1>6. palloc_pc[t] = "idle" /\ UNCHANGED <<used_map, held>> /\ pool_lock' = pool_lock
  BY Zenon DEF palloc_get_multiple, Step
<1>7. Working(to, r) = Working(palloc_pc[t], request[t])
  BY <1>4, <1>6, Zenon DEF Working
<1>8. RequestRight(used_map, to, r)
  BY <1>1, <1>3, <1>4, Zenon DEF RequestRight
<1>9. LocksRight'
  <2>1. to \notin Locked /\ palloc_pc[t] \notin Locked
    BY <1>4, <1>6, Zenon DEF Locked
  <2> QED BY <1>0, <1>5, <1>6, <2>1, LocksKept, Zenon
<1>10. pool_lock' \in [Pools -> PageThreads \cup {NoOne}]
  BY <1>0, <1>6, Zenon DEF PoolTypes
<1> QED BY <1>5, <1>6, <1>7, <1>8, <1>9, <1>10, QuietKept, Zenon

\* It has the lock.
LEMMA LockKept ==
  ASSUME PallocInv, NEW t \in PageThreads, PoolLock(t)
  PROVE  PallocInv'
<1>0. PoolTypes /\ LocksRight
  BY InvParts, Zenon
<1>1. PICK r \in Request : r = request[t]
  BY <1>0, Zenon DEF PoolTypes
<1>2. r.pool \in Pools /\ r.cnt \in Nat /\ r.idx \in Nat
  BY Zenon DEF Request
<1>3. palloc_pc[t] = "lock" /\ UNCHANGED <<used_map, held>> /\ request' = request
  BY Zenon DEF PoolLock, Step
<1>4. r.cnt > 0 /\ r.idx = 0 /\ r.k = 0
  <2>1. RequestRight(used_map, palloc_pc[t], r)
    BY <1>1, InvParts, Zenon
  <2> QED BY <1>3, <2>1, Zenon DEF RequestRight
<1>5. used_map[r.pool].bit_cnt = NBits(r.pool) /\ NBits(r.pool) \in Nat
  BY <1>0, <1>2, Zenon DEF PoolTypes, BitmapOf
<1>6. PICK to \in {"scan", "null"} : to = IF r.cnt <= NBits(r.pool) THEN "scan" ELSE "null"
  BY Zenon
<1>7. to \in Labels /\ to \in Locked
  BY <1>6, Zenon DEF Labels, Locked
<1>8. MovesTo(t, to, r)
  <2>1. palloc_pc' = [palloc_pc EXCEPT ![t] = to]
    BY <1>1, <1>5, <1>6, Zenon DEF PoolLock, Step
  <2>2. request' = [request EXCEPT ![t] = r]
    BY <1>0, <1>1, <1>3, Zenon DEF PoolTypes
  <2> QED BY <2>1, <2>2, Zenon DEF MovesTo
<1>9. pool_lock[r.pool] = NoOne /\ pool_lock' = [pool_lock EXCEPT ![r.pool] = t]
  BY <1>1, Zenon DEF PoolLock
<1>10. LocksRight'
  <2>1. palloc_pc[t] \notin Locked
    BY <1>3, Zenon DEF Locked
  <2> QED BY <1>0, <1>7, <1>8, <1>9, <2>1, LockTaken, Zenon
<1>11. Working(to, r) = Working(palloc_pc[t], request[t])
  BY <1>3, <1>6, Zenon DEF Working
<1>12. RequestRight(used_map, to, r)
  <2>1. r.idx + r.cnt <= NBits(r.pool) <=> r.cnt <= NBits(r.pool)
    BY <1>2, <1>4, <1>5, SMT
  <2>2. r.k < r.cnt /\ \A j \in Nat : ~(j < r.k)
    BY <1>2, <1>4, SMT
  <2> QED BY <1>4, <1>6, <2>1, <2>2, Zenon DEF RequestRight
<1>13. pool_lock' \in [Pools -> PageThreads \cup {NoOne}]
  BY <1>0, <1>9, Zenon DEF PoolTypes
<1> QED BY <1>3, <1>7, <1>8, <1>10, <1>11, <1>12, <1>13, QuietKept, Zenon

\* bitmap_scan() goes on, finds the group or gives up.
LEMMA ScanUsedKept ==
  ASSUME PallocInv, NEW t \in PageThreads, ScanUsed(t, request[t])
  PROVE  PallocInv'
<1>0. PoolTypes /\ LocksRight
  BY InvParts, Zenon
<1>1. PICK r \in Request : r = request[t]
  BY <1>0, Zenon DEF PoolTypes
<1>2. r.pool \in Pools /\ r.cnt \in Nat /\ r.idx \in Nat /\ r.k \in Nat
  BY Zenon DEF Request
<1>3. palloc_pc[t] = "scan" /\ UNCHANGED <<used_map, held>> /\ pool_lock' = pool_lock
  BY Zenon DEF ScanUsed, Step
<1>4. r.cnt > 0 /\ r.idx + r.cnt <= NBits(r.pool)
  <2>1. RequestRight(used_map, palloc_pc[t], r)
    BY <1>1, InvParts, Zenon
  <2> QED BY <1>3, <2>1, Zenon DEF RequestRight
<1>5. used_map[r.pool].bit_cnt = NBits(r.pool) /\ NBits(r.pool) \in Nat
  BY <1>0, <1>2, Zenon DEF PoolTypes, BitmapOf
<1>6. PICK to \in {"scan", "null"} : to = IF r.idx < NBits(r.pool) - r.cnt THEN "scan" ELSE "null"
  BY Zenon
<1>7. to \in Labels /\ to \in Locked /\ palloc_pc[t] \in Locked
  BY <1>3, <1>6, Zenon DEF Labels, Locked
<1>8. PICK i \in Nat : i = r.idx + 1
  BY <1>2, SMT
<1>9. PICK q \in Request : q = [r EXCEPT !.idx = i]
  BY Zenon DEF Request
<1>10. PICK r1 \in Request : r1 = [q EXCEPT !.k = 0]
  <2>1. 0 \in Nat
    BY SMT
  <2> QED BY <2>1, Zenon DEF Request
<1>11. q.pool = r.pool /\ q.cnt = r.cnt /\ q.idx = i
  BY <1>9, Zenon DEF Request
<1>12. r1.pool = r.pool /\ r1.cnt = r.cnt /\ r1.idx = i /\ r1.k = 0
  BY <1>10, <1>11, Zenon DEF Request
<1>13. MovesTo(t, to, r1)
  <2>1. palloc_pc' = [palloc_pc EXCEPT ![t] = to]
    BY <1>1, <1>5, <1>6, Zenon DEF ScanUsed, Step
  <2>2. request' = [request EXCEPT ![t].idx = @ + 1, ![t].k = 0]
    BY Zenon DEF ScanUsed
  <2>3. PICK rq : rq = [request EXCEPT ![t] = q]
    BY Zenon
  <2>4. rq = [request EXCEPT ![t].idx = @ + 1]
    BY <1>1, <1>8, <1>9, <2>3, Zenon
  <2>5. request' = [rq EXCEPT ![t].k = 0]
    BY <2>2, <2>4, Zenon
  <2>6. rq \in [PageThreads -> Request] /\ rq[t] = q /\ \A u \in PageThreads : u # t => rq[u] = request[u]
    BY <1>0, <2>3, Zenon DEF PoolTypes
  <2>7. request' = [request EXCEPT ![t] = r1]
    <3>1. request' = [rq EXCEPT ![t] = r1]
      BY <1>10, <2>5, <2>6, Zenon
    <3>2. [rq EXCEPT ![t] = r1] = [request EXCEPT ![t] = r1]
      BY <1>0, <2>3, <2>6, Zenon DEF PoolTypes
    <3> QED BY <3>1, <3>2, Zenon
  <2> QED BY <2>1, <2>7, Zenon DEF MovesTo
<1>14. LocksRight'
  <2>1. r1.pool = request[t].pool
    BY <1>1, <1>12, Zenon
  <2> QED BY <1>0, <1>3, <1>7, <1>13, <2>1, LocksKept, Zenon
<1>15. Working(to, r1) = Working(palloc_pc[t], request[t])
  BY <1>3, <1>6, Zenon DEF Working
<1>16. RequestRight(used_map, to, r1)
  <2>1. r.idx < NBits(r.pool) - r.cnt => r1.idx + r1.cnt <= NBits(r1.pool)
    BY <1>2, <1>4, <1>5, <1>8, <1>12, SMT
  <2>2. r1.cnt > 0 /\ r1.k < r1.cnt /\ \A j \in Nat : ~(j < r1.k)
    BY <1>2, <1>4, <1>12, SMT
  <2> QED BY <1>6, <2>1, <2>2, Zenon DEF RequestRight
<1>17. pool_lock' \in [Pools -> PageThreads \cup {NoOne}]
  BY <1>0, <1>3, Zenon DEF PoolTypes
<1> QED BY <1>3, <1>7, <1>13, <1>14, <1>15, <1>16, <1>17, QuietKept, Zenon

\* bitmap_scan() finds a free group, and palloc_get_multiple() goes on to mark it.
LEMMA ScanFreeKept ==
  ASSUME PallocInv, NEW t \in PageThreads, palloc_pc[t] = "scan", ScanFree(t, request[t])
  PROVE  PallocInv'
<1>0. PoolTypes /\ LocksRight
  BY InvParts, Zenon
<1>1. PICK r \in Request : r = request[t]
  BY <1>0, Zenon DEF PoolTypes
<1>2. r.pool \in Pools /\ r.cnt \in Nat /\ r.idx \in Nat /\ r.k \in Nat
  BY Zenon DEF Request
<1>3. UNCHANGED <<used_map, held>> /\ pool_lock' = pool_lock
  BY Zenon DEF ScanFree
<1>4. /\ r.cnt > 0 /\ r.idx + r.cnt <= NBits(r.pool) /\ r.k < r.cnt
      /\ \A j \in Nat : j < r.k => ~bitmap_test(used_map[r.pool], r.idx + j)
  <2>1. RequestRight(used_map, palloc_pc[t], r)
    BY <1>1, InvParts, Zenon
  <2> QED BY <2>1, Zenon DEF RequestRight
<1>5. ~bitmap_test(used_map[r.pool], r.idx + r.k)
  BY <1>1, Zenon DEF ScanFree
<1>6. PICK to \in {"scan", "flip"} : to = IF r.k + 1 < r.cnt THEN "scan" ELSE "flip"
  BY Zenon
<1>7. to \in Labels /\ to \in Locked /\ palloc_pc[t] \in Locked
  BY <1>6, Zenon DEF Labels, Locked
<1>8. PICK k1 \in Nat : k1 = IF r.k + 1 < r.cnt THEN r.k + 1 ELSE 0
  BY <1>2, SMT
<1>9. PICK r1 \in Request : r1 = [r EXCEPT !.k = k1]
  BY Zenon DEF Request
<1>10. r1.pool = r.pool /\ r1.cnt = r.cnt /\ r1.idx = r.idx /\ r1.k = k1
  BY <1>9, Zenon DEF Request
<1>11. MovesTo(t, to, r1)
  <2>1. palloc_pc' = [palloc_pc EXCEPT ![t] = to]
    BY <1>1, <1>6, Zenon DEF ScanFree, Step
  <2>2. request' = [request EXCEPT ![t].k = IF r.k + 1 < r.cnt THEN @ + 1 ELSE 0]
    BY <1>1, Zenon DEF ScanFree
  <2>3. request' = [request EXCEPT ![t] = r1]
    BY <1>1, <1>8, <1>9, <2>2, Zenon
  <2> QED BY <2>1, <2>3, Zenon DEF MovesTo
<1>12. LocksRight'
  <2>1. r1.pool = request[t].pool
    BY <1>1, <1>10, Zenon
  <2> QED BY <1>0, <1>3, <1>7, <1>11, <2>1, LocksKept, Zenon
<1>13. Working(to, r1) = Working(palloc_pc[t], request[t])
  <2>1. Working(palloc_pc[t], request[t]) = {}
    BY Zenon DEF Working
  <2>2. CASE to = "scan"
    BY <2>1, <2>2, Zenon DEF Working
  <2>3. CASE to = "flip"
    <3>1. k1 = 0
      BY <1>6, <1>8, <2>3, Zenon
    <3>2. base(r.pool) \in Nat
      BY <1>0, <1>2, PoolNumbers, Zenon DEF PoolTypes
    <3>3. PICK f \in Nat : f = base(r.pool) + r.idx
      BY <1>2, <3>2, SMT
    <3>4. Working(to, r1) = f .. f + 0 - 1
      BY <1>10, <2>3, <3>1, <3>3, Zenon DEF Working
    <3>5. f .. f + 0 - 1 = {}
      BY SMT
    <3> QED BY <2>1, <3>4, <3>5, Zenon
  <2> QED BY <1>6, <2>2, <2>3, Zenon
<1>14. ASSUME NEW j \in Nat, j < r.k + 1 PROVE ~bitmap_test(used_map[r.pool], r.idx + j)
  <2>1. j < r.k \/ j = r.k
    BY <1>2, <1>14, SMT
  <2> QED BY <1>4, <1>5, <2>1, Zenon
<1>15. RequestRight(used_map, to, r1)
  <2>1. r1.cnt > 0 /\ r1.idx + r1.cnt <= NBits(r1.pool) /\ r1.k < r1.cnt
    BY <1>2, <1>4, <1>8, <1>10, SMT
  <2>2. CASE to = "scan"
    <3>1. r1.k = r.k + 1
      BY <1>6, <1>8, <1>10, <2>2, Zenon
    <3> QED BY <1>10, <1>14, <2>1, <2>2, <3>1, Zenon DEF RequestRight
  <2>3. CASE to = "flip"
    <3>1. \A j \in Nat : j < r.cnt => j < r.k + 1
      <4>1. ~(r.k + 1 < r.cnt)
        BY <1>6, <2>3, Zenon
      <4> QED BY <1>2, <4>1, SMT
    <3> QED BY <1>10, <1>14, <2>1, <2>3, <3>1, Zenon DEF RequestRight
  <2> QED BY <1>6, <2>2, <2>3, Zenon
<1>16. pool_lock' \in [Pools -> PageThreads \cup {NoOne}]
  BY <1>0, <1>3, Zenon DEF PoolTypes
<1> QED BY <1>3, <1>7, <1>11, <1>12, <1>13, <1>15, <1>16, QuietKept, Zenon

\* palloc_get_multiple() returns a null pointer.
LEMMA NullKept ==
  ASSUME PallocInv, NEW t \in PageThreads, palloc_pc[t] = "null", PoolUnlock(t, request[t])
  PROVE  PallocInv'
<1>0. PoolTypes /\ LocksRight
  BY InvParts, Zenon
<1>1. /\ palloc_pc' = [palloc_pc EXCEPT ![t] = "idle"] /\ held' = held
      /\ pool_lock' = [pool_lock EXCEPT ![request[t].pool] = NoOne]
      /\ request' = [request EXCEPT ![t] = NoPages] /\ used_map' = used_map
  BY Zenon DEF PoolUnlock, Step
<1>2. PICK to \in Labels : to = "idle"
  BY Zenon DEF Labels
<1>a. NoPages \in Request
  BY SMT DEF NoPages, Request, Pools
<1>3. PICK r \in Request : r = NoPages
  BY <1>a, Zenon
<1>4. MovesTo(t, to, r)
  BY <1>1, <1>2, <1>3, Zenon DEF MovesTo
<1>5. LocksRight'
  BY <1>0, <1>1, <1>2, <1>4, LockGiven, Zenon DEF Locked
<1>6. pool_lock' \in [Pools -> PageThreads \cup {NoOne}]
  BY <1>0, <1>1, Zenon DEF PoolTypes
<1>7. Working(to, r) = Working(palloc_pc[t], request[t])
  BY <1>2, Zenon DEF Working
<1>8. RequestRight(used_map, to, r)
  BY <1>2, Zenon DEF RequestRight
<1> QED BY <1>1, <1>4, <1>5, <1>6, <1>7, <1>8, QuietKept, Zenon

\* Each step keeps the invariant.
LEMMA PallocSteps ==
  ASSUME PallocInv, [PallocNext]_pallocVars
  PROVE  PallocInv'
<1>1. CASE PallocNext
  <2>1. PICK t \in PageThreads :
          \/ \E p \in Pools, cnt \in 1 .. MaxCount : palloc_get_multiple(t, p, cnt)
          \/ \E g \in held[t] : palloc_free_multiple(t, g)
          \/ PoolLock(t)
          \/ palloc_pc[t] = "scan" /\ ScanUsed(t, request[t])
          \/ palloc_pc[t] = "scan" /\ ScanFree(t, request[t])
          \/ FlipBit(t, request[t]) \/ PoolUnlock(t, request[t]) \/ ClearBit(t, request[t])
    BY <1>1, Zenon DEF PallocNext
  <2>2. PoolUnlock(t, request[t]) => palloc_pc[t] \in {"unlock", "null"}
    BY Zenon DEF PoolUnlock, Step
  <2> QED BY <2>1, <2>2, GetKept, FreeKept, LockKept, ScanUsedKept, ScanFreeKept, FlipKept, UnlockKept,
             NullKept, ClearKept, Zenon
<1>2. CASE UNCHANGED pallocVars
  <2>1. /\ used_map' = used_map /\ pool_lock' = pool_lock /\ palloc_pc' = palloc_pc /\ request' = request
        /\ held' = held
    BY <1>2, Zenon DEF pallocVars
  <2>2. Owned' = Owned /\ Marked' = Marked
    BY <2>1, Zenon DEF Owned, OwnedIn, Marked, IsUsed, page_from_pool
  <2>3. PoolTypes' /\ LocksRight' /\ GroupsInPools'
    BY <2>1, InvParts, Zenon DEF PoolTypes, LocksRight, GroupsInPools
  <2> QED BY <2>1, <2>2, <2>3, InvParts, Zenon DEF PallocInv
<1> QED BY <1>1, <1>2, Zenon

\* At the start nothing is marked or held.
LEMMA PallocStarts ==
  ASSUME PallocInit
  PROVE  PallocInv
<1>1. \A p \in Pools : NBits(p) \in Nat
  <2>1. FREE_PAGES \in Nat /\ user_page_limit \in Nat /\ BITMAP_PAGES \in Nat
    BY PallocAssumption, Zenon
  <2>2. user_pages \in Nat /\ user_pages <= FREE_PAGES
    BY <2>1, SMT DEF user_pages
  <2>3. ASSUME NEW p \in Pools PROVE NBits(p) \in Nat
    <3>1. page_cnt(p) \in Nat
      BY <2>1, <2>2, SMT DEF page_cnt
    <3>2. BITMAP_PAGES <= page_cnt(p)
      BY Zenon DEF PallocInit
    <3> QED BY <2>1, <3>1, <3>2, SMT DEF NBits
  <2> QED BY <2>3, Zenon
<1>2. \A n : bitmap_create(n) \in BitmapOf(n)
  <2>1. {} \in SUBSET Nat
    BY Zenon
  <2> QED BY <2>1, Zenon DEF bitmap_create, BitmapOf
<1>3. \A p \in Pools : used_map[p] = bitmap_create(NBits(p))
  BY Zenon DEF PallocInit, NBits
<1>4. NoPages \in Request
  BY SMT DEF NoPages, Request, Pools
<1>5. PoolTypes
  <2>1. \A p \in Pools : used_map[p] \in BitmapOf(NBits(p))
    BY <1>2, <1>3, Zenon
  <2>2. used_map = [p \in Pools |-> used_map[p]] /\ pool_lock \in [Pools -> PageThreads \cup {NoOne}]
    BY Zenon DEF PallocInit
  <2>3. /\ palloc_pc \in [PageThreads -> Labels] /\ request \in [PageThreads -> Request]
        /\ held \in [PageThreads -> SUBSET Group]
    BY <1>4, Zenon DEF PallocInit, Labels
  <2> QED BY <1>1, <2>1, <2>2, <2>3, Zenon DEF PoolTypes
<1>6. LocksRight
  BY PallocAssumption, Zenon DEF PallocInit, LocksRight, Locked
<1>7. GroupsInPools
  BY Zenon DEF PallocInit, GroupsInPools
<1>8. \A t \in PageThreads : palloc_pc[t] = "idle" /\ held[t] = {}
  BY Zenon DEF PallocInit
<1>9. \A t \in PageThreads : RequestRight(used_map, palloc_pc[t], request[t])
  BY <1>8, Zenon DEF RequestRight
<1>10. ASSUME NEW page \in Nat PROVE page \notin Marked
  <2>1. ASSUME NEW p \in Pools, InPool(p, page) PROVE ~bitmap_test(used_map[p], page - base(p))
    <3>1. PICK j \in Nat : j = page - base(p) /\ j < NBits(p)
      BY <1>5, <2>1, PageOfBit, Zenon
    <3>2. elem_idx(j) \in 0 .. elem_cnt(NBits(p)) - 1
      BY <1>1, <3>1, ElementOf, Zenon
    <3>3. PICK e : e = elem_idx(j)
      BY Zenon
    <3>4. PICK n : n = NBits(p)
      BY Zenon
    <3>5. bitmap_create(n).bits[e] = {}
      BY <3>2, <3>3, <3>4, Zenon DEF bitmap_create
    <3>6. ~bitmap_test(used_map[p], j)
      BY <1>3, <3>3, <3>4, <3>5, TestIs, Zenon
    <3> QED BY <3>1, <3>6, Zenon
  <2>2. ~UsedIn(used_map, page)
    BY <2>1, Zenon DEF UsedIn
  <2> QED BY <1>5, <2>2, MarkedIs, Zenon
<1>11. OneOwner(Owned, Marked)
  <2>1. PICK own : own = Owned
    BY Zenon
  <2>2. Claims(own, palloc_pc, request, held)
    BY <2>1, OwnedClaims, Zenon DEF Owned
  <2>3. \A t \in PageThreads : own[WorkOf(t)] = {} /\ \A g \in Group : own[GroupOf(t, g)] = {}
    BY <1>8, <2>2, Zenon DEF Claims, Working
  <2>4. \A c \in Claimant : own[c] = {}
    BY <2>3, ClaimantKinds, Zenon
  <2>5. OneOwner(own, Marked)
    BY <1>10, <2>4, Zenon DEF OneOwner
  <2> QED BY <2>1, <2>5, Zenon
<1> QED BY <1>5, <1>6, <1>7, <1>9, <1>11, Zenon DEF PallocInv

\* The invariant implies the property.
LEMMA InvAccounts == PallocInv => PagesAccounted
<1> SUFFICES ASSUME PallocInv PROVE PagesAccounted
  BY Zenon
<1>0. PoolTypes
  BY InvParts, Zenon
<1>1. PallocTypeOK
  <2>1. \A p \in Pools : used_map[p].bit_cnt \in Nat
    BY <1>0, Zenon DEF PoolTypes, BitmapOf
  <2>2. Group \subseteq Nat \X Nat
    BY SMT DEF Group
  <2> QED BY <1>0, <2>1, <2>2, Zenon DEF PoolTypes, PallocTypeOK, Labels, Request
<1>2. PICK own : own = Owned
  BY Zenon
<1>3. Claims(own, palloc_pc, request, held)
  BY <1>2, OwnedClaims, Zenon DEF Owned
<1>4. OneOwner(own, Marked)
  BY <1>2, InvParts, Zenon
<1>5. ASSUME NEW t \in PageThreads, NEW g \in held[t]
      PROVE  g \in Group /\ GroupOf(t, g) \in Claimant /\ own[GroupOf(t, g)] = Pages(g)
  <2>1. g \in Group
    BY <1>0, Zenon DEF PoolTypes
  <2> QED BY <1>3, <2>1, ClaimantKinds, Zenon DEF Claims
<1>6. ASSUME NEW t \in PageThreads, NEW g \in held[t], NEW u \in PageThreads, NEW h \in held[u], <<t, g>> # <<u, h>>
      PROVE  Pages(g) \cap Pages(h) = {}
  <2>1. GroupOf(t, g) # GroupOf(u, h)
    BY <1>6, Zenon DEF GroupOf
  <2> QED BY <1>4, <1>5, <2>1, Zenon DEF OneOwner
<1>7. ASSUME NEW t \in PageThreads, NEW g \in held[t], NEW page \in Pages(g) PROVE IsUsed(page)
  <2>1. g[1] \in Nat /\ g[2] \in Nat
    BY <1>5, SMT DEF Group
  <2>2. page \in Nat
    BY <2>1, SMT DEF Pages
  <2>3. PICK c \in Claimant : page \in own[c]
    BY <1>5, Zenon
  <2>4. page \in Marked
    BY <1>4, <2>2, <2>3, Zenon DEF OneOwner
  <2> QED BY <2>4, Zenon DEF Marked
<1>8. ASSUME \A t \in PageThreads : palloc_pc[t] = "idle", NEW page \in Nat, IsUsed(page)
      PROVE  \E t \in PageThreads : \E g \in held[t] : page \in Pages(g)
  <2>1. page \in Marked
    BY <1>8, Zenon DEF Marked
  <2>2. PICK c \in Claimant : page \in own[c]
    BY <1>4, <2>1, Zenon DEF OneOwner
  <2>3. PICK t \in PageThreads : c = WorkOf(t) \/ \E g \in Group : c = GroupOf(t, g)
    BY ClaimantKinds, Zenon
  <2>4. own[WorkOf(t)] = {}
    <3>1. Working(palloc_pc[t], request[t]) = {}
      BY <1>8, Zenon DEF Working
    <3> QED BY <1>3, <3>1, Zenon DEF Claims
  <2>5. PICK g \in Group : c = GroupOf(t, g)
    BY <2>2, <2>3, <2>4, Zenon
  <2>6. own[c] = IF g \in held[t] THEN Pages(g) ELSE {}
    BY <1>3, <2>5, Zenon DEF Claims
  <2> QED BY <2>2, <2>6, Zenon
<1>9. \A page \in 0 .. FREE_PAGES : page \in Nat
  BY PallocAssumption, SMT
<1> QED BY <1>1, <1>6, <1>7, <1>8, <1>9, Zenon DEF PagesAccounted

\* Whatever the sizes of the pools, the number of threads and the groups that
\* they ask for: palloc_get_multiple() never gives a page to two owners, every
\* page it has given out is marked in its pool's bitmap, and between calls no
\* other page is, although palloc_free_multiple() clears bits without the lock
\* that protects the scan.
THEOREM PagesKept == PallocSpec => []PagesAccounted
<1>1. PallocInit => PallocInv
  BY PallocStarts, Zenon
<1>2. PallocInv /\ [PallocNext]_pallocVars => PallocInv'
  BY PallocSteps, Zenon
<1> QED BY <1>1, <1>2, InvAccounts, PTL DEF PallocSpec
=============================================================================
