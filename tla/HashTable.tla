------------------------------ MODULE HashTable ------------------------------
(***************************************************************************)
(* lib/kernel/hash.c: a table of chained buckets that grows and shrinks    *)
(* with its elements.  A table is [buckets, elem_cnt], a bucket the        *)
(* sequence of its elements; the loop of rehash(), which relinks a list    *)
(* while it walks it, is on the pointers of lib/kernel/list.c.  The last   *)
(* argument of an operation says whether the malloc() in rehash() finds    *)
(* memory.                                                                 *)
(***************************************************************************)
EXTENDS Naturals, Sequences, FiniteSets, SequencesExt, Bitwise

CONSTANTS
  HashElems,   \* struct hash_elem's
  Key,         \* Key[e], what less() compares
  Hash,        \* Hash[k], the hash of an element with key k
  MinBuckets,  \* 4 in the code
  BEST_ELEMS_PER_BUCKET,  \* 2 in the code
  NoElem       \* a null pointer

ASSUME HashAssumption ==
  /\ Key \in [HashElems -> Nat]
  /\ \A e \in HashElems : Hash[Key[e]] \in Nat
  /\ MinBuckets \in Nat \ {0} /\ BEST_ELEMS_PER_BUCKET \in Nat \ {0}

VARIABLE table  \* NoElem before hash_init()

\* The lists of the old and of the new array of buckets.
BucketLists == {"old", "new"} \X (1 .. MinBuckets + Cardinality(HashElems))
Chain == INSTANCE Lists
  WITH Lists <- BucketLists, Elems <- HashElems, Value <- Key, NULL <- NoElem, links <- table

bucket_cnt(h) == Len(h.buckets)

hash_clear(h) == [buckets |-> [i \in 1 .. bucket_cnt(h) |-> <<>>], elem_cnt |-> 0]

hash_init == hash_clear([buckets |-> [i \in 1 .. MinBuckets |-> <<>>]])

hash_destroy == NoElem

find_bucket(h, e) == (Hash[Key[e]] & (bucket_cnt(h) - 1)) + 1

Equal(a, b) == ~(Key[a] < Key[b]) /\ ~(Key[b] < Key[a])

find_elem(h, bucket, e) ==
  LET b == h.buckets[bucket]
      at == {i \in 1 .. Len(b) : Equal(b[i], e)}
  IN  IF at = {} THEN NoElem ELSE b[CHOOSE i \in at : \A j \in at : i <= j]

insert_elem(h, bucket, e) ==
  [h EXCEPT !.elem_cnt = @ + 1, !.buckets[bucket] = <<e>> \o @]

remove_elem(h, e) ==
  [elem_cnt |-> h.elem_cnt - 1,
   buckets |-> [i \in 1 .. bucket_cnt(h) |-> SelectSeq(h.buckets[i], LAMBDA x : x # e)]]

turn_off_least_1bit(x) == x & (x - 1)
is_power_of_2(x) == x # 0 /\ turn_off_least_1bit(x) = 0

RECURSIVE PowerBelow(_)
PowerBelow(n) == IF is_power_of_2(n) THEN n ELSE PowerBelow(turn_off_least_1bit(n))
new_bucket_cnt(h) ==
  LET n == h.elem_cnt \div BEST_ELEMS_PER_BUCKET
  IN  PowerBelow(IF n < MinBuckets THEN MinBuckets ELSE n)

\* The pointers of the old buckets, the new ones being empty.
Linked(buckets) ==
  FoldLeft(LAMBDA p, i : FoldLeft(LAMBDA q, e : Chain!list_push_back(q, <<"old", i>>, e),
                                  p, buckets[i]),
           Chain!list_init, [i \in 1 .. Len(buckets) |-> i])

\* Linking elem into its new bucket before taking it out of the old one.
Relinked_early(p, elem, new_bucket) ==
  Chain!list_remove(Chain!list_push_front(p, new_bucket, elem), elem)

Relinked(p, elem, new_bucket) ==
  Chain!list_push_front(Chain!list_remove(p, elem), new_bucket, elem)

\* The inner loop of rehash(): moves elem, and the elements after it in the old
\* bucket i, to the front of their buckets in h.
RECURSIVE MoveFrom(_, _, _, _)
MoveFrom(p, h, i, elem) ==
  IF elem = Chain!list_end(<<"old", i>>) THEN p
  ELSE MoveFrom(Relinked(p, elem, <<"new", find_bucket(h, elem)>>), h, i, p.next[elem])

\* Its outer loop, h having as many buckets as the new array.
Rehashed(h, old_buckets) ==
  LET moved == FoldLeft(LAMBDA p, i : MoveFrom(p, h, i, Chain!list_begin(p, <<"old", i>>)),
                        Linked(old_buckets), [i \in 1 .. Len(old_buckets) |-> i])
  IN  [h EXCEPT !.buckets = [i \in 1 .. bucket_cnt(h) |-> Chain!Forward(moved, <<"new", i>>)]]

rehash(h, memory) ==
  IF new_bucket_cnt(h) = bucket_cnt(h) \/ ~memory THEN h
  ELSE Rehashed([h EXCEPT !.buckets = [i \in 1 .. new_bucket_cnt(h) |-> <<>>]], h.buckets)

hash_find(h, e) == find_elem(h, find_bucket(h, e), e)

hash_insert(h, new, memory) ==
  rehash(IF hash_find(h, new) = NoElem THEN insert_elem(h, find_bucket(h, new), new) ELSE h,
         memory)

hash_replace(h, new, memory) ==
  LET old == hash_find(h, new)
  IN  rehash(insert_elem(IF old = NoElem THEN h ELSE remove_elem(h, old),
                         find_bucket(h, new), new),
             memory)

hash_delete(h, e, memory) ==
  LET found == hash_find(h, e)
  IN  IF found = NoElem THEN h ELSE rehash(remove_elem(h, found), memory)

\* The iterator of hash_first() and hash_next() is at elem k of a bucket, 0
\* being the list's head; hash_next() skips the buckets it finds at their end.
hash_first == [bucket |-> 1, elem |-> 0]
RECURSIVE Settle(_, _)
Settle(h, it) ==
  CASE it.elem <= Len(h.buckets[it.bucket]) -> it
    [] it.elem > Len(h.buckets[it.bucket]) /\ it.bucket = bucket_cnt(h) -> NoElem
    [] OTHER -> Settle(h, [bucket |-> it.bucket + 1, elem |-> 1])
hash_next(h, it) == Settle(h, [it EXCEPT !.elem = @ + 1])

RECURSIVE VisitFrom(_, _)
VisitFrom(h, it) ==
  IF it = NoElem THEN <<>>
  ELSE <<h.buckets[it.bucket][it.elem]>> \o VisitFrom(h, hash_next(h, it))
Visited(h) == VisitFrom(h, hash_next(h, hash_first))

\* What hash_apply() calls its action for.
hash_apply(h) == FlattenSeq(h.buckets)

\* The set of elements in the table.
Content(h) == ToSet(hash_apply(h))

HashInit == table = NoElem

\* An element is in the table once.
HashCall ==
  \/ \E e \in HashElems \ Content(table), memory \in BOOLEAN :
       table' = hash_insert(table, e, memory)
  \/ \E e \in HashElems \ Content(table), memory \in BOOLEAN :
       table' = hash_replace(table, e, memory)
  \/ \E e \in HashElems, memory \in BOOLEAN : table' = hash_delete(table, e, memory)
  \/ table' = hash_clear(table)
  \/ table' = hash_destroy

HashNext ==
  \/ table = NoElem /\ table' = hash_init
  \/ table # NoElem /\ HashCall

HashSpec == HashInit /\ [][HashNext]_table

\* The table h holds the set S: every element is found by any element equal to
\* it, is visited once by the iterators and by hash_apply(), and is counted.
HoldsSet(h, S) ==
  /\ Content(h) = S
  /\ h.elem_cnt = Cardinality(S) /\ Len(Visited(h)) = Cardinality(S)
  /\ Visited(h) = hash_apply(h)
  /\ \A e \in HashElems : hash_find(h, e) \in {x \in S : Key[x] = Key[e]}
       \/ (hash_find(h, e) = NoElem /\ \A x \in S : Key[x] # Key[e])

\* hash.c implements a set of elements with distinct keys: whatever the history
\* of insertions, replacements and deletions, and whether or not rehash() gets
\* the memory it asks for, hash_insert() keeps the old of two equal elements and
\* hash_replace() the new, hash_delete() removes the one it finds, and every
\* element can be found after the buckets have been split or joined.
HashIsSet ==
  table # NoElem =>
  LET S == Content(table)
      Other(e) == {x \in S : Key[x] # Key[e]}
  IN  \A e \in HashElems, memory \in BOOLEAN :
        /\ HoldsSet(hash_delete(table, e, memory), Other(e))
        /\ e \notin S =>
             /\ HoldsSet(hash_insert(table, e, memory), IF Other(e) = S THEN S \cup {e} ELSE S)
             /\ HoldsSet(hash_replace(table, e, memory), Other(e) \cup {e})
=============================================================================
