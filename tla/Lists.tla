-------------------------------- MODULE Lists --------------------------------
(***************************************************************************)
(* lib/kernel/list.c: doubly linked lists with a head and a tail.  A heap  *)
(* h has the next and the prev pointer of every node, and an operator that *)
(* stands for a function of list.c takes the heap it finds and returns the *)
(* heap it leaves.  less(a, b) is Value[a] < Value[b].                     *)
(***************************************************************************)
EXTENDS Naturals, FiniteSets, Sequences, SequencesExt

CONSTANTS
  Lists,   \* struct list's
  Elems,   \* struct list_elem's that a caller puts into lists
  Value,   \* Value[e], what less() compares
  NULL

ASSUME ListsAssumption == Value \in [Elems -> Nat]

VARIABLE links  \* the heap, NULL before list_init()

list_head(l) == <<"head", l>>
list_tail(l) == <<"tail", l>>
Nodes == Elems \cup {list_head(l) : l \in Lists} \cup {list_tail(l) : l \in Lists}

less(a, b) == Value[a] < Value[b]

\* list_init() of every list.
list_init ==
  [next |-> [n \in Nodes |-> IF \E l \in Lists : n = list_head(l) THEN list_tail(n[2]) ELSE NULL],
   prev |-> [n \in Nodes |-> IF \E l \in Lists : n = list_tail(l) THEN list_head(n[2]) ELSE NULL]]

is_interior(h, n) == h.prev[n] # NULL /\ h.next[n] # NULL
is_tail(h, n) == h.prev[n] # NULL /\ h.next[n] = NULL

list_begin(h, l) == h.next[list_head(l)]
list_rbegin(h, l) == h.prev[list_tail(l)]
list_end(l) == list_tail(l)
list_empty(h, l) == list_begin(h, l) = list_end(l)

\* Stores p->next = v, and p->prev = v.
Next_to(h, p, v) == [h EXCEPT !.next[p] = v]
Prev_to(h, p, v) == [h EXCEPT !.prev[p] = v]

list_insert(h, before, e) ==
  LET was == h.prev[before]
  IN  Prev_to(Next_to(Next_to(Prev_to(h, e, was), e, before), was, e), before, e)

\* Cuts first .. last out of their list, and puts them before before.
Cut(h, first, last) ==
  Prev_to(Next_to(h, h.prev[first], h.next[last]), h.next[last], h.prev[first])
Paste(h, before, first, last) ==
  LET was == h.prev[before]
  IN  Prev_to(Next_to(Next_to(Prev_to(h, first, was), last, before), was, first), before, last)

list_splice(h, before, first, last) ==
  IF first = last THEN h
  ELSE Paste(Cut(h, first, h.prev[last]), before, first, h.prev[last])

list_push_front(h, l, e) == list_insert(h, list_begin(h, l), e)
list_push_back(h, l, e) == list_insert(h, list_end(l), e)
list_remove(h, e) == Cut(h, e, e)
list_pop_front(h, l) == list_remove(h, list_begin(h, l))
list_pop_back(h, l) == list_remove(h, list_rbegin(h, l))

RECURSIVE SizeFrom(_, _, _)
SizeFrom(h, l, e) == IF e = list_end(l) THEN 0 ELSE 1 + SizeFrom(h, l, h.next[e])
list_size(h, l) == SizeFrom(h, l, list_begin(h, l))

swap(h, e) == [h EXCEPT !.prev[e] = h.next[e], !.next[e] = h.prev[e]]

\* list_reverse() swaps the pointers of every element, then those of the ends.
RECURSIVE SwapFrom(_, _, _)
SwapFrom(h, l, e) ==
  IF e = list_end(l) THEN h ELSE SwapFrom(swap(h, e), l, h.next[e])

SwapEnds(h, l) ==
  [h EXCEPT !.next[list_head(l)] = list_rbegin(h, l), !.prev[list_tail(l)] = list_begin(h, l)]
SwapInner(h, front, back) == [h EXCEPT !.prev[front] = h.next[back], !.next[back] = h.prev[front]]
SwapBoth(h, l) == SwapInner(h, list_begin(h, l), list_rbegin(h, l))

list_reverse(h, l) ==
  IF list_empty(h, l) THEN h
  ELSE SwapBoth(SwapEnds(SwapFrom(h, l, list_begin(h, l)), l), l)

(* list_sort() *)

RECURSIVE find_end_of_run(_, _, _)
find_end_of_run(h, a, b) ==
  LET n == h.next[a]
  IN  IF n # b /\ ~less(n, a) THEN find_end_of_run(h, n, b) ELSE n

\* A merge that lets the later of two equal elements go first.
RECURSIVE inplace_merge_unstable(_, _, _, _)
inplace_merge_unstable(h, a0, a1b0, b1) ==
  IF a0 = a1b0 \/ a1b0 = b1 THEN h
  ELSE IF less(a0, a1b0) THEN inplace_merge_unstable(h, h.next[a0], a1b0, b1)
  ELSE inplace_merge_unstable(list_splice(h, a0, a1b0, h.next[a1b0]), a0, h.next[a1b0], b1)

RECURSIVE inplace_merge(_, _, _, _)
inplace_merge(h, a0, a1b0, b1) ==
  IF a0 = a1b0 \/ a1b0 = b1 THEN h
  ELSE IF ~less(a1b0, a0) THEN inplace_merge(h, h.next[a0], a1b0, b1)
  ELSE inplace_merge(list_splice(h, a0, a1b0, h.next[a1b0]), a0, h.next[a1b0], b1)

\* The for loop from a0 on, with the number of runs it has put out.
RECURSIVE Pass(_, _, _, _)
MergeRuns(h, l, a0, a1b0, b1, runs) == Pass(inplace_merge(h, a0, a1b0, b1), l, b1, runs)
Pass(h, l, a0, runs) ==
  IF a0 = list_end(l) THEN [heap |-> h, runs |-> runs]
  ELSE LET a1b0 == find_end_of_run(h, a0, list_end(l))
       IN  IF a1b0 = list_end(l) THEN [heap |-> h, runs |-> runs + 1]
           ELSE MergeRuns(h, l, a0, a1b0, find_end_of_run(h, a1b0, list_end(l)), runs + 1)

RECURSIVE list_sort(_, _)
list_sort(h, l) ==
  LET pass == Pass(h, l, list_begin(h, l), 0)
  IN  IF pass.runs > 1 THEN list_sort(pass.heap, l) ELSE pass.heap

RECURSIVE FirstGreater(_, _, _, _)
FirstGreater(h, l, elem, e) ==
  IF e = list_end(l) \/ less(elem, e) THEN e ELSE FirstGreater(h, l, elem, h.next[e])
list_insert_ordered(h, l, elem) ==
  list_insert(h, FirstGreater(h, l, elem, list_begin(h, l)), elem)

\* The while loop of list_unique(); dup may be NULL.
RECURSIVE UniqueFrom(_, _, _, _)
UniqueFrom(h, l, dup, elem) ==
  LET n == h.next[elem]
      cut == list_remove(h, n)
  IN  CASE n = list_end(l) -> h
        [] n # list_end(l) /\ (less(elem, n) \/ less(n, elem)) -> UniqueFrom(h, l, dup, n)
        [] OTHER -> UniqueFrom(IF dup = NULL THEN cut ELSE list_push_back(cut, dup, n),
                               l, dup, elem)
list_unique(h, l, dup) ==
  IF list_empty(h, l) THEN h ELSE UniqueFrom(h, l, dup, list_begin(h, l))

RECURSIVE MaxFrom(_, _, _, _)
MaxFrom(h, l, max, e) ==
  IF e = list_end(l) THEN max
  ELSE MaxFrom(h, l, IF less(max, e) THEN e ELSE max, h.next[e])
list_max(h, l) ==
  IF list_empty(h, l) THEN list_end(l)
  ELSE MaxFrom(h, l, list_begin(h, l), h.next[list_begin(h, l)])

RECURSIVE MinFrom(_, _, _, _)
MinFrom(h, l, min, e) ==
  IF e = list_end(l) THEN min
  ELSE MinFrom(h, l, IF less(e, min) THEN e ELSE min, h.next[e])
list_min(h, l) ==
  IF list_empty(h, l) THEN list_end(l)
  ELSE MinFrom(h, l, list_begin(h, l), h.next[list_begin(h, l)])

(* The calls of a caller that keeps to the comments of list.c *)

\* The elements of l by their next pointers, and by their prev pointers.
RECURSIVE Along(_, _, _)
Along(f, n, end) == IF n \in {end, NULL} THEN <<>> ELSE <<n>> \o Along(f, f[n], end)
Forward(h, l) == Along(h.next, list_begin(h, l), list_tail(l))
Backward(h, l) == Along(h.prev, list_rbegin(h, l), list_head(l))

In(h, l) == ToSet(Forward(h, l))
Out(h) == Elems \ UNION {In(h, l) : l \in Lists}

\* What is left of an element's pointers once it is out of every list is dead:
\* list_insert() stores both.
Forget(h, out) ==
  [next |-> [n \in Nodes |-> IF n \in out THEN NULL ELSE h.next[n]],
   prev |-> [n \in Nodes |-> IF n \in out THEN NULL ELSE h.prev[n]]]

Returns(h) == links' = Forget(h, Out(h))

PushFront(l, e) == Returns(list_push_front(links, l, e))
PushBack(l, e) == Returns(list_push_back(links, l, e))
PopFront(l) == ~list_empty(links, l) /\ Returns(list_pop_front(links, l))
PopBack(l) == ~list_empty(links, l) /\ Returns(list_pop_back(links, l))

\* The list has to be sorted.
Sorted(s) == \A i \in 2 .. Len(s) : ~less(s[i], s[i - 1])
InsertOrdered(l, e) == Sorted(Forward(links, l)) /\ Returns(list_insert_ordered(links, l, e))

\* The elements of l from index i up to index j, its end included, and where
\* they may go.
At(h, l, i) == Append(Forward(h, l), list_end(l))[i]
Between(h, l, i, j) == SubSeq(Forward(h, l), i, j - 1)
Places(h) == UNION {In(h, l) \cup {list_tail(l)} : l \in Lists}
Spliceable(h, l, i, j, before) == i <= j /\ before \notin ToSet(Between(h, l, i, j))

Splice(l, i, j, before) ==
  /\ Spliceable(links, l, i, j, before)
  /\ Returns(list_splice(links, before, At(links, l, i), At(links, l, j)))

ListsInit == links = NULL

ListCall ==
  \/ \E l \in Lists : PopFront(l)
  \/ \E l \in Lists : PopBack(l)
  \/ \E l \in Lists : Returns(list_reverse(links, l))
  \/ \E l \in Lists : Returns(list_sort(links, l))
  \/ \E l \in Lists, e \in Out(links) : PushFront(l, e)
  \/ \E l \in Lists, e \in Out(links) : PushBack(l, e)
  \/ \E l \in Lists, e \in Out(links) : InsertOrdered(l, e)
  \/ \E before \in Places(links), e \in Out(links) : Returns(list_insert(links, before, e))
  \/ \E e \in Elems \ Out(links) : Returns(list_remove(links, e))
  \/ \E l \in Lists, dup \in Lists \cup {NULL} : l # dup /\ Returns(list_unique(links, l, dup))
  \/ \E l \in Lists, before \in Places(links) :
       \E i, j \in 1 .. list_size(links, l) + 1 : Splice(l, i, j, before)

ListsNext ==
  \/ links = NULL /\ links' = list_init
  \/ links # NULL /\ ListCall

ListsSpec == ListsInit /\ [][ListsNext]_links

(* What the lists promise *)

\* A list is the sequence of its elements, the same in both directions, and the
\* queries are about that sequence: of equal elements the first is the maximum
\* and the minimum.
IsSequence(h, l) ==
  LET s == Forward(h, l)
      First(P(_)) == s[CHOOSE i \in 1 .. Len(s) : P(i) /\ \A k \in 1 .. i - 1 : ~P(k)]
  IN  /\ Backward(h, l) = Reverse(s)
      /\ h.prev[list_head(l)] = NULL /\ h.next[list_tail(l)] = NULL
      /\ \A e \in ToSet(s) : is_interior(h, e)
      /\ list_size(h, l) = Len(s)
      /\ s # <<>> =>
           /\ list_max(h, l) = First(LAMBDA i : \A k \in 1 .. Len(s) : ~less(s[i], s[k]))
           /\ list_min(h, l) = First(LAMBDA i : \A k \in 1 .. Len(s) : ~less(s[k], s[i]))

\* Where the element at i goes in a stable sort.
Rank(s, i) ==
  Cardinality({k \in 1 .. Len(s) : less(s[k], s[i]) \/ (k <= i /\ ~less(s[i], s[k]))})
StableSort(s) == [r \in 1 .. Len(s) |-> s[CHOOSE i \in 1 .. Len(s) : Rank(s, i) = r]]

\* The elements of s whose index satisfies P, in order.
ElementsAt(s, P(_)) ==
  LET picked == SelectSeq([i \in 1 .. Len(s) |-> i], P)
  IN  [k \in 1 .. Len(picked) |-> s[picked[k]]]
Differs(s, i) == i > 1 => less(s[i - 1], s[i]) \/ less(s[i], s[i - 1])

\* The sequences S with the elements of t put before node b.
Before(S, b, t) ==
  [l \in Lists |->
     LET at == {k \in 1 .. Len(S[l]) + 1 : Append(S[l], list_end(l))[k] = b}
     IN  IF at = {} THEN S[l]
         ELSE LET k == CHOOSE k \in at : TRUE
              IN  SubSeq(S[l], 1, k - 1) \o t \o SubSeq(S[l], k, Len(S[l]))]

\* The sequences S without the elements of t.
Without(S, t) == [l \in Lists |-> SelectSeq(S[l], LAMBDA e : e \notin ToSet(t))]

\* The heap h holds the sequences S.
Holds(h, S) == \A l \in Lists : IsSequence(h, l) /\ Forward(h, l) = S[l]

\* list.c implements sequences: in every heap that calls can lead to, every
\* function leaves lists whose pointers agree in both directions, that spell
\* the sequence it promises (list_sort() is stable, list_insert_ordered() goes
\* after equal elements, list_unique() keeps the first of equal neighbours and
\* moves the others in order), and leaves the other lists as they were.
ListsAreSequences ==
  links # NULL =>
  LET h == links
      S == [l \in Lists |-> Forward(h, l)]
  IN  /\ \A l \in Lists : Holds(list_reverse(h, l), [S EXCEPT ![l] = Reverse(@)])
      /\ \A l \in Lists : Holds(list_sort(h, l), [S EXCEPT ![l] = StableSort(@)])
      /\ \A l \in Lists : S[l] # <<>> =>
           /\ Holds(list_pop_front(h, l), [S EXCEPT ![l] = Tail(@)])
           /\ Holds(list_pop_back(h, l), [S EXCEPT ![l] = Front(@)])
      /\ \A e \in Elems \ Out(h) : Holds(list_remove(h, e), Without(S, <<e>>))
      /\ \A l \in Lists, e \in Out(h) :
           /\ Holds(list_push_front(h, l, e), [S EXCEPT ![l] = <<e>> \o @])
           /\ Holds(list_push_back(h, l, e), [S EXCEPT ![l] = Append(@, e)])
           /\ Sorted(S[l]) => Holds(list_insert_ordered(h, l, e),
                                   [S EXCEPT ![l] = StableSort(Append(@, e))])
      /\ \A e \in Out(h), b \in Places(h) : Holds(list_insert(h, b, e), Before(S, b, <<e>>))
      /\ \A l \in Lists, dup \in Lists \cup {NULL} : l # dup =>
           Holds(list_unique(h, l, dup),
                 [k \in Lists |->
                    CASE k = l -> ElementsAt(S[l], LAMBDA i : Differs(S[l], i))
                      [] k = dup -> S[k] \o ElementsAt(S[l], LAMBDA i : ~Differs(S[l], i))
                      [] OTHER -> S[k]])
      /\ \A l \in Lists, b \in Places(h) : \A i, j \in 1 .. Len(S[l]) + 1 :
           Spliceable(h, l, i, j, b) =>
             LET t == Between(h, l, i, j)
             IN  Holds(list_splice(h, b, At(h, l, i), At(h, l, j)), Before(Without(S, t), b, t))
=============================================================================
