---------------------------- MODULE SpaceProofs ----------------------------
(***************************************************************************)
(* The address spaces of userprog/process.c and userprog/pagedir.c, for    *)
(* any number of processes, executables, pages and page tables: which page *)
(* belongs to which process, that none is lost or used twice, and that     *)
(* load() gives a user program its segments and its stack.                 *)
(***************************************************************************)
EXTENDS AddressSpace, Integers, TLAPS
-----------------------------------------------------------------------------

\* The pages of both pools; a page or none; an entry or none.
AnyPage == KernelPages \cup UserPages
MaybePage == AnyPage \cup {NoPage}
SomeEntry == Entry \cup {NoPage}
\* Where a process can be, and where it is while it loads.
SpaceLabels ==
  {"none", "start", "activate", "phdr", "page", "read", "install", "stack_page", "stack_install",
   "stack_words", "run", "exit", "deactivate", "destroy", "dead"}
LoadLabels ==
  {"activate", "phdr", "page", "read", "install", "stack_page", "stack_install", "stack_words", "run"}
\* Where it uses load()'s file, and where its command line is in use.
FileLabels == {"phdr", "page", "read", "install", "stack_page", "stack_install", "stack_words"}
StartLabels == FileLabels \cup {"start", "activate"}
LeftToLoad == [upage : Nat, ofs : Nat, read : Nat, zero : Nat, writable : BOOLEAN]

\* What the proof needs of the variables' types.
SpaceTypes ==
  /\ runs \in Spaces
  /\ space_pc \in [Spaces -> SpaceLabels]
  /\ program \in [Spaces -> Executable]
  /\ phdr \in [Spaces -> Nat \ {0}]
  /\ todo \in [Spaces -> LeftToLoad]
  /\ kpage \in [Spaces -> MaybePage]
  /\ pagedir \in [Spaces -> MaybePage]
  /\ dying \in [Spaces -> MaybePage]
  /\ tables \in [Spaces -> [Tables -> MaybePage]]
  /\ ptes \in [Spaces -> [UserVPages -> SomeEntry]]

\* Which pages a process has, from where it is.
HasPages(s) ==
  /\ kpage[s] # NoPage <=> space_pc[s] \in {"read", "install", "stack_install"}
  /\ space_pc[s] \in LoadLabels => pagedir[s] # NoPage
  /\ space_pc[s] \in {"none", "start", "deactivate", "destroy", "dead"} => pagedir[s] = NoPage
  /\ dying[s] # NoPage <=> space_pc[s] \in {"deactivate", "destroy"}
  /\ \A i \in Tables : tables[s][i] # NoPage => pagedir[s] # NoPage \/ dying[s] # NoPage
  /\ \A v \in UserVPages : ptes[s][v] # NoPage => tables[s][pd_no(v)] # NoPage

\* What is left of a segment ends with a page, below PHYS_BASE.
Fits(seg) ==
  \E n \in Nat : seg.read + seg.zero = n * PageSize /\ seg.upage + n <= PHYS_BASE \div PageSize
\* What is left to load fits, and a page is in hand at "install" only while there
\* is something left.
SegmentsFit ==
  \A s \in Spaces :
    /\ Fits(todo[s])
    /\ space_pc[s] \in {"read", "install"} => todo[s].read > 0 \/ todo[s].zero > 0

\* Processes that are started together are known to be, and a load that has
\* not overlapped another reads its own file.
OwnFile ==
  /\ mixed \in SUBSET Spaces /\ file \in Executable \cup {NoPage}
  /\ \A s, t \in Spaces :
       s # t /\ space_pc[s] \in StartLabels /\ space_pc[t] \in StartLabels => s \in mixed
  /\ \A s \in Spaces : space_pc[s] \in FileLabels /\ s \notin mixed => file = program[s]

\* The active directory is the running process's.
RightDirectory ==
  /\ cr3 # NoPage => cr3 \in {pagedir[runs], dying[runs]}
  /\ space_pc[runs] = "destroy" => cr3 = NoPage

\* The inductive invariant.
SpaceInv ==
  /\ SpaceTypes /\ SegmentsFit /\ OwnFile /\ RightDirectory
  /\ \A s \in Spaces : HasPages(s)
  /\ EachPageOnce(Held, free_pages)

\* A process and one of its places.
Holder == Spaces \X PagePlaces
\* The five kinds of places of a process.
DirOf(s) == <<s, <<"pagedir", 0>>>>
DeadOf(s) == <<s, <<"dying", 0>>>>
HandOf(s) == <<s, <<"kpage", 0>>>>
TableOf(s, i) == <<s, <<"table", i>>>>
MapOf(s, v) == <<s, <<"page", v>>>>

\* The three things that EachPageOnce() says of the places.
NotTwice(f) == \A d, e \in Holder : f[d] # NoPage /\ f[d] = f[e] => d = e
NotFree(f, free) == \A d \in Holder : f[d] # NoPage => f[d] \notin free
NotLost(f, free) ==
  \A p : p \in free \/ (\E d \in Holder : f[d] # NoPage /\ p = f[d]) <=> p \in AnyPage

\* EachPageOnce() is the conjunction of the three.
LEMMA OnceParts ==
  ASSUME NEW f \in [Holder -> MaybePage], NEW free
  PROVE  EachPageOnce(f, free) <=> NotTwice(f) /\ NotFree(f, free) /\ NotLost(f, free)
<1>1. DOMAIN f = Holder
  BY Zenon
<1>2. PICK used : used = {d \in Holder : f[d] # NoPage}
  BY Zenon
<1>3. EachPageOnce(f, free) <=>
        /\ \A d, e \in used : d # e => f[d] # f[e]
        /\ \A d \in used : f[d] \notin free
        /\ free \cup {f[d] : d \in used} = KernelPages \cup UserPages
  BY <1>1, <1>2, Zenon DEF EachPageOnce
<1>4. (\A d, e \in used : d # e => f[d] # f[e]) <=> NotTwice(f)
  BY <1>2, Zenon DEF NotTwice
<1>5. (\A d \in used : f[d] \notin free) <=> NotFree(f, free)
  BY <1>2, Zenon DEF NotFree
<1>6. (free \cup {f[d] : d \in used} = KernelPages \cup UserPages) <=> NotLost(f, free)
  BY <1>2, Zenon DEF AnyPage, NotLost
<1> QED BY <1>3, <1>4, <1>5, <1>6, Zenon

\* g is f, except at the places H.
SameBut(H, f, g) == \A h \in Holder : h \in H \/ g[h] = f[h]
\* From f to g the pages at the places H were given back.
Gave(H, f, g, free, free1) ==
  /\ SameBut(H, f, g) /\ \A d \in H : f[d] # NoPage /\ g[d] = NoPage
  /\ \A q : q \in free1 <=> q \in free \/ \E d \in H : q = f[d]

\* A page that was free is now at a place that had none.
LEMMA PageTaken ==
  ASSUME NEW f \in [Holder -> MaybePage], NEW g \in [Holder -> MaybePage], NEW free,
         EachPageOnce(f, free),
         NEW h \in Holder, f[h] = NoPage, NEW p \in free, p # NoPage,
         g[h] = p, SameBut({h}, f, g)
  PROVE  EachPageOnce(g, free \ {p})
<1>s. \A d \in Holder : d # h => g[d] = f[d]
  BY Zenon DEF SameBut
<1>0. NotTwice(f) /\ NotFree(f, free) /\ NotLost(f, free)
  BY OnceParts, Zenon
<1>1. \A d, e \in Holder : f[d] # NoPage /\ f[d] = f[e] => d = e
  BY <1>0, Zenon DEF NotTwice
<1>2. \A d \in Holder : f[d] # NoPage => f[d] \notin free
  BY <1>0, Zenon DEF NotFree
<1>3. \A q : q \in free \/ (\E d \in Holder : f[d] # NoPage /\ q = f[d]) <=> q \in AnyPage
  BY <1>0, Zenon DEF NotLost
<1>4. NotTwice(g)
  BY <1>s, <1>1, <1>2, Zenon DEF NotTwice
<1>5. NotFree(g, free \ {p})
  BY <1>s, <1>2, Zenon DEF NotFree
<1>6. NotLost(g, free \ {p})
  BY <1>s, <1>2, <1>3, ZenonT(60) DEF NotLost
<1> QED BY <1>4, <1>5, <1>6, OnceParts, Zenon

\* The pages at the places H are free again.
LEMMA PagesGiven ==
  ASSUME NEW f \in [Holder -> MaybePage], NEW g \in [Holder -> MaybePage], NEW free, NEW free1,
         EachPageOnce(f, free),
         NEW H \in SUBSET Holder, Gave(H, f, g, free, free1)
  PROVE  EachPageOnce(g, free1)
<1>s. \A d \in Holder : d \notin H => g[d] = f[d]
  BY Zenon DEF Gave, SameBut
<1>g. /\ \A d \in H : f[d] # NoPage /\ g[d] = NoPage
      /\ \A q : q \in free1 <=> q \in free \/ \E d \in H : q = f[d]
  BY Zenon DEF Gave
<1>0. NotTwice(f) /\ NotFree(f, free) /\ NotLost(f, free)
  BY OnceParts, Zenon
<1>1. \A d, e \in Holder : f[d] # NoPage /\ f[d] = f[e] => d = e
  BY <1>0, Zenon DEF NotTwice
<1>2. \A d \in Holder : f[d] # NoPage => f[d] \notin free
  BY <1>0, Zenon DEF NotFree
<1>3. \A q : q \in free \/ (\E d \in Holder : f[d] # NoPage /\ q = f[d]) <=> q \in AnyPage
  BY <1>0, Zenon DEF NotLost
<1>r. \A d \in Holder : g[d] # NoPage => g[d] = f[d]
  BY <1>s, <1>g, Zenon
<1>4. NotTwice(g)
  BY <1>r, <1>1, Zenon DEF NotTwice
<1>5. NotFree(g, free1)
  <2> SUFFICES ASSUME NEW d \in Holder, g[d] # NoPage PROVE g[d] \notin free /\ \A e \in H : g[d] # f[e]
    BY <1>s, <1>g, Zenon DEF NotFree
  <2>1. d \notin H /\ g[d] = f[d]
    BY <1>s, <1>g, Zenon
  <2> QED BY <1>s, <1>g, <1>1, <1>2, <2>1, Zenon
<1>6. ASSUME NEW q
      PROVE  q \in free1 \/ (\E d \in Holder : g[d] # NoPage /\ q = g[d])
               <=> q \in free \/ \E d \in Holder : f[d] # NoPage /\ q = f[d]
  <2>1. ASSUME NEW d \in Holder, g[d] # NoPage, q = g[d] PROVE \E e \in Holder : f[e] # NoPage /\ q = f[e]
    BY <1>s, <1>g, <2>1, Zenon
  <2>2. ASSUME NEW d \in Holder, f[d] # NoPage, q = f[d]
        PROVE  q \in free1 \/ \E e \in Holder : g[e] # NoPage /\ q = g[e]
    BY <1>s, <1>g, <2>2, Zenon
  <2>3. q \in free1 <=> q \in free \/ \E d \in H : q = f[d]
    BY <1>s, <1>g, Zenon
  <2>4. (\E d \in H : q = f[d]) => \E d \in Holder : f[d] # NoPage /\ q = f[d]
    BY <1>s, <1>g, Zenon
  <2> QED BY <1>s, <1>g, <2>1, <2>2, <2>3, <2>4, Zenon
<1>7. NotLost(g, free1)
  BY <1>s, <1>g, <1>3, <1>6, Zenon DEF NotLost
<1> QED BY <1>4, <1>5, <1>7, OnceParts, Zenon

\* A page is at another place, which had none.
LEMMA PageMoved ==
  ASSUME NEW f \in [Holder -> MaybePage], NEW g \in [Holder -> MaybePage], NEW free,
         EachPageOnce(f, free),
         NEW h \in Holder, NEW k \in Holder, f[k] = NoPage, h # k,
         g[h] = NoPage, g[k] = f[h], SameBut({h, k}, f, g)
  PROVE  EachPageOnce(g, free)
<1>s. \A d \in Holder : d # h /\ d # k => g[d] = f[d]
  BY Zenon DEF SameBut
<1>0. NotTwice(f) /\ NotFree(f, free) /\ NotLost(f, free)
  BY OnceParts, Zenon
<1>1. \A d, e \in Holder : f[d] # NoPage /\ f[d] = f[e] => d = e
  BY <1>0, Zenon DEF NotTwice
<1>2. \A d \in Holder : f[d] # NoPage => f[d] \notin free
  BY <1>0, Zenon DEF NotFree
<1>3. \A q : q \in free \/ (\E d \in Holder : f[d] # NoPage /\ q = f[d]) <=> q \in AnyPage
  BY <1>0, Zenon DEF NotLost
<1>4. NotTwice(g)
  BY <1>s, <1>1, Zenon DEF NotTwice
<1>5. NotFree(g, free)
  BY <1>s, <1>2, Zenon DEF NotFree
<1>6. \A q : (\E d \in Holder : g[d] # NoPage /\ q = g[d]) <=> (\E d \in Holder : f[d] # NoPage /\ q = f[d])
  BY <1>s, Zenon
<1>7. NotLost(g, free)
  BY <1>s, <1>3, <1>6, Zenon DEF NotLost
<1> QED BY <1>4, <1>5, <1>7, OnceParts, Zenon

\* They are places.
LEMMA Holders ==
  /\ \A s \in Spaces : DirOf(s) \in Holder /\ DeadOf(s) \in Holder /\ HandOf(s) \in Holder
  /\ \A s \in Spaces, i \in Tables : TableOf(s, i) \in Holder
  /\ \A s \in Spaces, v \in UserVPages : MapOf(s, v) \in Holder
  BY Zenon DEF Holder, PagePlaces, DirOf, DeadOf, HandOf, TableOf, MapOf

\* There are no others.
LEMMA HolderKinds ==
  ASSUME NEW h \in Holder
  PROVE  \E s \in Spaces :
           \/ h = DirOf(s) \/ h = DeadOf(s) \/ h = HandOf(s)
           \/ \E i \in Tables : h = TableOf(s, i)
           \/ \E v \in UserVPages : h = MapOf(s, v)
<1>1. PICK s \in Spaces, w \in PagePlaces : h = <<s, w>>
  BY SMT DEF Holder
<1>2. CASE w \in {"pagedir", "dying", "kpage"} \X {0}
  <2>1. PICK x \in {"pagedir", "dying", "kpage"} : w = <<x, 0>>
    BY <1>2, SMT
  <2> QED BY <1>1, <2>1, Zenon DEF DirOf, DeadOf, HandOf
<1>3. CASE w \in {"table"} \X Tables
  <2>1. PICK i \in Tables : w = <<"table", i>>
    BY <1>3, SMT
  <2> QED BY <1>1, <2>1, Zenon DEF TableOf
<1>4. CASE w \in {"page"} \X UserVPages
  <2>1. PICK v \in UserVPages : w = <<"page", v>>
    BY <1>4, SMT
  <2> QED BY <1>1, <2>1, Zenon DEF MapOf
<1> QED BY <1>2, <1>3, <1>4, Zenon DEF PagePlaces

\* Places of different kinds, processes or numbers are different.
LEMMA HoldersDiffer ==
  ASSUME NEW s, NEW t, NEW i, NEW j
  PROVE  /\ DirOf(s) # DeadOf(t) /\ DirOf(s) # HandOf(t) /\ DirOf(s) # TableOf(t, i) /\ DirOf(s) # MapOf(t, i)
         /\ DeadOf(s) # HandOf(t) /\ DeadOf(s) # TableOf(t, i) /\ DeadOf(s) # MapOf(t, i)
         /\ HandOf(s) # TableOf(t, i) /\ HandOf(s) # MapOf(t, i) /\ TableOf(s, j) # MapOf(t, i)
         /\ (DirOf(s) = DirOf(t) => s = t) /\ (DeadOf(s) = DeadOf(t) => s = t)
         /\ (HandOf(s) = HandOf(t) => s = t)
         /\ (TableOf(s, i) = TableOf(t, j) => s = t /\ i = j)
         /\ (MapOf(s, i) = MapOf(t, j) => s = t /\ i = j)
  BY Zenon DEF DirOf, DeadOf, HandOf, TableOf, MapOf

\* The page of an entry, if there is one.
PageOf(e) == IF e = NoPage THEN NoPage ELSE e.page

\* f gives the page at each place, for these values of the variables.
Describes(f, pd, dy, kp, tb, pt) ==
  /\ \A s \in Spaces : f[DirOf(s)] = pd[s] /\ f[DeadOf(s)] = dy[s] /\ f[HandOf(s)] = kp[s]
  /\ \A s \in Spaces : \A i \in Tables : f[TableOf(s, i)] = tb[s][i]
  /\ \A s \in Spaces : \A v \in UserVPages : f[MapOf(s, v)] = PageOf(pt[s][v])

\* Held is such a function.
LEMMA HeldDescribes ==
  ASSUME NEW pd, NEW dy, NEW kp, NEW tb, NEW pt
  PROVE  /\ HeldIn(pd, dy, kp, tb, pt) = [h \in Holder |-> HeldIn(pd, dy, kp, tb, pt)[h]]
         /\ Describes(HeldIn(pd, dy, kp, tb, pt), pd, dy, kp, tb, pt)
<1> DEFINE V(h) == CASE h[2][1] = "pagedir" -> pd[h[1]]
                     [] h[2][1] = "dying" -> dy[h[1]]
                     [] h[2][1] = "kpage" -> kp[h[1]]
                     [] h[2][1] = "table" -> tb[h[1]][h[2][2]]
                     [] OTHER -> IF pt[h[1]][h[2][2]] = NoPage THEN NoPage ELSE pt[h[1]][h[2][2]].page
<1>1. HeldIn(pd, dy, kp, tb, pt) = [h \in Holder |-> V(h)]
  BY Zenon DEF HeldIn, Holder
<1>2. ASSUME NEW s \in Spaces
      PROVE  V(DirOf(s)) = pd[s] /\ V(DeadOf(s)) = dy[s] /\ V(HandOf(s)) = kp[s]
  BY SMT DEF DirOf, DeadOf, HandOf
<1>3. ASSUME NEW s \in Spaces, NEW i \in Tables
      PROVE  V(TableOf(s, i)) = tb[s][i]
  BY SMT DEF TableOf
<1>4. ASSUME NEW s \in Spaces, NEW i \in UserVPages
      PROVE  V(MapOf(s, i)) = PageOf(pt[s][i])
  BY SMT DEF MapOf, PageOf
<1> HIDE DEF V
<1>5. PICK f : f = [h \in Holder |-> V(h)]
  BY Zenon
<1>6. f = [h \in Holder |-> f[h]] /\ \A h \in Holder : f[h] = V(h)
  BY <1>5, Zenon
<1>7. Describes(f, pd, dy, kp, tb, pt)
  BY <1>2, <1>3, <1>4, <1>6, Holders, Zenon DEF Describes
<1> QED BY <1>1, <1>5, <1>6, <1>7, Zenon

\* Each place holds a page of the pools or none.
LEMMA HeldTyped ==
  ASSUME NEW f, NEW pd \in [Spaces -> MaybePage], NEW dy \in [Spaces -> MaybePage],
         NEW kp \in [Spaces -> MaybePage], NEW tb \in [Spaces -> [Tables -> MaybePage]],
         NEW pt \in [Spaces -> [UserVPages -> SomeEntry]], Describes(f, pd, dy, kp, tb, pt)
  PROVE  f = [h \in Holder |-> f[h]] => f \in [Holder -> MaybePage]
<1>2. \A s \in Spaces : f[DirOf(s)] \in MaybePage /\ f[DeadOf(s)] \in MaybePage /\ f[HandOf(s)] \in MaybePage
  BY Zenon DEF Describes
<1>3. \A s \in Spaces : \A i \in Tables : f[TableOf(s, i)] \in MaybePage
  <2>1. \A s \in Spaces : \A i \in Tables : f[TableOf(s, i)] = tb[s][i]
    BY Zenon DEF Describes
  <2>2. \A s \in Spaces : \A i \in Tables : tb[s][i] \in MaybePage
    BY Zenon
  <2> QED BY <2>1, <2>2, Zenon
<1>4. \A e \in SomeEntry : PageOf(e) \in MaybePage
  BY Zenon DEF SomeEntry, Entry, PageOf, MaybePage, AnyPage
<1>5. \A s \in Spaces : \A v \in UserVPages : pt[s][v] \in SomeEntry
  BY Zenon
<1>6. \A s \in Spaces : \A v \in UserVPages : f[MapOf(s, v)] = PageOf(pt[s][v])
  BY Zenon DEF Describes
<1>7. \A s \in Spaces : \A v \in UserVPages : f[MapOf(s, v)] \in MaybePage
  BY <1>4, <1>5, <1>6, Zenon
<1>8. \A h \in Holder : f[h] \in MaybePage
  BY <1>2, <1>3, <1>7, HolderKinds, Zenon
<1> QED BY <1>8, Zenon

\* A step that changes the variables at the places H only.
ChangesOnly(H) ==
  /\ \A t \in Spaces : DirOf(t) \in H \/ pagedir'[t] = pagedir[t]
  /\ \A t \in Spaces : DeadOf(t) \in H \/ dying'[t] = dying[t]
  /\ \A t \in Spaces : HandOf(t) \in H \/ kpage'[t] = kpage[t]
  /\ \A t \in Spaces : \A i \in Tables : TableOf(t, i) \in H \/ tables'[t][i] = tables[t][i]
  /\ \A t \in Spaces : \A v \in UserVPages : MapOf(t, v) \in H \/ ptes'[t][v] = ptes[t][v]

\* Where the variables do not change, neither do the pages at the places.
LEMMA SameElsewhere ==
  ASSUME NEW f, NEW g, NEW H, Describes(f, pagedir, dying, kpage, tables, ptes),
         Describes(g, pagedir', dying', kpage', tables', ptes'), ChangesOnly(H)
  PROVE  SameBut(H, f, g)
<1>1. \A t \in Spaces : f[DirOf(t)] = pagedir[t] /\ f[DeadOf(t)] = dying[t] /\ f[HandOf(t)] = kpage[t]
  BY Zenon DEF Describes
<1>2. \A t \in Spaces : g[DirOf(t)] = pagedir'[t] /\ g[DeadOf(t)] = dying'[t] /\ g[HandOf(t)] = kpage'[t]
  BY Zenon DEF Describes
<1>3. \A t \in Spaces : \A i \in Tables : f[TableOf(t, i)] = tables[t][i]
  BY Zenon DEF Describes
<1>4. \A t \in Spaces : \A i \in Tables : g[TableOf(t, i)] = tables'[t][i]
  BY Zenon DEF Describes
<1>5. \A t \in Spaces : \A v \in UserVPages : f[MapOf(t, v)] = PageOf(ptes[t][v])
  BY Zenon DEF Describes
<1>6. \A t \in Spaces : \A v \in UserVPages : g[MapOf(t, v)] = PageOf(ptes'[t][v])
  BY Zenon DEF Describes
<1>7. /\ \A t \in Spaces : DirOf(t) \in H \/ pagedir'[t] = pagedir[t]
      /\ \A t \in Spaces : DeadOf(t) \in H \/ dying'[t] = dying[t]
      /\ \A t \in Spaces : HandOf(t) \in H \/ kpage'[t] = kpage[t]
  BY Zenon DEF ChangesOnly
<1>8. \A t \in Spaces : \A i \in Tables : TableOf(t, i) \in H \/ tables'[t][i] = tables[t][i]
  BY Zenon DEF ChangesOnly
<1>9. \A t \in Spaces : \A v \in UserVPages : MapOf(t, v) \in H \/ ptes'[t][v] = ptes[t][v]
  BY Zenon DEF ChangesOnly
<1>10. ASSUME NEW h \in Holder, h \notin H
      PROVE  g[h] = f[h]
  <2>1. PICK s \in Spaces :
           \/ h = DirOf(s) \/ h = DeadOf(s) \/ h = HandOf(s)
           \/ \E i \in Tables : h = TableOf(s, i)
           \/ \E v \in UserVPages : h = MapOf(s, v)
    BY HolderKinds, Zenon
  <2>2. CASE h = DirOf(s)
    BY <1>1, <1>2, <1>7, <1>10, <2>2, Zenon
  <2>3. CASE h = DeadOf(s)
    BY <1>1, <1>2, <1>7, <1>10, <2>3, Zenon
  <2>4. CASE h = HandOf(s)
    BY <1>1, <1>2, <1>7, <1>10, <2>4, Zenon
  <2>5. ASSUME NEW i \in Tables, h = TableOf(s, i) PROVE g[h] = f[h]
    <3>1. TableOf(s, i) \in H \/ tables'[s][i] = tables[s][i]
      BY <1>8, Zenon
    <3> QED BY <1>3, <1>4, <1>10, <2>5, <3>1, Zenon
  <2>6. ASSUME NEW v \in UserVPages, h = MapOf(s, v) PROVE g[h] = f[h]
    <3>1. MapOf(s, v) \in H \/ ptes'[s][v] = ptes[s][v]
      BY <1>9, Zenon
    <3> QED BY <1>5, <1>6, <1>10, <2>6, <3>1, Zenon
  <2> QED BY <2>1, <2>2, <2>3, <2>4, <2>5, <2>6, Zenon
<1> QED BY <1>10, Zenon DEF SameBut

\* Pages and addresses are naturals.
LEMMA SpaceNumbers ==
  /\ PageSize \in Nat \ {0} /\ TablePages \in Nat \ {0} /\ PHYS_BASE \in Nat \ {0}
  /\ WORD_MAX \in Nat \ {0} /\ PHYS_BASE % PageSize = 0 /\ PHYS_BASE < WORD_MAX
  /\ AnyPage \subseteq Nat /\ NoPage \notin AnyPage /\ NoPage \notin Entry
  BY AddressSpaceAssumption, Zenon DEF AnyPage

\* The remainder of a number below the divisor, and of one below its double.
LEMMA Remainder ==
  ASSUME NEW n \in Nat \ {0}, NEW x \in 0 .. 2 * n - 1
  PROVE  x % n = IF x < n THEN x ELSE x - n
<1>1. CASE x < n
  BY <1>1, SMT
<1>2. CASE ~(x < n)
  BY <1>2, SMT
<1> QED BY <1>1, <1>2

\* Quotient and remainder.
LEMMA Division ==
  ASSUME NEW x \in Nat, NEW n \in Nat \ {0}
  PROVE  /\ x \div n \in Nat /\ x % n \in Nat /\ x % n < n
         /\ x = n * (x \div n) + (x % n)
  BY SMT

\* PHYS_BASE is a number of pages, not none.
LEMMA WholePages ==
  /\ PHYS_BASE \div PageSize \in Nat \ {0} /\ PHYS_BASE = PageSize * (PHYS_BASE \div PageSize)
  /\ StackPage \in UserVPages
<1>1. PICK K : K = PHYS_BASE \div PageSize
  BY Zenon
<1>2. K \in Nat /\ PHYS_BASE = PageSize * K + (PHYS_BASE % PageSize) /\ PHYS_BASE % PageSize = 0
  BY <1>1, SpaceNumbers, Division, Zenon
<1>3. PHYS_BASE \in Nat \ {0} /\ PageSize \in Nat \ {0}
  BY SpaceNumbers, Zenon
<1>4. PHYS_BASE = PageSize * K
  BY <1>2, <1>3, SMT
<1>5. K # 0
  BY <1>2, <1>3, <1>4, SMT
<1>6. K - 1 \in 0 .. K - 1
  BY <1>2, <1>5, SMT
<1> QED BY <1>1, <1>2, <1>4, <1>5, <1>6, Zenon DEF StackPage, UserVPages

\* q + n pages end at or below K pages, if n pages cover what starts o bytes
\* into page q and ends below.
LEMMA PagesBelow ==
  ASSUME NEW P \in Nat \ {0}, NEW q \in Nat, NEW n \in Nat, NEW K \in Nat, NEW o \in Nat, NEW m \in Nat,
         P * q + o + m < P * K, P * n <= o + m + P - 1
  PROVE  q + n <= K
<1>1. P * q + P * n < P * K + P
  BY SMT
<1>2. P * (q + n) < P * (K + 1)
  BY <1>1, SMT
<1>3. q + n < K + 1
  BY <1>2, SMT
<1> QED BY <1>3, SMT

\* The arguments of load_segment() for a header that validate_segment() accepts:
\* whole pages, below PHYS_BASE, of which no more are read than there are.
LEMMA SegmentOf ==
  ASSUME NEW p \in Elf32_Phdr, NEW length \in Nat, validate_segment(p, length)
  PROVE  Segment(p) \in LeftToLoad /\ Fits(Segment(p))
<1>1. /\ p.offset \in Elf32_Word /\ p.vaddr \in Elf32_Word /\ p.filesz \in Elf32_Word
      /\ p.memsz \in Elf32_Word /\ p.writable \in BOOLEAN
  BY Zenon DEF Elf32_Phdr
<1>2. PICK va, ms, fs, of, P, W :
        /\ va = p.vaddr /\ ms = p.memsz /\ fs = p.filesz /\ of = p.offset /\ P = PageSize /\ W = WORD_MAX
  BY Zenon
<1>3. P \in Nat \ {0} /\ W \in Nat \ {0} /\ PHYS_BASE \in Nat
  BY <1>2, SpaceNumbers, SMT
<1>4. va \in Nat /\ ms \in Nat /\ fs \in Nat /\ of \in Nat /\ va < W /\ ms < W
  BY <1>1, <1>2, <1>3, SMT DEF Elf32_Word
<1>5. fs <= ms /\ (va + ms) % W >= va /\ (va + ms) % W < PHYS_BASE
  BY <1>2, SMT DEF validate_segment, is_user_vaddr
<1>6. va + ms < PHYS_BASE
  <2>1. PICK x \in 0 .. 2 * W - 1 : x = va + ms
    BY <1>3, <1>4, SMT
  <2>2. x % W = IF x < W THEN x ELSE x - W
    BY <1>3, Remainder, Zenon
  <2>3. (IF x < W THEN x ELSE x - W) >= va /\ (IF x < W THEN x ELSE x - W) < PHYS_BASE
    BY <1>5, <2>1, <2>2, Zenon
  <2> QED BY <1>3, <1>4, <2>1, <2>3, SMT
<1>7. PICK q, o, r, n, K :
        /\ q = va \div P /\ o = va % P /\ r = of % P /\ n = (o + ms + P - 1) \div P /\ K = PHYS_BASE \div P
  BY Zenon
<1>8. q \in Nat /\ o \in Nat /\ o < P /\ va = P * q + o
  BY <1>3, <1>4, <1>7, Division, Zenon
<1>9. r \in Nat /\ r <= of
  <2>1. r \in Nat /\ of \div P \in Nat /\ of = P * (of \div P) + r
    BY <1>3, <1>4, <1>7, Division, Zenon
  <2>2. PICK z \in Nat : z = of \div P
    BY <2>1, Zenon
  <2>3. of = P * z + r
    BY <2>1, <2>2, Zenon
  <2>4. P * z \in Nat
    BY <1>3, <2>2, SMT
  <2> QED BY <1>4, <2>1, <2>3, <2>4, SMT
<1>10. n \in Nat /\ P * n <= o + ms + P - 1 /\ o + ms <= P * n
  <2>1. PICK y \in Nat : y = o + ms + P - 1
    BY <1>3, <1>4, <1>8, SMT
  <2>2. n \in Nat /\ y % P \in Nat /\ y % P < P /\ y = P * n + (y % P)
    BY <1>3, <1>7, <2>1, Division, Zenon
  <2>3. PICK z \in Nat : z = y % P
    BY <2>2, Zenon
  <2>4. z < P /\ y = P * n + z
    BY <2>2, <2>3, Zenon
  <2>5. P * n \in Nat
    BY <1>3, <2>2, SMT
  <2> QED BY <1>3, <1>4, <1>8, <2>1, <2>2, <2>4, <2>5, SMT
<1>11. K \in Nat /\ PHYS_BASE = P * K
  BY <1>2, <1>7, WholePages, SMT
<1>12. q + n <= K
  <2>1. P * q + o + ms < P * K
    BY <1>6, <1>8, <1>11, Zenon
  <2> QED BY <1>3, <1>4, <1>8, <1>10, <1>11, <2>1, PagesBelow, Zenon
<1>13. PICK b : b = IF fs > 0 THEN o + fs ELSE 0
  BY Zenon
<1>14. b \in Nat /\ b <= o + ms
  BY <1>4, <1>5, <1>8, <1>13, SMT
<1>15. P * n \in Nat /\ n * P = P * n
  BY <1>3, <1>10, SMT
<1>16. of - r \in Nat /\ n * P - b \in Nat /\ b + (n * P - b) = n * P
  BY <1>4, <1>9, <1>10, <1>14, <1>15, <1>8, SMT
<1>17. Segment(p) = [upage |-> q, ofs |-> of - r, read |-> b, zero |-> n * P - b, writable |-> p.writable]
  <2>1. pg_no(p.vaddr) = q /\ p.vaddr % PageSize = o /\ p.offset - (p.offset % PageSize) = of - r
    BY <1>2, <1>7, Zenon DEF pg_no
  <2>2. ROUND_UP(o + p.memsz) = n * P
    BY <1>2, <1>7, Zenon DEF ROUND_UP
  <2>3. b = IF p.filesz > 0 THEN o + p.filesz ELSE 0
    BY <1>2, <1>13, Zenon
  <2> QED BY <2>1, <2>2, <2>3, Zenon DEF Segment
<1>18. Segment(p) \in LeftToLoad
  BY <1>1, <1>8, <1>14, <1>16, <1>17, SMT DEF LeftToLoad
<1>19. PICK g : g = Segment(p)
  BY Zenon
<1>20. g.read = b /\ g.zero = n * P - b /\ g.upage = q
  BY <1>17, <1>19, SMT
<1>21. Fits(g)
  <2>1. g.read + g.zero = n * PageSize /\ g.upage + n <= PHYS_BASE \div PageSize
    BY <1>2, <1>7, <1>12, <1>16, <1>20, Zenon
  <2> QED BY <1>10, <2>1, Zenon DEF Fits
<1> QED BY <1>18, <1>19, <1>21, Zenon

\* A page of what is left is a user page, and the rest still fits.
LEMMA PageOfSegment ==
  ASSUME NEW seg \in LeftToLoad, Fits(seg), seg.read > 0 \/ seg.zero > 0,
         NEW b, b = IF seg.read < PageSize THEN seg.read ELSE PageSize
  PROVE  /\ seg.upage \in UserVPages /\ b \in Nat
         /\ LET rest == [seg EXCEPT !.upage = @ + 1, !.ofs = @ + b, !.read = @ - b, !.zero = @ - (PageSize - b)]
            IN  rest \in LeftToLoad /\ Fits(rest)
<1>1. /\ seg.upage \in Nat /\ seg.ofs \in Nat /\ seg.read \in Nat /\ seg.zero \in Nat
      /\ seg.writable \in BOOLEAN
  BY Zenon DEF LeftToLoad
<1>2. PICK u, o, r, z, P, K : /\ u = seg.upage /\ o = seg.ofs /\ r = seg.read /\ z = seg.zero
                             /\ P = PageSize /\ K = PHYS_BASE \div PageSize
  BY Zenon
<1>3. P \in Nat \ {0} /\ K \in Nat /\ u \in Nat /\ o \in Nat /\ r \in Nat /\ z \in Nat
  BY <1>1, <1>2, SpaceNumbers, WholePages, SMT
<1>4. PICK n \in Nat : r + z = n * P /\ u + n <= K
  BY <1>2, Zenon DEF Fits
<1>5. r > 0 \/ z > 0
  BY <1>2, Zenon
<1>6. b = (IF r < P THEN r ELSE P) /\ b \in Nat /\ b <= r /\ b <= P
  BY <1>2, <1>3, SMT
<1>7. n # 0
  <2>1. n = 0 => n * P = 0
    BY <1>3, SMT
  <2> QED BY <1>3, <1>4, <1>5, <2>1, SMT
<1>8. u \in 0 .. K - 1
  BY <1>3, <1>4, <1>7, SMT
<1>9. (n - 1) * P = n * P - P /\ n - 1 \in Nat /\ (n - 1) * P \in Nat /\ n * P \in Nat
  BY <1>3, <1>4, <1>7, SMT
<1>10. /\ u + 1 \in Nat /\ o + b \in Nat /\ r - b \in Nat /\ z - (P - b) \in Nat
       /\ (r - b) + (z - (P - b)) = (n - 1) * P /\ (u + 1) + (n - 1) <= K
  <2>1. PICK k \in Nat, m \in Nat : k = n * P /\ m = (n - 1) * P
    BY <1>9, Zenon
  <2>2. r + z = k /\ m = k - P
    BY <1>4, <1>9, <2>1, Zenon
  <2>3. r - b \in Nat /\ z - (P - b) \in Nat /\ (r - b) + (z - (P - b)) = m
    BY <1>3, <1>6, <2>1, <2>2, SMT
  <2>4. u + 1 \in Nat /\ o + b \in Nat /\ (u + 1) + (n - 1) <= K
    BY <1>3, <1>4, <1>6, SMT
  <2> QED BY <2>1, <2>3, <2>4, Zenon
<1>11. PICK rest : rest = [seg EXCEPT !.upage = @ + 1, !.ofs = @ + b, !.read = @ - b, !.zero = @ - (PageSize - b)]
  BY Zenon
<1>12. rest = [upage |-> u + 1, ofs |-> o + b, read |-> r - b, zero |-> z - (P - b), writable |-> seg.writable]
  BY <1>2, <1>11, Zenon DEF LeftToLoad
<1>13. rest \in LeftToLoad
  BY <1>1, <1>10, <1>12, Zenon DEF LeftToLoad
<1>14. rest.upage = u + 1 /\ rest.read = r - b /\ rest.zero = z - (P - b)
  BY <1>12, Zenon
<1>15. Fits(rest)
  BY <1>2, <1>9, <1>10, <1>14, Zenon DEF Fits
<1> QED BY <1>2, <1>6, <1>8, <1>11, <1>13, <1>15, Zenon DEF UserVPages

\* A set of numbers has a smallest one.  (The lemma Smallest, below.)
HasSmallest == \A S \in SUBSET Nat : S # {} => \E i \in S : \A j \in S : i <= j

\* The parts of the invariant.
LEMMA SpaceParts ==
  ASSUME SpaceInv
  PROVE  /\ SpaceTypes /\ SegmentsFit /\ OwnFile /\ RightDirectory
         /\ \A s \in Spaces : HasPages(s)
         /\ EachPageOnce(Held, free_pages)
  BY Zenon DEF SpaceInv

\* The types of one process's variables.
LEMMA SpaceTypeParts ==
  ASSUME SpaceTypes
  PROVE  /\ runs \in Spaces /\ space_pc \in [Spaces -> SpaceLabels]
         /\ program \in [Spaces -> Executable] /\ phdr \in [Spaces -> Nat \ {0}]
         /\ todo \in [Spaces -> LeftToLoad] /\ kpage \in [Spaces -> MaybePage]
         /\ pagedir \in [Spaces -> MaybePage] /\ dying \in [Spaces -> MaybePage]
         /\ tables \in [Spaces -> [Tables -> MaybePage]]
         /\ ptes \in [Spaces -> [UserVPages -> SomeEntry]]
  BY Zenon DEF SpaceTypes

\* A function on the places.
OnHolders(f) == f = [h \in Holder |-> f[h]]

\* A function on the places that describes the variables is Held.
LEMMA HeldIs ==
  ASSUME NEW pd \in [Spaces -> MaybePage], NEW dy \in [Spaces -> MaybePage],
         NEW kp \in [Spaces -> MaybePage], NEW tb \in [Spaces -> [Tables -> MaybePage]],
         NEW pt \in [Spaces -> [UserVPages -> SomeEntry]]
  PROVE  /\ HeldIn(pd, dy, kp, tb, pt) \in [Holder -> MaybePage]
         /\ Describes(HeldIn(pd, dy, kp, tb, pt), pd, dy, kp, tb, pt)
<1>1. PICK f : f = HeldIn(pd, dy, kp, tb, pt)
  BY Zenon
<1>2. OnHolders(f)
  <2>1. OnHolders(HeldIn(pd, dy, kp, tb, pt))
    BY HeldDescribes, Zenon DEF OnHolders
  <2> QED BY <1>1, <2>1, Zenon
<1>3. Describes(f, pd, dy, kp, tb, pt)
  <2>1. Describes(HeldIn(pd, dy, kp, tb, pt), pd, dy, kp, tb, pt)
    BY HeldDescribes, Zenon
  <2> QED BY <1>1, <2>1, Zenon
<1>4. OnHolders(f) => f \in [Holder -> MaybePage]
  BY <1>3, HeldTyped, Zenon DEF OnHolders
<1> QED BY <1>1, <1>2, <1>3, <1>4, Zenon

\* Held, as a function with a name of its own.
LEMMA HeldNow ==
  ASSUME SpaceTypes
  PROVE  /\ Held \in [Holder -> MaybePage]
         /\ Describes(Held, pagedir, dying, kpage, tables, ptes)
  BY HeldIs, SpaceTypeParts, Zenon DEF Held

\* Free pages are pages of the pools.
LEMMA FreeArePages ==
  ASSUME SpaceInv
  PROVE  free_pages \subseteq AnyPage
<1>1. EachPageOnce(Held, free_pages) /\ Held \in [Holder -> MaybePage]
  BY SpaceParts, HeldNow, Zenon
<1>2. PICK f \in [Holder -> MaybePage] : f = Held
  BY <1>1, Zenon
<1>3. NotLost(f, free_pages)
  BY <1>1, <1>2, OnceParts, Zenon
<1> QED BY <1>3, Zenon DEF NotLost

\* palloc_get_page() gives a free page of the pool.
LEMMA FirstAvailable ==
  ASSUME HasSmallest, SpaceInv, NEW pool, Available(pool) # {}
  PROVE  /\ FirstOf(Available(pool)) \in free_pages /\ FirstOf(Available(pool)) \in AnyPage
         /\ FirstOf(Available(pool)) # NoPage
<1>1. PICK S : S = Available(pool)
  BY Zenon
<1>2. S \subseteq free_pages /\ S # {}
  BY <1>1, Zenon DEF Available
<1>3. S \subseteq AnyPage
  BY <1>2, FreeArePages, Zenon
<1>4. S \in SUBSET Nat
  BY <1>3, SpaceNumbers, Zenon
<1>5. \E i \in S : \A j \in S : i <= j
  BY <1>2, <1>4, Zenon DEF HasSmallest
<1>6. FirstOf(S) \in S
  BY <1>5, Zenon DEF FirstOf
<1> QED BY <1>1, <1>2, <1>3, <1>6, SpaceNumbers, Zenon

\* install_page() at a user page, of the page in hand.
Installed(s) ==
  \E v \in UserVPages, e \in Entry :
    /\ e.page = kpage[s] /\ ptes[s][v] = NoPage
    /\ NeedsTable(s, v) => Available(KernelPages) # {}
    /\ install_page(s, v, e)

\* The page in hand, where a process has one, is a page.
LEMMA HandIsPage ==
  ASSUME SpaceInv, NEW s \in Spaces, space_pc[s] \in {"read", "install", "stack_install"}
  PROVE  kpage[s] \in AnyPage /\ kpage[s] # NoPage
<1>1. kpage[s] \in MaybePage
  BY SpaceParts, SpaceTypeParts, Zenon
<1>2. HasPages(s)
  BY SpaceParts, Zenon
<1>3. kpage[s] # NoPage
  BY <1>2, Zenon DEF HasPages
<1> QED BY <1>1, <1>3, Zenon DEF MaybePage

\* load_segment() installs the page in hand at a user page.
LEMMA SegmentInstalls ==
  ASSUME SpaceInv, NEW s \in Spaces, SegmentInstall(s)
  PROVE  \/ /\ Installed(s) /\ Then(s, "page")
            /\ \E seg \in LeftToLoad : Fits(seg) /\ todo' = [todo EXCEPT ![s] = seg]
         \/ InstallFails(s) /\ UNCHANGED todo
<1>1. RunsAt(s, "install")
  BY Zenon DEF SegmentInstall
<1>2. space_pc[s] = "install"
  BY <1>1, Zenon DEF RunsAt
<1>3. todo[s] \in LeftToLoad /\ Fits(todo[s]) /\ (todo[s].read > 0 \/ todo[s].zero > 0)
  BY <1>2, SpaceParts, SpaceTypeParts, Zenon DEF SegmentsFit
<1>4. PICK seg \in LeftToLoad : seg = todo[s]
  BY <1>3, Zenon
<1>5. PICK b : b = page_read_bytes(s)
  BY Zenon
<1>6. b = IF seg.read < PageSize THEN seg.read ELSE PageSize
  BY <1>4, <1>5, Zenon DEF page_read_bytes
<1>7. Fits(seg) /\ (seg.read > 0 \/ seg.zero > 0)
  BY <1>3, <1>4, Zenon
<1>8. PICK rest : rest = [seg EXCEPT !.upage = @ + 1, !.ofs = @ + b, !.read = @ - b, !.zero = @ - (PageSize - b)]
  BY Zenon
<1>9. seg.upage \in UserVPages /\ b \in Nat /\ rest \in LeftToLoad /\ Fits(rest)
  BY <1>6, <1>7, <1>8, PageOfSegment, Zenon
<1>10. PICK e : e = [page |-> kpage[s], writable |-> seg.writable, data |-> [ofs |-> seg.ofs, read |-> b]]
  BY Zenon
<1>11. e \in Entry /\ e.page = kpage[s]
  <2>1. kpage[s] \in KernelPages \cup UserPages
    BY <1>2, HandIsPage, Zenon DEF AnyPage
  <2>2. seg.writable \in BOOLEAN /\ seg.ofs \in Nat
    BY Zenon DEF LeftToLoad
  <2> QED BY <1>9, <1>10, <2>1, <2>2, Zenon DEF Entry
<1>12. CASE Installs(s, seg.upage)
  <2>1. install_page(s, seg.upage, e) /\ Then(s, "page") /\ todo' = [todo EXCEPT ![s] = rest]
    BY <1>4, <1>5, <1>8, <1>10, <1>12, Zenon DEF SegmentInstall
  <2>2. ptes[s][seg.upage] = NoPage /\ (NeedsTable(s, seg.upage) => Available(KernelPages) # {})
    BY <1>12, Zenon DEF Installs
  <2>3. Installed(s)
    BY <1>9, <1>11, <2>1, <2>2, Zenon DEF Installed
  <2> QED BY <1>9, <2>1, <2>3, Zenon
<1>13. CASE ~Installs(s, seg.upage)
  BY <1>4, <1>13, Zenon DEF SegmentInstall
<1> QED BY <1>12, <1>13, Zenon

\* setup_stack() installs the page in hand at the last user page.
LEMMA StackInstalls ==
  ASSUME SpaceInv, NEW s \in Spaces, StackInstall(s)
  PROVE  \/ Installed(s) /\ Then(s, "stack_words")
         \/ InstallFails(s)
<1>1. space_pc[s] = "stack_install"
  BY Zenon DEF StackInstall, RunsAt
<1>2. PICK e : e = [page |-> kpage[s], writable |-> TRUE, data |-> [ofs |-> 0, read |-> 0]]
  BY Zenon
<1>3. e \in Entry /\ e.page = kpage[s]
  <2>1. kpage[s] \in KernelPages \cup UserPages
    BY <1>1, HandIsPage, Zenon DEF AnyPage
  <2>2. 0 \in Nat
    BY SMT
  <2> QED BY <1>2, <2>1, <2>2, Zenon DEF Entry
<1>4. CASE Installs(s, StackPage)
  <2>1. install_page(s, StackPage, e) /\ Then(s, "stack_words")
    BY <1>2, <1>4, Zenon DEF StackInstall
  <2>2. ptes[s][StackPage] = NoPage /\ (NeedsTable(s, StackPage) => Available(KernelPages) # {})
    BY <1>4, Zenon DEF Installs
  <2> QED BY <1>3, <2>1, <2>2, WholePages, Zenon DEF Installed
<1>5. CASE ~Installs(s, StackPage)
  BY <1>5, Zenon DEF StackInstall
<1> QED BY <1>4, <1>5, Zenon

\* What the steps do to the pages, and where they leave the process.
Moves ==
  {<<"start", "exit">>, <<"activate", "phdr">>, <<"activate", "exit">>, <<"phdr", "page">>,
   <<"phdr", "stack_page">>, <<"phdr", "exit">>, <<"page", "phdr">>, <<"page", "exit">>,
   <<"read", "install">>, <<"stack_page", "exit">>, <<"stack_words", "run">>, <<"run", "exit">>,
   <<"deactivate", "destroy">>, <<"dead", "none">>, <<"none", "start">>}
\* One definition for each effect that a step can have on the pages.
PagesStay ==
  /\ space_pc' \in [Spaces -> SpaceLabels]
  /\ \A t \in Spaces : space_pc'[t] = space_pc[t] \/ <<space_pc[t], space_pc'[t]>> \in Moves
  /\ UNCHANGED <<kpage, pagedir, dying, tables, ptes, free_pages>>
TakesDirectory(s) ==
  /\ space_pc[s] = "start" /\ Then(s, "activate")
  /\ \E p \in free_pages : p \in AnyPage /\ pagedir' = [pagedir EXCEPT ![s] = p] /\ Take(p)
  /\ UNCHANGED <<kpage, dying, tables, ptes>>
TakesHand(s) ==
  /\ \/ space_pc[s] = "page" /\ Then(s, "read")
     \/ space_pc[s] = "stack_page" /\ Then(s, "stack_install")
  /\ \E p \in free_pages : p \in AnyPage /\ kpage' = [kpage EXCEPT ![s] = p] /\ Take(p)
  /\ UNCHANGED <<pagedir, dying, tables, ptes>>
GivesHand(s) ==
  /\ space_pc[s] \in {"read", "install", "stack_install"} /\ Then(s, "exit")
  /\ kpage' = [kpage EXCEPT ![s] = NoPage] /\ Give(kpage[s])
  /\ UNCHANGED <<pagedir, dying, tables, ptes>>
Maps(s, v, e) ==
  /\ space_pc[s] \in {"install", "stack_install"} /\ \E w \in {"page", "stack_words"} : Then(s, w)
  /\ e.page = kpage[s] /\ ptes[s][v] = NoPage
  /\ ptes' = [ptes EXCEPT ![s][v] = e] /\ kpage' = [kpage EXCEPT ![s] = NoPage]
  /\ UNCHANGED <<pagedir, dying>>
MapsInTable(s) ==
  \E v \in UserVPages, e \in Entry :
    Maps(s, v, e) /\ tables[s][pd_no(v)] # NoPage /\ UNCHANGED <<tables, free_pages>>
MapsInNewTable(s) ==
  \E v \in UserVPages, e \in Entry :
    /\ Maps(s, v, e) /\ tables[s][pd_no(v)] = NoPage
    /\ \E p \in free_pages :
         p \in AnyPage /\ tables' = [tables EXCEPT ![s][pd_no(v)] = p] /\ Take(p)
Forgets(s) ==
  /\ space_pc[s] = "exit" /\ Then(s, IF pagedir[s] = NoPage THEN "dead" ELSE "deactivate")
  /\ dying' = [dying EXCEPT ![s] = pagedir[s]] /\ pagedir' = [pagedir EXCEPT ![s] = NoPage]
  /\ UNCHANGED <<kpage, tables, ptes, free_pages>>
GivesDirectory(s) ==
  /\ space_pc[s] = "destroy" /\ Then(s, "dead") /\ tables[s] = NoTables
  /\ dying' = [dying EXCEPT ![s] = NoPage] /\ Give(dying[s])
  /\ UNCHANGED <<kpage, pagedir, tables, ptes>>
PageStep ==
  \/ PagesStay
  \/ \E s \in Spaces :
       \/ TakesDirectory(s) \/ TakesHand(s) \/ GivesHand(s) \/ MapsInTable(s)
       \/ MapsInNewTable(s) \/ Forgets(s) \/ GivesDirectory(s)
       \/ \E i \in Tables : DestroyTable(s, i)

\* Then() moves one process.
LEMMA ThenMoves ==
  ASSUME SpaceTypes, NEW s \in Spaces, NEW w, Then(s, w), <<space_pc[s], w>> \in Moves,
         UNCHANGED <<kpage, pagedir, dying, tables, ptes, free_pages>>
  PROVE  PagesStay
<1>1. space_pc \in [Spaces -> SpaceLabels]
  BY SpaceTypeParts, Zenon
<1>2. \A t \in Spaces : space_pc'[t] = IF t = s THEN w ELSE space_pc[t]
  BY <1>1, Zenon DEF Then
<1>3. \A t \in Spaces : space_pc'[t] = space_pc[t] \/ <<space_pc[t], space_pc'[t]>> \in Moves
  BY <1>2, Zenon
<1>4. w \in SpaceLabels
  BY Zenon DEF Moves, SpaceLabels
<1>5. space_pc' \in [Spaces -> SpaceLabels]
  BY <1>1, <1>4, Zenon DEF Then
<1> QED BY <1>3, <1>5, Zenon DEF PagesStay

\* install_page() maps the page in hand, in a page table that is there or is new.
LEMMA InstalledMaps ==
  ASSUME HasSmallest, SpaceInv, NEW s \in Spaces, Installed(s), UNCHANGED <<pagedir, dying>>,
         space_pc[s] \in {"install", "stack_install"}, NEW w \in {"page", "stack_words"}, Then(s, w)
  PROVE  MapsInTable(s) \/ MapsInNewTable(s)
<1>1. PICK v \in UserVPages, e \in Entry :
        /\ e.page = kpage[s] /\ ptes[s][v] = NoPage
        /\ NeedsTable(s, v) => Available(KernelPages) # {}
        /\ install_page(s, v, e)
  BY Zenon DEF Installed
<1>2. Maps(s, v, e)
  BY <1>1, Zenon DEF Maps, install_page
<1>3. CASE NeedsTable(s, v)
  <2>1. PICK p : p = FirstOf(Available(KernelPages))
    BY Zenon
  <2>2. p \in free_pages /\ p \in AnyPage
    BY <1>1, <1>3, <2>1, FirstAvailable, Zenon
  <2>3. tables' = [tables EXCEPT ![s][pd_no(v)] = p] /\ Take(p)
    BY <1>1, <1>3, <2>1, Zenon DEF install_page
  <2>4. tables[s][pd_no(v)] = NoPage
    BY <1>3, Zenon DEF NeedsTable
  <2> QED BY <1>2, <2>2, <2>3, <2>4, Zenon DEF MapsInNewTable
<1>4. CASE ~NeedsTable(s, v)
  BY <1>1, <1>2, <1>4, Zenon DEF MapsInTable, install_page, NeedsTable
<1> QED BY <1>3, <1>4, Zenon

\* LoadOpen() ends at the headers or fails, and opens a file that is there or none.
LEMMA OpenSteps ==
  ASSUME SpaceInv, NEW s \in Spaces, LoadOpen(s)
  PROVE  \E w \in {"phdr", "exit"} :
           /\ Then(s, w) /\ file' \in Executable \cup {NoPage}
           /\ w = "phdr" /\ s \notin mixed => file' = program[s]
<1>1. CASE file' = NoPage /\ Then(s, "exit")
  BY <1>1, Zenon
<1>2. ASSUME NEW t \in Lines(s), file' = program[t], NEW w \in {"phdr", "exit"}, Then(s, w)
      PROVE  \E x \in {"phdr", "exit"} :
               /\ Then(s, x) /\ file' \in Executable \cup {NoPage}
               /\ x = "phdr" /\ s \notin mixed => file' = program[s]
  <2>1. t \in Spaces /\ program[t] \in Executable
    BY SpaceParts, SpaceTypeParts, Zenon DEF OwnFile, Lines
  <2>2. s \notin mixed => t = s
    BY Zenon DEF Lines
  <2> QED BY <1>2, <2>1, <2>2, Zenon
<1> QED BY <1>1, <1>2, Zenon DEF LoadOpen

\* The two ways ProgramHeader() goes.
LEMMA HeaderSteps ==
  ASSUME NEW s \in Spaces, ProgramHeader(s)
  PROVE  /\ space_pc[s] = "phdr"
         /\ UNCHANGED <<runs, cr3, program, kpage, pagedir, dying, tables, ptes, stack, file, mixed,
                        stopped, free_pages>>
         /\ \E n \in Counts(s) :
              \/ phdr[s] > n /\ Then(s, "stack_page") /\ UNCHANGED <<phdr, todo>>
              \/ ~(phdr[s] > n) /\ file # NoPage /\ \E p \in HeadersRead(s) : OneHeader(s, p)
<1>1. /\ space_pc[s] = "phdr"
      /\ UNCHANGED <<runs, cr3, program, kpage, pagedir, dying, tables, ptes, stack, file, mixed,
                     stopped, free_pages>>
  BY Zenon DEF ProgramHeader, RunsAt
<1>2. PICK n \in Counts(s) :
        IF phdr[s] > n THEN Then(s, "stack_page") /\ UNCHANGED <<phdr, todo>>
        ELSE file # NoPage /\ \E p \in HeadersRead(s) : OneHeader(s, p)
  BY Zenon DEF ProgramHeader
<1>3. CASE phdr[s] > n
  <2>1. Then(s, "stack_page") /\ UNCHANGED <<phdr, todo>>
    BY <1>2, <1>3, Zenon
  <2> QED BY <1>1, <1>3, <2>1, Zenon
<1>4. CASE ~(phdr[s] > n)
  <2>1. file # NoPage /\ \E p \in HeadersRead(s) : OneHeader(s, p)
    BY <1>2, <1>4, Zenon
  <2> QED BY <1>1, <1>4, <2>1, Zenon
<1> QED BY <1>3, <1>4, Zenon

\* Each step has one of these effects.
LEMMA PageSteps ==
  ASSUME HasSmallest, SpaceInv, [SpaceNext]_spaceVars
  PROVE  PageStep
<1>0. SpaceTypes
  BY SpaceParts, Zenon
<1>1. CASE UNCHANGED spaceVars
  BY <1>0, <1>1, SpaceTypeParts, Zenon DEF spaceVars, PageStep, PagesStay
<1>2. CASE NewProcesses
  <2>1. \A t \in Spaces : space_pc[t] = "dead" /\ space_pc'[t] = "none"
    BY <1>2, Zenon DEF NewProcesses
  <2>2. \A t \in Spaces : <<space_pc[t], space_pc'[t]>> \in Moves
    BY <2>1, Zenon DEF Moves
  <2>3. PagesStay
    <3>1. space_pc' \in [Spaces -> SpaceLabels]
      BY <1>2, Zenon DEF NewProcesses, SpaceLabels
    <3> QED BY <1>2, <2>2, <3>1, Zenon DEF NewProcesses, PagesStay
  <2> QED BY <2>3, Zenon DEF PageStep
<1>3. ASSUME NEW s \in Spaces, Switch(s)
      PROVE  PageStep
  BY <1>0, <1>3, SpaceTypeParts, Zenon DEF Switch, PageStep, PagesStay
<1>4. ASSUME NEW s \in Spaces, pagedir_create(s)
      PROVE  PageStep
  <2>1. space_pc[s] = "start" /\ UNCHANGED <<kpage, dying, tables, ptes>>
    BY <1>4, Zenon DEF pagedir_create, RunsAt
  <2>2. CASE Available(KernelPages) = {}
    <3>1. Then(s, "exit") /\ UNCHANGED <<pagedir, free_pages>>
      BY <1>4, <2>2, Zenon DEF pagedir_create
    <3>2. <<space_pc[s], "exit">> \in Moves
      BY <2>1, Zenon DEF Moves
    <3> QED BY <1>0, <2>1, <3>1, <3>2, ThenMoves, Zenon DEF PageStep
  <2>3. CASE Available(KernelPages) # {}
    <3>1. PICK p : p = FirstOf(Available(KernelPages))
      BY Zenon
    <3>2. p \in free_pages /\ p \in AnyPage
      BY <2>3, <3>1, FirstAvailable, Zenon
    <3>3. pagedir' = [pagedir EXCEPT ![s] = p] /\ Take(p) /\ Then(s, "activate")
      BY <1>4, <2>3, <3>1, Zenon DEF pagedir_create
    <3>4. TakesDirectory(s)
      BY <2>1, <3>2, <3>3, Zenon DEF TakesDirectory
    <3> QED BY <3>4, Zenon DEF PageStep
  <2> QED BY <2>2, <2>3, Zenon
<1>5. ASSUME NEW s \in Spaces, LoadOpen(s)
      PROVE  PageStep
  <2>1. space_pc[s] = "activate" /\ UNCHANGED <<kpage, pagedir, dying, tables, ptes, free_pages>>
    BY <1>5, Zenon DEF LoadOpen, RunsAt
  <2>2. PICK w \in {"phdr", "exit"} : Then(s, w)
    BY <1>5, OpenSteps, Zenon
  <2>3. <<space_pc[s], w>> \in Moves
    BY <2>1, Zenon DEF Moves
  <2> QED BY <1>0, <2>1, <2>2, <2>3, ThenMoves, Zenon DEF PageStep
<1>6. ASSUME NEW s \in Spaces, ProgramHeader(s)
      PROVE  PageStep
  <2>1. space_pc[s] = "phdr" /\ UNCHANGED <<kpage, pagedir, dying, tables, ptes, free_pages>>
    BY <1>6, Zenon DEF ProgramHeader, RunsAt
  <2>2. (\E w \in {"page", "stack_page", "exit"} : Then(s, w)) \/ UNCHANGED space_pc
    <3>1. Then(s, "stack_page") \/ \E p \in HeadersRead(s) : OneHeader(s, p)
      BY <1>6, HeaderSteps, Zenon
    <3> QED BY <3>1, Zenon DEF OneHeader
  <2>3. CASE UNCHANGED space_pc
    BY <1>0, <2>1, <2>3, SpaceTypeParts, Zenon DEF PageStep, PagesStay
  <2>4. ASSUME NEW w \in {"page", "stack_page", "exit"}, Then(s, w)
        PROVE  PageStep
    <3>1. <<space_pc[s], w>> \in Moves
      BY <2>1, Zenon DEF Moves
    <3> QED BY <1>0, <2>1, <2>4, <3>1, ThenMoves, Zenon DEF PageStep
  <2> QED BY <2>2, <2>3, <2>4, Zenon
<1>7. ASSUME NEW s \in Spaces, SegmentPage(s)
      PROVE  PageStep
  <2>1. space_pc[s] = "page" /\ UNCHANGED <<pagedir, dying, tables, ptes>>
    BY <1>7, Zenon DEF SegmentPage, RunsAt
  <2>2. PICK left \in BOOLEAN : left = (todo[s].read > 0 \/ todo[s].zero > 0)
    BY Zenon
  <2>3. CASE ~left \/ Available(UserPages) = {}
    <3>1. PICK w \in {"phdr", "exit"} : Then(s, w) /\ UNCHANGED <<kpage, free_pages>>
      BY <1>7, <2>2, <2>3, Zenon DEF SegmentPage
    <3>2. <<space_pc[s], w>> \in Moves
      BY <2>1, Zenon DEF Moves
    <3> QED BY <1>0, <2>1, <3>1, <3>2, ThenMoves, Zenon DEF PageStep
  <2>4. CASE left /\ Available(UserPages) # {}
    <3>1. PICK p : p = FirstOf(Available(UserPages))
      BY Zenon
    <3>2. p \in free_pages /\ p \in AnyPage
      BY <2>4, <3>1, FirstAvailable, Zenon
    <3>3. kpage' = [kpage EXCEPT ![s] = p] /\ Take(p) /\ Then(s, "read")
      BY <1>7, <2>2, <2>4, <3>1, Zenon DEF SegmentPage
    <3>4. TakesHand(s)
      BY <2>1, <3>2, <3>3, Zenon DEF TakesHand
    <3> QED BY <3>4, Zenon DEF PageStep
  <2> QED BY <2>3, <2>4, Zenon
<1>8. ASSUME NEW s \in Spaces, SegmentRead(s)
      PROVE  PageStep
  <2>1. space_pc[s] = "read" /\ UNCHANGED <<pagedir, dying, tables, ptes>>
    BY <1>8, Zenon DEF SegmentRead, RunsAt
  <2>2. CASE Then(s, "install") /\ UNCHANGED <<kpage, free_pages>>
    <3>1. <<space_pc[s], "install">> \in Moves
      BY <2>1, Zenon DEF Moves
    <3> QED BY <1>0, <2>1, <2>2, <3>1, ThenMoves, Zenon DEF PageStep
  <2>3. CASE Then(s, "exit") /\ Give(kpage[s]) /\ kpage' = [kpage EXCEPT ![s] = NoPage]
    BY <2>1, <2>3, Zenon DEF PageStep, GivesHand
  <2> QED BY <1>8, <2>2, <2>3, Zenon DEF SegmentRead
<1>9. ASSUME NEW s \in Spaces, SegmentInstall(s)
      PROVE  PageStep
  <2>1. space_pc[s] = "install" /\ UNCHANGED <<pagedir, dying>>
    BY <1>9, Zenon DEF SegmentInstall, RunsAt
  <2>2. CASE Installed(s) /\ Then(s, "page")
    BY <2>1, <2>2, InstalledMaps, Zenon DEF PageStep
  <2>3. CASE InstallFails(s)
    BY <2>1, <2>3, Zenon DEF PageStep, GivesHand, InstallFails
  <2> QED BY <1>9, <2>2, <2>3, SegmentInstalls, Zenon
<1>10. ASSUME NEW s \in Spaces, StackGet(s)
      PROVE  PageStep
  <2>1. space_pc[s] = "stack_page" /\ UNCHANGED <<pagedir, dying, tables, ptes>>
    BY <1>10, Zenon DEF StackGet, RunsAt
  <2>2. CASE Available(UserPages) = {}
    <3>1. Then(s, "exit") /\ UNCHANGED <<kpage, free_pages>>
      BY <1>10, <2>2, Zenon DEF StackGet
    <3>2. <<space_pc[s], "exit">> \in Moves
      BY <2>1, Zenon DEF Moves
    <3> QED BY <1>0, <2>1, <3>1, <3>2, ThenMoves, Zenon DEF PageStep
  <2>3. CASE Available(UserPages) # {}
    <3>1. PICK p : p = FirstOf(Available(UserPages))
      BY Zenon
    <3>2. p \in free_pages /\ p \in AnyPage
      BY <2>3, <3>1, FirstAvailable, Zenon
    <3>3. kpage' = [kpage EXCEPT ![s] = p] /\ Take(p) /\ Then(s, "stack_install")
      BY <1>10, <2>3, <3>1, Zenon DEF StackGet
    <3>4. TakesHand(s)
      BY <2>1, <3>2, <3>3, Zenon DEF TakesHand
    <3> QED BY <3>4, Zenon DEF PageStep
  <2> QED BY <2>2, <2>3, Zenon
<1>11. ASSUME NEW s \in Spaces, StackInstall(s)
      PROVE  PageStep
  <2>1. space_pc[s] = "stack_install" /\ UNCHANGED <<pagedir, dying>>
    BY <1>11, Zenon DEF StackInstall, RunsAt
  <2>2. CASE Installed(s) /\ Then(s, "stack_words")
    BY <2>1, <2>2, InstalledMaps, Zenon DEF PageStep
  <2>3. CASE InstallFails(s)
    BY <2>1, <2>3, Zenon DEF PageStep, GivesHand, InstallFails
  <2> QED BY <1>11, <2>2, <2>3, StackInstalls, Zenon
<1>12. ASSUME NEW s \in Spaces, UserExits(s)
      PROVE  PageStep
  <2>1. /\ space_pc[s] = "run" /\ Then(s, "exit")
        /\ UNCHANGED <<kpage, pagedir, dying, tables, ptes, free_pages>>
    BY <1>12, Zenon DEF UserExits, RunsAt
  <2>2. <<space_pc[s], "exit">> \in Moves
    BY <2>1, Zenon DEF Moves
  <2> QED BY <1>0, <2>1, <2>2, ThenMoves, Zenon DEF PageStep
<1>13. ASSUME NEW s \in Spaces, ExitForget(s)
      PROVE  PageStep
  BY <1>13, Zenon DEF ExitForget, RunsAt, Forgets, PageStep
<1>14. ASSUME NEW s \in Spaces, ExitDeactivate(s)
      PROVE  PageStep
  <2>1. /\ space_pc[s] = "deactivate" /\ Then(s, "destroy")
        /\ UNCHANGED <<kpage, pagedir, dying, tables, ptes, free_pages>>
    BY <1>14, Zenon DEF ExitDeactivate, RunsAt
  <2>2. <<space_pc[s], "destroy">> \in Moves
    BY <2>1, Zenon DEF Moves
  <2> QED BY <1>0, <2>1, <2>2, ThenMoves, Zenon DEF PageStep
<1>15. ASSUME NEW s \in Spaces, DestroyDirectory(s)
      PROVE  PageStep
  BY <1>15, Zenon DEF DestroyDirectory, RunsAt, GivesDirectory, PageStep
<1>16. ASSUME NEW s \in Spaces, NEW i \in Tables, DestroyTable(s, i)
      PROVE  PageStep
  BY <1>16, Zenon DEF PageStep
<1>17. ASSUME NEW s \in Spaces, process_execute(s)
       PROVE  PageStep
  <2>1. /\ space_pc[s] = "none" /\ Then(s, "start")
        /\ UNCHANGED <<kpage, pagedir, dying, tables, ptes, free_pages>>
    BY <1>17, Zenon DEF process_execute
  <2>2. <<space_pc[s], "start">> \in Moves
    BY <2>1, Zenon DEF Moves
  <2> QED BY <1>0, <2>1, <2>2, ThenMoves, Zenon DEF PageStep
<1>18. ASSUME NEW s \in Spaces, LoadPanics(s)
       PROVE  PageStep
  BY <1>0, <1>18, SpaceTypeParts, Zenon DEF LoadPanics, PageStep, PagesStay
<1>19. ASSUME NEW s \in Spaces, StackWords(s)
       PROVE  PageStep
  <2>1. space_pc[s] = "stack_words" /\ UNCHANGED <<kpage, pagedir, dying, tables, ptes, free_pages>>
    BY <1>19, Zenon DEF StackWords, RunsAt
  <2>2. Then(s, "run") \/ UNCHANGED space_pc
    BY <1>19, Zenon DEF StackWords
  <2>3. <<space_pc[s], "run">> \in Moves
    BY <2>1, Zenon DEF Moves
  <2>4. CASE Then(s, "run")
    BY <1>0, <2>1, <2>3, <2>4, ThenMoves, Zenon DEF PageStep
  <2>5. CASE UNCHANGED space_pc
    BY <1>0, <2>1, <2>5, SpaceTypeParts, Zenon DEF PageStep, PagesStay
  <2> QED BY <2>2, <2>4, <2>5, Zenon
<1> QED BY <1>1, <1>2, <1>3, <1>4, <1>5, <1>6, <1>7, <1>8, <1>9, <1>10, <1>11, <1>12, <1>13,
           <1>14, <1>15, <1>16, <1>17, <1>18, <1>19, Zenon DEF SpaceNext

\* The variables that hold pages keep their types.
LEMMA PageTypesKept ==
  ASSUME SpaceTypes, PageStep
  PROVE  /\ space_pc' \in [Spaces -> SpaceLabels] /\ kpage' \in [Spaces -> MaybePage]
         /\ pagedir' \in [Spaces -> MaybePage] /\ dying' \in [Spaces -> MaybePage]
         /\ tables' \in [Spaces -> [Tables -> MaybePage]]
         /\ ptes' \in [Spaces -> [UserVPages -> SomeEntry]]
<1>1. /\ space_pc \in [Spaces -> SpaceLabels] /\ kpage \in [Spaces -> MaybePage]
      /\ pagedir \in [Spaces -> MaybePage] /\ dying \in [Spaces -> MaybePage]
      /\ tables \in [Spaces -> [Tables -> MaybePage]]
      /\ ptes \in [Spaces -> [UserVPages -> SomeEntry]]
  BY SpaceTypeParts, Zenon
<1>2. NoPage \in MaybePage /\ (\A p \in AnyPage : p \in MaybePage)
  BY Zenon DEF MaybePage
<1>3. NoPage \in SomeEntry /\ (\A e \in Entry : e \in SomeEntry)
  BY Zenon DEF SomeEntry
<1>4. \A s \in Spaces : \A w \in SpaceLabels : Then(s, w) => space_pc' \in [Spaces -> SpaceLabels]
  BY <1>1, Zenon DEF Then
<1>5. CASE PagesStay
  BY <1>1, <1>5, Zenon DEF PagesStay
<1>6. ASSUME NEW s \in Spaces, TakesDirectory(s)
      PROVE  space_pc' \in [Spaces -> SpaceLabels] /\ pagedir' \in [Spaces -> MaybePage]
             /\ UNCHANGED <<kpage, dying, tables, ptes>>
  <2>1. Then(s, "activate") /\ "activate" \in SpaceLabels
    BY <1>6, Zenon DEF TakesDirectory, SpaceLabels
  <2> QED BY <1>1, <1>2, <1>4, <1>6, <2>1, Zenon DEF TakesDirectory
<1>7. ASSUME NEW s \in Spaces, TakesHand(s)
      PROVE  space_pc' \in [Spaces -> SpaceLabels] /\ kpage' \in [Spaces -> MaybePage]
             /\ UNCHANGED <<pagedir, dying, tables, ptes>>
  <2>1. "read" \in SpaceLabels /\ "stack_install" \in SpaceLabels
    BY Zenon DEF SpaceLabels
  <2> QED BY <1>1, <1>2, <1>4, <1>7, <2>1, Zenon DEF TakesHand
<1>8. ASSUME NEW s \in Spaces, GivesHand(s)
      PROVE  space_pc' \in [Spaces -> SpaceLabels] /\ kpage' \in [Spaces -> MaybePage]
             /\ UNCHANGED <<pagedir, dying, tables, ptes>>
  <2>1. "exit" \in SpaceLabels
    BY Zenon DEF SpaceLabels
  <2> QED BY <1>1, <1>2, <1>4, <1>8, <2>1, Zenon DEF GivesHand
<1>9. ASSUME NEW s \in Spaces, NEW v \in UserVPages, NEW e \in Entry, Maps(s, v, e)
      PROVE  space_pc' \in [Spaces -> SpaceLabels] /\ kpage' \in [Spaces -> MaybePage]
             /\ ptes' \in [Spaces -> [UserVPages -> SomeEntry]] /\ UNCHANGED <<pagedir, dying>>
  <2>1. "page" \in SpaceLabels /\ "stack_words" \in SpaceLabels
    BY Zenon DEF SpaceLabels
  <2>2. space_pc' \in [Spaces -> SpaceLabels]
    BY <1>4, <1>9, <2>1, Zenon DEF Maps
  <2>3. kpage' \in [Spaces -> MaybePage]
    BY <1>1, <1>2, <1>9, Zenon DEF Maps
  <2>4. e \in SomeEntry /\ ptes' = [ptes EXCEPT ![s][v] = e]
    BY <1>3, <1>9, Zenon DEF Maps
  <2>5. ptes' \in [Spaces -> [UserVPages -> SomeEntry]]
    BY <1>1, <2>4, Zenon
  <2> QED BY <1>9, <2>2, <2>3, <2>5, Zenon DEF Maps
<1>10. ASSUME NEW s \in Spaces, MapsInTable(s)
       PROVE  UNCHANGED tables /\ \E v \in UserVPages, e \in Entry : Maps(s, v, e)
  BY <1>10, Zenon DEF MapsInTable
<1>11. ASSUME NEW s \in Spaces, MapsInNewTable(s)
       PROVE  /\ tables' \in [Spaces -> [Tables -> MaybePage]]
              /\ \E v \in UserVPages, e \in Entry : Maps(s, v, e)
  <2>1. PICK v \in UserVPages, e \in Entry :
          /\ Maps(s, v, e)
          /\ \E p \in free_pages : p \in AnyPage /\ tables' = [tables EXCEPT ![s][pd_no(v)] = p]
    BY <1>11, Zenon DEF MapsInNewTable
  <2>2. PICK p \in AnyPage : tables' = [tables EXCEPT ![s][pd_no(v)] = p]
    BY <2>1, Zenon
  <2>3. PICK i \in Tables : i = pd_no(v)
    BY Zenon DEF Tables
  <2>4. tables' = [tables EXCEPT ![s][i] = p] /\ p \in MaybePage
    BY <1>2, <2>2, <2>3, Zenon
  <2>5. tables' \in [Spaces -> [Tables -> MaybePage]]
    BY <1>1, <2>4, Zenon
  <2> QED BY <2>1, <2>5, Zenon
<1>12. ASSUME NEW s \in Spaces, Forgets(s)
       PROVE  /\ space_pc' \in [Spaces -> SpaceLabels] /\ pagedir' \in [Spaces -> MaybePage]
              /\ dying' \in [Spaces -> MaybePage] /\ UNCHANGED <<kpage, tables, ptes>>
  <2>1. "dead" \in SpaceLabels /\ "deactivate" \in SpaceLabels
    BY Zenon DEF SpaceLabels
  <2>2. space_pc' \in [Spaces -> SpaceLabels]
    BY <1>4, <1>12, <2>1, Zenon DEF Forgets
  <2> QED BY <1>1, <1>2, <1>12, <2>2, Zenon DEF Forgets
<1>13. ASSUME NEW s \in Spaces, GivesDirectory(s)
       PROVE  /\ space_pc' \in [Spaces -> SpaceLabels] /\ dying' \in [Spaces -> MaybePage]
              /\ UNCHANGED <<kpage, pagedir, tables, ptes>>
  <2>1. "dead" \in SpaceLabels
    BY Zenon DEF SpaceLabels
  <2> QED BY <1>1, <1>2, <1>4, <1>13, <2>1, Zenon DEF GivesDirectory
<1>14. ASSUME NEW s \in Spaces, NEW i \in Tables, DestroyTable(s, i)
       PROVE  /\ tables' \in [Spaces -> [Tables -> MaybePage]]
              /\ ptes' \in [Spaces -> [UserVPages -> SomeEntry]]
              /\ UNCHANGED <<space_pc, kpage, pagedir, dying>>
  <2>1. PICK mapped : mapped = {v \in UserVPages : pd_no(v) = i /\ ptes[s][v] # NoPage}
    BY Zenon
  <2>2. /\ ptes' = [ptes EXCEPT ![s] = [v \in UserVPages |-> IF v \in mapped THEN NoPage ELSE @[v]]]
        /\ tables' = [tables EXCEPT ![s][i] = NoPage]
    BY <1>14, <2>1, Zenon DEF DestroyTable
  <2>3. tables' \in [Spaces -> [Tables -> MaybePage]]
    BY <1>1, <1>2, <2>2, Zenon
  <2>4. [v \in UserVPages |-> IF v \in mapped THEN NoPage ELSE ptes[s][v]] \in [UserVPages -> SomeEntry]
    BY <1>1, <1>3, Zenon
  <2>5. ptes' \in [Spaces -> [UserVPages -> SomeEntry]]
    BY <1>1, <2>2, <2>4, Zenon
  <2> QED BY <1>14, <2>3, <2>5, Zenon DEF DestroyTable
<1> QED BY <1>1, <1>5, <1>6, <1>7, <1>8, <1>9, <1>10, <1>11, <1>12, <1>13, <1>14, Zenon DEF PageStep

\* Nothing is lost, used twice or used while free after a step.
LEMMA OnceKept ==
  ASSUME SpaceInv, PageStep
  PROVE  EachPageOnce(Held, free_pages)'
<1>1. /\ SpaceTypes /\ EachPageOnce(Held, free_pages) /\ \A s \in Spaces : HasPages(s)
      /\ NoPage \notin AnyPage
  BY SpaceParts, SpaceNumbers, Zenon
<1>2. /\ kpage \in [Spaces -> MaybePage]
      /\ pagedir \in [Spaces -> MaybePage] /\ dying \in [Spaces -> MaybePage]
      /\ tables \in [Spaces -> [Tables -> MaybePage]]
      /\ ptes \in [Spaces -> [UserVPages -> SomeEntry]]
  BY <1>1, SpaceTypeParts, Zenon
<1>3. Held \in [Holder -> MaybePage] /\ Describes(Held, pagedir, dying, kpage, tables, ptes)
  BY <1>1, HeldNow, Zenon
<1>4. Held' \in [Holder -> MaybePage] /\ Describes(Held', pagedir', dying', kpage', tables', ptes')
  BY <1>1, PageTypesKept, HeldIs, Zenon DEF Held
<1>5. PICK f \in [Holder -> MaybePage], g \in [Holder -> MaybePage] : f = Held /\ g = Held'
  BY <1>3, <1>4, Zenon
<1>6. Describes(f, pagedir, dying, kpage, tables, ptes) /\ EachPageOnce(f, free_pages)
  BY <1>1, <1>3, <1>5, Zenon
<1>7. Describes(g, pagedir', dying', kpage', tables', ptes')
  BY <1>4, <1>5, Zenon
<1>8. SUFFICES EachPageOnce(g, free_pages')
  BY <1>5, Zenon
<1>9. CASE PagesStay
  <2>1. g = f /\ free_pages' = free_pages
    BY <1>5, <1>9, Zenon DEF PagesStay, Held
  <2> QED BY <1>6, <2>1, Zenon
<1>10. ASSUME NEW s \in Spaces, TakesDirectory(s)
       PROVE  EachPageOnce(g, free_pages')
  <2>1. PICK p \in free_pages : p \in AnyPage /\ pagedir' = [pagedir EXCEPT ![s] = p] /\ Take(p)
    BY <1>10, Zenon DEF TakesDirectory
  <2>2. pagedir[s] = NoPage
    BY <1>1, <1>10, Zenon DEF TakesDirectory, HasPages
  <2>3. f[DirOf(s)] = NoPage /\ g[DirOf(s)] = p
    <3>1. f[DirOf(s)] = pagedir[s] /\ g[DirOf(s)] = pagedir'[s]
      BY <1>6, <1>7, Zenon DEF Describes
    <3> QED BY <1>2, <2>1, <2>2, <3>1, Zenon
  <2>4. \A t \in Spaces : DirOf(t) \in {DirOf(s)} \/ pagedir'[t] = pagedir[t]
    BY <1>2, <2>1, Zenon
  <2>5. SameBut({DirOf(s)}, f, g)
    <3>1. ChangesOnly({DirOf(s)})
      BY <1>10, <2>4, Zenon DEF TakesDirectory, ChangesOnly
    <3> QED BY <1>6, <1>7, <3>1, SameElsewhere, Zenon
  <2>6. DirOf(s) \in Holder /\ p # NoPage
    BY <1>1, <2>1, Holders, Zenon
  <2>7. EachPageOnce(g, free_pages \ {p})
    BY <1>6, <2>3, <2>5, <2>6, PageTaken, Zenon
  <2> QED BY <2>1, <2>7, Zenon DEF Take
<1>11. ASSUME NEW s \in Spaces, TakesHand(s)
       PROVE  EachPageOnce(g, free_pages')
  <2>1. PICK p \in free_pages : p \in AnyPage /\ kpage' = [kpage EXCEPT ![s] = p] /\ Take(p)
    BY <1>11, Zenon DEF TakesHand
  <2>2. kpage[s] = NoPage
    BY <1>1, <1>11, Zenon DEF TakesHand, HasPages
  <2>3. f[HandOf(s)] = NoPage /\ g[HandOf(s)] = p
    <3>1. f[HandOf(s)] = kpage[s] /\ g[HandOf(s)] = kpage'[s]
      BY <1>6, <1>7, Zenon DEF Describes
    <3> QED BY <1>2, <2>1, <2>2, <3>1, Zenon
  <2>4. \A t \in Spaces : HandOf(t) \in {HandOf(s)} \/ kpage'[t] = kpage[t]
    BY <1>2, <2>1, Zenon
  <2>5. SameBut({HandOf(s)}, f, g)
    <3>1. ChangesOnly({HandOf(s)})
      BY <1>11, <2>4, Zenon DEF TakesHand, ChangesOnly
    <3> QED BY <1>6, <1>7, <3>1, SameElsewhere, Zenon
  <2>6. HandOf(s) \in Holder /\ p # NoPage
    BY <1>1, <2>1, Holders, Zenon
  <2>7. EachPageOnce(g, free_pages \ {p})
    BY <1>6, <2>3, <2>5, <2>6, PageTaken, Zenon
  <2> QED BY <2>1, <2>7, Zenon DEF Take
<1>12. ASSUME NEW s \in Spaces, GivesHand(s)
       PROVE  EachPageOnce(g, free_pages')
  <2>1. kpage' = [kpage EXCEPT ![s] = NoPage] /\ free_pages' = free_pages \cup {kpage[s]}
    BY <1>12, Zenon DEF GivesHand, Give
  <2>2. kpage[s] # NoPage
    BY <1>1, <1>12, Zenon DEF GivesHand, HasPages
  <2>3. f[HandOf(s)] = kpage[s] /\ g[HandOf(s)] = NoPage
    <3>1. f[HandOf(s)] = kpage[s] /\ g[HandOf(s)] = kpage'[s]
      BY <1>6, <1>7, Zenon DEF Describes
    <3> QED BY <1>2, <2>1, <3>1, Zenon
  <2>4. \A t \in Spaces : HandOf(t) \in {HandOf(s)} \/ kpage'[t] = kpage[t]
    BY <1>2, <2>1, Zenon
  <2>5. SameBut({HandOf(s)}, f, g)
    <3>1. ChangesOnly({HandOf(s)})
      BY <1>12, <2>4, Zenon DEF GivesHand, ChangesOnly
    <3> QED BY <1>6, <1>7, <3>1, SameElsewhere, Zenon
  <2>6. {HandOf(s)} \in SUBSET Holder
    BY Holders, Zenon
  <2>7. \A q : q \in free_pages' <=> q \in free_pages \/ \E d \in {HandOf(s)} : q = f[d]
    BY <2>1, <2>3, Zenon
  <2>8. \A d \in {HandOf(s)} : f[d] # NoPage /\ g[d] = NoPage
    BY <2>2, <2>3, Zenon
  <2>9. Gave({HandOf(s)}, f, g, free_pages, free_pages')
    BY <2>5, <2>7, <2>8, Zenon DEF Gave
  <2> QED BY <1>6, <2>6, <2>9, PagesGiven, Zenon
<1>13. ASSUME NEW s \in Spaces, GivesDirectory(s)
       PROVE  EachPageOnce(g, free_pages')
  <2>1. dying' = [dying EXCEPT ![s] = NoPage] /\ free_pages' = free_pages \cup {dying[s]}
    BY <1>13, Zenon DEF GivesDirectory, Give
  <2>2. dying[s] # NoPage
    BY <1>1, <1>13, Zenon DEF GivesDirectory, HasPages
  <2>3. f[DeadOf(s)] = dying[s] /\ g[DeadOf(s)] = NoPage
    <3>1. f[DeadOf(s)] = dying[s] /\ g[DeadOf(s)] = dying'[s]
      BY <1>6, <1>7, Zenon DEF Describes
    <3> QED BY <1>2, <2>1, <3>1, Zenon
  <2>4. \A t \in Spaces : DeadOf(t) \in {DeadOf(s)} \/ dying'[t] = dying[t]
    BY <1>2, <2>1, Zenon
  <2>5. SameBut({DeadOf(s)}, f, g)
    <3>1. ChangesOnly({DeadOf(s)})
      BY <1>13, <2>4, Zenon DEF GivesDirectory, ChangesOnly
    <3> QED BY <1>6, <1>7, <3>1, SameElsewhere, Zenon
  <2>6. {DeadOf(s)} \in SUBSET Holder
    BY Holders, Zenon
  <2>7. \A q : q \in free_pages' <=> q \in free_pages \/ \E d \in {DeadOf(s)} : q = f[d]
    BY <2>1, <2>3, Zenon
  <2>8. \A d \in {DeadOf(s)} : f[d] # NoPage /\ g[d] = NoPage
    BY <2>2, <2>3, Zenon
  <2>9. Gave({DeadOf(s)}, f, g, free_pages, free_pages')
    BY <2>5, <2>7, <2>8, Zenon DEF Gave
  <2> QED BY <1>6, <2>6, <2>9, PagesGiven, Zenon
<1>14. ASSUME NEW s \in Spaces, Forgets(s)
       PROVE  EachPageOnce(g, free_pages')
  <2>1. /\ dying' = [dying EXCEPT ![s] = pagedir[s]] /\ pagedir' = [pagedir EXCEPT ![s] = NoPage]
        /\ free_pages' = free_pages
    BY <1>14, Zenon DEF Forgets
  <2>2. dying[s] = NoPage
    BY <1>1, <1>14, Zenon DEF Forgets, HasPages
  <2>3. f[DeadOf(s)] = NoPage /\ g[DeadOf(s)] = f[DirOf(s)] /\ g[DirOf(s)] = NoPage
    <3>1. /\ f[DeadOf(s)] = dying[s] /\ g[DeadOf(s)] = dying'[s]
          /\ f[DirOf(s)] = pagedir[s] /\ g[DirOf(s)] = pagedir'[s]
      BY <1>6, <1>7, Zenon DEF Describes
    <3> QED BY <1>2, <2>1, <2>2, <3>1, Zenon
  <2>4. \A t \in Spaces : DeadOf(t) \in {DirOf(s), DeadOf(s)} \/ dying'[t] = dying[t]
    BY <1>2, <2>1, Zenon
  <2>5. \A t \in Spaces : DirOf(t) \in {DirOf(s), DeadOf(s)} \/ pagedir'[t] = pagedir[t]
    BY <1>2, <2>1, Zenon
  <2>6. SameBut({DirOf(s), DeadOf(s)}, f, g)
    <3>1. ChangesOnly({DirOf(s), DeadOf(s)})
      BY <1>14, <2>4, <2>5, Zenon DEF Forgets, ChangesOnly
    <3> QED BY <1>6, <1>7, <3>1, SameElsewhere, Zenon
  <2>7. DirOf(s) \in Holder /\ DeadOf(s) \in Holder /\ DirOf(s) # DeadOf(s)
    BY Holders, HoldersDiffer, Zenon
  <2>8. EachPageOnce(g, free_pages)
    BY <1>6, <2>3, <2>6, <2>7, PageMoved, Zenon
  <2> QED BY <2>1, <2>8, Zenon
<1>15. ASSUME NEW s \in Spaces, NEW v \in UserVPages, NEW e \in Entry, Maps(s, v, e)
       PROVE  /\ f[HandOf(s)] = kpage[s] /\ f[MapOf(s, v)] = NoPage /\ kpage[s] # NoPage
              /\ g[HandOf(s)] = NoPage /\ g[MapOf(s, v)] = kpage[s]
              /\ \A t \in Spaces : HandOf(t) \in {HandOf(s)} \/ kpage'[t] = kpage[t]
              /\ \A t \in Spaces : \A u \in UserVPages :
                   MapOf(t, u) \in {MapOf(s, v)} \/ ptes'[t][u] = ptes[t][u]
              /\ UNCHANGED <<pagedir, dying>>
  <2>1. /\ ptes' = [ptes EXCEPT ![s][v] = e] /\ kpage' = [kpage EXCEPT ![s] = NoPage]
        /\ e.page = kpage[s] /\ ptes[s][v] = NoPage /\ UNCHANGED <<pagedir, dying>>
    BY <1>15, Zenon DEF Maps
  <2>2. kpage[s] # NoPage
    BY <1>1, <1>15, Zenon DEF Maps, HasPages
  <2>3. e # NoPage
    BY SpaceNumbers, Zenon
  <2>4. \A t \in Spaces : \A u \in UserVPages : ptes'[t][u] = IF t = s /\ u = v THEN e ELSE ptes[t][u]
    BY <1>2, <2>1, Zenon
  <2>5. f[HandOf(s)] = kpage[s] /\ g[HandOf(s)] = kpage'[s]
    BY <1>6, <1>7, Zenon DEF Describes
  <2>6. f[MapOf(s, v)] = PageOf(ptes[s][v]) /\ g[MapOf(s, v)] = PageOf(ptes'[s][v])
    BY <1>6, <1>7, Zenon DEF Describes
  <2>7. f[MapOf(s, v)] = NoPage /\ g[MapOf(s, v)] = kpage[s]
    BY <2>1, <2>3, <2>4, <2>6, Zenon DEF PageOf
  <2>8. \A t \in Spaces : HandOf(t) \in {HandOf(s)} \/ kpage'[t] = kpage[t]
    BY <1>2, <2>1, Zenon
  <2>9. kpage'[s] = NoPage
    BY <1>2, <2>1, Zenon
  <2>10. \A t \in Spaces : \A u \in UserVPages :
           MapOf(t, u) \in {MapOf(s, v)} \/ ptes'[t][u] = ptes[t][u]
    BY <2>4, Zenon
  <2> QED BY <2>1, <2>2, <2>5, <2>7, <2>8, <2>9, <2>10, Zenon
<1>16. ASSUME NEW s \in Spaces, MapsInTable(s)
       PROVE  EachPageOnce(g, free_pages')
  <2>1. PICK v \in UserVPages, e \in Entry : Maps(s, v, e) /\ UNCHANGED <<tables, free_pages>>
    BY <1>16, Zenon DEF MapsInTable
  <2>2. /\ f[HandOf(s)] = kpage[s] /\ f[MapOf(s, v)] = NoPage
        /\ g[HandOf(s)] = NoPage /\ g[MapOf(s, v)] = kpage[s]
        /\ \A t \in Spaces : HandOf(t) \in {HandOf(s)} \/ kpage'[t] = kpage[t]
        /\ \A t \in Spaces : \A u \in UserVPages :
             MapOf(t, u) \in {MapOf(s, v)} \/ ptes'[t][u] = ptes[t][u]
        /\ UNCHANGED <<pagedir, dying>>
    BY <1>15, <2>1, ZenonT(60)
  <2>3. PICK H : H = {HandOf(s), MapOf(s, v)}
    BY Zenon
  <2>4. /\ \A t \in Spaces : HandOf(t) \in H \/ kpage'[t] = kpage[t]
        /\ \A t \in Spaces : \A u \in UserVPages : MapOf(t, u) \in H \/ ptes'[t][u] = ptes[t][u]
    BY <2>2, <2>3, Zenon
  <2>5. SameBut(H, f, g)
    <3>1. ChangesOnly(H)
      BY <2>1, <2>2, <2>4, Zenon DEF ChangesOnly
    <3> QED BY <1>6, <1>7, <3>1, SameElsewhere, Zenon
  <2>6. HandOf(s) \in Holder /\ MapOf(s, v) \in Holder /\ HandOf(s) # MapOf(s, v)
    BY Holders, HoldersDiffer, Zenon
  <2>7. SameBut({HandOf(s), MapOf(s, v)}, f, g)
    BY <2>3, <2>5, Zenon
  <2>8. f[MapOf(s, v)] = NoPage /\ g[HandOf(s)] = NoPage /\ g[MapOf(s, v)] = f[HandOf(s)]
    BY <2>2, Zenon
  <2>9. EachPageOnce(g, free_pages)
    BY <1>6, <2>6, <2>7, <2>8, PageMoved, Zenon
  <2> QED BY <2>1, <2>9, Zenon
<1>17. ASSUME NEW s \in Spaces, MapsInNewTable(s)
       PROVE  EachPageOnce(g, free_pages')
  <2>1. PICK v \in UserVPages, e \in Entry :
          /\ Maps(s, v, e) /\ tables[s][pd_no(v)] = NoPage
          /\ \E p \in free_pages :
               p \in AnyPage /\ tables' = [tables EXCEPT ![s][pd_no(v)] = p] /\ Take(p)
    BY <1>17, Zenon DEF MapsInNewTable
  <2>2. PICK i \in Tables : i = pd_no(v)
    BY Zenon DEF Tables
  <2>3. PICK p \in free_pages : p \in AnyPage /\ tables' = [tables EXCEPT ![s][i] = p] /\ Take(p)
    BY <2>1, <2>2, Zenon
  <2>4. /\ f[HandOf(s)] = kpage[s] /\ f[MapOf(s, v)] = NoPage /\ kpage[s] # NoPage
        /\ g[HandOf(s)] = NoPage /\ g[MapOf(s, v)] = kpage[s]
        /\ \A t \in Spaces : HandOf(t) \in {HandOf(s)} \/ kpage'[t] = kpage[t]
        /\ \A t \in Spaces : \A u \in UserVPages :
             MapOf(t, u) \in {MapOf(s, v)} \/ ptes'[t][u] = ptes[t][u]
        /\ UNCHANGED <<pagedir, dying>>
    BY <1>15, <2>1, Zenon
  <2>5. \A t \in Spaces : \A j \in Tables : tables'[t][j] = IF t = s /\ j = i THEN p ELSE tables[t][j]
    BY <1>2, <2>3, Zenon
  <2>6. f[TableOf(s, i)] = NoPage /\ g[TableOf(s, i)] = p
    <3>1. f[TableOf(s, i)] = tables[s][i] /\ g[TableOf(s, i)] = tables'[s][i]
      BY <1>6, <1>7, Zenon DEF Describes
    <3> QED BY <2>1, <2>2, <2>5, <3>1, Zenon
  <2>7. PICK H : H = {HandOf(s), MapOf(s, v), TableOf(s, i)}
    BY Zenon
  <2>8. /\ \A t \in Spaces : HandOf(t) \in H \/ kpage'[t] = kpage[t]
        /\ \A t \in Spaces : \A u \in UserVPages : MapOf(t, u) \in H \/ ptes'[t][u] = ptes[t][u]
        /\ \A t \in Spaces : \A j \in Tables : TableOf(t, j) \in H \/ tables'[t][j] = tables[t][j]
    BY <2>4, <2>5, <2>7, Zenon
  <2>9. SameBut(H, f, g)
    <3>1. ChangesOnly(H)
      BY <2>4, <2>8, Zenon DEF ChangesOnly
    <3> QED BY <1>6, <1>7, <3>1, SameElsewhere, Zenon
  <2>10. PICK a \in Holder, b \in Holder, c \in Holder :
           a = HandOf(s) /\ b = MapOf(s, v) /\ c = TableOf(s, i)
    BY Holders, Zenon
  <2>11. a # b /\ a # c /\ b # c
    BY <2>10, HoldersDiffer, Zenon
  <2>12. /\ f[b] = NoPage /\ f[c] = NoPage /\ g[a] = NoPage /\ g[b] = f[a] /\ g[c] = p
         /\ \A h \in Holder : h # a /\ h # b /\ h # c => g[h] = f[h]
    BY <2>4, <2>6, <2>7, <2>9, <2>10, Zenon DEF SameBut
  <2>13. PICK k : k = [h \in Holder |-> IF h = c THEN NoPage ELSE g[h]]
    BY Zenon
  <2>14. k \in [Holder -> MaybePage]
    BY <2>13, Zenon DEF MaybePage
  <2>15. /\ k[a] = NoPage /\ k[b] = f[a] /\ k[c] = NoPage /\ f[c] = NoPage
         /\ SameBut({a, b}, f, k) /\ SameBut({c}, k, g)
    BY <2>11, <2>12, <2>13, Zenon DEF SameBut
  <2>16. EachPageOnce(k, free_pages)
    BY <1>6, <2>11, <2>12, <2>14, <2>15, PageMoved, Zenon
  <2>17. p # NoPage
    BY <1>1, <2>3, Zenon
  <2>18. EachPageOnce(g, free_pages \ {p})
    BY <2>12, <2>14, <2>15, <2>16, <2>17, PageTaken, Zenon
  <2> QED BY <2>3, <2>18, Zenon DEF Take
<1>18. ASSUME NEW s \in Spaces, NEW i \in Tables, DestroyTable(s, i)
       PROVE  EachPageOnce(g, free_pages')
  <2>1. PICK mapped : mapped = {v \in UserVPages : pd_no(v) = i /\ ptes[s][v] # NoPage}
    BY Zenon
  <2>2. /\ ptes' = [ptes EXCEPT ![s] = [v \in UserVPages |-> IF v \in mapped THEN NoPage ELSE @[v]]]
        /\ tables' = [tables EXCEPT ![s][i] = NoPage] /\ tables[s][i] # NoPage
        /\ free_pages' = free_pages \cup {ptes[s][v].page : v \in mapped} \cup {tables[s][i]}
        /\ UNCHANGED <<kpage, pagedir, dying>>
    BY <1>18, <2>1, Zenon DEF DestroyTable
  <2>3. \A t \in Spaces : \A j \in Tables : tables'[t][j] = IF t = s /\ j = i THEN NoPage ELSE tables[t][j]
    BY <1>2, <2>2, Zenon
  <2>4. \A t \in Spaces : \A v \in UserVPages :
          ptes'[t][v] = IF t = s /\ v \in mapped THEN NoPage ELSE ptes[t][v]
    BY <1>2, <2>2, Zenon
  <2>5. PICK H : H = {TableOf(s, i)} \cup {MapOf(s, v) : v \in mapped}
    BY Zenon
  <2>6. H \in SUBSET Holder
    BY <2>1, <2>5, Holders, Zenon
  <2>7. /\ \A t \in Spaces : \A v \in UserVPages : MapOf(t, v) \in H \/ ptes'[t][v] = ptes[t][v]
        /\ \A t \in Spaces : \A j \in Tables : TableOf(t, j) \in H \/ tables'[t][j] = tables[t][j]
    BY <2>3, <2>4, <2>5, Zenon
  <2>8. SameBut(H, f, g)
    <3>1. ChangesOnly(H)
      BY <2>2, <2>7, Zenon DEF ChangesOnly
    <3> QED BY <1>6, <1>7, <3>1, SameElsewhere, Zenon
  <2>9. f[TableOf(s, i)] = tables[s][i] /\ g[TableOf(s, i)] = NoPage
    <3>1. f[TableOf(s, i)] = tables[s][i] /\ g[TableOf(s, i)] = tables'[s][i]
      BY <1>6, <1>7, Zenon DEF Describes
    <3> QED BY <2>3, <3>1, Zenon
  <2>10. \A v \in mapped : f[MapOf(s, v)] = ptes[s][v].page /\ g[MapOf(s, v)] = NoPage
    <3>1. \A v \in mapped : v \in UserVPages /\ ptes[s][v] # NoPage /\ ptes'[s][v] = NoPage
      BY <2>1, <2>4, Zenon
    <3>2. \A v \in UserVPages : f[MapOf(s, v)] = PageOf(ptes[s][v]) /\ g[MapOf(s, v)] = PageOf(ptes'[s][v])
      BY <1>6, <1>7, Zenon DEF Describes
    <3> QED BY <3>1, <3>2, Zenon DEF PageOf
  <2>11. \A v \in mapped : ptes[s][v].page # NoPage
    <3>1. \A v \in mapped : ptes[s][v] \in Entry
      BY <1>2, <2>1, Zenon DEF SomeEntry
    <3>2. \A e \in Entry : e.page \in AnyPage
      BY Zenon DEF Entry, AnyPage
    <3> QED BY <1>1, <3>1, <3>2, Zenon
  <2>12. \A h \in H : f[h] # NoPage /\ g[h] = NoPage
    BY <2>2, <2>5, <2>9, <2>10, <2>11, ZenonT(60)
  <2>13. \A q : q \in free_pages' <=> q \in free_pages \/ \E h \in H : q = f[h]
    BY <2>2, <2>5, <2>9, <2>10, Zenon
  <2>14. Gave(H, f, g, free_pages, free_pages')
    BY <2>8, <2>12, <2>13, Zenon DEF Gave
  <2> QED BY <1>6, <2>6, <2>14, PagesGiven, Zenon
<1> QED BY <1>9, <1>10, <1>11, <1>12, <1>13, <1>14, <1>16, <1>17, <1>18, Zenon DEF PageStep

\* The parts of HasPages(), in the values of one process.
Owns(pc, kp, pd, dy, tb, pt) ==
  /\ kp # NoPage <=> pc \in {"read", "install", "stack_install"}
  /\ pc \in LoadLabels => pd # NoPage
  /\ pc \in {"none", "start", "deactivate", "destroy", "dead"} => pd = NoPage
  /\ dy # NoPage <=> pc \in {"deactivate", "destroy"}
  /\ \A i \in Tables : tb[i] # NoPage => pd # NoPage \/ dy # NoPage
  /\ \A v \in UserVPages : pt[v] # NoPage => tb[pd_no(v)] # NoPage

\* HasPages() says so of each process.
LEMMA OwnsPages ==
  ASSUME NEW s
  PROVE  /\ HasPages(s) <=> Owns(space_pc[s], kpage[s], pagedir[s], dying[s], tables[s], ptes[s])
         /\ HasPages(s)' <=> Owns(space_pc'[s], kpage'[s], pagedir'[s], dying'[s], tables'[s], ptes'[s])
  BY Zenon DEF HasPages, Owns

\* What a process is like when it has mapped the page in hand at v.
Mapped(s, v, e) ==
  /\ space_pc[s] \in {"install", "stack_install"} /\ space_pc'[s] \in {"page", "stack_words"}
  /\ kpage'[s] = NoPage /\ UNCHANGED <<pagedir, dying>>
  /\ ptes'[s] = [ptes[s] EXCEPT ![v] = e]

\* A process has the pages that its place in the code calls for, after a step too.
LEMMA OwnsKept ==
  ASSUME SpaceInv, PageStep, NEW t \in Spaces
  PROVE  HasPages(t)'
<1>1. Owns(space_pc[t], kpage[t], pagedir[t], dying[t], tables[t], ptes[t])
  BY OwnsPages, SpaceParts, Zenon
<1>2. SUFFICES Owns(space_pc'[t], kpage'[t], pagedir'[t], dying'[t], tables'[t], ptes'[t])
  BY OwnsPages, Zenon
<1>3. /\ space_pc \in [Spaces -> SpaceLabels] /\ kpage \in [Spaces -> MaybePage]
      /\ pagedir \in [Spaces -> MaybePage] /\ dying \in [Spaces -> MaybePage]
      /\ tables \in [Spaces -> [Tables -> MaybePage]]
      /\ ptes \in [Spaces -> [UserVPages -> SomeEntry]]
  BY SpaceParts, SpaceTypeParts, Zenon
<1>4. NoPage \notin AnyPage /\ NoPage \notin Entry
  BY SpaceNumbers, Zenon
<1>5. \A v \in UserVPages : pd_no(v) \in Tables
  BY Zenon DEF Tables
<1>6. ASSUME NEW s \in Spaces, NEW w, Then(s, w)
      PROVE  space_pc'[t] = IF t = s THEN w ELSE space_pc[t]
  BY <1>3, <1>6, Zenon DEF Then
<1>7. CASE PagesStay
  <2>1. UNCHANGED <<kpage, pagedir, dying, tables, ptes>>
    BY <1>7, Zenon DEF PagesStay
  <2>2. space_pc'[t] = space_pc[t] \/ <<space_pc[t], space_pc'[t]>> \in Moves
    BY <1>7, Zenon DEF PagesStay
  <2>3. CASE space_pc'[t] = space_pc[t]
    BY <1>1, <2>1, <2>3, Zenon
  <2>4. CASE <<space_pc[t], space_pc'[t]>> \in Moves
    <3>1. PICK a, b : a = space_pc[t] /\ b = space_pc'[t]
      BY Zenon
    <3>2. <<a, b>> \in Moves
      BY <2>4, <3>1, Zenon
    <3>3. \/ a = "start" /\ b = "exit"
          \/ a = "read" /\ b = "install"
          \/ a = "deactivate" /\ b = "destroy"
          \/ a = "dead" /\ b = "none"
          \/ a = "none" /\ b = "start"
          \/ /\ a \in {"activate", "phdr", "page", "stack_page", "stack_words", "run"}
             /\ b \in {"phdr", "page", "stack_page", "run", "exit"}
      BY <3>2, Zenon DEF Moves
    <3>4. Owns(a, kpage[t], pagedir[t], dying[t], tables[t], ptes[t])
      BY <1>1, <3>1, Zenon
    <3>5. Owns(b, kpage[t], pagedir[t], dying[t], tables[t], ptes[t])
      BY <3>3, <3>4, Zenon DEF Owns, LoadLabels
    <3> QED BY <2>1, <3>1, <3>5, Zenon
  <2> QED BY <2>2, <2>3, <2>4, Zenon
<1>8. ASSUME NEW s \in Spaces, TakesDirectory(s)
      PROVE  Owns(space_pc'[t], kpage'[t], pagedir'[t], dying'[t], tables'[t], ptes'[t])
  <2>1. PICK p \in AnyPage : pagedir' = [pagedir EXCEPT ![s] = p]
    BY <1>8, Zenon DEF TakesDirectory
  <2>2. /\ space_pc[s] = "start" /\ space_pc'[t] = IF t = s THEN "activate" ELSE space_pc[t]
        /\ UNCHANGED <<kpage, dying, tables, ptes>>
    BY <1>6, <1>8, Zenon DEF TakesDirectory
  <2>3. pagedir'[t] = IF t = s THEN p ELSE pagedir[t]
    BY <1>3, <2>1, Zenon
  <2>4. CASE t = s
    <3>1. space_pc'[t] = "activate" /\ pagedir'[t] # NoPage /\ space_pc[t] = "start"
      BY <1>4, <2>2, <2>3, <2>4, Zenon
    <3> QED BY <1>1, <2>2, <3>1, Zenon DEF Owns, LoadLabels
  <2>5. CASE t # s
    BY <1>1, <2>2, <2>3, <2>5, Zenon
  <2> QED BY <2>4, <2>5, Zenon
<1>9. ASSUME NEW s \in Spaces, TakesHand(s)
      PROVE  Owns(space_pc'[t], kpage'[t], pagedir'[t], dying'[t], tables'[t], ptes'[t])
  <2>1. PICK p \in AnyPage : kpage' = [kpage EXCEPT ![s] = p]
    BY <1>9, Zenon DEF TakesHand
  <2>2. kpage'[t] = IF t = s THEN p ELSE kpage[t]
    BY <1>3, <2>1, Zenon
  <2>3. UNCHANGED <<pagedir, dying, tables, ptes>>
    BY <1>9, Zenon DEF TakesHand
  <2>4. CASE t = s
    <3>1. kpage'[t] # NoPage
      BY <1>4, <2>2, <2>4, Zenon
    <3>2. \/ space_pc[t] = "page" /\ space_pc'[t] = "read"
          \/ space_pc[t] = "stack_page" /\ space_pc'[t] = "stack_install"
      BY <1>6, <1>9, <2>4, Zenon DEF TakesHand
    <3> QED BY <1>1, <2>3, <3>1, <3>2, Zenon DEF Owns, LoadLabels
  <2>5. CASE t # s
    <3>1. space_pc'[t] = space_pc[t]
      BY <1>6, <1>9, <2>5, Zenon DEF TakesHand
    <3> QED BY <1>1, <2>2, <2>3, <2>5, <3>1, Zenon
  <2> QED BY <2>4, <2>5, Zenon
<1>10. ASSUME NEW s \in Spaces, GivesHand(s)
      PROVE  Owns(space_pc'[t], kpage'[t], pagedir'[t], dying'[t], tables'[t], ptes'[t])
  <2>1. /\ space_pc[s] \in {"read", "install", "stack_install"}
        /\ space_pc'[t] = IF t = s THEN "exit" ELSE space_pc[t]
        /\ UNCHANGED <<pagedir, dying, tables, ptes>>
    BY <1>6, <1>10, Zenon DEF GivesHand
  <2>2. kpage'[t] = IF t = s THEN NoPage ELSE kpage[t]
    BY <1>3, <1>10, Zenon DEF GivesHand
  <2>3. CASE t = s
    <3>1. space_pc'[t] = "exit" /\ kpage'[t] = NoPage /\ space_pc[t] \in {"read", "install", "stack_install"}
      BY <2>1, <2>2, <2>3, Zenon
    <3> QED BY <1>1, <2>1, <3>1, Zenon DEF Owns, LoadLabels
  <2>4. CASE t # s
    BY <1>1, <2>1, <2>2, <2>4, Zenon
  <2> QED BY <2>3, <2>4, Zenon
<1>11. ASSUME NEW s \in Spaces, NEW v \in UserVPages, NEW e \in Entry, Maps(s, v, e)
       PROVE  Mapped(s, v, e)
  <2>1. space_pc'[s] \in {"page", "stack_words"}
    BY <1>3, <1>11, Zenon DEF Maps, Then
  <2>2. /\ ptes' = [ptes EXCEPT ![s][v] = e] /\ kpage' = [kpage EXCEPT ![s] = NoPage]
        /\ space_pc[s] \in {"install", "stack_install"} /\ UNCHANGED <<pagedir, dying>>
    BY <1>11, Zenon DEF Maps
  <2>3. kpage'[s] = NoPage
    BY <1>3, <2>2, Zenon
  <2>4. ptes'[s] = [ptes[s] EXCEPT ![v] = e]
    BY <1>3, <2>2, Zenon
  <2> QED BY <2>1, <2>2, <2>3, <2>4, Zenon DEF Mapped
<1>12. ASSUME NEW s \in Spaces, NEW v \in UserVPages, NEW e \in Entry, Maps(s, v, e), t # s
       PROVE  /\ space_pc'[t] = space_pc[t] /\ kpage'[t] = kpage[t] /\ ptes'[t] = ptes[t]
              /\ UNCHANGED <<pagedir, dying>>
  <2>1. space_pc'[t] = space_pc[t]
    BY <1>6, <1>12, Zenon DEF Maps
  <2>2. /\ ptes' = [ptes EXCEPT ![s][v] = e] /\ kpage' = [kpage EXCEPT ![s] = NoPage]
        /\ UNCHANGED <<pagedir, dying>>
    BY <1>12, Zenon DEF Maps
  <2> QED BY <1>3, <1>12, <2>1, <2>2, Zenon
<1>13. ASSUME NEW s \in Spaces, MapsInTable(s)
      PROVE  Owns(space_pc'[t], kpage'[t], pagedir'[t], dying'[t], tables'[t], ptes'[t])
  <2>1. PICK v \in UserVPages, e \in Entry :
          Maps(s, v, e) /\ tables[s][pd_no(v)] # NoPage /\ UNCHANGED tables
    BY <1>13, Zenon DEF MapsInTable
  <2>2. CASE t = s
    <3>0. Mapped(s, v, e)
      BY <1>11, <2>1, Zenon
    <3>1. /\ space_pc[t] \in {"install", "stack_install"} /\ space_pc'[t] \in {"page", "stack_words"}
          /\ kpage'[t] = NoPage /\ UNCHANGED <<pagedir, dying>>
          /\ \A u \in UserVPages : ptes'[t][u] = IF u = v THEN e ELSE ptes[t][u]
      BY <1>3, <2>2, <3>0, Zenon DEF Mapped
    <3>2. \A u \in UserVPages : ptes'[t][u] # NoPage => tables'[t][pd_no(u)] # NoPage
      BY <1>1, <2>1, <2>2, <3>1, Zenon DEF Owns
    <3> QED BY <1>1, <2>1, <3>1, <3>2, Zenon DEF Owns, LoadLabels
  <2>3. CASE t # s
    <3>1. /\ space_pc'[t] = space_pc[t] /\ kpage'[t] = kpage[t] /\ ptes'[t] = ptes[t]
          /\ UNCHANGED <<pagedir, dying>>
      BY <1>12, <2>1, <2>3, Zenon
    <3> QED BY <1>1, <2>1, <3>1, Zenon
  <2> QED BY <2>2, <2>3, Zenon
<1>14. ASSUME NEW s \in Spaces, MapsInNewTable(s)
      PROVE  Owns(space_pc'[t], kpage'[t], pagedir'[t], dying'[t], tables'[t], ptes'[t])
  <2>1. PICK v \in UserVPages, e \in Entry :
          /\ Maps(s, v, e)
          /\ \E p \in free_pages : p \in AnyPage /\ tables' = [tables EXCEPT ![s][pd_no(v)] = p]
    BY <1>14, Zenon DEF MapsInNewTable
  <2>2. PICK p \in AnyPage : tables' = [tables EXCEPT ![s][pd_no(v)] = p]
    BY <2>1, Zenon
  <2>3. CASE t = s
    <3>0. Mapped(s, v, e)
      BY <1>11, <2>1, Zenon
    <3>1. /\ space_pc[t] \in {"install", "stack_install"} /\ space_pc'[t] \in {"page", "stack_words"}
          /\ kpage'[t] = NoPage /\ UNCHANGED <<pagedir, dying>>
          /\ \A u \in UserVPages : ptes'[t][u] = IF u = v THEN e ELSE ptes[t][u]
      BY <1>3, <2>3, <3>0, Zenon DEF Mapped
    <3>2. \A i \in Tables : tables'[t][i] = IF i = pd_no(v) THEN p ELSE tables[t][i]
      BY <1>3, <2>2, <2>3, Zenon
    <3>3. \A u \in UserVPages : ptes'[t][u] # NoPage => tables'[t][pd_no(u)] # NoPage
      <4>1. ASSUME NEW u \in UserVPages, ptes'[t][u] # NoPage, pd_no(u) = pd_no(v)
            PROVE  tables'[t][pd_no(u)] # NoPage
        BY <1>4, <1>5, <3>2, <4>1, Zenon
      <4>2. ASSUME NEW u \in UserVPages, ptes'[t][u] # NoPage, pd_no(u) # pd_no(v)
            PROVE  tables'[t][pd_no(u)] # NoPage
        <5>1. ptes[t][u] # NoPage
          BY <3>1, <4>2, Zenon
        <5>2. tables[t][pd_no(u)] # NoPage
          BY <1>1, <5>1, Zenon DEF Owns
        <5> QED BY <1>5, <3>2, <4>2, <5>2, Zenon
      <4> QED BY <4>1, <4>2, Zenon
    <3>4. pagedir[t] # NoPage
      BY <1>1, <3>1, Zenon DEF Owns, LoadLabels
    <3> QED BY <1>1, <3>1, <3>3, <3>4, Zenon DEF Owns, LoadLabels
  <2>4. CASE t # s
    <3>1. /\ space_pc'[t] = space_pc[t] /\ kpage'[t] = kpage[t] /\ ptes'[t] = ptes[t]
          /\ UNCHANGED <<pagedir, dying>>
      BY <1>12, <2>1, <2>4, Zenon
    <3>2. tables'[t] = tables[t]
      BY <1>3, <2>2, <2>4, Zenon
    <3> QED BY <1>1, <3>1, <3>2, Zenon
  <2> QED BY <2>3, <2>4, Zenon
<1>15. ASSUME NEW s \in Spaces, Forgets(s)
      PROVE  Owns(space_pc'[t], kpage'[t], pagedir'[t], dying'[t], tables'[t], ptes'[t])
  <2>1. /\ space_pc[s] = "exit" /\ UNCHANGED <<kpage, tables, ptes>>
        /\ space_pc'[t] = IF t = s THEN IF pagedir[s] = NoPage THEN "dead" ELSE "deactivate" ELSE space_pc[t]
    BY <1>6, <1>15, Zenon DEF Forgets
  <2>2. /\ dying'[t] = IF t = s THEN pagedir[s] ELSE dying[t]
        /\ pagedir'[t] = IF t = s THEN NoPage ELSE pagedir[t]
    BY <1>3, <1>15, Zenon DEF Forgets
  <2>3. CASE t = s
    <3>1. /\ dying'[t] = pagedir[t] /\ pagedir'[t] = NoPage /\ space_pc[t] = "exit"
          /\ space_pc'[t] = IF pagedir[t] = NoPage THEN "dead" ELSE "deactivate"
      BY <2>1, <2>2, <2>3, Zenon
    <3> QED BY <1>1, <2>1, <3>1, Zenon DEF Owns, LoadLabels
  <2>4. CASE t # s
    BY <1>1, <2>1, <2>2, <2>4, Zenon
  <2> QED BY <2>3, <2>4, Zenon
<1>16. ASSUME NEW s \in Spaces, GivesDirectory(s)
      PROVE  Owns(space_pc'[t], kpage'[t], pagedir'[t], dying'[t], tables'[t], ptes'[t])
  <2>1. /\ space_pc[s] = "destroy" /\ tables[s] = NoTables /\ UNCHANGED <<kpage, pagedir, tables, ptes>>
        /\ space_pc'[t] = IF t = s THEN "dead" ELSE space_pc[t]
    BY <1>6, <1>16, Zenon DEF GivesDirectory
  <2>2. dying'[t] = IF t = s THEN NoPage ELSE dying[t]
    BY <1>3, <1>16, Zenon DEF GivesDirectory
  <2>3. CASE t = s
    <3>1. dying'[t] = NoPage /\ space_pc[t] = "destroy" /\ space_pc'[t] = "dead"
      BY <2>1, <2>2, <2>3, Zenon
    <3>2. \A i \in Tables : tables'[t][i] = NoPage
      BY <2>1, <2>3, Zenon DEF NoTables
    <3> QED BY <1>1, <2>1, <3>1, <3>2, Zenon DEF Owns, LoadLabels
  <2>4. CASE t # s
    BY <1>1, <2>1, <2>2, <2>4, Zenon
  <2> QED BY <2>3, <2>4, Zenon
<1>17. ASSUME NEW s \in Spaces, NEW i \in Tables, DestroyTable(s, i)
      PROVE  Owns(space_pc'[t], kpage'[t], pagedir'[t], dying'[t], tables'[t], ptes'[t])
  <2>1. PICK mapped : mapped = {v \in UserVPages : pd_no(v) = i /\ ptes[s][v] # NoPage}
    BY Zenon
  <2>2. /\ ptes' = [ptes EXCEPT ![s] = [v \in UserVPages |-> IF v \in mapped THEN NoPage ELSE @[v]]]
        /\ tables' = [tables EXCEPT ![s][i] = NoPage]
        /\ UNCHANGED <<space_pc, kpage, pagedir, dying>>
    BY <1>17, <2>1, Zenon DEF DestroyTable
  <2>3. CASE t = s
    <3>1. \A j \in Tables : tables'[t][j] = IF j = i THEN NoPage ELSE tables[t][j]
      BY <1>3, <2>2, <2>3, Zenon
    <3>2. \A v \in UserVPages : ptes'[t][v] = IF v \in mapped THEN NoPage ELSE ptes[t][v]
      BY <1>3, <2>2, <2>3, Zenon
    <3>3. ASSUME NEW v \in UserVPages, ptes'[t][v] # NoPage PROVE tables'[t][pd_no(v)] # NoPage
      <4>1. v \notin mapped /\ ptes[t][v] # NoPage
        BY <3>2, <3>3, Zenon
      <4>2. pd_no(v) # i
        BY <2>1, <2>3, <4>1, Zenon
      <4>3. tables[t][pd_no(v)] # NoPage
        BY <1>1, <4>1, Zenon DEF Owns
      <4> QED BY <1>5, <3>1, <4>2, <4>3, Zenon
    <3>4. \A j \in Tables : tables'[t][j] # NoPage => tables[t][j] # NoPage
      BY <3>1, Zenon
    <3> QED BY <1>1, <2>2, <3>3, <3>4, Zenon DEF Owns
  <2>4. CASE t # s
    <3>1. tables'[t] = tables[t] /\ ptes'[t] = ptes[t]
      BY <1>3, <2>2, <2>4, Zenon
    <3> QED BY <1>1, <2>2, <3>1, Zenon
  <2> QED BY <2>3, <2>4, Zenon
<1> QED BY <1>7, <1>8, <1>9, <1>10, <1>13, <1>14, <1>15, <1>16, <1>17, Zenon DEF PageStep

\* A file's headers are headers.
LEMMA HeadersTyped ==
  ASSUME SpaceInv, NEW s \in Spaces, space_pc[s] = "phdr", NEW n \in Counts(s), ~(phdr[s] > n),
         file # NoPage, NEW p \in HeadersRead(s)
  PROVE  p \in Elf32_Phdr /\ file.length \in Nat
<1>1. file \in Executable /\ (s \notin mixed => file = program[s])
  BY SpaceParts, Zenon DEF OwnFile, FileLabels
<1>2. phdr[s] \in Nat \ {0}
  BY SpaceParts, SpaceTypeParts, Zenon
<1>3. PICK q : q = file.phdrs
  BY Zenon
<1>4. q \in Seq(Elf32_Phdr) /\ file.length \in Nat
  BY <1>1, <1>3, Zenon DEF Executable
<1>5. Len(q) \in Nat /\ \A i \in 1 .. Len(q) : q[i] \in Elf32_Phdr
  BY <1>4, SMT
<1>6. CASE s \in mixed
  <2>1. PICK i \in 1 .. Len(q) : p = q[i]
    BY <1>3, <1>6, Zenon DEF HeadersRead
  <2> QED BY <1>4, <1>5, <2>1, Zenon
<1>7. CASE s \notin mixed
  <2>1. p = q[phdr[s]] /\ ~(phdr[s] > Len(q))
    BY <1>1, <1>3, <1>7, Zenon DEF HeadersRead, Counts, Lines
  <2>2. phdr[s] \in 1 .. Len(q)
    BY <1>2, <1>5, <2>1, SMT
  <2> QED BY <1>4, <1>5, <2>1, <2>2, Zenon
<1> QED BY <1>6, <1>7, Zenon

\* What the steps do to what is left to load.
LoadStep ==
  \/ UNCHANGED <<runs, program, phdr, todo>>
  \/ runs' \in Spaces /\ UNCHANGED <<program, phdr, todo>>
  \/ /\ program' \in [Spaces -> Executable] /\ phdr' = [s \in Spaces |-> 1]
     /\ todo' = [s \in Spaces |-> NoSegment] /\ UNCHANGED runs
  \/ /\ UNCHANGED <<runs, program>> /\ phdr' \in [Spaces -> Nat \ {0}]
     /\ \E s \in Spaces, seg \in LeftToLoad : Fits(seg) /\ todo' = [todo EXCEPT ![s] = seg]

\* The headers that file_read() returns are headers of a file.
LEMMA NextHeader ==
  ASSUME SpaceInv, NEW s \in Spaces
  PROVE  [phdr EXCEPT ![s] = phdr[s] + 1] \in [Spaces -> Nat \ {0}]
<1>1. phdr \in [Spaces -> Nat \ {0}]
  BY SpaceParts, SpaceTypeParts, Zenon
<1>2. \A n \in Nat \ {0} : n + 1 \in Nat \ {0}
  BY SMT
<1>3. phdr[s] + 1 \in Nat \ {0}
  BY <1>1, <1>2, Zenon
<1> QED BY <1>1, <1>3, Zenon

\* Each step has one of these effects.
LEMMA LoadSteps ==
  ASSUME SpaceInv, [SpaceNext]_spaceVars
  PROVE  LoadStep
<1>1. CASE UNCHANGED spaceVars
  BY <1>1, Zenon DEF spaceVars, LoadStep
<1>2. CASE NewProcesses
  <2>1. \A s \in Spaces : Programs[s] \subseteq Executable
    BY AddressSpaceAssumption, Zenon
  <2>2. program' \in [Spaces -> Executable]
    BY <1>2, <2>1, Zenon DEF NewProcesses
  <2> QED BY <1>2, <2>2, Zenon DEF NewProcesses, LoadStep
<1>3. ASSUME NEW s \in Spaces, Switch(s)
      PROVE  LoadStep
  BY <1>3, Zenon DEF Switch, LoadStep
<1>4. ASSUME NEW s \in Spaces, ProgramHeader(s)
      PROVE  LoadStep
  <2>1. space_pc[s] = "phdr" /\ UNCHANGED <<runs, program>>
    BY <1>4, HeaderSteps, Zenon
  <2>2. CASE UNCHANGED <<phdr, todo>>
    BY <2>1, <2>2, Zenon DEF LoadStep
  <2>3. phdr \in [Spaces -> Nat \ {0}] /\ todo \in [Spaces -> LeftToLoad] /\ Fits(todo[s])
    BY SpaceParts, SpaceTypeParts, Zenon DEF SegmentsFit
  <2>4. ASSUME NEW n \in Counts(s), ~(phdr[s] > n), file # NoPage,
               NEW p \in HeadersRead(s), OneHeader(s, p)
        PROVE  LoadStep
    <3>1. OneHeader(s, p)
      BY <2>4, Zenon
    <3>2. p \in Elf32_Phdr /\ file.length \in Nat
      BY <2>1, <2>4, HeadersTyped, Zenon
    <3>3. CASE phdr' = [phdr EXCEPT ![s] = @ + 1] /\ UNCHANGED todo
      <4>1. phdr' \in [Spaces -> Nat \ {0}]
        BY <3>3, NextHeader, Zenon
      <4>2. todo' = [todo EXCEPT ![s] = todo[s]] /\ todo[s] \in LeftToLoad
        BY <2>3, <3>3, Zenon
      <4> QED BY <2>1, <2>3, <4>1, <4>2, Zenon DEF LoadStep
    <3>4. CASE /\ validate_segment(p, file.length) /\ phdr' = [phdr EXCEPT ![s] = @ + 1]
               /\ todo' = [todo EXCEPT ![s] = Segment(p)]
      <4>1. phdr' \in [Spaces -> Nat \ {0}]
        BY <3>4, NextHeader, Zenon
      <4>2. Segment(p) \in LeftToLoad /\ Fits(Segment(p))
        BY <3>2, <3>4, SegmentOf, Zenon
      <4> QED BY <2>1, <3>4, <4>1, <4>2, Zenon DEF LoadStep
    <3> QED BY <2>2, <3>1, <3>3, <3>4, Zenon DEF OneHeader
  <2> QED BY <1>4, <2>2, <2>4, HeaderSteps, Zenon
<1>5. ASSUME NEW s \in Spaces, SegmentInstall(s)
      PROVE  LoadStep
  <2>1. UNCHANGED <<runs, program, phdr>>
    BY <1>5, Zenon DEF SegmentInstall
  <2>2. CASE \E seg \in LeftToLoad : Fits(seg) /\ todo' = [todo EXCEPT ![s] = seg]
    <3>1. phdr' \in [Spaces -> Nat \ {0}]
      BY <2>1, SpaceParts, SpaceTypeParts, Zenon
    <3> QED BY <2>1, <2>2, <3>1, Zenon DEF LoadStep
  <2>3. CASE UNCHANGED todo
    BY <2>1, <2>3, Zenon DEF LoadStep
  <2> QED BY <1>5, <2>2, <2>3, SegmentInstalls, Zenon
<1>6. ASSUME NEW s \in Spaces, \/ pagedir_create(s) \/ LoadOpen(s) \/ SegmentPage(s)
                               \/ SegmentRead(s) \/ StackGet(s) \/ StackInstall(s)
                               \/ process_execute(s) \/ LoadPanics(s) \/ StackWords(s)
      PROVE  LoadStep
  <2>1. UNCHANGED <<runs, program, phdr, todo>>
    BY <1>6, Zenon DEF pagedir_create, LoadOpen, SegmentPage, SegmentRead, StackGet, StackInstall,
                      process_execute, LoadPanics, StackWords
  <2> QED BY <2>1, Zenon DEF LoadStep
<1>7. ASSUME NEW s \in Spaces, \/ UserExits(s) \/ ExitForget(s) \/ ExitDeactivate(s)
                               \/ DestroyDirectory(s) \/ \E i \in Tables : DestroyTable(s, i)
      PROVE  LoadStep
  <2>1. UNCHANGED <<runs, program, phdr, todo>>
    BY <1>7, Zenon DEF UserExits, ExitForget, ExitDeactivate, DestroyDirectory, DestroyTable
  <2> QED BY <2>1, Zenon DEF LoadStep
<1> QED BY <1>1, <1>2, <1>3, <1>4, <1>5, <1>6, <1>7, Zenon DEF SpaceNext

\* A segment of no pages.
LEMMA NoSegmentFits ==
  NoSegment \in LeftToLoad /\ Fits(NoSegment)
<1>1. PHYS_BASE \div PageSize \in Nat /\ PageSize \in Nat
  BY SpaceNumbers, WholePages, SMT
<1>2. PICK K \in Nat : K = PHYS_BASE \div PageSize
  BY <1>1, Zenon
<1>3. 0 + 0 = 0 * PageSize /\ 0 + 0 <= K /\ 0 \in Nat
  BY <1>1, SMT
<1> QED BY <1>2, <1>3, Zenon DEF NoSegment, LeftToLoad, Fits

\* The variables keep their types.
LEMMA SpaceTyped ==
  ASSUME HasSmallest, SpaceInv, [SpaceNext]_spaceVars
  PROVE  SpaceTypes'
<1>1. /\ runs \in Spaces /\ program \in [Spaces -> Executable] /\ phdr \in [Spaces -> Nat \ {0}]
      /\ todo \in [Spaces -> LeftToLoad] /\ SpaceTypes
  BY SpaceParts, SpaceTypeParts, Zenon
<1>2. /\ space_pc' \in [Spaces -> SpaceLabels] /\ kpage' \in [Spaces -> MaybePage]
      /\ pagedir' \in [Spaces -> MaybePage] /\ dying' \in [Spaces -> MaybePage]
      /\ tables' \in [Spaces -> [Tables -> MaybePage]]
      /\ ptes' \in [Spaces -> [UserVPages -> SomeEntry]]
  BY <1>1, PageTypesKept, PageSteps, Zenon
<1>3. 1 \in Nat \ {0}
  BY SMT
<1>4. LoadStep
  BY LoadSteps, Zenon
<1>5. runs' \in Spaces /\ program' \in [Spaces -> Executable] /\ phdr' \in [Spaces -> Nat \ {0}]
  BY <1>1, <1>3, <1>4, Zenon DEF LoadStep
<1>6. todo' \in [Spaces -> LeftToLoad]
  BY <1>1, <1>4, NoSegmentFits, Zenon DEF LoadStep
<1> QED BY <1>2, <1>5, <1>6, Zenon DEF SpaceTypes

\* What is left of a segment fits after a step, and a page is in hand only while
\* there is something left.
LEMMA FitKept ==
  ASSUME SpaceInv, [SpaceNext]_spaceVars
  PROVE  SegmentsFit'
<1>1. /\ space_pc \in [Spaces -> SpaceLabels] /\ todo \in [Spaces -> LeftToLoad]
      /\ \A t \in Spaces : Fits(todo[t])
      /\ \A t \in Spaces : space_pc[t] \in {"read", "install"} => todo[t].read > 0 \/ todo[t].zero > 0
  BY SpaceParts, SpaceTypeParts, Zenon DEF SegmentsFit
<1>2. LoadStep
  BY LoadSteps, Zenon
<1>3. \A t \in Spaces : Fits(todo'[t])
  <2>1. CASE UNCHANGED todo
    BY <1>1, <2>1, Zenon
  <2>2. CASE todo' = [s \in Spaces |-> NoSegment]
    BY <2>2, NoSegmentFits, Zenon
  <2>3. ASSUME NEW s \in Spaces, NEW seg \in LeftToLoad, Fits(seg), todo' = [todo EXCEPT ![s] = seg]
        PROVE  \A t \in Spaces : Fits(todo'[t])
    BY <1>1, <2>3, Zenon
  <2> QED BY <1>2, <2>1, <2>2, <2>3, Zenon DEF LoadStep
<1>4. ASSUME NEW t \in Spaces, space_pc'[t] \in {"read", "install"}
      PROVE  todo'[t].read > 0 \/ todo'[t].zero > 0
  <2> DEFINE Left(x) == x.read > 0 \/ x.zero > 0
  <2> SUFFICES Left(todo'[t])
    OBVIOUS
  <2>1. space_pc[t] \in {"read", "install"} => Left(todo[t])
    BY <1>1, Zenon
  <2> HIDE DEF Left
  <2>2. ASSUME NEW s \in Spaces, NEW w, Then(s, w)
        PROVE  space_pc'[t] = IF t = s THEN w ELSE space_pc[t]
    BY <1>1, <2>2, Zenon DEF Then
  <2>3. CASE UNCHANGED <<space_pc, todo>>
    BY <1>4, <2>1, <2>3, Zenon
  <2>4. CASE NewProcesses
    BY <1>4, <2>4, Zenon DEF NewProcesses
  <2>5. ASSUME NEW s \in Spaces, NEW w, Then(s, w), w \notin {"read", "install"},
               t # s => todo'[t] = todo[t]
        PROVE  Left(todo'[t])
    BY <1>4, <2>1, <2>2, <2>5, Zenon
  <2>6. ASSUME NEW s \in Spaces, SegmentPage(s)
        PROVE  Left(todo'[t])
    <3>1. CASE Left(todo[s]) /\ Then(s, "read")
      <4>1. UNCHANGED todo
        BY <2>6, Zenon DEF SegmentPage
      <4> QED BY <1>4, <2>1, <2>2, <3>1, <4>1, Zenon
    <3>2. CASE \E w \in {"phdr", "exit"} : Then(s, w)
      BY <2>5, <2>6, <3>2, Zenon DEF SegmentPage
    <3> QED BY <2>6, <3>1, <3>2, Zenon DEF SegmentPage, Left
  <2>7. ASSUME NEW s \in Spaces, SegmentRead(s)
        PROVE  Left(todo'[t])
    <3>1. space_pc[s] = "read" /\ UNCHANGED todo
      BY <2>7, Zenon DEF SegmentRead, RunsAt
    <3>2. PICK w : Then(s, w)
      BY <2>7, Zenon DEF SegmentRead
    <3> QED BY <1>4, <2>1, <2>2, <3>1, <3>2, Zenon
  <2>8. ASSUME NEW s \in Spaces, ProgramHeader(s)
        PROVE  Left(todo'[t])
    <3>1. todo \in [Spaces -> LeftToLoad]
      BY <1>1, Zenon
    <3>4. \/ Then(s, "stack_page") /\ UNCHANGED todo
          \/ \E p \in HeadersRead(s) : OneHeader(s, p)
      BY <2>8, HeaderSteps, Zenon
    <3>2. t # s => todo'[t] = todo[t]
      BY <3>1, <3>4, Zenon DEF OneHeader
    <3>3. (\E w \in {"page", "stack_page", "exit"} : Then(s, w)) \/ UNCHANGED <<space_pc, todo>>
      BY <3>4, Zenon DEF OneHeader
    <3> QED BY <2>3, <2>5, <3>2, <3>3, Zenon
  <2>9. ASSUME NEW s \in Spaces, SegmentInstall(s)
        PROVE  Left(todo'[t])
    <3>1. t # s => todo'[t] = todo[t]
      BY <1>1, <2>9, SegmentInstalls, Zenon
    <3>2. \E w \in {"page", "exit"} : Then(s, w)
      BY <2>9, SegmentInstalls, Zenon DEF InstallFails
    <3> QED BY <2>5, <3>1, <3>2, Zenon
  <2>10. ASSUME NEW s \in Spaces, \/ pagedir_create(s) \/ LoadOpen(s) \/ StackGet(s)
                                 \/ StackInstall(s) \/ UserExits(s) \/ ExitForget(s)
                                 \/ ExitDeactivate(s) \/ DestroyDirectory(s) \/ process_execute(s)
         PROVE  Left(todo'[t])
    <3>1. UNCHANGED todo
      BY <2>10, Zenon DEF pagedir_create, LoadOpen, StackGet, StackInstall, UserExits, ExitForget,
                         ExitDeactivate, DestroyDirectory, process_execute
    <3>2. \E w : w \notin {"read", "install"} /\ Then(s, w)
      BY <2>10, Zenon DEF pagedir_create, LoadOpen, StackGet, StackInstall, UserExits, ExitForget,
                         ExitDeactivate, DestroyDirectory, process_execute, InstallFails, Then
    <3> QED BY <2>5, <3>1, <3>2, Zenon
  <2>11. ASSUME NEW s \in Spaces, Switch(s) \/ \E i \in Tables : DestroyTable(s, i)
         PROVE  Left(todo'[t])
    BY <2>3, <2>11, Zenon DEF Switch, DestroyTable
  <2>12. CASE UNCHANGED spaceVars
    BY <2>3, <2>12, Zenon DEF spaceVars
  <2>13. ASSUME NEW s \in Spaces, StackWords(s) \/ LoadPanics(s)
         PROVE  Left(todo'[t])
    <3>1. UNCHANGED todo /\ (Then(s, "run") \/ UNCHANGED space_pc)
      BY <2>13, Zenon DEF StackWords, LoadPanics
    <3>2. CASE Then(s, "run")
      BY <2>5, <3>1, <3>2, Zenon
    <3> QED BY <2>3, <3>1, <3>2, Zenon
  <2> QED BY <2>4, <2>6, <2>7, <2>8, <2>9, <2>10, <2>11, <2>12, <2>13, Zenon DEF SpaceNext
<1> QED BY <1>3, <1>4, Zenon DEF SegmentsFit

\* Nothing is opened, and no command line read: the same processes, or fewer,
\* are being started and loaded.
NoneStarts ==
  /\ UNCHANGED <<file, mixed, program>>
  /\ \A t \in Spaces : (space_pc'[t] \in FileLabels => space_pc[t] \in FileLabels)
                     /\ (space_pc'[t] \in StartLabels => space_pc[t] \in StartLabels)

\* Most steps are of this kind.
LEMMA NoneStartsKeeps ==
  ASSUME OwnFile, NoneStarts
  PROVE  OwnFile'
<1>1. UNCHANGED <<file, mixed, program>>
  BY Zenon DEF NoneStarts
<1>2. \A t \in Spaces : (space_pc'[t] \in FileLabels => space_pc[t] \in FileLabels)
                     /\ (space_pc'[t] \in StartLabels => space_pc[t] \in StartLabels)
  BY Zenon DEF NoneStarts
<1> QED BY <1>1, <1>2, Zenon DEF OwnFile

\* A load that has not overlapped another reads its own file, after a step too.
LEMMA FileKept ==
  ASSUME SpaceInv, [SpaceNext]_spaceVars
  PROVE  OwnFile'
<1>1. /\ space_pc \in [Spaces -> SpaceLabels] /\ program \in [Spaces -> Executable] /\ OwnFile
  BY SpaceParts, SpaceTypeParts, Zenon
<1>2. ASSUME NEW s \in Spaces, NEW w, Then(s, w)
      PROVE  \A t \in Spaces : space_pc'[t] = IF t = s THEN w ELSE space_pc[t]
  BY <1>1, <1>2, Zenon DEF Then
<1>3. CASE UNCHANGED <<space_pc, file, mixed, program>>
  BY <1>1, <1>3, NoneStartsKeeps, Zenon DEF NoneStarts
<1>4. ASSUME NEW s \in Spaces, NEW w, Then(s, w), UNCHANGED <<file, mixed, program>>,
             w \in FileLabels => space_pc[s] \in FileLabels,
             w \in StartLabels => space_pc[s] \in StartLabels
      PROVE  OwnFile'
  <2>1. NoneStarts
    BY <1>2, <1>4, Zenon DEF NoneStarts
  <2> QED BY <1>1, <2>1, NoneStartsKeeps, Zenon
<1>5. CASE NewProcesses
  <2>1. /\ \A t \in Spaces : space_pc'[t] = "none"
        /\ mixed' = {} /\ file' = NoPage
    BY <1>5, Zenon DEF NewProcesses
  <2>2. "none" \notin StartLabels /\ "none" \notin FileLabels
    BY Zenon DEF StartLabels, FileLabels
  <2> QED BY <2>1, <2>2, Zenon DEF OwnFile
<1>6. ASSUME NEW s \in Spaces, LoadOpen(s)
      PROVE  OwnFile'
  <2>1. PICK w \in {"phdr", "exit"} :
          /\ Then(s, w) /\ file' \in Executable \cup {NoPage}
          /\ w = "phdr" /\ s \notin mixed => file' = program[s]
    BY <1>6, OpenSteps, Zenon
  <2>2. space_pc[s] = "activate" /\ UNCHANGED <<mixed, program>>
    BY <1>6, Zenon DEF LoadOpen, RunsAt
  <2>3. /\ "activate" \in StartLabels /\ "phdr" \in FileLabels /\ "exit" \notin FileLabels
        /\ \A x \in FileLabels : x \in StartLabels
    BY Zenon DEF StartLabels, FileLabels
  <2>4. \A t \in Spaces : space_pc'[t] = IF t = s THEN w ELSE space_pc[t]
    BY <1>2, <2>1, Zenon
  <2>5. ASSUME NEW t \in Spaces, space_pc'[t] \in FileLabels, t \notin mixed
        PROVE  file' = program[t]
    <3>1. CASE t = s
      BY <2>1, <2>3, <2>4, <2>5, <3>1, Zenon
    <3>2. CASE t # s
      <4>1. space_pc[t] \in StartLabels /\ space_pc[s] \in StartLabels
        BY <2>2, <2>3, <2>4, <2>5, <3>2, Zenon
      <4>2. t \in mixed
        BY <1>1, <3>2, <4>1, Zenon DEF OwnFile
      <4> QED BY <2>5, <4>2, Zenon
    <3> QED BY <3>1, <3>2, Zenon
  <2>6. ASSUME NEW t \in Spaces, space_pc'[t] \in StartLabels
        PROVE  space_pc[t] \in StartLabels
    BY <2>2, <2>3, <2>4, <2>6, Zenon
  <2> QED BY <1>1, <2>1, <2>2, <2>5, <2>6, Zenon DEF OwnFile
<1>7. ASSUME NEW s \in Spaces, process_execute(s)
      PROVE  OwnFile'
  <2>1. Then(s, "start") /\ UNCHANGED <<file, program>>
    BY <1>7, Zenon DEF process_execute
  <2>2. PICK S : S = {t \in Spaces : space_pc[t] \in StartLabels}
    BY Zenon
  <2>3. Starting = S
    BY <2>2, Zenon DEF Starting, StartLabels, FileLabels
  <2>4. mixed' = IF S = {} THEN mixed ELSE mixed \cup S \cup {s}
    BY <1>7, <2>3, Zenon DEF process_execute
  <2>5. \A t \in Spaces : space_pc'[t] = IF t = s THEN "start" ELSE space_pc[t]
    BY <1>2, <2>1, Zenon
  <2>6. mixed' \in SUBSET Spaces /\ \A t \in mixed : t \in mixed'
    BY <1>1, <2>2, <2>4, Zenon DEF OwnFile
  <2>7. ASSUME NEW t \in Spaces, NEW u \in Spaces, t # u, space_pc'[t] \in StartLabels,
               space_pc'[u] \in StartLabels
        PROVE  t \in mixed'
    <3>1. \A x \in Spaces : x # s /\ space_pc'[x] \in StartLabels => x \in S
      BY <2>2, <2>5, Zenon
    <3>2. S # {}
      BY <2>7, <3>1, Zenon
    <3>3. t = s \/ t \in S
      BY <2>7, <3>1, Zenon
    <3> QED BY <2>4, <3>2, <3>3, Zenon
  <2>8. ASSUME NEW t \in Spaces, space_pc'[t] \in FileLabels, t \notin mixed'
        PROVE  file' = program'[t]
    <3>1. "start" \notin FileLabels
      BY Zenon DEF FileLabels
    <3>2. space_pc[t] \in FileLabels /\ t \notin mixed
      BY <2>5, <2>6, <2>8, <3>1, Zenon
    <3> QED BY <1>1, <2>1, <3>2, Zenon DEF OwnFile
  <2> QED BY <1>1, <2>1, <2>6, <2>7, <2>8, Zenon DEF OwnFile
<1>8. ASSUME NEW s \in Spaces, \/ ProgramHeader(s) \/ SegmentPage(s) \/ SegmentRead(s)
                               \/ SegmentInstall(s) \/ StackGet(s) \/ StackInstall(s) \/ StackWords(s)
      PROVE  OwnFile'
  <2>1. space_pc[s] \in FileLabels /\ space_pc[s] \in StartLabels
    BY <1>8, Zenon DEF ProgramHeader, SegmentPage, SegmentRead, SegmentInstall, StackGet,
                      StackInstall, StackWords, RunsAt, FileLabels, StartLabels
  <2>2. UNCHANGED <<file, mixed, program>>
    BY <1>8, Zenon DEF ProgramHeader, SegmentPage, SegmentRead, SegmentInstall, StackGet, StackInstall,
                      StackWords
  <2>3. (\E w : Then(s, w)) \/ UNCHANGED space_pc
    <3>1. CASE ProgramHeader(s)
      BY <3>1, HeaderSteps, Zenon DEF OneHeader
    <3>2. CASE ~ProgramHeader(s)
      BY <1>8, <3>2, Zenon DEF SegmentPage, SegmentRead, SegmentInstall, StackGet, StackInstall,
                               StackWords, InstallFails
    <3> QED BY <3>1, <3>2, Zenon
  <2> QED BY <1>3, <1>4, <2>1, <2>2, <2>3, Zenon
<1>9. ASSUME NEW s \in Spaces, \/ UserExits(s) \/ ExitForget(s)
                               \/ ExitDeactivate(s) \/ DestroyDirectory(s)
      PROVE  OwnFile'
  <2>1. UNCHANGED <<file, mixed, program>>
    BY <1>9, Zenon DEF UserExits, ExitForget, ExitDeactivate, DestroyDirectory
  <2>2. PICK w \in {"exit", "dead", "deactivate", "destroy"} : Then(s, w)
    BY <1>9, Zenon DEF UserExits, ExitForget, ExitDeactivate, DestroyDirectory
  <2>3. w \notin FileLabels /\ w \notin StartLabels
    BY Zenon DEF FileLabels, StartLabels
  <2> QED BY <1>4, <2>1, <2>2, <2>3, Zenon
<1>10. ASSUME NEW s \in Spaces, pagedir_create(s)
       PROVE  OwnFile'
  <2>1. space_pc[s] = "start" /\ UNCHANGED <<file, mixed, program>>
    BY <1>10, Zenon DEF pagedir_create, RunsAt
  <2>2. PICK w \in {"exit", "activate"} : Then(s, w)
    BY <1>10, Zenon DEF pagedir_create
  <2>3. w \notin FileLabels /\ "start" \in StartLabels
    BY Zenon DEF FileLabels, StartLabels
  <2> QED BY <1>4, <2>1, <2>2, <2>3, Zenon
<1>11. ASSUME NEW s \in Spaces, Switch(s) \/ LoadPanics(s) \/ \E i \in Tables : DestroyTable(s, i)
       PROVE  OwnFile'
  BY <1>3, <1>11, Zenon DEF Switch, LoadPanics, DestroyTable
<1>12. CASE UNCHANGED spaceVars
  BY <1>3, <1>12, Zenon DEF spaceVars
<1> QED BY <1>5, <1>6, <1>7, <1>8, <1>9, <1>10, <1>11, <1>12, Zenon DEF SpaceNext

\* The active directory is the running process's, after a step too.
LEMMA DirectoryKept ==
  ASSUME SpaceInv, [SpaceNext]_spaceVars
  PROVE  RightDirectory'
<1>1. /\ space_pc \in [Spaces -> SpaceLabels] /\ runs \in Spaces
      /\ pagedir \in [Spaces -> MaybePage] /\ dying \in [Spaces -> MaybePage]
      /\ RightDirectory /\ \A s \in Spaces : HasPages(s)
  BY SpaceParts, SpaceTypeParts, Zenon
<1>2. ASSUME NEW s \in Spaces, NEW w, Then(s, w)
      PROVE  space_pc'[s] = w
  BY <1>1, <1>2, Zenon DEF Then
<1>3. CASE UNCHANGED <<cr3, runs, space_pc, pagedir, dying>>
  BY <1>1, <1>3, Zenon DEF RightDirectory
<1>4. ASSUME NEW s \in Spaces, runs = s, NEW w, Then(s, w), w # "destroy",
             UNCHANGED <<cr3, runs, pagedir, dying>>
      PROVE  RightDirectory'
  <2>1. space_pc'[runs'] # "destroy"
    BY <1>2, <1>4, Zenon
  <2> QED BY <1>1, <1>4, <2>1, Zenon DEF RightDirectory
<1>5. CASE NewProcesses
  BY <1>1, <1>5, Zenon DEF NewProcesses, RightDirectory
<1>6. ASSUME NEW s \in Spaces, Switch(s)
      PROVE  RightDirectory'
  <2>1. /\ runs' = s /\ cr3' = pagedir[s] /\ UNCHANGED <<space_pc, pagedir, dying>>
    BY <1>6, Zenon DEF Switch
  <2>2. space_pc[s] = "destroy" => pagedir[s] = NoPage
    BY <1>1, Zenon DEF HasPages
  <2> QED BY <2>1, <2>2, Zenon DEF RightDirectory
<1>7. ASSUME NEW s \in Spaces, pagedir_create(s)
      PROVE  RightDirectory'
  <2>1. runs = s /\ space_pc[s] = "start" /\ UNCHANGED <<runs, cr3>>
    BY <1>7, Zenon DEF pagedir_create, RunsAt
  <2>2. pagedir[s] = NoPage /\ dying[s] = NoPage
    BY <1>1, <2>1, Zenon DEF HasPages
  <2>3. cr3 = NoPage
    BY <1>1, <2>1, <2>2, Zenon DEF RightDirectory
  <2> QED BY <2>1, <2>3, Zenon DEF RightDirectory
<1>8. ASSUME NEW s \in Spaces, LoadOpen(s)
      PROVE  RightDirectory'
  <2>1. runs' = s /\ cr3' = pagedir[s] /\ UNCHANGED <<pagedir, dying>>
    BY <1>8, Zenon DEF LoadOpen, RunsAt
  <2>2. PICK w \in {"phdr", "exit"} : Then(s, w)
    BY <1>8, OpenSteps, Zenon
  <2>3. space_pc'[s] # "destroy"
    BY <1>2, <2>2, Zenon
  <2> QED BY <2>1, <2>3, Zenon DEF RightDirectory
<1>9. ASSUME NEW s \in Spaces, \/ ProgramHeader(s) \/ SegmentPage(s) \/ SegmentRead(s)
                               \/ SegmentInstall(s) \/ StackGet(s) \/ StackInstall(s)
                               \/ StackWords(s) \/ UserExits(s)
      PROVE  RightDirectory'
  <2>1. runs = s /\ UNCHANGED <<cr3, runs, pagedir, dying>>
    BY <1>9, Zenon DEF ProgramHeader, SegmentPage, SegmentRead, SegmentInstall, StackGet,
                      StackInstall, StackWords, UserExits, RunsAt
  <2>2. (\E w \in SpaceLabels \ {"destroy"} : Then(s, w)) \/ UNCHANGED space_pc
    <3>1. CASE ProgramHeader(s)
      BY <3>1, HeaderSteps, Zenon DEF OneHeader, SpaceLabels
    <3>2. CASE ~ProgramHeader(s)
      BY <1>9, <3>2, Zenon DEF SegmentPage, SegmentRead, SegmentInstall, StackGet, StackInstall,
                               StackWords, UserExits, InstallFails, SpaceLabels
    <3> QED BY <3>1, <3>2, Zenon
  <2> QED BY <1>3, <1>4, <2>1, <2>2, Zenon
<1>10. ASSUME NEW s \in Spaces, ExitForget(s)
       PROVE  RightDirectory'
  <2>1. /\ runs = s /\ space_pc[s] = "exit" /\ UNCHANGED <<runs, cr3>>
        /\ dying' = [dying EXCEPT ![s] = pagedir[s]]
    BY <1>10, Zenon DEF ExitForget, RunsAt
  <2>2. dying[s] = NoPage
    BY <1>1, <2>1, Zenon DEF HasPages
  <2>3. dying'[s] = pagedir[s]
    BY <1>1, <2>1, Zenon
  <2>4. PICK w \in {"dead", "deactivate"} : Then(s, w)
    BY <1>10, Zenon DEF ExitForget
  <2>5. space_pc'[s] # "destroy"
    BY <1>2, <2>4, Zenon
  <2> QED BY <1>1, <2>1, <2>2, <2>3, <2>5, Zenon DEF RightDirectory
<1>11. ASSUME NEW s \in Spaces, ExitDeactivate(s)
       PROVE  RightDirectory'
  BY <1>11, Zenon DEF ExitDeactivate, RightDirectory
<1>12. ASSUME NEW s \in Spaces, DestroyDirectory(s)
       PROVE  RightDirectory'
  <2>1. runs = s /\ space_pc[s] = "destroy" /\ UNCHANGED <<runs, cr3>>
    BY <1>12, Zenon DEF DestroyDirectory, RunsAt
  <2>2. cr3 = NoPage
    BY <1>1, <2>1, Zenon DEF RightDirectory
  <2> QED BY <2>1, <2>2, Zenon DEF RightDirectory
<1>13. ASSUME NEW s \in Spaces, NEW i \in Tables, DestroyTable(s, i)
       PROVE  RightDirectory'
  BY <1>3, <1>13, Zenon DEF DestroyTable
<1>14. CASE UNCHANGED spaceVars
  BY <1>3, <1>14, Zenon DEF spaceVars
<1>15. ASSUME NEW s \in Spaces, LoadPanics(s)
       PROVE  RightDirectory'
  BY <1>3, <1>15, Zenon DEF LoadPanics
<1>16. ASSUME NEW s \in Spaces, process_execute(s)
       PROVE  RightDirectory'
  <2>1. Then(s, "start") /\ UNCHANGED <<cr3, runs, pagedir, dying>>
    BY <1>16, Zenon DEF process_execute
  <2>2. space_pc'[runs] = "destroy" => space_pc[runs] = "destroy"
    BY <1>1, <2>1, Zenon DEF Then
  <2> QED BY <1>1, <2>1, <2>2, Zenon DEF RightDirectory
<1> QED BY <1>5, <1>6, <1>7, <1>8, <1>9, <1>10, <1>11, <1>12, <1>13, <1>14, <1>15, <1>16,
           Zenon DEF SpaceNext

\* The invariant holds at the start: no process has a page.
LEMMA SpaceStarts ==
  ASSUME SpaceInit
  PROVE  SpaceInv
<1>1. SpaceTypes
  <2>1. runs \in Spaces
    BY Zenon DEF SpaceInit
  <2>2. space_pc \in [Spaces -> SpaceLabels]
    BY Zenon DEF SpaceInit, SpaceLabels
  <2>3. \A s \in Spaces : Programs[s] \subseteq Executable
    BY AddressSpaceAssumption, Zenon
  <2>4. program \in [Spaces -> Executable]
    BY <2>3, Zenon DEF SpaceInit
  <2>5. 1 \in Nat \ {0}
    BY SMT
  <2>6. phdr \in [Spaces -> Nat \ {0}] /\ todo \in [Spaces -> LeftToLoad]
    BY <2>5, NoSegmentFits, Zenon DEF SpaceInit
  <2>7. /\ kpage \in [Spaces -> MaybePage] /\ pagedir \in [Spaces -> MaybePage]
        /\ dying \in [Spaces -> MaybePage]
    BY Zenon DEF SpaceInit, MaybePage
  <2>8. NoTables \in [Tables -> MaybePage] /\ EmptySpace \in [UserVPages -> SomeEntry]
    BY Zenon DEF NoTables, EmptySpace, MaybePage, SomeEntry
  <2>9. tables \in [Spaces -> [Tables -> MaybePage]] /\ ptes \in [Spaces -> [UserVPages -> SomeEntry]]
    BY <2>8, Zenon DEF SpaceInit
  <2> QED BY <2>1, <2>2, <2>4, <2>6, <2>7, <2>9, Zenon DEF SpaceTypes
<1>2. SegmentsFit
  BY NoSegmentFits, Zenon DEF SpaceInit, SegmentsFit
<1>3. OwnFile
  BY Zenon DEF SpaceInit, OwnFile, StartLabels, FileLabels
<1>4. RightDirectory
  BY Zenon DEF SpaceInit, RightDirectory
<1>5. ASSUME NEW s \in Spaces PROVE HasPages(s)
  <2>1. /\ space_pc[s] = "none" /\ kpage[s] = NoPage /\ pagedir[s] = NoPage /\ dying[s] = NoPage
        /\ tables[s] = NoTables /\ ptes[s] = EmptySpace
    BY Zenon DEF SpaceInit
  <2>2. \A i \in Tables : tables[s][i] = NoPage
    BY <2>1, Zenon DEF NoTables
  <2>3. \A v \in UserVPages : ptes[s][v] = NoPage
    BY <2>1, Zenon DEF EmptySpace
  <2> QED BY <2>1, <2>2, <2>3, Zenon DEF HasPages, LoadLabels
<1>6. EachPageOnce(Held, free_pages)
  <2>1. PICK f \in [Holder -> MaybePage] : f = Held /\ Describes(f, pagedir, dying, kpage, tables, ptes)
    BY <1>1, HeldNow, Zenon
  <2>2. ASSUME NEW h \in Holder PROVE f[h] = NoPage
    <3>1. PICK s \in Spaces :
             \/ h = DirOf(s) \/ h = DeadOf(s) \/ h = HandOf(s)
             \/ \E i \in Tables : h = TableOf(s, i)
             \/ \E v \in UserVPages : h = MapOf(s, v)
      BY HolderKinds, Zenon
    <3>2. f[DirOf(s)] = NoPage /\ f[DeadOf(s)] = NoPage /\ f[HandOf(s)] = NoPage
      BY <2>1, Zenon DEF Describes, SpaceInit
    <3>3. \A i \in Tables : f[TableOf(s, i)] = NoPage
      <4>1. \A i \in Tables : f[TableOf(s, i)] = tables[s][i]
        BY <2>1, Zenon DEF Describes
      <4>2. tables[s] = NoTables
        BY Zenon DEF SpaceInit
      <4> QED BY <4>1, <4>2, Zenon DEF NoTables
    <3>4. \A v \in UserVPages : f[MapOf(s, v)] = NoPage
      <4>1. \A v \in UserVPages : f[MapOf(s, v)] = PageOf(ptes[s][v])
        BY <2>1, Zenon DEF Describes
      <4>2. ptes[s] = EmptySpace
        BY Zenon DEF SpaceInit
      <4> QED BY <4>1, <4>2, Zenon DEF EmptySpace, PageOf
    <3> QED BY <3>1, <3>2, <3>3, <3>4, Zenon
  <2>3. NotTwice(f) /\ NotFree(f, free_pages)
    BY <2>2, Zenon DEF NotTwice, NotFree
  <2>4. free_pages = AnyPage
    BY Zenon DEF SpaceInit, AnyPage
  <2>5. NotLost(f, free_pages)
    BY <2>2, <2>4, Zenon DEF NotLost
  <2>6. EachPageOnce(f, free_pages)
    BY <2>3, <2>5, OnceParts, Zenon
  <2> QED BY <2>1, <2>6, Zenon
<1> QED BY <1>1, <1>2, <1>3, <1>4, <1>5, <1>6, Zenon DEF SpaceInv

\* Each step keeps the invariant.
LEMMA SpaceSteps ==
  ASSUME HasSmallest, SpaceInv, [SpaceNext]_spaceVars
  PROVE  SpaceInv'
<1>1. SpaceTypes' /\ SegmentsFit' /\ OwnFile' /\ RightDirectory'
  BY SpaceTyped, FitKept, FileKept, DirectoryKept, Zenon
<1>2. \A s \in Spaces : HasPages(s)'
  BY PageSteps, OwnsKept, Zenon
<1>3. EachPageOnce(Held, free_pages)'
  BY PageSteps, OnceKept, Zenon
<1> QED BY <1>1, <1>2, <1>3, Zenon DEF SpaceInv

\* The invariant implies the property.
LEMMA SpaceInvOwns ==
  ASSUME SpaceInv
  PROVE  SpacesOwnPages
<1>1. EachPageOnce(Held, free_pages) /\ RightDirectory /\ SpaceTypes
  BY SpaceParts, Zenon
<1>2. ASSUME NEW s \in Spaces, space_pc[s] = "dead", NEW w \in PagePlaces
      PROVE  Held[<<s, w>>] = NoPage
  <2>1. PICK f : f = Held /\ Describes(f, pagedir, dying, kpage, tables, ptes)
    BY <1>1, HeldNow, Zenon
  <2>2. HasPages(s)
    BY SpaceParts, Zenon
  <2>3. kpage[s] = NoPage /\ pagedir[s] = NoPage /\ dying[s] = NoPage
    BY <1>2, <2>2, Zenon DEF HasPages
  <2>4. \A i \in Tables : tables[s][i] = NoPage
    BY <2>2, <2>3, Zenon DEF HasPages
  <2>5. \A v \in UserVPages : ptes[s][v] = NoPage
    BY <2>2, <2>4, Zenon DEF HasPages, Tables
  <2>6. PICK h \in Holder : h = <<s, w>>
    BY Zenon DEF Holder
  <2>7. PICK r \in Spaces :
           \/ h = DirOf(r) \/ h = DeadOf(r) \/ h = HandOf(r)
           \/ \E i \in Tables : h = TableOf(r, i)
           \/ \E v \in UserVPages : h = MapOf(r, v)
    BY HolderKinds, Zenon
  <2>8. r = s
    BY <2>6, <2>7, Zenon DEF DirOf, DeadOf, HandOf, TableOf, MapOf
  <2>9. f[DirOf(s)] = NoPage /\ f[DeadOf(s)] = NoPage /\ f[HandOf(s)] = NoPage
    BY <2>1, <2>3, Zenon DEF Describes
  <2>10. \A i \in Tables : f[TableOf(s, i)] = NoPage
    BY <2>1, <2>4, ZenonT(60) DEF Describes
  <2>11. \A v \in UserVPages : f[MapOf(s, v)] = NoPage
    BY <2>1, <2>5, Zenon DEF Describes, PageOf
  <2>12. f[h] = NoPage
    BY <2>7, <2>8, <2>9, <2>10, <2>11, Zenon
  <2> QED BY <2>1, <2>6, <2>12, Zenon
<1>3. ASSUME NEW s \in Spaces, space_pc[s] = "install"
      PROVE  todo[s].upage \in UserVPages
  <2>1. todo[s] \in LeftToLoad /\ Fits(todo[s]) /\ (todo[s].read > 0 \/ todo[s].zero > 0)
    BY <1>1, <1>3, SpaceParts, SpaceTypeParts, Zenon DEF SegmentsFit
  <2> QED BY <2>1, PageOfSegment, Zenon
<1>4. cr3 # NoPage => cr3 \in {pagedir[runs], dying[runs]}
  BY <1>1, Zenon DEF RightDirectory
<1> QED BY <1>1, <1>2, <1>3, <1>4, Zenon DEF SpacesOwnPages

-----------------------------------------------------------------------------
(* load_segment(): what is mapped. *)

\* How many pages load_segment() maps for a segment, and the first of them.
PageCount(p) == ((p.vaddr % PageSize) + p.memsz + PageSize - 1) \div PageSize
FirstPage(p) == pg_no(p.vaddr)
Valid(p, prog) == p \in Elf32_Phdr /\ p.type = "PT_LOAD" /\ validate_segment(p, prog.length)

\* What validate_segment() makes of the numbers of a segment: it starts o bytes
\* into page q and has n pages below PHYS_BASE, and b bytes are read.
Numbers(p, q, o, n, b) ==
  /\ q = FirstPage(p) /\ n = PageCount(p) /\ p.vaddr = PageSize * q + o
  /\ o = p.vaddr % PageSize /\ o < PageSize /\ p.offset % PageSize = o /\ o <= p.offset
  /\ b = (IF p.filesz > 0 THEN o + p.filesz ELSE 0) /\ b <= o + p.memsz
  /\ PageSize * n < o + p.memsz + PageSize /\ o + p.memsz <= PageSize * n /\ p.memsz > 0
  /\ q + n <= PHYS_BASE \div PageSize
  /\ Segment(p).upage = q /\ Segment(p).ofs = p.offset - o /\ Segment(p).read = b
  /\ Segment(p).zero = PageSize * n - b /\ Segment(p).writable = p.writable

\* Every segment that validate_segment() passes has such numbers.
LEMMA SegmentNumbers ==
  ASSUME NEW p \in Elf32_Phdr, NEW length \in Nat, validate_segment(p, length)
  PROVE  \E q, o, n, b \in Nat : Numbers(p, q, o, n, b)
<1>1. /\ p.offset \in Elf32_Word /\ p.vaddr \in Elf32_Word /\ p.filesz \in Elf32_Word
      /\ p.memsz \in Elf32_Word /\ p.writable \in BOOLEAN
  BY Zenon DEF Elf32_Phdr
<1>2. PICK va, ms, fs, of, P, W :
        /\ va = p.vaddr /\ ms = p.memsz /\ fs = p.filesz /\ of = p.offset /\ P = PageSize /\ W = WORD_MAX
  BY Zenon
<1>3. P \in Nat \ {0} /\ W \in Nat \ {0} /\ PHYS_BASE \in Nat
  BY <1>2, SpaceNumbers, SMT
<1>4. va \in Nat /\ ms \in Nat /\ fs \in Nat /\ of \in Nat /\ va < W /\ ms < W
  BY <1>1, <1>2, <1>3, SMT DEF Elf32_Word
<1>5. fs <= ms /\ (va + ms) % W >= va /\ (va + ms) % W < PHYS_BASE /\ ms # 0 /\ of % P = va % P
  BY <1>2, SMT DEF validate_segment, is_user_vaddr
<1>6. va + ms < PHYS_BASE
  <2>1. PICK x \in 0 .. 2 * W - 1 : x = va + ms
    BY <1>3, <1>4, SMT
  <2>2. x % W = IF x < W THEN x ELSE x - W
    BY <1>3, Remainder, Zenon
  <2>3. (IF x < W THEN x ELSE x - W) >= va /\ (IF x < W THEN x ELSE x - W) < PHYS_BASE
    BY <1>5, <2>1, <2>2, Zenon
  <2> QED BY <1>3, <1>4, <2>1, <2>3, SMT
<1>7. PICK q, o, n, K :
        /\ q = va \div P /\ o = va % P /\ n = (o + ms + P - 1) \div P /\ K = PHYS_BASE \div P
  BY Zenon
<1>8. q \in Nat /\ o \in Nat /\ o < P /\ va = P * q + o
  BY <1>3, <1>4, <1>7, Division, Zenon
<1>9. o <= of /\ of % P = o
  <2>0. of % P = o
    BY <1>5, <1>7, Zenon
  <2>1. of \div P \in Nat /\ of = P * (of \div P) + o
    BY <1>3, <1>4, <2>0, Division, Zenon
  <2>2. PICK z \in Nat : z = of \div P
    BY <2>1, Zenon
  <2>3. of = P * z + o
    BY <2>1, <2>2, Zenon
  <2>4. P * z \in Nat
    BY <1>3, <2>2, SMT
  <2>5. o <= of
    BY <1>4, <1>8, <2>3, <2>4, SMT
  <2> QED BY <2>0, <2>5, Zenon
<1>10. n \in Nat /\ P * n \in Nat /\ P * n < o + ms + P /\ o + ms <= P * n /\ P * n <= o + ms + P - 1
  <2>1. PICK y \in Nat : y = o + ms + P - 1
    BY <1>3, <1>4, <1>8, SMT
  <2>2. n \in Nat /\ y % P \in Nat /\ y % P < P /\ y = P * n + (y % P)
    BY <1>3, <1>7, <2>1, Division, Zenon
  <2>3. PICK z \in Nat : z = y % P
    BY <2>2, Zenon
  <2>4. z < P /\ y = P * n + z
    BY <2>2, <2>3, Zenon
  <2>5. P * n \in Nat
    BY <1>3, <2>2, SMT
  <2> QED BY <1>3, <1>4, <1>8, <2>1, <2>2, <2>4, <2>5, SMT
<1>11. K \in Nat /\ PHYS_BASE = P * K
  BY <1>2, <1>7, WholePages, SMT
<1>12. q + n <= K
  <2>1. P * q + o + ms < P * K
    BY <1>6, <1>8, <1>11, Zenon
  <2> QED BY <1>3, <1>4, <1>8, <1>10, <1>11, <2>1, PagesBelow, Zenon
<1>13. PICK b : b = IF fs > 0 THEN o + fs ELSE 0
  BY Zenon
<1>14. b \in Nat /\ b <= o + ms /\ ms > 0 /\ n * P = P * n
  BY <1>3, <1>4, <1>5, <1>8, <1>10, <1>13, SMT
<1>17. Segment(p) = [upage |-> q, ofs |-> of - o, read |-> b, zero |-> P * n - b, writable |-> p.writable]
  <2>1. pg_no(p.vaddr) = q /\ p.vaddr % PageSize = o /\ p.offset - (p.offset % PageSize) = of - o
    BY <1>2, <1>7, <1>9, Zenon DEF pg_no
  <2>2. ROUND_UP(o + p.memsz) = P * n
    BY <1>2, <1>7, <1>14, Zenon DEF ROUND_UP
  <2>3. b = IF p.filesz > 0 THEN o + p.filesz ELSE 0
    BY <1>2, <1>13, Zenon
  <2> QED BY <2>1, <2>2, <2>3, Zenon DEF Segment
<1>18. PICK g : g = Segment(p)
  BY Zenon
<1>19. g.upage = q /\ g.ofs = of - o /\ g.read = b /\ g.zero = P * n - b /\ g.writable = p.writable
  <2>1. g = [upage |-> q, ofs |-> of - o, read |-> b, zero |-> P * n - b, writable |-> p.writable]
    BY <1>17, <1>18, Zenon
  <2> QED BY <2>1, Zenon
<1>20. q = FirstPage(p) /\ n = PageCount(p)
  BY <1>2, <1>7, Zenon DEF FirstPage, PageCount, pg_no
<1>21. Numbers(p, q, o, n, b)
  <2>1. b = IF p.filesz > 0 THEN o + p.filesz ELSE 0
    BY <1>2, <1>13, Zenon
  <2>2. q + n <= PHYS_BASE \div PageSize
    BY <1>2, <1>7, <1>12, Zenon
  <2>3. p.vaddr = PageSize * q + o /\ o = p.vaddr % PageSize /\ o < PageSize
    BY <1>2, <1>7, <1>8, Zenon
  <2>4. p.offset % PageSize = o /\ o <= p.offset
    BY <1>2, <1>9, Zenon
  <2>5. /\ b <= o + p.memsz /\ PageSize * n < o + p.memsz + PageSize
        /\ o + p.memsz <= PageSize * n /\ p.memsz > 0
    BY <1>2, <1>10, <1>14, Zenon
  <2>6. /\ Segment(p).upage = q /\ Segment(p).ofs = p.offset - o /\ Segment(p).read = b
        /\ Segment(p).zero = PageSize * n - b /\ Segment(p).writable = p.writable
    BY <1>2, <1>18, <1>19, Zenon
  <2> QED BY <1>20, <2>1, <2>2, <2>3, <2>4, <2>5, <2>6, Zenon DEF Numbers
<1> QED BY <1>8, <1>10, <1>14, <1>21, Zenon

\* The entry of page j of segment p.
EntryRight(p, j, e) ==
  /\ e # NoPage /\ e.writable = p.writable
  /\ e.data.read = LET r == Segment(p).read - PageSize * j
                   IN  IF r < 0 THEN 0 ELSE IF r < PageSize THEN r ELSE PageSize
  /\ e.data.read > 0 => e.data.ofs = Segment(p).ofs + PageSize * j

\* What load_segment() has left to do after j pages of p.
LeftRight(p, j, seg) ==
  /\ j \in Nat /\ j <= PageCount(p)
  /\ seg.upage = FirstPage(p) + j /\ seg.writable = p.writable
  /\ seg.read = LET r == Segment(p).read - PageSize * j IN IF r < 0 THEN 0 ELSE r
  /\ seg.read > 0 => seg.ofs = Segment(p).ofs + PageSize * j
  /\ seg.read + seg.zero = PageSize * (PageCount(p) - j)

\* The first n pages of p are in the map.
InMap(p, n, map) == \A j \in Nat : j < n => EntryRight(p, j, map[FirstPage(p) + j])

\* The segments among the first k headers, and the pages of one.
Done(prog, k) == {i \in 1 .. k : prog.phdrs[i].type = "PT_LOAD"}
IsIn(v, p, n) == FirstPage(p) <= v /\ v < FirstPage(p) + n

\* The map holds the segments of the first k headers and the pages of more.
MapIs(map, prog, k, more) ==
  /\ k \in Nat /\ k <= Len(prog.phdrs)
  /\ \A i \in Done(prog, k) : Valid(prog.phdrs[i], prog) /\ InMap(prog.phdrs[i], PageCount(prog.phdrs[i]), map)
  /\ \A v \in UserVPages :
       map[v] # NoPage <=> v \in more \/ \E i \in Done(prog, k) : IsIn(v, prog.phdrs[i], PageCount(prog.phdrs[i]))

\* The segment of header n - 1 is being loaded, and j pages are in the map.
Partly(map, prog, n, seg, j) ==
  /\ Valid(prog.phdrs[n - 1], prog) /\ n - 1 \in 1 .. Len(prog.phdrs)
  /\ LeftRight(prog.phdrs[n - 1], j, seg) /\ InMap(prog.phdrs[n - 1], j, map)
  /\ MapIs(map, prog, n - 2, {v \in UserVPages : IsIn(v, prog.phdrs[n - 1], j)})

\* How far a load has come that no other load has overlapped.
LoadState(pc, prog, n, seg, map) ==
  /\ pc = "phdr" => MapIs(map, prog, n - 1, {})
  /\ pc \in {"page", "read", "install"} => \E j \in Nat : Partly(map, prog, n, seg, j)
  /\ pc \in {"stack_page", "stack_install"} => MapIs(map, prog, Len(prog.phdrs), {})
  /\ pc \in {"stack_words", "run"} => MapIs(map, prog, Len(prog.phdrs), {StackPage})

\* The segments of one more header that is not PT_LOAD are the same.
LEMMA DoneMore ==
  ASSUME NEW prog, NEW k \in Nat
  PROVE  /\ prog.phdrs[k + 1].type # "PT_LOAD" => Done(prog, k + 1) = Done(prog, k)
         /\ prog.phdrs[k + 1].type = "PT_LOAD" => Done(prog, k + 1) = Done(prog, k) \cup {k + 1}
<1>1. \A i : i \in 1 .. k + 1 <=> i \in 1 .. k \/ i = k + 1
  BY SMT
<1> QED BY <1>1, Zenon DEF Done

\* Before the first program header nothing is mapped.
LEMMA NoneDone ==
  ASSUME NEW prog \in Executable, NEW map, \A v \in UserVPages : map[v] = NoPage
  PROVE  MapIs(map, prog, 0, {})
<1>1. Done(prog, 0) = {}
  <2>1. 1 .. 0 = {}
    BY SMT
  <2> QED BY <2>1, Zenon DEF Done
<1>2. Len(prog.phdrs) \in Nat /\ 0 \in Nat
  BY SMT DEF Executable
<1>3. 0 <= Len(prog.phdrs)
  BY <1>2, SMT
<1> QED BY <1>1, <1>2, <1>3, Zenon DEF MapIs

\* A header that is ignored.
LEMMA IgnoredKept ==
  ASSUME NEW prog, NEW map, NEW k \in Nat, MapIs(map, prog, k, {}), k + 1 <= Len(prog.phdrs),
         prog.phdrs[k + 1].type # "PT_LOAD"
  PROVE  MapIs(map, prog, k + 1, {})
<1>1. Done(prog, k + 1) = Done(prog, k) /\ k + 1 \in Nat
  <2>1. k + 1 \in Nat
    BY SMT
  <2> QED BY <2>1, DoneMore, Zenon
<1> QED BY <1>1, Zenon DEF MapIs

\* load_segment() begins.
LEMMA SegmentBegins ==
  ASSUME NEW prog \in Executable, NEW map, NEW k \in Nat, MapIs(map, prog, k, {}), k + 1 <= Len(prog.phdrs),
         Valid(prog.phdrs[k + 1], prog)
  PROVE  Partly(map, prog, k + 2, Segment(prog.phdrs[k + 1]), 0)
<1>1. PICK p \in Elf32_Phdr : p = prog.phdrs[k + 1] /\ Valid(p, prog)
  BY Zenon DEF Valid
<1>2. prog.length \in Nat /\ Len(prog.phdrs) \in Nat
  BY SMT DEF Executable
<1>3. PICK q, o, n, b \in Nat : Numbers(p, q, o, n, b)
  BY <1>1, <1>2, SegmentNumbers, Zenon DEF Valid
<1>4. (k + 2) - 1 = k + 1 /\ (k + 2) - 2 = k /\ k + 1 \in 1 .. Len(prog.phdrs) /\ 0 \in Nat /\ PageSize \in Nat
  BY SMTT(60), <1>2, SpaceNumbers, SMT
<1>5. LeftRight(p, 0, Segment(p))
  <2>1. n = PageCount(p) /\ Segment(p).upage = FirstPage(p) /\ FirstPage(p) = q
        /\ Segment(p).writable = p.writable /\ Segment(p).read = b /\ Segment(p).zero = PageSize * n - b
    BY <1>3, Zenon DEF Numbers
  <2>2. /\ 0 <= n /\ q = q + 0 /\ b = (IF b - PageSize * 0 < 0 THEN 0 ELSE b - PageSize * 0)
        /\ b + (PageSize * n - b) = PageSize * (n - 0)
    BY <1>4, SMT
  <2>3. Segment(p).ofs = Segment(p).ofs + PageSize * 0
    <3>1. PICK f \in Nat : f = p.offset /\ o <= f /\ Segment(p).ofs = f - o
      <4>1. p.offset \in Nat
        BY SpaceNumbers, SMT DEF Elf32_Phdr, Elf32_Word
      <4> QED BY <1>3, <4>1, Zenon DEF Numbers
    <3> QED BY <1>4, <3>1, SMT
  <2> QED BY <1>4, <2>1, <2>2, <2>3, Zenon DEF LeftRight
<1>6. \A j \in Nat : ~(j < 0)
  BY SMT
<1>7. InMap(p, 0, map)
  BY <1>6, Zenon DEF InMap
<1>8. {v \in UserVPages : IsIn(v, p, 0)} = {}
  <2>1. FirstPage(p) = q
    BY <1>3, Zenon DEF Numbers
  <2>2. \A v \in UserVPages : ~(q <= v /\ v < q + 0)
    BY WholePages, SMT DEF UserVPages
  <2> QED BY <2>1, <2>2, Zenon DEF IsIn
<1> QED BY <1>1, <1>4, <1>5, <1>7, <1>8, Zenon DEF Partly

\* One page of load_segment()'s loop, in numbers: P is PageSize, of the segment B
\* bytes are read from F on, of its c pages j are done, and r and z bytes are left,
\* the first at f of the file, of which b are read next.
BeforePage(P, B, F, c, j, r, z, f, b) ==
  /\ j <= c /\ r = (IF B - P * j < 0 THEN 0 ELSE B - P * j) /\ (r > 0 => f = F + P * j)
  /\ r + z = P * (c - j) /\ (r > 0 \/ z > 0) /\ b = IF r < P THEN r ELSE P
AfterPage(P, B, F, c, j, r, z, f, b) ==
  /\ r - b = (IF B - P * (j + 1) < 0 THEN 0 ELSE B - P * (j + 1))
  /\ r - b > 0 => f + b = F + P * (j + 1)
  /\ (r - b) + (z - (P - b)) = P * (c - (j + 1))
PageRead(P, B, F, j, f, b) ==
  /\ b = (IF B - P * j < 0 THEN 0 ELSE IF B - P * j < P THEN B - P * j ELSE P)
  /\ b > 0 => f = F + P * j

\* One turn of the loop of load_segment() reads its page and leaves the rest.
LEMMA LeftGoesOn ==
  ASSUME NEW P \in Nat \ {0}, NEW B \in Nat, NEW F \in Nat, NEW c \in Nat, NEW j \in Nat,
         NEW r \in Nat, NEW z \in Nat, NEW f \in Nat, NEW b, BeforePage(P, B, F, c, j, r, z, f, b)
  PROVE  j < c /\ AfterPage(P, B, F, c, j, r, z, f, b) /\ PageRead(P, B, F, j, f, b)
<1>0. /\ j <= c /\ r = (IF B - P * j < 0 THEN 0 ELSE B - P * j) /\ (r > 0 => f = F + P * j)
      /\ r + z = P * (c - j) /\ (r > 0 \/ z > 0) /\ b = IF r < P THEN r ELSE P
  BY Zenon DEF BeforePage
<1>1. j < c
  <2>1. j = c => P * (c - j) = 0
    BY SMT
  <2> QED BY <1>0, <2>1, SMT
<1>2. PICK x \in Nat, y \in Nat : x = P * j /\ y = P * (c - j)
  BY <1>1, SMT
<1>3. P * (j + 1) = x + P /\ P * (c - (j + 1)) = y - P
  BY <1>1, <1>2, SMT
<1>4. /\ r = (IF B - x < 0 THEN 0 ELSE B - x) /\ (r > 0 => f = F + x) /\ r + z = y
      /\ b = IF r < P THEN r ELSE P
  BY <1>0, <1>2, Zenon
<1>5. /\ r - b = (IF B - (x + P) < 0 THEN 0 ELSE B - (x + P))
      /\ r - b > 0 => f + b = F + (x + P)
      /\ (r - b) + (z - (P - b)) = y - P
  BY <1>2, <1>4, SMT
<1>6. /\ b = (IF B - x < 0 THEN 0 ELSE IF B - x < P THEN B - x ELSE P)
      /\ b > 0 => f = F + x
  BY <1>2, <1>4, SMT
<1>7. AfterPage(P, B, F, c, j, r, z, f, b)
  BY <1>2, <1>3, <1>5, Zenon DEF AfterPage
<1>8. PageRead(P, B, F, j, f, b)
  BY <1>2, <1>6, Zenon DEF PageRead
<1> QED BY <1>1, <1>7, <1>8, Zenon

\* Quotient and remainder, found.
Splits(x, P, k, t) == t < P /\ x = P * k + t
\* A quotient and a remainder that fit are the quotient and the remainder.
LEMMA DivisionIs ==
  ASSUME NEW P \in Nat \ {0}, NEW k \in Nat, NEW t \in Nat, NEW x, Splits(x, P, k, t)
  PROVE  x \div P = k /\ x % P = t
<1>0. t < P /\ x = P * k + t
  BY Zenon DEF Splits
<1>1. x \in Nat
  BY <1>0, SMT
<1>2. PICK d, m : d = x \div P /\ m = x % P
  BY Zenon
<1>3. d \in Nat /\ m \in Nat /\ m < P /\ x = P * d + m
  BY <1>1, <1>2, Division, Zenon
<1>4. P * k + t = P * d + m
  BY <1>0, <1>3, Zenon
<1>5. ~(d < k)
  <2>1. ASSUME d < k PROVE FALSE
    <3>1. P * (d + 1) <= P * k /\ P * (d + 1) = P * d + P
      BY <1>0, <1>3, <2>1, SMT
    <3>2. PICK a \in Nat, b \in Nat : a = P * d /\ b = P * k
      BY <1>3, SMT
    <3> QED BY SMTT(60), <1>0, <1>3, <1>4, <3>1, <3>2, SMT
  <2> QED BY <2>1
<1>6. ~(k < d)
  <2>1. ASSUME k < d PROVE FALSE
    <3>1. P * (k + 1) <= P * d /\ P * (k + 1) = P * k + P
      BY <1>0, <1>3, <2>1, SMT
    <3>2. PICK a \in Nat, b \in Nat : a = P * d /\ b = P * k
      BY <1>3, SMT
    <3> QED BY SMTT(60), <1>0, <1>3, <1>4, <3>1, <3>2, SMT
  <2> QED BY <2>1
<1>7. d = k
  BY <1>3, <1>5, <1>6, SMT
<1>8. PICK a \in Nat : a = P * k
  BY SMT
<1>9. a + t = a + m
  BY <1>4, <1>7, <1>8, Zenon
<1>10. t = m
  BY <1>3, <1>8, <1>9, SMT
<1> QED BY <1>2, <1>7, <1>10, Zenon

\* The pages of a valid segment are user pages, and it has one at least.
LEMMA SegmentBelow ==
  ASSUME NEW prog \in Executable, NEW p, Valid(p, prog)
  PROVE  /\ FirstPage(p) \in Nat /\ PageCount(p) \in Nat
         /\ \A j \in Nat : j < PageCount(p) => FirstPage(p) + j \in UserVPages
<1>1. p \in Elf32_Phdr /\ validate_segment(p, prog.length) /\ prog.length \in Nat
  BY Zenon DEF Valid, Executable
<1>2. PICK q, o, n, b \in Nat : Numbers(p, q, o, n, b)
  BY <1>1, SegmentNumbers, Zenon
<1>3. PICK K \in Nat : K = PHYS_BASE \div PageSize
  BY WholePages, Zenon
<1>4. q = FirstPage(p) /\ n = PageCount(p) /\ q + n <= K
  BY <1>2, <1>3, Zenon DEF Numbers
<1>5. \A j \in Nat : j < n => q + j \in 0 .. K - 1
  BY <1>4, SMT
<1> QED BY <1>2, <1>3, <1>4, <1>5, Zenon DEF UserVPages

\* One page u is mapped.
MapsAt(map, map1, u, e) ==
  /\ map[u] = NoPage /\ e # NoPage
  /\ \A v \in UserVPages : map1[v] = IF v = u THEN e ELSE map[v]

\* Pages in the map stay when another page is mapped.
LEMMA InMapKept ==
  ASSUME NEW prog \in Executable, NEW p, Valid(p, prog), NEW n \in Nat, n <= PageCount(p), NEW map, NEW map1,
         NEW u, NEW e, MapsAt(map, map1, u, e), InMap(p, n, map)
  PROVE  InMap(p, n, map1)
<1> SUFFICES ASSUME NEW j \in Nat, j < n PROVE EntryRight(p, j, map1[FirstPage(p) + j])
  BY Zenon DEF InMap
<1>1. PICK v : v = FirstPage(p) + j
  BY Zenon
<1>2. EntryRight(p, j, map[v])
  BY <1>1, Zenon DEF InMap
<1>3. map[v] # NoPage
  BY <1>2, Zenon DEF EntryRight
<1>4. PageCount(p) \in Nat
  BY SegmentBelow, Zenon
<1>5. j < PageCount(p)
  BY <1>4, SMT
<1>6. v \in UserVPages
  BY <1>1, <1>5, SegmentBelow, Zenon
<1>7. map1[v] = map[v]
  BY <1>3, <1>6, Zenon DEF MapsAt
<1> QED BY <1>1, <1>2, <1>7, Zenon

\* One more page is mapped.
LEMMA MapGrows ==
  ASSUME NEW prog \in Executable, NEW map, NEW map1, NEW k, NEW more, NEW more1, NEW u \in UserVPages, NEW e,
         MapIs(map, prog, k, more), MapsAt(map, map1, u, e),
         \A v \in UserVPages : v \in more1 <=> v \in more \/ v = u
  PROVE  MapIs(map1, prog, k, more1)
<1>2. ASSUME NEW i \in Done(prog, k)
      PROVE  Valid(prog.phdrs[i], prog) /\ InMap(prog.phdrs[i], PageCount(prog.phdrs[i]), map1)
  <2>1. PICK p : p = prog.phdrs[i] /\ Valid(p, prog) /\ InMap(p, PageCount(p), map)
    BY Zenon DEF MapIs
  <2>2. PageCount(p) \in Nat
    BY <2>1, SegmentBelow, Zenon
  <2>3. PageCount(p) <= PageCount(p)
    BY <2>2, SMT
  <2>4. InMap(p, PageCount(p), map1)
    BY <2>1, <2>2, <2>3, InMapKept, Zenon
  <2> QED BY <2>1, <2>4, Zenon
<1>3. ASSUME NEW v \in UserVPages
      PROVE  map1[v] # NoPage <=> v \in more1 \/ \E i \in Done(prog, k) : IsIn(v, prog.phdrs[i], PageCount(prog.phdrs[i]))
  <2>1. CASE v = u
    BY <2>1, Zenon DEF MapsAt
  <2>2. CASE v # u
    <3>1. map1[v] = map[v]
      BY <2>2, Zenon DEF MapsAt
    <3> QED BY <2>2, <3>1, Zenon DEF MapIs
  <2> QED BY <2>1, <2>2
<1> QED BY <1>2, <1>3, Zenon DEF MapIs

\* What the body of load_segment()'s loop makes of seg: b bytes are read into the
\* page of e, and rest is left.
LoopBody(seg, b, e, rest) ==
  /\ seg.read > 0 \/ seg.zero > 0
  /\ b = IF seg.read < PageSize THEN seg.read ELSE PageSize
  /\ e.writable = seg.writable /\ e.data.ofs = seg.ofs /\ e.data.read = b
  /\ rest.upage = seg.upage + 1 /\ rest.ofs = seg.ofs + b /\ rest.read = seg.read - b
  /\ rest.zero = seg.zero - (PageSize - b) /\ rest.writable = seg.writable

\* The body of load_segment()'s loop maps the next page of the segment.
LEMMA SegmentGoesOn ==
  ASSUME NEW prog \in Executable, NEW map, NEW map1, NEW n, NEW seg \in LeftToLoad, NEW rest, NEW j \in Nat, NEW e, NEW b,
         Partly(map, prog, n, seg, j), LoopBody(seg, b, e, rest), MapsAt(map, map1, seg.upage, e)
  PROVE  Partly(map1, prog, n, rest, j + 1)
<1>1. PICK p : p = prog.phdrs[n - 1]
  BY Zenon
<1>2. /\ Valid(p, prog) /\ n - 1 \in 1 .. Len(prog.phdrs) /\ LeftRight(p, j, seg) /\ InMap(p, j, map)
      /\ MapIs(map, prog, n - 2, {v \in UserVPages : IsIn(v, p, j)})
  BY <1>1, Zenon DEF Partly
<1>3. PICK P, B, F, c, q, r, z, f :
        /\ P = PageSize /\ B = Segment(p).read /\ F = Segment(p).ofs /\ c = PageCount(p) /\ q = FirstPage(p)
        /\ r = seg.read /\ z = seg.zero /\ f = seg.ofs
  BY Zenon
<1>4. P \in Nat \ {0} /\ c \in Nat /\ q \in Nat /\ r \in Nat /\ z \in Nat /\ f \in Nat
  BY <1>2, <1>3, SpaceNumbers, SegmentBelow, Zenon DEF LeftToLoad
<1>5. B \in Nat /\ F \in Nat
  <2>1. p \in Elf32_Phdr /\ validate_segment(p, prog.length) /\ prog.length \in Nat
    BY <1>2, Zenon DEF Valid, Executable
  <2>2. Segment(p) \in LeftToLoad
    BY <2>1, SegmentOf, Zenon
  <2> QED BY <1>3, <2>2, Zenon DEF LeftToLoad
<1>6. j <= c /\ seg.upage = q + j /\ seg.writable = p.writable
  BY <1>2, <1>3, Zenon DEF LeftRight
<1>7. BeforePage(P, B, F, c, j, r, z, f, b)
  BY <1>2, <1>3, Zenon DEF LeftRight, LoopBody, BeforePage
<1>8. j < c /\ AfterPage(P, B, F, c, j, r, z, f, b) /\ PageRead(P, B, F, j, f, b)
  BY <1>4, <1>5, <1>7, LeftGoesOn, Zenon
<1>9. j + 1 \in Nat /\ j + 1 <= c /\ (q + j) + 1 = q + (j + 1)
  BY <1>4, <1>8, SMT
<1>10. LeftRight(p, j + 1, rest)
  <2>1. rest.upage = FirstPage(p) + (j + 1) /\ rest.writable = p.writable
    BY <1>3, <1>6, <1>9, Zenon DEF LoopBody
  <2>2. rest.read = r - b /\ rest.ofs = f + b /\ rest.zero = z - (P - b)
    BY <1>3, Zenon DEF LoopBody
  <2> QED BY <1>3, <1>8, <1>9, <2>1, <2>2, Zenon DEF LeftRight, AfterPage
<1>11. EntryRight(p, j, e)
  <2>1. e # NoPage
    BY Zenon DEF MapsAt
  <2>2. e.writable = p.writable /\ e.data.ofs = f /\ e.data.read = b
    BY <1>3, <1>6, Zenon DEF LoopBody
  <2> QED BY <1>3, <1>8, <2>1, <2>2, Zenon DEF EntryRight, PageRead
<1>12. seg.upage \in UserVPages
  BY <1>2, <1>3, <1>6, <1>8, SegmentBelow, Zenon
<1>13. InMap(p, j + 1, map1)
  <2>2. InMap(p, j, map1)
    BY <1>2, <1>3, <1>6, InMapKept, Zenon
  <2>3. EntryRight(p, j, map1[FirstPage(p) + j])
    BY <1>3, <1>6, <1>11, <1>12, Zenon DEF MapsAt
  <2>4. \A i \in Nat : i < j + 1 => i < j \/ i = j
    BY SMT
  <2> QED BY <2>2, <2>3, <2>4, Zenon DEF InMap
<1>14. MapIs(map1, prog, n - 2, {v \in UserVPages : IsIn(v, p, j + 1)})
  <2>1. \A v \in UserVPages : q <= v /\ v < q + (j + 1) <=> (q <= v /\ v < q + j) \/ v = q + j
    BY <1>4, WholePages, SMT DEF UserVPages
  <2>2. \A v \in UserVPages : IsIn(v, p, j + 1) <=> IsIn(v, p, j) \/ v = seg.upage
    BY <1>3, <1>6, <2>1, Zenon DEF IsIn
  <2>3. PICK M, M1 : M = {v \in UserVPages : IsIn(v, p, j)} /\ M1 = {v \in UserVPages : IsIn(v, p, j + 1)}
    BY Zenon
  <2>4. \A v \in UserVPages : v \in M1 <=> v \in M \/ v = seg.upage
    BY <2>2, <2>3, Zenon
  <2>5. MapIs(map, prog, n - 2, M)
    BY <1>2, <2>3, Zenon
  <2>6. MapIs(map1, prog, n - 2, M1)
    BY <1>12, <2>4, <2>5, MapGrows, Zenon
  <2> QED BY <2>3, <2>6, Zenon
<1> QED BY <1>1, <1>2, <1>10, <1>13, <1>14, Zenon DEF Partly

\* load_segment() is done with a segment.
LEMMA SegmentEnds ==
  ASSUME NEW prog \in Executable, NEW map, NEW n \in Nat, NEW seg \in LeftToLoad, NEW j \in Nat,
         Partly(map, prog, n, seg, j), ~(seg.read > 0 \/ seg.zero > 0)
  PROVE  MapIs(map, prog, n - 1, {})
<1>1. PICK p : p = prog.phdrs[n - 1]
  BY Zenon
<1>2. /\ Valid(p, prog) /\ n - 1 \in 1 .. Len(prog.phdrs) /\ LeftRight(p, j, seg) /\ InMap(p, j, map)
      /\ MapIs(map, prog, n - 2, {v \in UserVPages : IsIn(v, p, j)})
  BY <1>1, Zenon DEF Partly
<1>3. PICK c : c = PageCount(p)
  BY Zenon
<1>4. c \in Nat /\ j <= c /\ seg.read + seg.zero = PageSize * (c - j) /\ seg.read \in Nat /\ seg.zero \in Nat
  BY <1>2, <1>3, SegmentBelow, Zenon DEF LeftRight, LeftToLoad
<1>5. PageSize \in Nat \ {0}
  BY SpaceNumbers, Zenon
<1>6. j = c
  <2>1. PageSize * (c - j) = 0
    BY <1>4, SMT
  <2>2. c - j \in Nat
    BY <1>4, SMT
  <2>3. c - j = 0
    BY <1>5, <2>1, <2>2, SMT
  <2> QED BY <1>4, <2>3, SMT
<1>7. Len(prog.phdrs) \in Nat
  BY SMT DEF Executable
<1>8. PICK k \in Nat : k = n - 2 /\ k + 1 = n - 1 /\ k + 1 \in Nat /\ k + 1 <= Len(prog.phdrs)
  BY <1>2, <1>7, SMT
<1>9. p.type = "PT_LOAD"
  BY <1>2, Zenon DEF Valid
<1>10. Done(prog, k + 1) = Done(prog, k) \cup {k + 1}
  BY <1>1, <1>8, <1>9, DoneMore, ZenonT(60)
<1>11. MapIs(map, prog, k, {v \in UserVPages : IsIn(v, p, c)}) /\ InMap(p, c, map) /\ p = prog.phdrs[k + 1]
  BY <1>1, <1>2, <1>6, <1>8, Zenon
<1> QED BY <1>2, <1>3, <1>8, <1>10, <1>11, Zenon DEF MapIs

\* The last page of a valid segment, as SegmentPages() has it.
LEMMA PagesOfSegment ==
  ASSUME NEW prog \in Executable, NEW p, Valid(p, prog), NEW v \in Nat
  PROVE  v \in SegmentPages(p) <=> IsIn(v, p, PageCount(p))
<1>1. p \in Elf32_Phdr /\ validate_segment(p, prog.length) /\ prog.length \in Nat
  BY Zenon DEF Valid, Executable
<1>2. PICK q, o, n, b \in Nat : Numbers(p, q, o, n, b)
  BY <1>1, SegmentNumbers, Zenon
<1>3. PICK P, ms, va : P = PageSize /\ ms = p.memsz /\ va = p.vaddr
  BY Zenon
<1>4. P \in Nat \ {0} /\ ms \in Nat
  BY <1>1, <1>3, SpaceNumbers, SMT DEF Elf32_Phdr, Elf32_Word
<1>5. /\ q = FirstPage(p) /\ n = PageCount(p) /\ va = P * q + o /\ o < P
      /\ P * n < o + ms + P /\ o + ms <= P * n /\ ms > 0
  BY <1>2, <1>3, Zenon DEF Numbers
<1>6. PICK m \in Nat : m + 1 = n /\ P * n = P * m + P
  <2>1. n # 0
    <3>1. n = 0 => P * n = 0
      BY <1>4, SMT
    <3> QED BY SMTT(60), <1>4, <1>5, <3>1, SMT
  <2>2. n - 1 \in Nat /\ (n - 1) + 1 = n
    BY <2>1, SMT
  <2>3. PICK m \in Nat : m + 1 = n
    BY <2>2, Zenon
  <2>4. P * n = P * m + P
    BY <1>4, <2>3, SMT
  <2> QED BY <2>3, <2>4, Zenon
<1>7. (va + ms - 1) \div P = q + m
  <2>1. PICK x \in Nat, y \in Nat : x = P * m /\ y = P * q
    BY <1>4, SMT
  <2>2. P * (q + m) = y + x /\ q + m \in Nat
    BY <1>4, <2>1, SMT
  <2>3. x + P < o + ms + P /\ o + ms <= x + P /\ va = y + o
    BY <1>5, <1>6, <2>1, Zenon
  <2>4. PICK t \in Nat : t = o + ms - 1 - x
    BY SMTT(60), <1>4, <2>1, <2>3, SMT
  <2>5. t < P /\ va + ms - 1 = (y + x) + t
    BY SMTT(60), <1>4, <1>5, <2>1, <2>3, <2>4, SMT
  <2>6. PICK w : w = va + ms - 1
    BY Zenon
  <2>7. Splits(w, P, q + m, t)
    BY <2>2, <2>5, <2>6, Zenon DEF Splits
  <2> QED BY <1>4, <2>2, <2>6, <2>7, DivisionIs, Zenon
<1>8. SegmentPages(p) = q .. q + m
  BY <1>3, <1>5, <1>7, Zenon DEF SegmentPages, FirstPage, pg_no
<1>9. v \in q .. q + m <=> q <= v /\ v < q + n
  BY <1>6, SMT
<1> QED BY <1>5, <1>8, <1>9, Zenon DEF IsIn

\* Where byte k of a segment is: t bytes into page j of it.
HasByte(P, q, o, n, ms, k, a) == k < ms /\ o + ms <= P * n /\ a = P * q + o + k
ByteIs(P, q, o, n, k, a, j, t) ==
  j < n /\ t < P /\ o + k = P * j + t /\ a \div P = q + j /\ a % P = t
\* Each byte of a segment is in one of its pages.
LEMMA ByteIn ==
  ASSUME NEW P \in Nat \ {0}, NEW q \in Nat, NEW o \in Nat, NEW n \in Nat, NEW ms \in Nat, NEW k \in Nat,
         NEW a, HasByte(P, q, o, n, ms, k, a)
  PROVE  \E j, t \in Nat : ByteIs(P, q, o, n, k, a, j, t)
<1>0. k < ms /\ o + ms <= P * n /\ a = P * q + o + k
  BY Zenon DEF HasByte
<1>1. PICK x \in Nat : x = o + k
  BY SMT
<1>2. PICK j, t \in Nat : t < P /\ x = P * j + t
  <2>1. PICK j, t : j = x \div P /\ t = x % P
    BY Zenon
  <2>2. j \in Nat /\ t \in Nat /\ t < P /\ x = P * j + t
    BY <1>1, <2>1, Division, Zenon
  <2> QED BY <2>2, Zenon
<1>3. j < n
  <2>1. ASSUME n <= j PROVE FALSE
    <3>1. P * n <= P * j
      BY <1>2, <2>1, SMT
    <3>2. PICK y, z \in Nat : y = P * n /\ z = P * j
      BY <1>2, SMT
    <3>3. y <= z /\ x = z + t /\ o + ms <= y
      BY <1>0, <1>2, <3>1, <3>2, Zenon
    <3> QED BY SMTT(60), <1>0, <1>1, <1>2, <3>2, <3>3, SMT
  <2> QED BY <1>2, <2>1, SMT
<1>4. P * (q + j) = P * q + P * j /\ q + j \in Nat
  BY <1>2, SMT
<1>5. PICK y, z \in Nat : y = P * q /\ z = P * j
  BY <1>2, SMT
<1>6. a = y + o + k /\ x = z + t
  BY <1>0, <1>2, <1>5, Zenon
<1>7. a = (y + z) + t
  BY <1>1, <1>2, <1>5, <1>6, SMT
<1>8. a = P * (q + j) + t
  BY <1>4, <1>5, <1>7, Zenon
<1>9. a \div P = q + j /\ a % P = t
  <2>1. Splits(a, P, q + j, t)
    BY <1>2, <1>8, Zenon DEF Splits
  <2> QED BY <1>2, <1>4, <2>1, DivisionIs, Zenon
<1>10. ByteIs(P, q, o, n, k, a, j, t)
  BY <1>1, <1>2, <1>3, <1>9, Zenon DEF ByteIs
<1> QED BY <1>2, <1>10, Zenon

\* Byte k of a segment, in an entry as EntryRight() has it.
EntryReads(P, o, k, j, t, fs, of, b, read, ofs) ==
  /\ t < P /\ o + k = P * j + t /\ o <= of /\ b = (IF fs > 0 THEN o + fs ELSE 0)
  /\ read = (LET r == b - P * j IN IF r < 0 THEN 0 ELSE IF r < P THEN r ELSE P)
  /\ read > 0 => ofs = (of - o) + P * j
SameByte(t, read, ofs, k, fs, of) == (t < read <=> k < fs) /\ (k < fs => ofs + t = of + k)
\* What a page read has the byte of the file, or zero past p_filesz.
LEMMA ByteOf ==
  ASSUME NEW P \in Nat \ {0}, NEW o \in Nat, NEW k \in Nat, NEW j \in Nat, NEW t \in Nat,
         NEW fs \in Nat, NEW of \in Nat, NEW b, NEW read, NEW ofs,
         EntryReads(P, o, k, j, t, fs, of, b, read, ofs)
  PROVE  SameByte(t, read, ofs, k, fs, of)
<1>1. PICK y \in Nat : y = P * j
  BY SMT
<1>2. /\ t < P /\ o <= of /\ b = (IF fs > 0 THEN o + fs ELSE 0)
      /\ o + k = y + t /\ read = (LET r == b - y IN IF r < 0 THEN 0 ELSE IF r < P THEN r ELSE P)
      /\ read > 0 => ofs = (of - o) + y
  BY <1>1, Zenon DEF EntryReads
<1>3. b \in Nat /\ read \in Nat
  BY SMTT(60), <1>1, <1>2, SMT
<1>4. t < read <=> k < fs
  BY SMTT(60), <1>1, <1>2, <1>3, SMT
<1>5. k < fs => read > 0
  BY SMTT(60), <1>3, <1>4, SMT
<1>6. k < fs => ofs + t = of + k
  BY <1>1, <1>2, <1>5, SMT
<1> QED BY <1>4, <1>6, Zenon DEF SameByte

\* A segment in the map has the bytes of its file.
LEMMA BytesRight ==
  ASSUME NEW prog \in Executable, NEW p, Valid(p, prog), NEW map, InMap(p, PageCount(p), map),
         NEW k \in 0 .. p.memsz - 1, NEW e, e = map[pg_no(p.vaddr + k)], NEW t, t = (p.vaddr + k) % PageSize
  PROVE  SameByte(t, e.data.read, e.data.ofs, k, p.filesz, p.offset)
<1>1. p \in Elf32_Phdr /\ validate_segment(p, prog.length) /\ prog.length \in Nat
  BY Zenon DEF Valid, Executable
<1>2. PICK q, o, n, b \in Nat : Numbers(p, q, o, n, b)
  BY <1>1, SegmentNumbers, Zenon
<1>3. PICK P, ms, fs, of : P = PageSize /\ ms = p.memsz /\ fs = p.filesz /\ of = p.offset
  BY Zenon
<1>4. P \in Nat \ {0} /\ ms \in Nat /\ fs \in Nat /\ of \in Nat
  BY SMTT(60), <1>1, <1>3, SpaceNumbers, SMT DEF Elf32_Phdr, Elf32_Word
<1>5. k \in Nat /\ k < ms
  BY <1>3, <1>4, SMT
<1>6. /\ q = FirstPage(p) /\ n = PageCount(p) /\ p.vaddr = P * q + o /\ o <= of
      /\ b = (IF fs > 0 THEN o + fs ELSE 0) /\ o + ms <= P * n
      /\ Segment(p).ofs = of - o /\ Segment(p).read = b
  BY <1>2, <1>3, Zenon DEF Numbers
<1>7. PICK a : a = P * q + o + k
  BY Zenon
<1>8. a = p.vaddr + k
  <2>1. PICK y \in Nat : y = P * q
    BY <1>4, SMT
  <2>2. a = y + o + k /\ p.vaddr = y + o
    BY <1>6, <1>7, <2>1, Zenon
  <2> QED BY SMTT(60), <1>5, <2>1, <2>2, SMT
<1>9. PICK j, u \in Nat : j < n /\ u < P /\ o + k = P * j + u /\ a \div P = q + j /\ a % P = u
  <2>1. HasByte(P, q, o, n, ms, k, a)
    BY <1>5, <1>6, <1>7, Zenon DEF HasByte
  <2>2. PICK j, u \in Nat : ByteIs(P, q, o, n, k, a, j, u)
    BY <1>4, <1>5, <2>1, ByteIn, Zenon
  <2> QED BY <2>2, Zenon DEF ByteIs
<1>10. u = t /\ e = map[FirstPage(p) + j]
  BY <1>3, <1>6, <1>8, <1>9, Zenon DEF pg_no
<1>11. EntryRight(p, j, e)
  BY <1>6, <1>9, <1>10, Zenon DEF InMap
<1>12. PICK read, ofs : read = e.data.read /\ ofs = e.data.ofs
  BY Zenon
<1>13. /\ read = (LET r == b - P * j IN IF r < 0 THEN 0 ELSE IF r < P THEN r ELSE P)
       /\ read > 0 => ofs = (of - o) + P * j
  BY <1>3, <1>6, <1>11, <1>12, Zenon DEF EntryRight
<1>14. SameByte(u, read, ofs, k, fs, of)
  <2>1. b = IF fs > 0 THEN o + fs ELSE 0
    BY <1>6, Zenon
  <2>2. u < P /\ o + k = P * j + u /\ o <= of
    BY <1>6, <1>9, Zenon
  <2>3. EntryReads(P, o, k, j, u, fs, of, b, read, ofs)
    BY <1>13, <2>1, <2>2, Zenon DEF EntryReads
  <2> QED BY <1>4, <1>5, <2>3, ByteOf, Zenon
<1> QED BY <1>3, <1>10, <1>12, <1>14, Zenon

\* A map that is right holds the segments.
LEMMA MapHolds ==
  ASSUME NEW s \in Spaces, NEW esp, program[s] \in Executable,
         MapIs(ptes[s], program[s], Len(program[s].phdrs), {StackPage})
  PROVE  HoldsSegments(s, esp)
<1>1. PICK prog, map : prog \in Executable /\ prog = program[s] /\ map = ptes[s]
  BY Zenon
<1>2. PICK N : N = Len(prog.phdrs)
  BY Zenon
<1>3. MapIs(map, prog, N, {StackPage})
  BY <1>1, <1>2, Zenon
<1>4. Segments(s) = {prog.phdrs[i] : i \in Done(prog, N)}
  BY <1>1, <1>2, Zenon DEF Segments, Done
<1>5. ASSUME NEW p \in Segments(s) PROVE Valid(p, prog) /\ InMap(p, PageCount(p), map)
  BY <1>3, <1>4, <1>5, Zenon DEF MapIs
<1>6. UserVPages \subseteq Nat
  BY WholePages, SMT DEF UserVPages
<1>7. ASSUME NEW p \in Segments(s), NEW v \in SegmentPages(p)
      PROVE  v \in UserVPages /\ map[v] # NoPage /\ map[v].writable = p.writable
  <2>1. Valid(p, prog) /\ InMap(p, PageCount(p), map)
    BY <1>5, Zenon
  <2>2. FirstPage(p) \in Nat /\ PageCount(p) \in Nat
    BY <1>1, <2>1, SegmentBelow, Zenon
  <2>3. v \in Nat
    <3>1. SegmentPages(p) = FirstPage(p) .. pg_no(p.vaddr + p.memsz - 1)
      BY Zenon DEF SegmentPages, FirstPage
    <3> QED BY <2>2, <3>1, SMT
  <2>4. IsIn(v, p, PageCount(p))
    BY <1>1, <2>1, <2>3, PagesOfSegment, Zenon
  <2>5. PICK f, c : f = FirstPage(p) /\ c = PageCount(p)
    BY Zenon
  <2>6. f <= v /\ v < f + c
    BY <2>4, <2>5, Zenon DEF IsIn
  <2>7. PICK j \in Nat : j < c /\ f + j = v
    <3>1. v - f \in Nat /\ v - f < c /\ f + (v - f) = v
      BY SMTT(60), <2>2, <2>3, <2>5, <2>6, SMT
    <3> QED BY <3>1, Zenon
  <2>8. EntryRight(p, j, map[v]) /\ v \in UserVPages
    BY <1>1, <2>1, <2>5, <2>7, SegmentBelow, Zenon DEF InMap
  <2> QED BY <2>8, Zenon DEF EntryRight
<1>8. ASSUME NEW p \in Segments(s), NEW k \in 0 .. p.memsz - 1
      PROVE  ByteAt(s, p.vaddr + k) = IF k < p.filesz THEN <<"file", p.offset + k>> ELSE <<"zero", 0>>
  <2>1. PICK e, t : e = map[pg_no(p.vaddr + k)] /\ t = (p.vaddr + k) % PageSize
    BY Zenon
  <2>2. SameByte(t, e.data.read, e.data.ofs, k, p.filesz, p.offset)
    BY <1>1, <1>5, <2>1, BytesRight, Zenon
  <2>3. ByteAt(s, p.vaddr + k) = IF t < e.data.read THEN <<"file", e.data.ofs + t>> ELSE <<"zero", 0>>
    BY <1>1, <2>1, Zenon DEF ByteAt
  <2> QED BY <2>2, <2>3, Zenon DEF SameByte
<1>9. {v \in UserVPages : map[v] # NoPage} = (UNION {SegmentPages(p) : p \in Segments(s)}) \cup {StackPage}
  <2>1. ASSUME NEW v \in UserVPages
        PROVE  map[v] # NoPage <=> v = StackPage \/ \E p \in Segments(s) : v \in SegmentPages(p)
    <3>1. map[v] # NoPage <=> v \in {StackPage} \/ \E i \in Done(prog, N) : IsIn(v, prog.phdrs[i], PageCount(prog.phdrs[i]))
      BY <1>3, Zenon DEF MapIs
    <3>2. (\E i \in Done(prog, N) : IsIn(v, prog.phdrs[i], PageCount(prog.phdrs[i])))
            <=> \E p \in Segments(s) : IsIn(v, p, PageCount(p))
      BY <1>4, Zenon
    <3>3. \A p \in Segments(s) : v \in SegmentPages(p) <=> IsIn(v, p, PageCount(p))
      BY <1>1, <1>5, <1>6, PagesOfSegment, Zenon
    <3> QED BY <3>1, <3>2, <3>3, Zenon
  <2>2. StackPage \in UserVPages /\ \A p \in Segments(s) : SegmentPages(p) \subseteq UserVPages
    BY <1>7, WholePages, Zenon
  <2>3. PICK L, R : L = {v \in UserVPages : map[v] # NoPage}
                    /\ R = (UNION {SegmentPages(p) : p \in Segments(s)}) \cup {StackPage}
    BY Zenon
  <2>4. \A v : v \in R <=> v = StackPage \/ \E p \in Segments(s) : v \in SegmentPages(p)
    <3>1. PICK G, C : G = Segments(s) /\ C = {SegmentPages(p) : p \in G}
      BY Zenon
    <3>2. R = (UNION C) \cup {StackPage}
      BY <2>3, <3>1, Zenon
    <3>3. \A v : v \in UNION C <=> \E p \in G : v \in SegmentPages(p)
      <4>1. ASSUME NEW v, v \in UNION C PROVE \E p \in G : v \in SegmentPages(p)
        <5>1. PICK x \in C : v \in x
          BY <4>1, Zenon
        <5> QED BY <3>1, <5>1, Zenon
      <4>2. ASSUME NEW v, NEW p \in G, v \in SegmentPages(p) PROVE v \in UNION C
        <5>1. SegmentPages(p) \in C
          BY <3>1, Zenon
        <5> QED BY <4>2, <5>1, Zenon
      <4> QED BY <4>1, <4>2, Zenon
    <3>4. \A v : v \in R <=> v \in UNION C \/ v = StackPage
      BY <3>2, Zenon
    <3>5. \A v : v \in R <=> v = StackPage \/ \E p \in G : v \in SegmentPages(p)
      BY <3>3, <3>4, Zenon
    <3> QED BY <3>1, <3>5, Zenon
  <2>5. \A v : v \in L <=> v \in UserVPages /\ map[v] # NoPage
    BY <2>3, Zenon
  <2>6. \A v : v \in L <=> v \in R
    BY <2>1, <2>2, <2>4, <2>5, Zenon
  <2>7. L = R
    BY <2>6, Zenon
  <2> QED BY <2>3, <2>7, Zenon
<1> QED BY <1>1, <1>7, <1>8, <1>9, Zenon DEF HoldsSegments

EmptyMap(map) == \A v \in UserVPages : map[v] = NoPage
StackOf(w) == [words |-> w, layout |-> StackLayout(w)]
StackTypes == stack \in [Spaces -> {NoPage} \cup {StackOf(w) : w \in Words}]

\* What is so of a process at pc, alone if no other was started together with it.
Right(pc, prog, n, seg, map, st, alone) ==
  /\ pc \in {"none", "start", "activate"} => n = 1
  /\ pc = "activate" => EmptyMap(map)
  /\ alone /\ pc = "run" => \E w \in Words : st = StackOf(w)
  /\ alone => LoadState(pc, prog, n, seg, map)

LoadRight(s) == Right(space_pc[s], program[s], phdr[s], todo[s], ptes[s], stack[s], s \notin mixed)
LoadInv == StackTypes /\ \A s \in Spaces : LoadRight(s)

\* The steps of one process.
StepOf(s) ==
  \/ pagedir_create(s) \/ LoadOpen(s) \/ ProgramHeader(s) \/ SegmentPage(s) \/ SegmentRead(s)
  \/ SegmentInstall(s) \/ StackGet(s) \/ StackInstall(s) \/ UserExits(s) \/ ExitForget(s)
  \/ ExitDeactivate(s) \/ DestroyDirectory(s) \/ \E i \in Tables : DestroyTable(s, i)
  \/ process_execute(s) \/ LoadPanics(s) \/ StackWords(s)

\* A process that a step leaves alone.
Untouched(t) ==
  /\ space_pc'[t] = space_pc[t] /\ program'[t] = program[t] /\ phdr'[t] = phdr[t] /\ todo'[t] = todo[t]
  /\ ptes'[t] = ptes[t] /\ stack'[t] = stack[t] /\ (t \in mixed => t \in mixed')

\* What is so of a process stays so while it is left alone.
LEMMA UntouchedRight ==
  ASSUME NEW t, LoadRight(t), Untouched(t)
  PROVE  LoadRight(t)'
<1>1. PICK pc, prog, n, seg, map, st :
        /\ pc = space_pc[t] /\ prog = program[t] /\ n = phdr[t] /\ seg = todo[t] /\ map = ptes[t] /\ st = stack[t]
  BY Zenon
<1>2. /\ pc = space_pc'[t] /\ prog = program'[t] /\ n = phdr'[t] /\ seg = todo'[t] /\ map = ptes'[t]
      /\ st = stack'[t] /\ (t \notin mixed' => t \notin mixed)
  BY <1>1, Zenon DEF Untouched
<1>3. Right(pc, prog, n, seg, map, st, t \notin mixed)
  BY <1>1, Zenon DEF LoadRight
<1>4. Right(pc, prog, n, seg, map, st, t \notin mixed')
  BY <1>2, <1>3, Zenon DEF Right
<1>5. LoadRight(t)' <=> Right(space_pc'[t], program'[t], phdr'[t], todo'[t], ptes'[t], stack'[t], t \notin mixed')
  BY Zenon DEF LoadRight
<1> QED BY <1>2, <1>4, <1>5, Zenon

\* A step of one process leaves the others alone.
LEMMA OthersUntouched ==
  ASSUME SpaceTypes, StackTypes, NEW s \in Spaces, NEW t \in Spaces, s # t, StepOf(s)
  PROVE  Untouched(t)
<1>1. /\ space_pc \in [Spaces -> SpaceLabels] /\ phdr \in [Spaces -> Nat \ {0}]
      /\ todo \in [Spaces -> LeftToLoad] /\ ptes \in [Spaces -> [UserVPages -> SomeEntry]]
      /\ stack \in [Spaces -> {NoPage} \cup {StackOf(w) : w \in Words}]
  BY SpaceTypeParts, Zenon DEF StackTypes
<1>2. ASSUME NEW w, Then(s, w) PROVE space_pc'[t] = space_pc[t]
  BY <1>1, <1>2, Zenon DEF Then
<1>3. ASSUME NEW v, NEW e, install_page(s, v, e) PROVE ptes'[t] = ptes[t]
  BY <1>1, <1>3, Zenon DEF install_page
<1>4. CASE LoadOpen(s)
  <2>1. UNCHANGED <<program, phdr, todo, ptes, stack, mixed>>
    BY <1>4, Zenon DEF LoadOpen
  <2>2. \E w : Then(s, w)
    BY <1>4, Zenon DEF LoadOpen
  <2> QED BY <1>2, <2>1, <2>2, Zenon DEF Untouched
<1>5. CASE ProgramHeader(s)
  <2>1. UNCHANGED <<program, ptes, stack, mixed>>
    BY <1>5, HeaderSteps, Zenon
  <2>2. \/ UNCHANGED <<phdr, todo>> /\ Then(s, "stack_page")
        \/ \E p : OneHeader(s, p)
    BY <1>5, HeaderSteps, Zenon
  <2>3. phdr'[t] = phdr[t] /\ todo'[t] = todo[t]
    BY <1>1, <2>2, Zenon DEF OneHeader
  <2>4. (\E w : Then(s, w)) \/ UNCHANGED space_pc
    BY <2>2, Zenon DEF OneHeader
  <2> QED BY <1>2, <2>1, <2>3, <2>4, Zenon DEF Untouched
<1>6. CASE SegmentInstall(s)
  <2>1. UNCHANGED <<program, phdr, stack, mixed>>
    BY <1>6, Zenon DEF SegmentInstall
  <2>2. todo'[t] = todo[t]
    BY <1>1, <1>6, Zenon DEF SegmentInstall
  <2>3. \E w : Then(s, w)
    BY <1>6, Zenon DEF SegmentInstall, InstallFails
  <2>4. ptes'[t] = ptes[t]
    BY <1>3, <1>6, Zenon DEF SegmentInstall, InstallFails
  <2> QED BY <1>2, <2>1, <2>2, <2>3, <2>4, Zenon DEF Untouched
<1>7. CASE StackInstall(s)
  <2>1. UNCHANGED <<program, phdr, todo, mixed>>
    BY <1>7, Zenon DEF StackInstall
  <2>2. stack'[t] = stack[t]
    BY <1>7, Zenon DEF StackInstall
  <2>3. \E w : Then(s, w)
    BY <1>7, Zenon DEF StackInstall, InstallFails
  <2>4. ptes'[t] = ptes[t]
    BY <1>3, <1>7, Zenon DEF StackInstall, InstallFails
  <2> QED BY <1>2, <2>1, <2>2, <2>3, <2>4, Zenon DEF Untouched
<1>8. CASE UserExits(s)
  <2>1. UNCHANGED <<program, phdr, todo, ptes, mixed>> /\ \E w : Then(s, w)
    BY <1>8, Zenon DEF UserExits
  <2>2. stack'[t] = stack[t]
    BY <1>1, <1>8, Zenon DEF UserExits
  <2> QED BY <1>2, <2>1, <2>2, Zenon DEF Untouched
<1>9. CASE \E i \in Tables : DestroyTable(s, i)
  <2>1. UNCHANGED <<space_pc, program, phdr, todo, stack, mixed>>
    BY <1>9, Zenon DEF DestroyTable
  <2>2. PICK m : ptes' = [ptes EXCEPT ![s] = m]
    BY <1>9, Zenon DEF DestroyTable
  <2>3. ptes'[t] = ptes[t]
    BY <1>1, <2>2, Zenon
  <2> QED BY <2>1, <2>3, Zenon DEF Untouched
<1>10. CASE \/ pagedir_create(s) \/ SegmentPage(s) \/ SegmentRead(s) \/ StackGet(s)
            \/ ExitForget(s) \/ ExitDeactivate(s) \/ DestroyDirectory(s)
  <2>1. UNCHANGED <<program, phdr, todo, ptes, stack, mixed>>
    BY <1>10, Zenon DEF pagedir_create, SegmentPage, SegmentRead, StackGet, ExitForget, ExitDeactivate,
                       DestroyDirectory
  <2>2. \E w : Then(s, w)
    BY <1>10, Zenon DEF pagedir_create, SegmentPage, SegmentRead, StackGet, ExitForget, ExitDeactivate,
                       DestroyDirectory
  <2> QED BY <1>2, <2>1, <2>2, Zenon DEF Untouched
<1>11. CASE process_execute(s)
  <2>1. UNCHANGED <<program, phdr, todo, ptes, stack>> /\ Then(s, "start")
    BY <1>11, Zenon DEF process_execute
  <2>2. t \in mixed => t \in mixed'
    BY <1>11, Zenon DEF process_execute
  <2> QED BY <1>2, <2>1, <2>2, Zenon DEF Untouched
<1>12. CASE LoadPanics(s)
  BY <1>12, Zenon DEF LoadPanics, Untouched
<1>13. CASE StackWords(s)
  <2>1. UNCHANGED <<program, phdr, todo, ptes, mixed>>
    BY <1>13, Zenon DEF StackWords
  <2>2. Then(s, "run") \/ UNCHANGED space_pc
    BY <1>13, Zenon DEF StackWords
  <2>3. UNCHANGED stack \/ \E x : stack' = [stack EXCEPT ![s] = x]
    BY <1>13, Zenon DEF StackWords
  <2>4. stack'[t] = stack[t]
    BY <1>1, <2>3, Zenon
  <2> QED BY <1>2, <2>1, <2>2, <2>4, Zenon DEF Untouched
<1> QED BY <1>4, <1>5, <1>6, <1>7, <1>8, <1>9, <1>10, <1>11, <1>12, <1>13, Zenon DEF StepOf

\* LoadRight() says so of the values of a process, now and next.
LEMMA RightParts ==
  ASSUME NEW s
  PROVE  /\ LoadRight(s) <=> Right(space_pc[s], program[s], phdr[s], todo[s], ptes[s], stack[s], s \notin mixed)
         /\ LoadRight(s)' <=> Right(space_pc'[s], program'[s], phdr'[s], todo'[s], ptes'[s], stack'[s], s \notin mixed')
  BY Zenon DEF LoadRight

\* A process that does not load and has not begun.
LEMMA RightElsewhere ==
  ASSUME NEW pc \in {"exit", "deactivate", "destroy", "dead"}, NEW prog, NEW n, NEW seg, NEW map, NEW st, NEW alone
  PROVE  Right(pc, prog, n, seg, map, st, alone)
  BY Zenon DEF Right, LoadState

\* A process that starts has mapped nothing for its executable.
LEMMA RightStart ==
  ASSUME NEW pc \in {"none", "start"}, NEW prog, NEW seg, NEW map, NEW st, NEW alone
  PROVE  Right(pc, prog, 1, seg, map, st, alone)
  BY Zenon DEF Right, LoadState

\* process_execute() reads the command line of a process that has not begun.
LEMMA ExecuteRight ==
  ASSUME SpaceInv, NEW s \in Spaces, LoadRight(s), process_execute(s)
  PROVE  LoadRight(s)'
<1>1. space_pc[s] = "none" /\ Then(s, "start") /\ UNCHANGED phdr
  BY Zenon DEF process_execute
<1>2. space_pc'[s] = "start"
  BY <1>1, SpaceParts, SpaceTypeParts, Zenon DEF Then
<1>3. phdr'[s] = 1
  BY <1>1, RightParts, Zenon DEF Right
<1> QED BY <1>2, <1>3, RightStart, RightParts, Zenon

\* When the kernel stops, nothing changes any more.
LEMMA PanicRight ==
  ASSUME NEW s \in Spaces, LoadRight(s), LoadPanics(s)
  PROVE  LoadRight(s)'
<1>1. Untouched(s)
  BY Zenon DEF LoadPanics, Untouched
<1> QED BY <1>1, UntouchedRight, Zenon

\* A process without a directory maps nothing.
LEMMA NothingMapped ==
  ASSUME SpaceInv, NEW s \in Spaces, space_pc[s] = "start"
  PROVE  EmptyMap(ptes[s])
<1>1. HasPages(s)
  BY SpaceParts, Zenon
<1>2. pagedir[s] = NoPage /\ dying[s] = NoPage
  BY <1>1, Zenon DEF HasPages
<1>3. \A i \in Tables : tables[s][i] = NoPage
  BY <1>1, <1>2, Zenon DEF HasPages
<1> QED BY <1>1, <1>3, Zenon DEF HasPages, Tables, EmptyMap

\* pagedir_create() and LoadOpen(): nothing is mapped yet.
LEMMA CreateRight ==
  ASSUME SpaceInv, NEW s \in Spaces, LoadRight(s), pagedir_create(s)
  PROVE  LoadRight(s)'
<1>1. space_pc[s] = "start" /\ UNCHANGED <<program, phdr, todo, ptes, stack, mixed>>
  BY Zenon DEF pagedir_create, RunsAt
<1>2. space_pc \in [Spaces -> SpaceLabels]
  BY SpaceParts, SpaceTypeParts, Zenon
<1>3. phdr[s] = 1
  BY <1>1, RightParts, Zenon DEF Right
<1>4. space_pc'[s] = "exit" \/ space_pc'[s] = "activate"
  BY <1>2, Zenon DEF pagedir_create, Then
<1>5. CASE space_pc'[s] = "exit"
  BY <1>5, RightElsewhere, RightParts, Zenon
<1>6. CASE space_pc'[s] = "activate"
  <2>1. EmptyMap(ptes[s])
    BY <1>1, NothingMapped, Zenon
  <2>2. Right("activate", program'[s], 1, todo'[s], ptes[s], stack'[s], s \notin mixed')
    BY <2>1, Zenon DEF Right, LoadState
  <2> QED BY <1>1, <1>3, <1>6, <2>2, RightParts, Zenon
<1> QED BY <1>4, <1>5, <1>6, Zenon

\* LoadOpen() leaves the map empty.
LEMMA OpenRight ==
  ASSUME SpaceInv, NEW s \in Spaces, LoadRight(s), LoadOpen(s)
  PROVE  LoadRight(s)'
<1>1. space_pc[s] = "activate" /\ UNCHANGED <<program, phdr, todo, ptes, stack>>
  BY Zenon DEF LoadOpen, RunsAt
<1>2. space_pc \in [Spaces -> SpaceLabels] /\ program[s] \in Executable
  BY SpaceParts, SpaceTypeParts, Zenon
<1>3. phdr[s] = 1 /\ EmptyMap(ptes[s])
  BY <1>1, RightParts, Zenon DEF Right
<1>4. space_pc'[s] = "exit" \/ space_pc'[s] = "phdr"
  <2>1. PICK w \in {"phdr", "exit"} : Then(s, w)
    BY OpenSteps, Zenon
  <2> QED BY <1>2, <2>1, Zenon DEF Then
<1>5. CASE space_pc'[s] = "exit"
  BY <1>5, RightElsewhere, RightParts, Zenon
<1>6. CASE space_pc'[s] = "phdr"
  <2>1. MapIs(ptes[s], program[s], 0, {})
    BY <1>2, <1>3, NoneDone, Zenon DEF EmptyMap
  <2>2. 1 - 1 = 0
    BY SMT
  <2>3. Right("phdr", program[s], 1, todo'[s], ptes[s], stack'[s], s \notin mixed')
    BY <2>1, <2>2, Zenon DEF Right, LoadState
  <2> QED BY <1>1, <1>3, <1>6, <2>3, RightParts, Zenon
<1> QED BY <1>4, <1>5, <1>6, Zenon

\* The loop over the headers.
LEMMA HeaderRight ==
  ASSUME SpaceInv, NEW s \in Spaces, LoadRight(s), ProgramHeader(s)
  PROVE  LoadRight(s)'
<1>1. space_pc[s] = "phdr" /\ UNCHANGED <<program, ptes, stack, mixed>>
  BY Zenon DEF ProgramHeader, RunsAt
<1>2. /\ space_pc \in [Spaces -> SpaceLabels] /\ program[s] \in Executable /\ phdr \in [Spaces -> Nat \ {0}]
      /\ todo \in [Spaces -> LeftToLoad]
  BY SpaceParts, SpaceTypeParts, Zenon
<1>3. PICK prog, n, map : prog = program[s] /\ n = phdr[s] /\ map = ptes[s]
  BY Zenon
<1>4. s \notin mixed => MapIs(map, prog, n - 1, {})
  BY <1>1, <1>3, RightParts, Zenon DEF Right, LoadState
<1>5. Len(prog.phdrs) \in Nat
  BY SMTT(60), <1>2, <1>3, SMT DEF Executable
<1>6. PICK k \in Nat : k = n - 1 /\ k + 1 = n /\ k + 2 = n + 1 /\ (n + 1) - 1 = k + 1
  BY <1>2, <1>3, SMT
<1>9. PICK c \in Counts(s) :
        \/ phdr[s] > c /\ Then(s, "stack_page") /\ UNCHANGED <<phdr, todo>>
        \/ ~(phdr[s] > c) /\ file # NoPage /\ \E p \in HeadersRead(s) : OneHeader(s, p)
  BY HeaderSteps, Zenon
<1>10. s \notin mixed => c = Len(prog.phdrs)
  BY <1>3, Zenon DEF Counts, Lines
<1>7. CASE phdr[s] > c /\ Then(s, "stack_page") /\ UNCHANGED <<phdr, todo>>
  <2>1. Then(s, "stack_page") /\ UNCHANGED <<phdr, todo>>
    BY <1>7, Zenon
  <2>2. space_pc'[s] = "stack_page"
    BY <1>2, <2>1, Zenon DEF Then
  <2>3. s \notin mixed => k = Len(prog.phdrs)
    <3>1. s \notin mixed => k <= Len(prog.phdrs)
      BY <1>4, <1>6, Zenon DEF MapIs
    <3>2. s \notin mixed => n > Len(prog.phdrs)
      BY <1>3, <1>7, <1>10, Zenon
    <3> QED BY SMTT(60), <1>5, <1>6, <3>1, <3>2, SMT
  <2>4. Right("stack_page", prog, n, todo[s], map, stack[s], s \notin mixed)
    BY <1>4, <1>6, <2>3, Zenon DEF Right, LoadState
  <2> QED BY <1>1, <1>3, <2>1, <2>2, <2>4, RightParts, Zenon
<1>8. CASE ~(phdr[s] > c) /\ file # NoPage /\ \E p \in HeadersRead(s) : OneHeader(s, p)
  <2>1. PICK p \in HeadersRead(s) : OneHeader(s, p)
    BY <1>8, Zenon
  <2>2. s \notin mixed => p = prog.phdrs[k + 1] /\ file = prog
    <3>1. s \notin mixed => file = prog
      BY <1>1, <1>3, SpaceParts, Zenon DEF OwnFile, FileLabels
    <3> QED BY <1>3, <1>6, <2>1, <3>1, Zenon DEF HeadersRead
  <2>3. s \notin mixed => k + 1 <= Len(prog.phdrs)
    <3>1. s \notin mixed => ~(n > Len(prog.phdrs))
      BY <1>3, <1>8, <1>10, Zenon
    <3> QED BY SMTT(60), <1>5, <1>6, <3>1, SMT
  <2>4. CASE p.type = "ignored"
    <3>1. phdr' = [phdr EXCEPT ![s] = n + 1] /\ UNCHANGED <<space_pc, todo>>
      BY <1>3, <2>1, <2>4, Zenon DEF OneHeader
    <3>2. phdr'[s] = n + 1
      BY <1>2, <3>1, Zenon
    <3>3. s \notin mixed => MapIs(map, prog, k + 1, {})
      BY <1>4, <1>6, <2>2, <2>3, <2>4, IgnoredKept, Zenon
    <3>4. Right("phdr", prog, n + 1, todo[s], map, stack[s], s \notin mixed)
      BY <1>6, <3>3, Zenon DEF Right, LoadState
    <3> QED BY <1>1, <1>3, <3>1, <3>2, <3>4, RightParts, Zenon
  <2>5. CASE p.type = "PT_LOAD" /\ validate_segment(p, file.length)
    <3>1. /\ phdr' = [phdr EXCEPT ![s] = n + 1] /\ todo' = [todo EXCEPT ![s] = Segment(p)] /\ Then(s, "page")
      BY <1>3, <2>1, <2>5, Zenon DEF OneHeader
    <3>2. phdr'[s] = n + 1 /\ todo'[s] = Segment(p) /\ space_pc'[s] = "page"
      BY <1>2, <3>1, Zenon DEF Then
    <3>3. s \notin mixed => Valid(prog.phdrs[k + 1], prog)
      <4>1. p \in Elf32_Phdr
        BY <1>1, <1>8, <2>1, HeadersTyped, Zenon
      <4> QED BY <2>2, <2>5, <4>1, Zenon DEF Valid
    <3>4. s \notin mixed => Partly(map, prog, k + 2, Segment(p), 0)
      <4>1. prog \in Executable
        BY <1>2, <1>3, Zenon
      <4>2. ASSUME s \notin mixed PROVE Partly(map, prog, k + 2, Segment(prog.phdrs[k + 1]), 0)
        BY <1>4, <1>6, <2>3, <3>3, <4>1, <4>2, SegmentBegins, ZenonT(60)
      <4> QED BY <2>2, <4>2, Zenon
    <3>5. 0 \in Nat
      BY SMT
    <3>6. Right("page", prog, n + 1, Segment(p), map, stack[s], s \notin mixed)
      BY <1>6, <3>4, <3>5, Zenon DEF Right, LoadState
    <3> QED BY <1>1, <1>3, <3>2, <3>6, RightParts, Zenon
  <2>6. CASE Then(s, "exit")
    <3>1. space_pc'[s] = "exit"
      BY <1>2, <2>6, Zenon DEF Then
    <3> QED BY <3>1, RightElsewhere, RightParts, Zenon
  <2> QED BY <2>1, <2>4, <2>5, <2>6, Zenon DEF OneHeader
<1> QED BY <1>7, <1>8, <1>9, Zenon

\* load_segment() takes a page, or is done.
LEMMA PageRight ==
  ASSUME SpaceInv, NEW s \in Spaces, LoadRight(s), SegmentPage(s)
  PROVE  LoadRight(s)'
<1>1. space_pc[s] = "page" /\ UNCHANGED <<program, phdr, todo, ptes, stack, mixed>>
  BY Zenon DEF SegmentPage, RunsAt
<1>2. /\ space_pc \in [Spaces -> SpaceLabels] /\ program[s] \in Executable /\ phdr[s] \in Nat \ {0}
      /\ todo[s] \in LeftToLoad
  BY SpaceParts, SpaceTypeParts, Zenon
<1>3. PICK prog, n, seg, map : prog = program[s] /\ n = phdr[s] /\ seg = todo[s] /\ map = ptes[s]
  BY Zenon
<1>4. s \notin mixed => \E j \in Nat : Partly(map, prog, n, seg, j)
  BY <1>1, <1>3, RightParts, Zenon DEF Right, LoadState
<1>5. CASE ~(seg.read > 0 \/ seg.zero > 0)
  <2>1. Then(s, "phdr")
    BY <1>3, <1>5, Zenon DEF SegmentPage
  <2>2. space_pc'[s] = "phdr"
    BY <1>2, <2>1, Zenon DEF Then
  <2>3. s \notin mixed => MapIs(map, prog, n - 1, {})
    BY <1>2, <1>3, <1>4, <1>5, SegmentEnds, Zenon
  <2>4. Right("phdr", prog, n, seg, map, stack[s], s \notin mixed)
    BY <2>3, Zenon DEF Right, LoadState
  <2> QED BY <1>1, <1>3, <2>2, <2>4, RightParts, Zenon
<1>6. CASE seg.read > 0 \/ seg.zero > 0
  <2>1. Then(s, "exit") \/ Then(s, "read")
    BY <1>3, <1>6, Zenon DEF SegmentPage
  <2>2. space_pc'[s] = "exit" \/ space_pc'[s] = "read"
    BY <1>2, <2>1, Zenon DEF Then
  <2>3. Right("read", prog, n, seg, map, stack[s], s \notin mixed)
    BY <1>4, Zenon DEF Right, LoadState
  <2>4. CASE space_pc'[s] = "exit"
    BY <2>4, RightElsewhere, RightParts, Zenon
  <2> QED BY <1>1, <1>3, <2>2, <2>3, <2>4, RightParts, Zenon
<1> QED BY <1>5, <1>6

\* SegmentRead() changes no map.
LEMMA ReadRight ==
  ASSUME SpaceInv, NEW s \in Spaces, LoadRight(s), SegmentRead(s)
  PROVE  LoadRight(s)'
<1>1. space_pc[s] = "read" /\ UNCHANGED <<program, phdr, todo, ptes, stack, mixed>>
  BY Zenon DEF SegmentRead, RunsAt
<1>2. space_pc \in [Spaces -> SpaceLabels]
  BY SpaceParts, SpaceTypeParts, Zenon
<1>3. PICK prog, n, seg, map : prog = program[s] /\ n = phdr[s] /\ seg = todo[s] /\ map = ptes[s]
  BY Zenon
<1>4. s \notin mixed => \E j \in Nat : Partly(map, prog, n, seg, j)
  BY <1>1, <1>3, RightParts, Zenon DEF Right, LoadState
<1>5. Then(s, "exit") \/ Then(s, "install")
  BY Zenon DEF SegmentRead
<1>6. space_pc'[s] = "exit" \/ space_pc'[s] = "install"
  BY <1>2, <1>5, Zenon DEF Then
<1>7. Right("install", prog, n, seg, map, stack[s], s \notin mixed)
  BY <1>4, Zenon DEF Right, LoadState
<1>8. CASE space_pc'[s] = "exit"
  BY <1>8, RightElsewhere, RightParts, Zenon
<1> QED BY <1>1, <1>3, <1>6, <1>7, <1>8, RightParts, Zenon

\* A page that install_page() maps.
LEMMA InstallMaps ==
  ASSUME SpaceInv, NEW s \in Spaces, NEW u \in UserVPages, NEW e, e # NoPage, ptes[s][u] = NoPage, install_page(s, u, e)
  PROVE  MapsAt(ptes[s], ptes'[s], u, e)
<1>1. ptes \in [Spaces -> [UserVPages -> SomeEntry]]
  BY SpaceParts, SpaceTypeParts, Zenon
<1>2. PICK map : map = ptes[s]
  BY Zenon
<1>3. map \in [UserVPages -> SomeEntry]
  BY <1>1, <1>2, Zenon
<1>4. ptes' = [ptes EXCEPT ![s] = [map EXCEPT ![u] = e]]
  BY <1>2, Zenon DEF install_page
<1>5. ptes'[s] = [map EXCEPT ![u] = e]
  BY <1>1, <1>4, Zenon
<1>6. PICK map1 : map1 = ptes'[s]
  BY Zenon
<1>7. \A v \in UserVPages : map1[v] = IF v = u THEN e ELSE map[v]
  BY <1>3, <1>5, <1>6, Zenon
<1> QED BY <1>2, <1>6, <1>7, Zenon DEF MapsAt

\* SegmentInstall() maps the page of its turn, or fails.
LEMMA InstallRight ==
  ASSUME SpaceInv, NEW s \in Spaces, LoadRight(s), SegmentInstall(s)
  PROVE  LoadRight(s)'
<1>1. space_pc[s] = "install" /\ UNCHANGED <<program, phdr, stack, mixed>>
  BY Zenon DEF SegmentInstall, RunsAt
<1>2. /\ space_pc \in [Spaces -> SpaceLabels] /\ program[s] \in Executable /\ todo \in [Spaces -> LeftToLoad]
      /\ todo[s] \in LeftToLoad /\ Fits(todo[s]) /\ (todo[s].read > 0 \/ todo[s].zero > 0)
  BY <1>1, SpaceParts, SpaceTypeParts, Zenon DEF SegmentsFit
<1>3. PICK prog, n, seg, map, b :
        /\ prog = program[s] /\ n = phdr[s] /\ seg = todo[s] /\ map = ptes[s] /\ b = page_read_bytes(s)
  BY Zenon
<1>4. s \notin mixed => \E j \in Nat : Partly(map, prog, n, seg, j)
  BY <1>1, <1>3, RightParts, Zenon DEF Right, LoadState
<1>5. CASE Installs(s, seg.upage)
  <2>1. PICK e : e = [page |-> kpage[s], writable |-> seg.writable, data |-> [ofs |-> seg.ofs, read |-> b]]
    BY Zenon
  <2>2. PICK rest : rest = [seg EXCEPT !.upage = @ + 1, !.ofs = @ + b, !.read = @ - b, !.zero = @ - (PageSize - b)]
    BY Zenon
  <2>3. install_page(s, seg.upage, e) /\ Then(s, "page") /\ todo' = [todo EXCEPT ![s] = rest]
    BY <1>3, <1>5, <2>1, <2>2, Zenon DEF SegmentInstall
  <2>4. space_pc'[s] = "page" /\ todo'[s] = rest
    BY <1>2, <2>3, Zenon DEF Then
  <2>5. b = IF seg.read < PageSize THEN seg.read ELSE PageSize
    BY <1>3, Zenon DEF page_read_bytes
  <2>6. seg \in LeftToLoad /\ Fits(seg) /\ (seg.read > 0 \/ seg.zero > 0)
    BY <1>2, <1>3, Zenon
  <2>7. seg.upage \in UserVPages /\ b \in Nat
    BY <2>5, <2>6, PageOfSegment, Zenon
  <2>8. e # NoPage
    <3>1. kpage[s] \in KernelPages \cup UserPages
      BY <1>1, HandIsPage, Zenon DEF AnyPage
    <3>2. seg.writable \in BOOLEAN /\ seg.ofs \in Nat
      BY <2>6, Zenon DEF LeftToLoad
    <3>3. e \in Entry
      BY <2>1, <2>7, <3>1, <3>2, Zenon DEF Entry
    <3> QED BY <3>3, SpaceNumbers, Zenon
  <2>9. PICK map1 : map1 = ptes'[s]
    BY Zenon
  <2>10. MapsAt(map, map1, seg.upage, e)
    BY <1>3, <1>5, <2>3, <2>7, <2>8, <2>9, InstallMaps, ZenonT(60) DEF Installs
  <2>11. LoopBody(seg, b, e, rest)
    <3>1. rest = [upage |-> seg.upage + 1, ofs |-> seg.ofs + b, read |-> seg.read - b,
                  zero |-> seg.zero - (PageSize - b), writable |-> seg.writable]
      BY <2>2, <2>6, Zenon DEF LeftToLoad
    <3>2. /\ rest.upage = seg.upage + 1 /\ rest.ofs = seg.ofs + b /\ rest.read = seg.read - b
          /\ rest.zero = seg.zero - (PageSize - b) /\ rest.writable = seg.writable
      BY <3>1, Zenon
    <3>3. e.writable = seg.writable /\ e.data.ofs = seg.ofs /\ e.data.read = b
      BY <2>1, Zenon
    <3> QED BY <2>5, <2>6, <3>2, <3>3, Zenon DEF LoopBody
  <2>12. s \notin mixed => \E j \in Nat : Partly(map1, prog, n, rest, j)
    <3>1. ASSUME NEW j \in Nat, Partly(map, prog, n, seg, j) PROVE \E i \in Nat : Partly(map1, prog, n, rest, i)
      <4>1. Partly(map1, prog, n, rest, j + 1)
        BY <1>2, <1>3, <2>6, <2>10, <2>11, <3>1, SegmentGoesOn, ZenonT(60)
      <4>2. j + 1 \in Nat
        BY SMT
      <4> QED BY <4>1, <4>2, Zenon
    <3> QED BY <1>4, <3>1, Zenon
  <2>13. Right("page", prog, n, rest, map1, stack[s], s \notin mixed)
    BY <2>12, Zenon DEF Right, LoadState
  <2> QED BY <1>1, <1>3, <2>4, <2>9, <2>13, RightParts, Zenon
<1>6. CASE ~Installs(s, seg.upage)
  <2>1. Then(s, "exit")
    BY <1>3, <1>6, Zenon DEF SegmentInstall, InstallFails
  <2>2. space_pc'[s] = "exit"
    BY <1>2, <2>1, Zenon DEF Then
  <2> QED BY <2>2, RightElsewhere, RightParts, Zenon
<1> QED BY <1>5, <1>6

\* setup_stack().
LEMMA StackGetRight ==
  ASSUME SpaceInv, NEW s \in Spaces, LoadRight(s), StackGet(s)
  PROVE  LoadRight(s)'
<1>1. space_pc[s] = "stack_page" /\ UNCHANGED <<program, phdr, todo, ptes, stack, mixed>>
  BY Zenon DEF StackGet, RunsAt
<1>2. space_pc \in [Spaces -> SpaceLabels]
  BY SpaceParts, SpaceTypeParts, Zenon
<1>3. PICK prog, n, seg, map : prog = program[s] /\ n = phdr[s] /\ seg = todo[s] /\ map = ptes[s]
  BY Zenon
<1>4. s \notin mixed => MapIs(map, prog, Len(prog.phdrs), {})
  BY <1>1, <1>3, RightParts, Zenon DEF Right, LoadState
<1>5. Then(s, "exit") \/ Then(s, "stack_install")
  BY Zenon DEF StackGet
<1>6. space_pc'[s] = "exit" \/ space_pc'[s] = "stack_install"
  BY <1>2, <1>5, Zenon DEF Then
<1>7. Right("stack_install", prog, n, seg, map, stack[s], s \notin mixed)
  BY <1>4, Zenon DEF Right, LoadState
<1>8. CASE space_pc'[s] = "exit"
  BY <1>8, RightElsewhere, RightParts, Zenon
<1> QED BY <1>1, <1>3, <1>6, <1>7, <1>8, RightParts, Zenon

\* StackInstall() maps the stack over the segments.
LEMMA StackInstalled ==
  ASSUME SpaceInv, NEW s \in Spaces, LoadRight(s), StackInstall(s)
  PROVE  LoadRight(s)'
<1>1. space_pc[s] = "stack_install" /\ UNCHANGED <<program, phdr, todo, stack, mixed>>
  BY Zenon DEF StackInstall, RunsAt
<1>2. space_pc \in [Spaces -> SpaceLabels] /\ program[s] \in Executable
  BY SpaceParts, SpaceTypeParts, Zenon
<1>3. PICK prog, n, seg, map : prog = program[s] /\ n = phdr[s] /\ seg = todo[s] /\ map = ptes[s]
  BY Zenon
<1>4. s \notin mixed => MapIs(map, prog, Len(prog.phdrs), {})
  BY <1>1, <1>3, RightParts, Zenon DEF Right, LoadState
<1>5. CASE Installs(s, StackPage)
  <2>1. PICK e : e = [page |-> kpage[s], writable |-> TRUE, data |-> [ofs |-> 0, read |-> 0]]
    BY Zenon
  <2>2. install_page(s, StackPage, e) /\ Then(s, "stack_words")
    BY <1>5, <2>1, Zenon DEF StackInstall
  <2>3. space_pc'[s] = "stack_words"
    BY <1>2, <2>2, Zenon DEF Then
  <2>4. e # NoPage
    <3>1. kpage[s] \in KernelPages \cup UserPages
      BY <1>1, HandIsPage, Zenon DEF AnyPage
    <3>2. 0 \in Nat
      BY SMT
    <3>3. e \in Entry
      BY <2>1, <3>1, <3>2, Zenon DEF Entry
    <3> QED BY <3>3, SpaceNumbers, Zenon
  <2>5. PICK map1 : map1 = ptes'[s]
    BY Zenon
  <2>6. MapsAt(map, map1, StackPage, e)
    BY <1>3, <1>5, <2>2, <2>4, <2>5, WholePages, InstallMaps, ZenonT(60) DEF Installs
  <2>7. s \notin mixed => MapIs(map1, prog, Len(prog.phdrs), {StackPage})
    <3>1. prog \in Executable /\ StackPage \in UserVPages
      BY <1>2, <1>3, WholePages, Zenon
    <3>2. PICK none, one : none = {} /\ one = {StackPage}
      BY Zenon
    <3>3. \A v \in UserVPages : v \in one <=> v \in none \/ v = StackPage
      BY <3>2, Zenon
    <3>4. s \notin mixed => MapIs(map, prog, Len(prog.phdrs), none)
      BY <1>4, <3>2, Zenon
    <3>5. s \notin mixed => MapIs(map1, prog, Len(prog.phdrs), one)
      BY <2>6, <3>1, <3>3, <3>4, MapGrows, Zenon
    <3> QED BY <3>2, <3>5, Zenon
  <2>9. Right("stack_words", prog, n, seg, map1, stack[s], s \notin mixed)
    BY <2>7, Zenon DEF Right, LoadState
  <2> QED BY <1>1, <1>3, <2>3, <2>5, <2>9, RightParts, Zenon
<1>6. CASE ~Installs(s, StackPage)
  <2>1. Then(s, "exit")
    BY <1>6, Zenon DEF StackInstall, InstallFails
  <2>2. space_pc'[s] = "exit"
    BY <1>2, <2>1, Zenon DEF Then
  <2> QED BY <2>2, RightElsewhere, RightParts, Zenon
<1> QED BY <1>5, <1>6

\* StackWords() lays out a command line, of which nothing is known if another
\* process was started, or stops the kernel.
LEMMA WordsRight ==
  ASSUME SpaceInv, StackTypes, NEW s \in Spaces, LoadRight(s), StackWords(s)
  PROVE  LoadRight(s)'
<1>1. space_pc[s] = "stack_words" /\ UNCHANGED <<program, phdr, todo, ptes, mixed>>
  BY Zenon DEF StackWords, RunsAt
<1>2. space_pc \in [Spaces -> SpaceLabels]
  BY SpaceParts, SpaceTypeParts, Zenon
<1>3. PICK prog, n, seg, map : prog = program[s] /\ n = phdr[s] /\ seg = todo[s] /\ map = ptes[s]
  BY Zenon
<1>4. s \notin mixed => MapIs(map, prog, Len(prog.phdrs), {StackPage})
  BY <1>1, <1>3, RightParts, Zenon DEF Right, LoadState
<1>5. CASE UNCHANGED <<stack, space_pc>>
  <2>1. Untouched(s)
    BY <1>1, <1>5, Zenon DEF Untouched
  <2> QED BY <2>1, UntouchedRight, Zenon
<1>6. CASE s \in mixed /\ Then(s, "run")
  <2>1. space_pc'[s] = "run"
    BY <1>2, <1>6, Zenon DEF Then
  <2>2. Right("run", prog, n, seg, map, stack'[s], s \notin mixed)
    BY <1>6, Zenon DEF Right
  <2> QED BY <1>1, <1>3, <2>1, <2>2, RightParts, Zenon
<1>7. ASSUME NEW w \in Words, stack' = [stack EXCEPT ![s] = StackOf(w)], Then(s, "run")
      PROVE  LoadRight(s)'
  <2>1. space_pc'[s] = "run"
    BY <1>2, <1>7, Zenon DEF Then
  <2>2. stack'[s] = StackOf(w)
    BY <1>7, Zenon DEF StackTypes
  <2>3. Right("run", prog, n, seg, map, stack'[s], s \notin mixed)
    BY <1>4, <2>2, Zenon DEF Right, LoadState
  <2> QED BY <1>1, <1>3, <2>1, <2>3, RightParts, Zenon
<1> QED BY <1>5, <1>6, <1>7, Zenon DEF StackWords, StackOf

\* process_exit().
LEMMA ExitRight ==
  ASSUME SpaceInv, NEW s \in Spaces,
         \/ UserExits(s) \/ ExitForget(s) \/ ExitDeactivate(s) \/ DestroyDirectory(s)
         \/ \E i \in Tables : DestroyTable(s, i)
  PROVE  LoadRight(s)'
<1>1. space_pc \in [Spaces -> SpaceLabels]
  BY SpaceParts, SpaceTypeParts, Zenon
<1>2. (\E w \in {"exit", "deactivate", "destroy", "dead"} : Then(s, w))
        \/ (UNCHANGED space_pc /\ space_pc[s] = "destroy")
  BY Zenon DEF UserExits, ExitForget, ExitDeactivate, DestroyDirectory, DestroyTable, RunsAt
<1>3. space_pc'[s] \in {"exit", "deactivate", "destroy", "dead"}
  BY <1>1, <1>2, Zenon DEF Then
<1> QED BY <1>3, RightElsewhere, RightParts, Zenon

\* stack keeps its type.
LEMMA StackTyped ==
  ASSUME StackTypes, [SpaceNext]_spaceVars
  PROVE  StackTypes'
<1>1. CASE UNCHANGED stack
  BY <1>1, Zenon DEF StackTypes
<1>2. ASSUME NEW s \in Spaces, StackWords(s) PROVE StackTypes'
  <2>1. UNCHANGED stack \/ \E w \in Words : stack' = [stack EXCEPT ![s] = StackOf(w)]
    BY <1>2, Zenon DEF StackWords, StackOf
  <2> QED BY <1>1, <2>1, Zenon DEF StackTypes
<1>3. ASSUME NEW s \in Spaces, UserExits(s) PROVE StackTypes'
  BY <1>3, Zenon DEF UserExits, StackTypes
<1>4. CASE NewProcesses \/ UNCHANGED spaceVars
  BY <1>1, <1>4, Zenon DEF NewProcesses, spaceVars
<1>5. ASSUME NEW s \in Spaces, \/ Switch(s) \/ pagedir_create(s) \/ LoadOpen(s) \/ ProgramHeader(s)
                               \/ SegmentPage(s) \/ SegmentRead(s) \/ SegmentInstall(s)
                               \/ process_execute(s) \/ LoadPanics(s) \/ StackInstall(s)
      PROVE  StackTypes'
  BY <1>1, <1>5, Zenon DEF Switch, pagedir_create, LoadOpen, ProgramHeader, SegmentPage, SegmentRead,
                          SegmentInstall, process_execute, LoadPanics, StackInstall
<1>6. ASSUME NEW s \in Spaces, \/ StackGet(s) \/ ExitForget(s) \/ ExitDeactivate(s) \/ DestroyDirectory(s)
                               \/ \E i \in Tables : DestroyTable(s, i)
      PROVE  StackTypes'
  BY <1>1, <1>6, Zenon DEF StackGet, ExitForget, ExitDeactivate, DestroyDirectory, DestroyTable
<1> QED BY <1>2, <1>3, <1>4, <1>5, <1>6, Zenon DEF SpaceNext

\* Each step keeps the invariant.
LEMMA LoadKept ==
  ASSUME SpaceInv, LoadInv, [SpaceNext]_spaceVars
  PROVE  LoadInv'
<1>1. StackTypes /\ SpaceTypes /\ \A s \in Spaces : LoadRight(s)
  BY SpaceParts, Zenon DEF LoadInv
<1>2. StackTypes'
  BY <1>1, StackTyped, Zenon
<1>3. ASSUME NEW t \in Spaces PROVE LoadRight(t)'
  <2>1. CASE UNCHANGED spaceVars
    BY <1>1, <2>1, UntouchedRight, Zenon DEF spaceVars, Untouched
  <2>2. CASE NewProcesses
    <3>1. space_pc'[t] = "none" /\ phdr'[t] = 1
      BY <2>2, Zenon DEF NewProcesses
    <3> QED BY <3>1, RightStart, RightParts, Zenon
  <2>3. ASSUME NEW s \in Spaces, Switch(s) PROVE LoadRight(t)'
    BY <1>1, <2>3, UntouchedRight, Zenon DEF Switch, Untouched
  <2>4. ASSUME NEW s \in Spaces, StepOf(s) PROVE LoadRight(t)'
    <3>1. CASE s # t
      BY <1>1, <2>4, <3>1, OthersUntouched, UntouchedRight, Zenon
    <3>2. CASE s = t
      <4>1. StepOf(t) /\ LoadRight(t)
        BY <1>1, <2>4, <3>2, Zenon
      <4> QED BY <1>1, <4>1, CreateRight, OpenRight, HeaderRight, PageRight, ReadRight, InstallRight,
                 StackGetRight, StackInstalled, WordsRight, ExitRight, ExecuteRight, PanicRight,
                 ZenonT(60) DEF StepOf
    <3> QED BY <3>1, <3>2
  <2> QED BY <2>1, <2>2, <2>3, <2>4, Zenon DEF SpaceNext, StepOf
<1> QED BY <1>2, <1>3, Zenon DEF LoadInv

\* At first no process has loaded.
LEMMA LoadStarts ==
  ASSUME SpaceInit
  PROVE  LoadInv
<1>1. StackTypes
  BY Zenon DEF SpaceInit, StackTypes
<1>2. ASSUME NEW s \in Spaces PROVE LoadRight(s)
  <2>1. space_pc[s] = "none" /\ phdr[s] = 1
    BY Zenon DEF SpaceInit
  <2> QED BY <2>1, RightStart, RightParts, Zenon
<1> QED BY <1>1, <1>2, Zenon DEF LoadInv

-----------------------------------------------------------------------------
(* setup_stack(): the words of the command line. *)

\* f is *esp, at word n - d and after.
EspFrom(f, lens, n, d) ==
  \A k \in 0 .. n : k + d >= n => f[k] = IF k = n THEN PHYS_BASE ELSE f[k + 1] - (lens[k + 1] + 1)
EspSolved(lens, n, d) == \E f \in [0 .. n -> Int] : EspFrom(f, lens, n, d)

\* One word more.
LEMMA OneWordMore ==
  ASSUME NEW n \in Nat, NEW lens \in [1 .. n -> Nat], NEW d \in Nat, d < n, EspSolved(lens, n, d), PHYS_BASE \in Nat
  PROVE  EspSolved(lens, n, d + 1)
<1>1. PICK f \in [0 .. n -> Int] : EspFrom(f, lens, n, d)
  BY Zenon DEF EspSolved
<1>2. PICK j \in Nat : j + d + 1 = n
  <2>1. n - d - 1 \in Nat /\ (n - d - 1) + d + 1 = n
    BY SMT
  <2> QED BY <2>1, Zenon
<1>3. j \in 0 .. n /\ j + 1 \in 0 .. n /\ j + 1 \in 1 .. n /\ j # n /\ j # j + 1
  BY <1>2, SMT
<1>4. f[j + 1] \in Int /\ lens[j + 1] \in Nat
  BY <1>3, Zenon
<1>5. PICK x \in Int : x = f[j + 1] - (lens[j + 1] + 1)
  BY <1>4, SMT
<1>6. PICK g : g = [f EXCEPT ![j] = x]
  BY Zenon
<1>7. g \in [0 .. n -> Int] /\ \A k \in 0 .. n : g[k] = IF k = j THEN x ELSE f[k]
  BY <1>6, Zenon
<1>8. ASSUME NEW k \in 0 .. n, k + (d + 1) >= n
      PROVE  g[k] = IF k = n THEN PHYS_BASE ELSE g[k + 1] - (lens[k + 1] + 1)
  <2>1. CASE k = j
    <3>1. g[j + 1] = f[j + 1] /\ g[j] = x
      BY <1>3, <1>7, Zenon
    <3> QED BY <1>3, <1>5, <2>1, <3>1, Zenon
  <2>2. CASE k # j
    <3>1. k + d >= n /\ k + 1 # j /\ (k = n \/ k + 1 \in 0 .. n)
      BY SMTT(60), <1>2, <1>8, <2>2, SMT
    <3>2. f[k] = IF k = n THEN PHYS_BASE ELSE f[k + 1] - (lens[k + 1] + 1)
      BY <1>1, <3>1, Zenon DEF EspFrom
    <3>3. g[k] = f[k]
      BY <1>7, <2>2, Zenon
    <3>4. CASE k = n
      BY <3>2, <3>3, <3>4, Zenon
    <3>5. CASE k # n
      <4>1. g[k + 1] = f[k + 1]
        BY <1>7, <3>1, <3>5, Zenon
      <4> QED BY <3>2, <3>3, <3>5, <4>1, Zenon
    <3> QED BY SMTT(60), <3>4, <3>5
  <2> QED BY <2>1, <2>2
<1>9. EspFrom(g, lens, n, d + 1)
  BY <1>8, Zenon DEF EspFrom
<1> QED BY <1>7, <1>9, Zenon DEF EspSolved

\* No word at all.
LEMMA NoWord ==
  ASSUME NEW n \in Nat, NEW lens, PHYS_BASE \in Nat
  PROVE  EspSolved(lens, n, 0)
<1>1. PICK f : f = [k \in 0 .. n |-> PHYS_BASE]
  BY Zenon
<1>2. PHYS_BASE \in Int
  BY SMT
<1>3. f \in [0 .. n -> Int] /\ \A k \in 0 .. n : f[k] = PHYS_BASE
  BY <1>1, <1>2, Zenon
<1>4. \A k \in 0 .. n : k + 0 >= n => k = n
  BY SMT
<1>5. EspFrom(f, lens, n, 0)
  BY <1>3, <1>4, Zenon DEF EspFrom
<1> QED BY <1>3, <1>5, Zenon DEF EspSolved

\* All words.
LEMMA AllWords ==
  ASSUME HasSmallest, NEW n \in Nat, NEW lens \in [1 .. n -> Nat], PHYS_BASE \in Nat
  PROVE  EspSolved(lens, n, n)
<1>1. PICK B : B = {d \in Nat : d <= n /\ ~EspSolved(lens, n, d)}
  BY Zenon
<1>2. ASSUME B # {} PROVE FALSE
  <2>1. PICK d \in B : \A e \in B : d <= e
    BY <1>1, <1>2, Zenon DEF HasSmallest
  <2>2. d \in Nat /\ d <= n /\ ~EspSolved(lens, n, d)
    BY <1>1, <2>1, Zenon
  <2>3. d # 0
    BY <2>2, NoWord, Zenon
  <2>4. PICK e \in Nat : e + 1 = d /\ e < n /\ e <= n /\ ~(d <= e)
    <3>1. d - 1 \in Nat /\ (d - 1) + 1 = d /\ d - 1 < n /\ d - 1 <= n /\ ~(d <= d - 1)
      BY <2>2, <2>3, SMT
    <3> QED BY <3>1, Zenon
  <2>5. e \notin B
    BY <2>1, <2>4, Zenon
  <2>6. EspSolved(lens, n, e)
    BY <1>1, <2>4, <2>5, Zenon
  <2> QED BY <2>2, <2>4, <2>6, OneWordMore, Zenon
<1>3. n \notin B /\ n <= n
  BY <1>2, SMT
<1> QED BY <1>1, <1>3, Zenon

\* EspAfter(lens) is *esp before each word.
LEMMA EspIs ==
  ASSUME HasSmallest, NEW lens \in Seq(Nat), PHYS_BASE \in Nat
  PROVE  /\ Len(lens) \in Nat /\ EspAfter(lens) \in [0 .. Len(lens) -> Int]
         /\ EspAfter(lens)[Len(lens)] = PHYS_BASE
         /\ \A k \in 0 .. Len(lens) :
              k # Len(lens) => EspAfter(lens)[k] = EspAfter(lens)[k + 1] - (lens[k + 1] + 1)
<1>1. PICK n : n = Len(lens)
  BY Zenon
<1>2. n \in Nat /\ lens \in [1 .. n -> Nat]
  BY <1>1, SMT
<1>3. PICK f \in [0 .. n -> Int] : EspFrom(f, lens, n, n)
  BY <1>2, AllWords, Zenon DEF EspSolved
<1>4. \A k \in 0 .. n : k + n >= n
  BY <1>2, SMT
<1>5. \A k \in 0 .. n : f[k] = IF k = n THEN PHYS_BASE ELSE f[k + 1] - (lens[k + 1] + 1)
  BY <1>3, <1>4, Zenon DEF EspFrom
<1> DEFINE Body(g) == [k \in 0 .. n |-> IF k = n THEN PHYS_BASE ELSE g[k + 1] - (lens[k + 1] + 1)]
<1>6. f = Body(f)
  <2>1. f = [k \in 0 .. n |-> f[k]]
    BY Zenon
  <2> QED BY <1>5, <2>1, Zenon
<1>7. EspAfter(lens) = CHOOSE g : g = Body(g)
  BY <1>1, Zenon DEF EspAfter
<1>8. PICK E : E = EspAfter(lens)
  BY Zenon
<1>9. E = Body(E)
  <2> HIDE DEF Body
  <2> QED BY <1>6, <1>7, <1>8, Zenon
<1>10. \A k \in 0 .. n : E[k] = IF k = n THEN PHYS_BASE ELSE E[k + 1] - (lens[k + 1] + 1)
  <2>1. PICK G : G = Body(E)
    BY Zenon
  <2>2. \A k \in 0 .. n : G[k] = IF k = n THEN PHYS_BASE ELSE E[k + 1] - (lens[k + 1] + 1)
    BY <2>1, Zenon
  <2>3. G = E
    BY <1>9, <2>1, Zenon
  <2> HIDE DEF Body
  <2> QED BY <2>2, <2>3, Zenon
<1>11. ASSUME NEW d \in Nat, NEW k \in 0 .. n, k + d = n, E[k] # f[k],
              \A j \in 0 .. n : k < j => E[j] = f[j]
       PROVE  FALSE
  <2>1. k = n \/ (k # n /\ k + 1 \in 0 .. n /\ k < k + 1)
    BY <1>2, SMT
  <2>2. CASE k = n
    BY <1>5, <1>10, <1>11, <2>2, Zenon
  <2>3. CASE k # n
    <3>1. E[k + 1] = f[k + 1]
      BY <1>11, <2>1, <2>3, Zenon
    <3> QED BY <1>5, <1>10, <1>11, <2>3, <3>1, Zenon
  <2> QED BY <2>2, <2>3
<1>12. \A k \in 0 .. n : E[k] = f[k]
  <2>1. PICK B : B = {d \in Nat : \E k \in 0 .. n : k + d = n /\ E[k] # f[k]}
    BY Zenon
  <2>2. ASSUME B # {} PROVE FALSE
    <3>1. PICK d \in B : \A e \in B : d <= e
      BY <2>1, <2>2, Zenon DEF HasSmallest
    <3>2. PICK k \in 0 .. n : d \in Nat /\ k + d = n /\ E[k] # f[k]
      BY <2>1, <3>1, Zenon
    <3>3. ASSUME NEW j \in 0 .. n, k < j PROVE E[j] = f[j]
      <4>1. PICK e \in Nat : j + e = n /\ ~(d <= e)
        <5>1. n - j \in Nat /\ j + (n - j) = n /\ ~(d <= n - j)
          BY SMTT(60), <1>2, <3>2, <3>3, SMT
        <5> QED BY <5>1, Zenon
      <4>2. e \notin B
        BY <3>1, <4>1, Zenon
      <4> QED BY <2>1, <4>1, <4>2, Zenon
    <3> QED BY <1>11, <3>2, <3>3, Zenon
  <2>3. ASSUME NEW k \in 0 .. n PROVE E[k] = f[k]
    <3>1. PICK d \in Nat : k + d = n
      <4>1. n - k \in Nat /\ k + (n - k) = n
        BY <1>2, SMT
      <4> QED BY <4>1, Zenon
    <3> QED BY <2>1, <2>2, <3>1, Zenon
  <2> QED BY <2>3, Zenon
<1>13. E \in [0 .. n -> Int]
  <2>1. PICK G : G = Body(E)
    BY Zenon
  <2>2. G = [k \in 0 .. n |-> G[k]]
    BY <2>1, Zenon
  <2>3. G = E
    BY <1>9, <2>1, Zenon
  <2> HIDE DEF Body
  <2>4. \A k \in 0 .. n : G[k] \in Int
    BY <1>12, <2>3, Zenon
  <2>5. G \in [0 .. n -> Int]
    BY <2>2, <2>4, Zenon
  <2> QED BY <2>3, <2>5, Zenon
<1>14. n \in 0 .. n
  BY <1>2, SMT
<1>15. E[n] = PHYS_BASE
  BY <1>10, <1>14, Zenon
<1>16. \A k \in 0 .. n : k # n => E[k] = E[k + 1] - (lens[k + 1] + 1)
  BY <1>10, Zenon
<1> HIDE DEF Body
<1> QED BY <1>1, <1>2, <1>8, <1>13, <1>15, <1>16, Zenon

\* What the words take: *esp goes down.
EspRight(E, lens, n) ==
  /\ n \in Nat /\ lens \in [1 .. n -> Nat] /\ E \in [0 .. n -> Int] /\ E[n] = PHYS_BASE
  /\ \A k \in 0 .. n : k # n => E[k] = E[k + 1] - (lens[k + 1] + 1)
\* *esp only goes down.
LEMMA EspDown ==
  ASSUME HasSmallest, NEW E, NEW lens, NEW n, EspRight(E, lens, n), NEW i \in 0 .. n, NEW j \in 0 .. n, i <= j
  PROVE  E[i] <= E[j]
<1>1. /\ n \in Nat /\ lens \in [1 .. n -> Nat] /\ E \in [0 .. n -> Int]
      /\ \A k \in 0 .. n : k # n => E[k] = E[k + 1] - (lens[k + 1] + 1)
  BY Zenon DEF EspRight
<1>2. \A k \in 0 .. n : k # n => E[k] <= E[k + 1]
  <2>1. ASSUME NEW k \in 0 .. n, k # n PROVE E[k] <= E[k + 1]
    <3>1. k + 1 \in 0 .. n /\ k + 1 \in 1 .. n
      BY SMTT(60), <1>1, <2>1, SMT
    <3>2. E[k] \in Int /\ E[k + 1] \in Int /\ lens[k + 1] \in Nat /\ E[k] = E[k + 1] - (lens[k + 1] + 1)
      BY <1>1, <2>1, <3>1, Zenon
    <3>3. PICK x, y, z : x = E[k] /\ y = E[k + 1] /\ z = lens[k + 1]
      BY Zenon
    <3>4. x \in Int /\ y \in Int /\ z \in Nat /\ x = y - (z + 1)
      BY <3>2, <3>3, Zenon
    <3>5. x <= y
      BY SMTT(60), <3>4, SMT
    <3> QED BY <3>3, <3>5, Zenon
  <2> QED BY <2>1, Zenon
<1>3. PICK B : B = {d \in Nat : \E k \in 0 .. n : k + d = j /\ ~(E[k] <= E[j])}
  BY Zenon
<1>4. ASSUME B # {} PROVE FALSE
  <2>1. PICK d \in B : \A e \in B : d <= e
    BY <1>3, <1>4, Zenon DEF HasSmallest
  <2>2. PICK k \in 0 .. n : d \in Nat /\ k + d = j /\ ~(E[k] <= E[j])
    BY <1>3, <2>1, Zenon
  <2>3. E[k] \in Int /\ E[j] \in Int
    BY <1>1, Zenon
  <2>4. k # j
    <3>1. E[j] <= E[j]
      BY <2>3, SMT
    <3> QED BY <2>2, <3>1, Zenon
  <2>5. k # n /\ k + 1 \in 0 .. n
    BY SMTT(60), <1>1, <2>2, <2>4, SMT
  <2>6. PICK e \in Nat : (k + 1) + e = j /\ ~(d <= e)
    <3>1. d - 1 \in Nat /\ (k + 1) + (d - 1) = j /\ ~(d <= d - 1)
      BY <2>2, <2>4, SMT
    <3> QED BY <3>1, Zenon
  <2>7. E[k + 1] <= E[j]
    BY <1>3, <2>1, <2>5, <2>6, Zenon
  <2>8. E[k] <= E[k + 1] /\ E[k + 1] \in Int
    BY <1>1, <1>2, <2>5, Zenon
  <2>9. E[k] <= E[j]
    BY SMTT(60), <2>3, <2>7, <2>8, SMT
  <2> QED BY <2>2, <2>9
<1>5. PICK d \in Nat : i + d = j
  <2>1. j - i \in Nat /\ i + (j - i) = j
    BY <1>1, SMT
  <2> QED BY <2>1, Zenon
<1> QED BY <1>3, <1>4, <1>5, Zenon

\* A store of setup_stack().
Store == [at : Int, size : Int, value : Int]
StoreOf(x, at, size, value) == x.at = at /\ x.size = size /\ x.value = value

\* Two sequences of stores, one after the other.
Stores(a, n) == a \in Seq(Store) /\ Len(a) = n
Follows(r, a, b, n, m) ==
  /\ \A i \in 1 .. n : r[i] = a[i]
  /\ \A i \in 1 .. m : r[n + i] = b[i]
\* The concatenation has the stores of both in their places.
LEMMA OneAfterOther ==
  ASSUME NEW a, NEW b, NEW n \in Nat, NEW m \in Nat, Stores(a, n), Stores(b, m)
  PROVE  Stores(a \o b, n + m) /\ Follows(a \o b, a, b, n, m)
<1>1. PICK S : S = Store
  BY Zenon
<1>2. a \in Seq(S) /\ b \in Seq(S) /\ Len(a) = n /\ Len(b) = m
  BY <1>1, Zenon DEF Stores
<1>3. a \o b \in Seq(S) /\ Len(a \o b) = n + m
  BY <1>2, SMT
<1>4. ASSUME NEW i \in 1 .. n PROVE (a \o b)[i] = a[i]
  BY SMTT(60), <1>2, <1>4, SMT
<1>5. ASSUME NEW i \in 1 .. m PROVE (a \o b)[n + i] = b[i]
  BY <1>2, <1>5, SMT
<1>6. Stores(a \o b, n + m)
  BY <1>1, <1>3, Zenon DEF Stores
<1> QED BY <1>4, <1>5, <1>6, Zenon DEF Follows

\* The stores of a layout, by their places.
StoresAre(st, E, lens, n, al) ==
  /\ Len(st) = 2 * n + 4
  /\ \A i \in 1 .. n : StoreOf(st[i], E[n - i], lens[n - i + 1] + 1, n - i + 1)
  /\ StoreOf(st[n + 1], al - 4, 4, 0)
  /\ \A i \in 1 .. n : StoreOf(st[n + 1 + i], al - 4 - 4 * i, 4, E[n - i])
  /\ StoreOf(st[2 * n + 2], al - 4 * n - 8, 4, al - 4 * n - 4)
  /\ StoreOf(st[2 * n + 3], al - 4 * n - 12, 4, n)
  /\ StoreOf(st[2 * n + 4], al - 4 * n - 16, 4, 0)

\* A function from 1 .. n is a sequence.
LEMMA SequenceOf ==
  ASSUME NEW S, NEW n \in Nat, NEW f \in [1 .. n -> S]
  PROVE  f \in Seq(S) /\ Len(f) = n
BY SMT

\* Layout() has its stores at these places.
LEMMA LayoutIs ==
  ASSUME NEW n \in Nat, NEW lens \in [1 .. n -> Nat], NEW E \in [0 .. n -> Int], NEW al \in Int, NEW ptr,
         ptr = al - 4 - 4 * n
  PROVE  StoresAre(Layout(lens, E, n, al, ptr).stores, E, lens, n, al)
<1>1. PICK a : a = [i \in 1 .. n |-> [at |-> E[n - i], size |-> lens[n - i + 1] + 1, value |-> n - i + 1]]
  BY Zenon
<1>2. PICK b : b = <<[at |-> al - 4, size |-> 4, value |-> 0]>>
  BY Zenon
<1>3. PICK c : c = [i \in 1 .. n |-> [at |-> al - 4 - 4 * i, size |-> 4, value |-> E[n - i]]]
  BY Zenon
<1>4. PICK d : d = <<[at |-> ptr - 4, size |-> 4, value |-> ptr], [at |-> ptr - 8, size |-> 4, value |-> n],
                     [at |-> ptr - 12, size |-> 4, value |-> 0]>>
  BY Zenon
<1>5. ASSUME NEW i \in 1 .. n
      PROVE  /\ n - i \in 0 .. n /\ n - i + 1 \in 1 .. n /\ n - i + 1 \in Int /\ E[n - i] \in Int
             /\ lens[n - i + 1] + 1 \in Int /\ al - 4 - 4 * i \in Int
  <2>1. n - i \in 0 .. n /\ n - i + 1 \in 1 .. n /\ n - i + 1 \in Int /\ al - 4 - 4 * i \in Int
    BY SMTT(60), <1>5, SMT
  <2>2. E[n - i] \in Int /\ lens[n - i + 1] \in Nat
    BY <2>1, Zenon
  <2>3. lens[n - i + 1] + 1 \in Int
    BY SMTT(60), <2>2, SMT
  <2> QED BY <2>1, <2>2, <2>3, Zenon
<1>6. ASSUME NEW x \in Int, NEW y \in Int, NEW z \in Int
      PROVE  /\ [at |-> x, size |-> y, value |-> z] \in Store
             /\ StoreOf([at |-> x, size |-> y, value |-> z], x, y, z)
  BY SMTT(60), SMT DEF Store, StoreOf
<1>7. 4 \in Int /\ 0 \in Int /\ n \in Int /\ ptr \in Int /\ al - 4 \in Int /\ ptr - 4 \in Int /\ ptr - 8 \in Int /\ ptr - 12 \in Int
  BY SMT
<1>8. ASSUME NEW i \in 1 .. n
      PROVE  /\ a[i] = [at |-> E[n - i], size |-> lens[n - i + 1] + 1, value |-> n - i + 1]
             /\ c[i] = [at |-> al - 4 - 4 * i, size |-> 4, value |-> E[n - i]]
  BY <1>1, <1>3, <1>8, Zenon
<1>9. ASSUME NEW i \in 1 .. n
      PROVE  /\ a[i] \in Store /\ StoreOf(a[i], E[n - i], lens[n - i + 1] + 1, n - i + 1)
             /\ c[i] \in Store /\ StoreOf(c[i], al - 4 - 4 * i, 4, E[n - i])
  <2>1. /\ E[n - i] \in Int /\ lens[n - i + 1] + 1 \in Int /\ n - i + 1 \in Int /\ al - 4 - 4 * i \in Int
    BY <1>5, Zenon
  <2>2. PICK u, v, w, x : u = E[n - i] /\ v = lens[n - i + 1] + 1 /\ w = n - i + 1 /\ x = al - 4 - 4 * i
    BY Zenon
  <2>3. a[i] = [at |-> u, size |-> v, value |-> w] /\ c[i] = [at |-> x, size |-> 4, value |-> u]
    BY <1>8, <2>2, Zenon
  <2>4. u \in Int /\ v \in Int /\ w \in Int /\ x \in Int
    BY <2>1, <2>2, Zenon
  <2>5. a[i] \in Store /\ StoreOf(a[i], u, v, w)
    BY <1>6, <2>3, <2>4, Zenon
  <2>6. c[i] \in Store /\ StoreOf(c[i], x, 4, u)
    BY SMTT(60), <2>3, <2>4, SMT DEF Store, StoreOf
  <2> QED BY <2>2, <2>5, <2>6, Zenon
<1>10. a \in [1 .. n -> Store] /\ c \in [1 .. n -> Store]
  BY <1>1, <1>3, <1>9, Zenon
<1>11. a \in Seq(Store) /\ Len(a) = n /\ c \in Seq(Store) /\ Len(c) = n
  BY <1>10, SequenceOf, Zenon
<1>12. PICK b1, d1, d2, d3 :
         /\ b1 = [at |-> al - 4, size |-> 4, value |-> 0]
         /\ d1 = [at |-> ptr - 4, size |-> 4, value |-> ptr]
         /\ d2 = [at |-> ptr - 8, size |-> 4, value |-> n]
         /\ d3 = [at |-> ptr - 12, size |-> 4, value |-> 0]
  BY Zenon
<1>13. b1 \in Store /\ d1 \in Store /\ d2 \in Store /\ d3 \in Store
  BY <1>6, <1>7, <1>12, Zenon
<1>14. /\ StoreOf(b1, al - 4, 4, 0) /\ StoreOf(d1, ptr - 4, 4, ptr)
       /\ StoreOf(d2, ptr - 8, 4, n) /\ StoreOf(d3, ptr - 12, 4, 0)
  BY <1>6, <1>7, <1>12, Zenon
<1>15. b = <<b1>> /\ d = <<d1, d2, d3>>
  BY <1>2, <1>4, <1>12, Zenon
<1>16. b \in Seq(Store) /\ Len(b) = 1 /\ b[1] = b1
  BY SMTT(60), <1>13, <1>15, SMT
<1>17. d \in Seq(Store) /\ Len(d) = 3 /\ d[1] = d1 /\ d[2] = d2 /\ d[3] = d3
  BY SMTT(60), <1>13, <1>15, SMT
<1>18. PICK p, q, r : p = a \o b /\ q = p \o c /\ r = q \o d
  BY Zenon
<1>19. Layout(lens, E, n, al, ptr).stores = r
  BY <1>1, <1>2, <1>3, <1>4, <1>18, ZenonT(60) DEF Layout
<1>20. n + 1 \in Nat /\ n + 1 + n \in Nat /\ 1 \in Nat /\ 3 \in Nat
  BY SMT
<1>21. Stores(p, n + 1) /\ Follows(p, a, b, n, 1)
  <2>1. Stores(a, n) /\ Stores(b, 1)
    BY <1>11, <1>16, Zenon DEF Stores
  <2> QED BY <1>18, <1>20, <2>1, OneAfterOther, ZenonT(60)
<1>22. Stores(q, n + 1 + n) /\ Follows(q, p, c, n + 1, n)
  <2>1. Stores(c, n)
    BY <1>11, Zenon DEF Stores
  <2> QED BY <1>18, <1>20, <1>21, <2>1, OneAfterOther, ZenonT(60)
<1>23. Stores(r, n + 1 + n + 3) /\ Follows(r, q, d, n + 1 + n, 3)
  <2>1. Stores(d, 3)
    BY <1>17, Zenon DEF Stores
  <2> QED BY <1>18, <1>20, <1>22, <2>1, OneAfterOther, ZenonT(60)
<1>24. Len(r) = 2 * n + 4
  <2>1. n + 1 + n + 3 = 2 * n + 4
    BY SMT
  <2> QED BY <1>23, <2>1, Zenon DEF Stores
<1>25. ASSUME NEW i \in 1 .. n PROVE r[i] = a[i] /\ r[n + 1 + i] = c[i]
  <2>1. i \in 1 .. n + 1 /\ i \in 1 .. n + 1 + n /\ n + 1 + i \in 1 .. n + 1 + n
    BY SMTT(60), <1>25, SMT
  <2> QED BY <1>21, <1>22, <1>23, <2>1, ZenonT(60) DEF Follows
<1>26. r[n + 1] = b1
  <2>1. n + 1 \in 1 .. n + 1 /\ n + 1 \in 1 .. n + 1 + n /\ 1 \in 1 .. 1
    BY SMT
  <2> QED BY <1>16, <1>21, <1>22, <1>23, <2>1, ZenonT(60) DEF Follows
<1>27. r[2 * n + 2] = d1 /\ r[2 * n + 3] = d2 /\ r[2 * n + 4] = d3
  <2>1. /\ 1 \in 1 .. 3 /\ 2 \in 1 .. 3 /\ 3 \in 1 .. 3
        /\ 2 * n + 2 = n + 1 + n + 1 /\ 2 * n + 3 = n + 1 + n + 2 /\ 2 * n + 4 = n + 1 + n + 3
    BY SMTT(60), SMT
  <2> QED BY <1>17, <1>23, <2>1, Zenon DEF Follows
<1>28. /\ ptr - 4 = al - 4 * n - 8 /\ ptr - 8 = al - 4 * n - 12 /\ ptr - 12 = al - 4 * n - 16
       /\ ptr = al - 4 * n - 4
  BY SMTT(60), SMT
<1> QED BY <1>9, <1>14, <1>19, <1>24, <1>25, <1>26, <1>27, <1>28, ZenonT(60) DEF StoresAre

\* Where each store is, and how far it reaches.
PlacesAre(st, E, n, al) ==
  /\ n \in Nat /\ E \in [0 .. n -> Int]
  /\ \A i \in 1 .. n :
       st[i].at = E[n - i] /\ st[i].size \in Nat \ {0} /\ st[i].at + st[i].size = E[n - i + 1]
  /\ \A m \in 0 .. n + 3 : st[n + 1 + m].at = al - 4 - 4 * m /\ st[n + 1 + m].size = 4
\* The stores of a layout reach as far as the next one up.
LEMMA StorePlaces ==
  ASSUME NEW st, NEW E, NEW lens, NEW n, NEW al \in Int, EspRight(E, lens, n), StoresAre(st, E, lens, n, al)
  PROVE  PlacesAre(st, E, n, al)
<1>1. /\ n \in Nat /\ lens \in [1 .. n -> Nat] /\ E \in [0 .. n -> Int]
      /\ \A k \in 0 .. n : k # n => E[k] = E[k + 1] - (lens[k + 1] + 1)
  BY Zenon DEF EspRight
<1>2. ASSUME NEW i \in 1 .. n
      PROVE  st[i].at = E[n - i] /\ st[i].size \in Nat \ {0} /\ st[i].at + st[i].size = E[n - i + 1]
  <2>1. PICK k : k = n - i
    BY Zenon
  <2>2. k \in 0 .. n /\ k # n /\ k + 1 \in 1 .. n /\ k + 1 \in 0 .. n
    BY SMTT(60), <1>1, <1>2, <2>1, SMT
  <2>3. st[i].at = E[k] /\ st[i].size = lens[k + 1] + 1
    BY <1>2, <2>1, Zenon DEF StoresAre, StoreOf
  <2>4. E[k] \in Int /\ E[k + 1] \in Int /\ lens[k + 1] \in Nat /\ E[k] = E[k + 1] - (lens[k + 1] + 1)
    BY <1>1, <2>2, Zenon
  <2>5. PICK x, y, z : x = E[k] /\ y = E[k + 1] /\ z = lens[k + 1]
    BY Zenon
  <2>6. x \in Int /\ y \in Int /\ z \in Nat /\ x = y - (z + 1)
    BY <2>4, <2>5, Zenon
  <2>7. x + (z + 1) = y /\ z + 1 \in Nat \ {0}
    BY SMTT(60), <2>6, SMT
  <2> QED BY <2>1, <2>3, <2>5, <2>7, Zenon
<1>3. ASSUME NEW m \in 0 .. n + 3
      PROVE  st[n + 1 + m].at = al - 4 - 4 * m /\ st[n + 1 + m].size = 4
  <2>1. CASE m = 0
    <3>1. n + 1 + m = n + 1 /\ al - 4 - 4 * m = al - 4
      BY SMTT(60), <1>1, <2>1, SMT
    <3> QED BY <3>1, Zenon DEF StoresAre, StoreOf
  <2>2. CASE m \in 1 .. n
    BY <2>2, Zenon DEF StoresAre, StoreOf
  <2>3. CASE m = n + 1
    <3>1. n + 1 + m = 2 * n + 2 /\ al - 4 - 4 * m = al - 4 * n - 8
      BY SMTT(60), <1>1, <2>3, SMT
    <3> QED BY <3>1, Zenon DEF StoresAre, StoreOf
  <2>4. CASE m = n + 2
    <3>1. n + 1 + m = 2 * n + 3 /\ al - 4 - 4 * m = al - 4 * n - 12
      BY SMTT(60), <1>1, <2>4, SMT
    <3> QED BY <3>1, Zenon DEF StoresAre, StoreOf
  <2>5. CASE m = n + 3
    <3>1. n + 1 + m = 2 * n + 4 /\ al - 4 - 4 * m = al - 4 * n - 16
      BY SMTT(60), <1>1, <2>5, SMT
    <3> QED BY <3>1, Zenon DEF StoresAre, StoreOf
  <2>6. m = 0 \/ m \in 1 .. n \/ m = n + 1 \/ m = n + 2 \/ m = n + 3
    BY SMTT(60), <1>1, <1>3, SMT
  <2> QED BY SMTT(60), <2>1, <2>2, <2>3, <2>4, <2>5, <2>6
<1> QED BY <1>1, <1>2, <1>3, Zenon DEF PlacesAre

\* Every store is below the ones before it.
Apart(st) == \A i, j \in 1 .. Len(st) : i < j => st[j].at + st[j].size <= st[i].at
SizesRight(st) == \A i \in 1 .. Len(st) : st[i].at \in Int /\ st[i].size \in Nat \ {0}
\* No two stores overlap.
LEMMA StoresApart ==
  ASSUME HasSmallest, NEW st, NEW E, NEW lens, NEW n, NEW al \in Int, EspRight(E, lens, n),
         StoresAre(st, E, lens, n, al), al <= E[0]
  PROVE  Apart(st) /\ SizesRight(st)
<1>1. /\ n \in Nat /\ E \in [0 .. n -> Int]
      /\ \A i \in 1 .. n :
           st[i].at = E[n - i] /\ st[i].size \in Nat \ {0} /\ st[i].at + st[i].size = E[n - i + 1]
      /\ \A m \in 0 .. n + 3 : st[n + 1 + m].at = al - 4 - 4 * m /\ st[n + 1 + m].size = 4
  <2>1. PlacesAre(st, E, n, al)
    BY StorePlaces, Zenon
  <2> QED BY <2>1, Zenon DEF PlacesAre
<1>2. Len(st) = 2 * n + 4
  BY Zenon DEF StoresAre
<1>3. ASSUME NEW j \in 1 .. Len(st), ~(j \in 1 .. n)
      PROVE  \E m \in 0 .. n + 3 : j = n + 1 + m /\ st[j].at = al - 4 - 4 * m /\ st[j].size = 4
  <2>1. PICK m : m = j - (n + 1)
    BY Zenon
  <2>2. m \in 0 .. n + 3 /\ j = n + 1 + m
    BY SMTT(60), <1>1, <1>2, <1>3, <2>1, SMT
  <2> QED BY <1>1, <2>2, Zenon
<1>4. ASSUME NEW i \in 1 .. Len(st), NEW j \in 1 .. Len(st), i < j
      PROVE  st[j].at + st[j].size <= st[i].at
  <2>1. CASE j \in 1 .. n
    <3>1. i \in 1 .. n /\ n - i \in 0 .. n /\ n - j + 1 \in 0 .. n /\ n - j + 1 <= n - i
      BY SMTT(60), <1>1, <1>2, <1>4, <2>1, SMT
    <3>2. E[n - j + 1] <= E[n - i]
      BY <3>1, EspDown, Zenon
    <3> QED BY <1>1, <2>1, <3>1, <3>2, ZenonT(60)
  <2>2. CASE ~(j \in 1 .. n) /\ i \in 1 .. n
    <3>1. PICK m \in 0 .. n + 3 : st[j].at = al - 4 - 4 * m /\ st[j].size = 4
      BY <1>3, <2>2, ZenonT(60)
    <3>2. 0 \in 0 .. n /\ n - i \in 0 .. n /\ 0 <= n - i
      BY SMTT(60), <1>1, <2>2, SMT
    <3>3. E[0] <= E[n - i] /\ E[0] \in Int /\ E[n - i] \in Int
      BY <1>1, <3>2, EspDown, Zenon
    <3>4. PICK a, b, x, y : a = st[j].at /\ b = st[j].size /\ x = E[0] /\ y = E[n - i]
      BY Zenon
    <3>5. x <= y /\ x \in Int /\ y \in Int /\ al <= x /\ a = al - 4 - 4 * m /\ b = 4
      BY <3>1, <3>3, <3>4, ZenonT(60)
    <3>6. a + b <= y
      BY SMTT(60), <1>1, <3>5, SMT
    <3> QED BY <1>1, <2>2, <3>4, <3>6, ZenonT(60)
  <2>3. CASE ~(j \in 1 .. n) /\ ~(i \in 1 .. n)
    <3>1. PICK m \in 0 .. n + 3 : j = n + 1 + m /\ st[j].at = al - 4 - 4 * m /\ st[j].size = 4
      BY <1>3, <2>3, Zenon
    <3>2. PICK k \in 0 .. n + 3 : i = n + 1 + k /\ st[i].at = al - 4 - 4 * k
      BY <1>3, <2>3, ZenonT(60)
    <3>3. (al - 4 - 4 * m) + 4 <= al - 4 - 4 * k
      BY SMTT(60), <1>1, <1>4, <3>1, <3>2, SMT
    <3> QED BY <3>1, <3>2, <3>3, ZenonT(60)
  <2> QED BY SMTT(60), <2>1, <2>2, <2>3
<1>5. ASSUME NEW i \in 1 .. Len(st) PROVE st[i].at \in Int /\ st[i].size \in Nat \ {0}
  <2>1. CASE i \in 1 .. n
    <3>1. n - i \in 0 .. n
      BY SMTT(60), <1>1, <2>1, SMT
    <3> QED BY <1>1, <2>1, <3>1, ZenonT(60)
  <2>2. CASE ~(i \in 1 .. n)
    <3>1. PICK m \in 0 .. n + 3 : st[i].at = al - 4 - 4 * m /\ st[i].size = 4
      BY <1>3, <2>2, ZenonT(60)
    <3>2. al - 4 - 4 * m \in Int /\ 4 \in Nat \ {0}
      BY SMTT(60), <1>1, SMT
    <3> QED BY <3>1, <3>2, Zenon
  <2> QED BY SMTT(60), <2>1, <2>2
<1> QED BY <1>4, <1>5, Zenon DEF Apart, SizesRight

\* What is at an address that one store wrote.
WordAt(st, addr) == {x.value : x \in {x \in {st[i] : i \in 1 .. Len(st)} : x.at = addr}}
\* A word that was stored is the only one at its address.
LEMMA WordIs ==
  ASSUME NEW st, Apart(st), SizesRight(st), NEW len \in Nat, Len(st) = len, NEW k \in 1 .. len, NEW addr, st[k].at = addr
  PROVE  WordAt(st, addr) = {st[k].value}
<1>1. ASSUME NEW i \in 1 .. len, NEW j \in 1 .. len, i < j PROVE st[i].at # st[j].at
  <2>1. st[j].at + st[j].size <= st[i].at /\ st[i].at \in Int /\ st[j].at \in Int /\ st[j].size \in Nat \ {0}
    BY <1>1, Zenon DEF Apart, SizesRight
  <2>2. PICK x, y, z : x = st[i].at /\ y = st[j].at /\ z = st[j].size
    BY Zenon
  <2>3. y + z <= x /\ x \in Int /\ y \in Int /\ z \in Nat \ {0}
    BY <2>1, <2>2, Zenon
  <2>4. x # y
    BY SMTT(60), <2>3, SMT
  <2> QED BY <2>2, <2>4, Zenon
<1>2. ASSUME NEW i \in 1 .. len, st[i].at = addr PROVE i = k
  <2>1. i < k \/ k < i \/ i = k
    BY SMTT(60), <1>2, SMT
  <2> QED BY <1>1, <1>2, <2>1, Zenon
<1> QED BY <1>2, Zenon DEF WordAt

\* setup_stack() writes what StackRight() asks for.
LEMMA StackIsRight ==
  ASSUME HasSmallest, NEW lens \in Seq(Nat), PHYS_BASE \in Nat
  PROVE  StackRight(lens, StackLayout(lens))
<1>1. PICK n, E : n = Len(lens) /\ E = EspAfter(lens)
  BY Zenon
<1>2. n \in Nat /\ lens \in [1 .. n -> Nat]
  BY SMTT(60), <1>1, SMT
<1>3. EspRight(E, lens, n)
  BY <1>1, <1>2, EspIs, Zenon DEF EspRight
<1>4. 0 \in 0 .. n
  BY SMTT(60), <1>2, SMT
<1>5. E \in [0 .. n -> Int] /\ E[0] \in Int
  BY <1>3, <1>4, Zenon DEF EspRight
<1>6. PICK al, ptr : al = E[0] - (E[0] % 4) /\ ptr = al - 4 - 4 * n
  BY Zenon
<1>7. al \in Int /\ al <= E[0] /\ al % 4 = 0
  <2>1. PICK x : x = E[0]
    BY Zenon
  <2>2. x \in Int
    BY <1>5, <2>1, Zenon
  <2>3. x - (x % 4) \in Int /\ x - (x % 4) <= x /\ (x - (x % 4)) % 4 = 0
    BY SMTT(60), <2>2, SMT
  <2> QED BY <1>6, <2>1, <2>3, ZenonT(60)
<1>8. PICK st, st0 : st = StackLayout(lens) /\ st0 = st.stores
  BY Zenon
<1>9. st = Layout(lens, E, n, al, ptr)
  BY <1>1, <1>6, <1>8, Zenon DEF StackLayout
<1>10. st.esp = ptr - 12
  BY <1>9, Zenon DEF Layout
<1>11. StoresAre(st0, E, lens, n, al)
  BY <1>2, <1>5, <1>6, <1>7, <1>8, <1>9, LayoutIs, ZenonT(60)
<1>12. Apart(st0) /\ SizesRight(st0)
  BY <1>3, <1>7, <1>11, StoresApart, ZenonT(60)
<1>13. PICK len : len = Len(st0)
  BY Zenon
<1>14. len = 2 * n + 4
  BY <1>11, <1>13, Zenon DEF StoresAre
<1>15. len \in Nat /\ n + 1 \in 1 .. len /\ 2 * n + 2 \in 1 .. len /\ 2 * n + 3 \in 1 .. len
  BY SMTT(60), <1>2, <1>14, SMT
<1>16. ASSUME NEW k \in 1 .. len, NEW at, NEW size, NEW value, StoreOf(st0[k], at, size, value)
       PROVE  WordAt(st0, at) = {value}
  <2>1. st0[k].at = at /\ st0[k].value = value
    BY <1>16, Zenon DEF StoreOf
  <2> QED BY <1>12, <1>13, <1>15, <2>1, WordIs, ZenonT(60)
<1>17. st.esp + 8 = al - 4 * n - 8 /\ st.esp + 4 = al - 4 * n - 12
  <2>1. (ptr - 12) + 8 = al - 4 * n - 8 /\ (ptr - 12) + 4 = al - 4 * n - 12
    BY SMTT(60), <1>2, <1>6, <1>7, SMT
  <2> QED BY <1>10, <2>1, Zenon
<1>18. WordAt(st0, st.esp + 8) = {ptr}
  <2>1. al - 4 * n - 4 = ptr
    BY SMTT(60), <1>2, <1>6, <1>7, SMT
  <2>2. StoreOf(st0[2 * n + 2], st.esp + 8, 4, ptr)
    BY <1>11, <1>17, <2>1, Zenon DEF StoresAre
  <2> QED BY <1>15, <1>16, <2>2, Zenon
<1>19. WordAt(st0, st.esp + 4) = {n}
  <2>1. StoreOf(st0[2 * n + 3], st.esp + 4, 4, n)
    BY <1>11, <1>17, Zenon DEF StoresAre
  <2> QED BY <1>15, <1>16, <2>1, Zenon
<1>20. WordAt(st0, ptr + 4 * n) = {0}
  <2>1. al - 4 = ptr + 4 * n
    BY SMTT(60), <1>2, <1>6, <1>7, SMT
  <2>2. StoreOf(st0[n + 1], ptr + 4 * n, 4, 0)
    BY <1>11, <2>1, Zenon DEF StoresAre
  <2> QED BY <1>15, <1>16, <2>2, ZenonT(60)
<1>21. ASSUME NEW k \in 1 .. n
       PROVE  \E a \in WordAt(st0, ptr + 4 * (k - 1)) : WordAt(st0, a) = {k}
  <2>1. PICK i : i = n - k + 1
    BY Zenon
  <2>2. /\ i \in 1 .. n /\ n - i = k - 1 /\ n - i + 1 = k /\ i \in 1 .. len /\ n + 1 + i \in 1 .. len
        /\ al - 4 - 4 * i = ptr + 4 * (k - 1)
    BY SMTT(60), <1>2, <1>6, <1>7, <1>14, <1>21, <2>1, SMT
  <2>3. StoreOf(st0[n + 1 + i], ptr + 4 * (k - 1), 4, E[k - 1])
    BY <1>11, <2>2, Zenon DEF StoresAre
  <2>4. StoreOf(st0[i], E[k - 1], lens[k] + 1, k)
    BY <1>11, <2>2, Zenon DEF StoresAre
  <2>5. WordAt(st0, ptr + 4 * (k - 1)) = {E[k - 1]}
    <3>1. PICK a, v, j : a = ptr + 4 * (k - 1) /\ v = E[k - 1] /\ j = n + 1 + i
      BY Zenon
    <3>2. StoreOf(st0[j], a, 4, v) /\ j \in 1 .. len
      BY <2>2, <2>3, <3>1, Zenon
    <3>3. WordAt(st0, a) = {v}
      BY <1>16, <3>2, Zenon
    <3> QED BY <3>1, <3>3, Zenon
  <2>6. WordAt(st0, E[k - 1]) = {k}
    BY <1>16, <2>2, <2>4, Zenon
  <2> QED BY <2>5, <2>6, Zenon
<1>22. st.esp % 4 = 0
  <2>1. (al - 4 - 4 * n - 12) % 4 = 0
    BY SMTT(60), <1>2, <1>7, SMT
  <2> QED BY <1>6, <1>10, <2>1, ZenonT(60)
<1>23. (CHOOSE a \in {ptr} : TRUE) = ptr
  BY Zenon
<1>25. /\ \A i, j \in 1 .. Len(st.stores) : i < j => st.stores[j].at + st.stores[j].size <= st.stores[i].at
       /\ WordAt(st.stores, st.esp + 4) = {Len(lens)}
       /\ WordAt(st.stores, st.esp + 8) = {ptr}
       /\ WordAt(st.stores, ptr + 4 * Len(lens)) = {0}
       /\ \A k \in 1 .. Len(lens) : \E a \in WordAt(st.stores, ptr + 4 * (k - 1)) : WordAt(st.stores, a) = {k}
  BY <1>1, <1>8, <1>12, <1>18, <1>19, <1>20, <1>21, ZenonT(60) DEF Apart
<1> DEFINE argv == CHOOSE a \in WordAt(st.stores, st.esp + 8) : TRUE
<1>26. argv = ptr
  BY <1>23, <1>25, Zenon
<1>27. /\ WordAt(st.stores, argv + 4 * Len(lens)) = {0}
       /\ \A k \in 1 .. Len(lens) : \E a \in WordAt(st.stores, argv + 4 * (k - 1)) : WordAt(st.stores, a) = {k}
  <2> HIDE DEF argv
  <2> QED BY <1>25, <1>26, Zenon
<1>28. StackRight(lens, st)
  BY <1>22, <1>25, <1>27, ZenonT(60) DEF StackRight, WordAt
<1> QED BY <1>8, <1>28, Zenon

\* A process that runs has what load() promises.
LEMMA RunsLoaded ==
  ASSUME HasSmallest, SpaceInv, LoadInv
  PROVE  SpaceHoldsProgram
<1>1. PHYS_BASE \in Nat
  BY SpaceNumbers, Zenon
<1>2. ASSUME NEW s \in Spaces \ mixed, space_pc[s] = "run"
      PROVE  HoldsSegments(s, stack[s].layout.esp) /\ StackRight(stack[s].words, stack[s].layout)
  <2>1. Right("run", program[s], phdr[s], todo[s], ptes[s], stack[s], s \notin mixed)
    BY <1>2, Zenon DEF LoadInv, LoadRight
  <2>2. program[s] \in Executable
    BY SpaceParts, SpaceTypeParts, Zenon
  <2>3. MapIs(ptes[s], program[s], Len(program[s].phdrs), {StackPage})
    BY <2>1, Zenon DEF Right, LoadState
  <2>4. HoldsSegments(s, stack[s].layout.esp)
    BY <2>2, <2>3, MapHolds, Zenon
  <2>5. PICK w \in Words : stack[s] = StackOf(w)
    BY <2>1, Zenon DEF Right
  <2>6. stack[s].words = w /\ stack[s].layout = StackLayout(w)
    <3>1. PICK l, r : l = StackLayout(w) /\ r = stack[s]
      BY Zenon
    <3>2. r = [words |-> w, layout |-> l]
      BY <2>5, <3>1, Zenon DEF StackOf
    <3>3. r.words = w /\ r.layout = l
      BY <3>2, SMT
    <3> QED BY <3>1, <3>3, Zenon
  <2>7. w \in Seq(Nat)
    BY AddressSpaceAssumption, Zenon
  <2>8. StackRight(w, StackLayout(w))
    BY <1>1, <2>7, StackIsRight, Zenon
  <2> QED BY <2>4, <2>6, <2>8, Zenon
<1> QED BY <1>2, Zenon DEF SpaceHoldsProgram

LOCAL INSTANCE WellFoundedInduction

\* A set of numbers has a smallest one.
LEMMA Smallest ==
  HasSmallest
<1> SUFFICES ASSUME NEW S \in SUBSET Nat, S # {}
             PROVE  \E i \in S : \A j \in S : i <= j
  BY Zenon DEF HasSmallest
<1> DEFINE R == OpToRel(<, Nat)
<1>1. IsWellFoundedOn(R, Nat)
  BY NatLessThanWellFounded, Zenon
<1>2. \E x \in S : \A y \in S : ~(<<y, x>> \in R)
  <2> HIDE DEF R
  <2> QED BY <1>1, WFMin, Zenon
<1>3. \A x, y \in Nat : <<y, x>> \in R <=> y < x
  BY Zenon DEF OpToRel
<1> HIDE DEF R
<1>4. PICK x \in S : \A y \in S : ~(<<y, x>> \in R)
  BY <1>2, Zenon
<1>5. \A y \in S : ~(y < x)
  BY Zenon, <1>3, <1>4
<1> QED BY <1>5

\* SpacesOwnPages is an invariant: however the processes of userprog/process.c
\* are preempted between palloc_get_page(), install_page() and pagedir_destroy(),
\* and wherever a load fails, each page of the pools is free or at one place of
\* one process, never both and never at two; a process that is dead has none
\* left; load_segment() installs user pages only; and the active page directory
\* is that of the process that runs.
THEOREM PagesOwned == SpaceSpec => []SpacesOwnPages
<1>1. SpaceInit => SpaceInv
  BY SpaceStarts
<1>2. SpaceInv /\ [SpaceNext]_spaceVars => SpaceInv'
  BY SpaceSteps, Smallest
<1>3. SpaceInv => SpacesOwnPages
  BY SpaceInvOwns
<1> QED BY <1>1, <1>2, <1>3, PTL DEF SpaceSpec

\* SpaceHoldsProgram is an invariant: whatever executables the processes load,
\* each of any number of segments and pages, whatever their command lines, and
\* wherever they are preempted, a user program that starts, with no other started
\* since process_execute() read its command line, has the bytes of its file, or
\* zeros, at every address of its segments below the stack pointer, nothing else
\* mapped but the stack, and argc, argv and its words where main() looks for them.
THEOREM ProgramLoaded == SpaceSpec => []SpaceHoldsProgram
<1>1. SpaceInit => SpaceInv /\ LoadInv
  BY SpaceStarts, LoadStarts
<1>2. SpaceInv /\ LoadInv /\ [SpaceNext]_spaceVars => (SpaceInv /\ LoadInv)'
  BY SpaceSteps, LoadKept, Smallest
<1>3. SpaceInv /\ LoadInv => SpaceHoldsProgram
  BY RunsLoaded, Smallest
<1> QED BY <1>1, <1>2, <1>3, PTL DEF SpaceSpec
=============================================================================
