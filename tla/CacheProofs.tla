---------------------------- MODULE CacheProofs ----------------------------
(***************************************************************************)
(* The buffer cache, for any number of callers, blocks and sectors and     *)
(* every use made of it: the order of its locks, which sector it evicts,   *)
(* what cache_flush() leaves on the disk, and that it implements the array *)
(* of sectors of BlockStore as long as nobody races an eviction.           *)
(***************************************************************************)
EXTENDS BufferCache, Integers, TLAPS
-----------------------------------------------------------------------------
\* The order of the cache's locks.

Procs == Threads \cup {Flusher}

\* Labels at which a caller or cache_flush() holds a block_lock and LRU_lock.
WithBlock == {"writeback", "fetch", "copy", "flush_write"}
WithLRU == {"lock", "flush", "flush_lock", "flush_write"}

\* The strengthening: the holder of a block_lock is at work on that block, so
\* that the release at its end gives back what it took; and whoever is at a
\* label under LRU_lock holds it, so that nobody else gives it back.
HoldersWork ==
  /\ pc = [t \in Procs |-> pc[t]] /\ block = [t \in Procs |-> block[t]]
  /\ block_lock \in [CacheBlocks -> Procs \cup {NoThread}] /\ LRU_lock \in Procs \cup {NoThread}
  /\ \A b \in CacheBlocks : block_lock[b] # NoThread =>
       block[block_lock[b]] = b /\ pc[block_lock[b]] \in WithBlock
  /\ \A t \in Procs : LRU_lock = t <=> pc[t] \in WithLRU

LEMMA HoldersInit == Init => HoldersWork
<1> SUFFICES ASSUME Init PROVE HoldersWork
  OBVIOUS
<1>1. /\ pc = [t \in Procs |-> "idle"] /\ block = [t \in Procs |-> 0]
      /\ block_lock = [b \in CacheBlocks |-> NoThread] /\ LRU_lock = NoThread /\ NoThread \notin Procs
  BY CacheAssumption, Zenon DEF Init, Procs
<1> QED BY Zenon, <1>1 DEF HoldersWork, WithLRU

\* Process t goes from one label to another; it holds no block_lock before or
\* after, and LRU_lock's holder is as the labels say.
LEMMA NoBlockMove ==
  ASSUME HoldersWork, NEW t \in Procs, NEW label, pc[t] \notin WithBlock,
         Goto(t, label), block_lock' = block_lock,
         block' = block \/ \E b : block' = [block EXCEPT ![t] = b],
         LRU_lock' \in Procs \cup {NoThread},
         LRU_lock' = t <=> label \in WithLRU,
         \A u \in Procs \ {t} : LRU_lock' = u <=> LRU_lock = u
  PROVE  HoldersWork'
<1>1. pc'[t] = label /\ \A u \in Procs \ {t} : pc'[u] = pc[u]
  BY Zenon DEF HoldersWork, Goto
<1>2. pc' = [u \in Procs |-> pc'[u]]
  BY Zenon DEF HoldersWork, Goto
<1>3. block' = [u \in Procs |-> block'[u]] /\ \A u \in Procs \ {t} : block'[u] = block[u]
  BY Zenon DEF HoldersWork
<1>4. ASSUME NEW b \in CacheBlocks, block_lock'[b] # NoThread
      PROVE  block'[block_lock'[b]] = b /\ pc'[block_lock'[b]] \in WithBlock
  <2>0. block_lock[b] # NoThread
    BY <1>4, Zenon
  <2>a. block_lock[b] \in Procs \cup {NoThread}
    BY Zenon DEF HoldersWork
  <2>b. block[block_lock[b]] = b /\ pc[block_lock[b]] \in WithBlock
    BY <2>0, Zenon DEF HoldersWork
  <2>1. block_lock[b] \in Procs /\ block[block_lock[b]] = b /\ pc[block_lock[b]] \in WithBlock
    BY <2>0, <2>a, <2>b, ZenonT(60)
  <2>2. block_lock[b] \in Procs \ {t}
    BY <2>1, Zenon
  <2> QED BY <1>1, <1>3, <2>1, <2>2, ZenonT(60)
<1>5. ASSUME NEW u \in Procs PROVE LRU_lock' = u <=> pc'[u] \in WithLRU
  <2>1. LRU_lock = u <=> pc[u] \in WithLRU
    BY Zenon DEF HoldersWork
  <2>2. CASE u = t
    BY <1>1, <2>2, Zenon
  <2>3. CASE u # t
    <3>1. u \in Procs \ {t}
      BY <2>3, Zenon
    <3> QED BY <1>1, <2>1, <3>1, ZenonT(60)
  <2> QED BY <2>2, <2>3, Zenon
<1>6. block_lock' \in [CacheBlocks -> Procs \cup {NoThread}]
  BY Zenon DEF HoldersWork
<1> QED BY <1>2, <1>3, <1>4, <1>5, <1>6, ZenonT(60) DEF HoldersWork

\* Process t takes the lock of its block b.
LEMMA TakeBlock ==
  ASSUME HoldersWork, NEW t \in Procs, NEW label \in WithBlock, NEW b, b = block[t],
         Goto(t, label), block_lock[b] = NoThread,
         block_lock' = [block_lock EXCEPT ![b] = t], block' = block,
         LRU_lock' \in Procs \cup {NoThread},
         LRU_lock' = t <=> label \in WithLRU,
         \A u \in Procs \ {t} : LRU_lock' = u <=> LRU_lock = u,
         pc[t] \notin WithBlock
  PROVE  HoldersWork'
<1>1. pc'[t] = label /\ \A u \in Procs \ {t} : pc'[u] = pc[u]
  BY Zenon DEF HoldersWork, Goto
<1>2. pc' = [u \in Procs |-> pc'[u]] /\ block' = [u \in Procs |-> block'[u]]
  BY Zenon DEF HoldersWork, Goto
<1>3. block_lock' \in [CacheBlocks -> Procs \cup {NoThread}]
  BY Zenon DEF HoldersWork
<1>4. ASSUME NEW c \in CacheBlocks, block_lock'[c] # NoThread
      PROVE  block'[block_lock'[c]] = c /\ pc'[block_lock'[c]] \in WithBlock
  <2>1. block_lock'[c] = IF c = b THEN t ELSE block_lock[c]
    BY Zenon DEF HoldersWork
  <2>2. CASE c = b
    BY <1>1, <2>1, <2>2, ZenonT(60)
  <2>3. CASE c # b
    <3>1. block_lock[c] \in Procs /\ block[block_lock[c]] = c /\ pc[block_lock[c]] \in WithBlock
      BY <1>4, <2>1, <2>3, ZenonT(60) DEF HoldersWork
    <3>2. block_lock[c] \in Procs \ {t}
      BY <3>1, Zenon
    <3> QED BY <1>1, <2>1, <2>3, <3>1, <3>2, ZenonT(60)
  <2> QED BY <2>2, <2>3, ZenonT(60)
<1>5. ASSUME NEW u \in Procs PROVE LRU_lock' = u <=> pc'[u] \in WithLRU
  <2>1. LRU_lock = u <=> pc[u] \in WithLRU
    BY Zenon DEF HoldersWork
  <2>2. CASE u = t
    BY <1>1, <2>2, Zenon
  <2>3. CASE u # t
    <3>1. u \in Procs \ {t}
      BY <2>3, Zenon
    <3> QED BY <1>1, <2>1, <3>1, ZenonT(60)
  <2> QED BY <2>2, <2>3, ZenonT(60)
<1> QED BY <1>2, <1>3, <1>4, <1>5, ZenonT(60) DEF HoldersWork

\* Process t, which has a block locked, goes on with it or gives it back.
LEMMA WithBlockMove ==
  ASSUME HoldersWork, NEW t \in Procs, NEW label, Goto(t, label),
         \/ label \in WithBlock /\ UNCHANGED <<block, block_lock>>
         \/ /\ block_lock' = [block_lock EXCEPT ![block[t]] = NoThread]
            /\ \E b : block' = [block EXCEPT ![t] = b],
         LRU_lock' = LRU_lock, LRU_lock = t <=> label \in WithLRU
  PROVE  HoldersWork'
<1>1. pc'[t] = label /\ \A u \in Procs \ {t} : pc'[u] = pc[u]
  BY Zenon DEF HoldersWork, Goto
<1>2. pc' = [u \in Procs |-> pc'[u]]
  BY Zenon DEF HoldersWork, Goto
<1>3. block' = [u \in Procs |-> block'[u]] /\ \A u \in Procs \ {t} : block'[u] = block[u]
  BY Zenon DEF HoldersWork
<1>4. block_lock' \in [CacheBlocks -> Procs \cup {NoThread}]
  BY Zenon DEF HoldersWork
<1>5. ASSUME NEW b \in CacheBlocks, block_lock'[b] # NoThread
      PROVE  block'[block_lock'[b]] = b /\ pc'[block_lock'[b]] \in WithBlock
  <2>1. CASE label \in WithBlock /\ UNCHANGED <<block, block_lock>>
    <3>1. block_lock[b] \in Procs /\ block[block_lock[b]] = b /\ pc[block_lock[b]] \in WithBlock
      BY <1>5, <2>1, ZenonT(60) DEF HoldersWork
    <3> QED BY <1>1, <2>1, <3>1, ZenonT(60)
  <2>2. CASE block_lock' = [block_lock EXCEPT ![block[t]] = NoThread]
    <3>1. b # block[t] /\ block_lock'[b] = block_lock[b]
      BY <1>5, <2>2, Zenon DEF HoldersWork
    <3>2. block_lock[b] \in Procs /\ block[block_lock[b]] = b /\ pc[block_lock[b]] \in WithBlock
      BY <1>5, <3>1, ZenonT(60) DEF HoldersWork
    <3>3. block_lock[b] \in Procs \ {t}
      BY <3>1, <3>2, ZenonT(60)
    <3> QED BY <1>1, <1>3, <3>1, <3>2, <3>3, Zenon
  <2> QED BY <2>1, <2>2, ZenonT(60)
<1>6. \A u \in Procs : LRU_lock' = u <=> pc'[u] \in WithLRU
  BY <1>1, Zenon DEF HoldersWork
<1>7. LRU_lock' \in Procs \cup {NoThread}
  BY Zenon DEF HoldersWork
<1> QED BY <1>2, <1>3, <1>4, <1>5, <1>6, <1>7, ZenonT(60) DEF HoldersWork

LEMMA HoldersStep == HoldersWork /\ [Next]_vars => HoldersWork'
<1> SUFFICES ASSUME HoldersWork, [Next]_vars PROVE HoldersWork'
  BY Zenon
<1>0. Threads \subseteq Procs /\ Flusher \in Procs /\ NoThread \notin Procs
  BY CacheAssumption, Zenon DEF Procs
<1>b. \A u \in Procs : LRU_lock = u <=> pc[u] \in WithLRU
  BY Zenon DEF HoldersWork
<1>1. ASSUME NEW t \in Threads, NEW o, NEW s, NEW d, Call(t, o, s, d) PROVE HoldersWork'
  <2>1. t \in Procs /\ pc[t] = "idle" /\ Goto(t, "lookup") /\ UNCHANGED <<block, block_lock, LRU_lock>>
    BY <1>0, <1>1, Zenon DEF Call, lockVars
  <2>2. pc[t] \notin WithBlock /\ pc[t] \notin WithLRU /\ "lookup" \notin WithLRU
    BY Zenon, <2>1 DEF WithBlock, WithLRU
  <2>3. LRU_lock' \in Procs \cup {NoThread} /\ LRU_lock' # t
    BY <1>b, <2>1, <2>2, ZenonT(60) DEF HoldersWork
  <2> QED BY <2>1, <2>2, <2>3, NoBlockMove, ZenonT(60)
<1>2. ASSUME NEW t \in Threads, LookupHit(t) \/ LookupFresh(t) \/ LookupEvict(t) PROVE HoldersWork'
  <2>1. PICK b : block' = [block EXCEPT ![t] = b] /\ LRU_lock' = t /\ Goto(t, "lock") /\ block_lock' = block_lock
    BY <1>2, Zenon DEF LookupHit, LookupFresh, LookupEvict, Found
  <2>2. t \in Procs /\ pc[t] = "lookup" /\ LRU_lock = NoThread
    BY <1>0, <1>2, Zenon DEF LookupHit, LookupFresh, LookupEvict
  <2>3. pc[t] \notin WithBlock /\ "lock" \in WithLRU
    BY Zenon, <2>2 DEF WithBlock, WithLRU
  <2>4. \A u \in Procs \ {t} : LRU_lock' # u /\ LRU_lock # u
    BY <1>0, <2>1, <2>2, ZenonT(60)
  <2> QED BY <2>1, <2>2, <2>3, <2>4, NoBlockMove, ZenonT(60)
<1>3. ASSUME NEW t \in Threads, LockBlock(t) PROVE HoldersWork'
  <2>1. /\ t \in Procs /\ pc[t] = "lock" /\ block_lock[block[t]] = NoThread
        /\ block_lock' = [block_lock EXCEPT ![block[t]] = t] /\ LRU_lock' = NoThread /\ block' = block
    BY <1>0, <1>3, ZenonT(60) DEF LockBlock
  <2>2. PICK label \in {"copy", "writeback", "fetch"} : Goto(t, label)
    BY Zenon, <1>3 DEF LockBlock, Transfer
  <2>3. label \in WithBlock /\ label \notin WithLRU /\ pc[t] \notin WithBlock /\ pc[t] \in WithLRU
    BY Zenon, <2>1, <2>2 DEF WithBlock, WithLRU
  <2>4. LRU_lock = t
    BY <1>b, <2>1, <2>3, ZenonT(60)
  <2>5. LRU_lock' # t /\ \A u \in Procs \ {t} : LRU_lock' # u /\ LRU_lock # u
    BY <1>0, <2>1, <2>4, ZenonT(60)
  <2> QED BY <2>1, <2>2, <2>3, <2>5, TakeBlock, ZenonT(60)
<1>4. ASSUME NEW t \in Threads, WriteBack(t) \/ Fetch(t) PROVE HoldersWork'
  <2>1. t \in Procs /\ pc[t] \in {"writeback", "fetch"} /\ UNCHANGED <<block, block_lock, LRU_lock>>
    BY Zenon, <1>0, <1>4 DEF WriteBack, Fetch, lockVars, callVars
  <2>2. PICK label \in {"copy", "fetch"} : Goto(t, label)
    BY Zenon, <1>4 DEF WriteBack, Fetch, Transfer
  <2>3. label \in WithBlock /\ label \notin WithLRU /\ pc[t] \notin WithLRU
    BY Zenon, <2>1, <2>2 DEF WithBlock, WithLRU
  <2> QED BY <1>b, <2>1, <2>2, <2>3, WithBlockMove, ZenonT(60)
<1>5. ASSUME NEW t \in Threads, CopyOut(t) \/ CopyIn(t) PROVE HoldersWork'
  <2>1. /\ t \in Procs /\ pc[t] = "copy" /\ LRU_lock' = LRU_lock /\ Goto(t, "idle")
        /\ block_lock' = [block_lock EXCEPT ![block[t]] = NoThread] /\ block' = [block EXCEPT ![t] = 0]
    BY <1>0, <1>5, ZenonT(60) DEF CopyOut, CopyIn, Return
  <2>2. "idle" \notin WithLRU /\ pc[t] \notin WithLRU
    BY Zenon, <2>1 DEF WithLRU
  <2> QED BY <1>b, <2>1, <2>2, WithBlockMove, ZenonT(60)
<1>6. CASE FlushStart
  <2>1. /\ pc[Flusher] = "idle" /\ LRU_lock = NoThread /\ LRU_lock' = Flusher /\ Goto(Flusher, "flush")
        /\ block' = [block EXCEPT ![Flusher] = 0] /\ block_lock' = block_lock
    BY <1>6, ZenonT(60) DEF FlushStart
  <2>2. pc[Flusher] \notin WithBlock /\ "flush" \in WithLRU
    BY Zenon, <2>1 DEF WithBlock, WithLRU
  <2>3. \A u \in Procs \ {Flusher} : LRU_lock' # u /\ LRU_lock # u
    BY <1>0, <2>1, Zenon
  <2> QED BY <1>0, <2>1, <2>2, <2>3, NoBlockMove, ZenonT(60)
<1>7. CASE FlushTest
  <2>1. pc[Flusher] = "flush" /\ UNCHANGED <<block_lock, LRU_lock>>
    BY <1>7, Zenon DEF FlushTest, lockVars
  <2>2. pc[Flusher] \notin WithBlock /\ "flush" \in WithLRU /\ "flush_lock" \in WithLRU /\ pc[Flusher] \in WithLRU
    BY Zenon, <2>1 DEF WithBlock, WithLRU
  <2>3. LRU_lock = Flusher /\ LRU_lock' = Flusher /\ LRU_lock' \in Procs \cup {NoThread}
    BY <1>0, <1>b, <2>1, <2>2, ZenonT(60)
  <2>4. CASE Goto(Flusher, "flush_lock") /\ UNCHANGED block
    BY <1>0, <2>1, <2>2, <2>3, <2>4, NoBlockMove, ZenonT(60)
  <2>5. CASE block' = [block EXCEPT ![Flusher] = block[Flusher] + 1] /\ UNCHANGED pc
    <3>1. Goto(Flusher, "flush")
      <4>1. pc = [t \in Procs |-> pc[t]]
        BY Zenon DEF HoldersWork
      <4> QED BY <1>0, <2>1, <2>5, <4>1, ZenonT(60) DEF Goto
    <3> QED BY <1>0, <2>1, <2>2, <2>3, <2>5, <3>1, NoBlockMove, ZenonT(60)
  <2> QED BY <1>7, <2>4, <2>5, ZenonT(60) DEF FlushTest
<1>8. CASE FlushLock
  <2>1. /\ pc[Flusher] = "flush_lock" /\ block_lock[block[Flusher]] = NoThread /\ Goto(Flusher, "flush_write")
        /\ block_lock' = [block_lock EXCEPT ![block[Flusher]] = Flusher] /\ UNCHANGED <<LRU_lock, block>>
    BY <1>8, Zenon DEF FlushLock, callVars
  <2>2. /\ "flush_write" \in WithBlock /\ "flush_write" \in WithLRU
        /\ pc[Flusher] \notin WithBlock /\ pc[Flusher] \in WithLRU
    BY Zenon, <2>1 DEF WithBlock, WithLRU
  <2>3. LRU_lock = Flusher /\ LRU_lock' = Flusher /\ LRU_lock' \in Procs \cup {NoThread}
    BY <1>0, <1>b, <2>1, <2>2, ZenonT(60)
  <2> QED BY <1>0, <2>1, <2>2, <2>3, TakeBlock, ZenonT(60)
<1>9. CASE FlushWrite
  <2>1. /\ pc[Flusher] = "flush_write" /\ Goto(Flusher, "flush") /\ LRU_lock' = LRU_lock
        /\ block_lock' = [block_lock EXCEPT ![block[Flusher]] = NoThread]
        /\ block' = [block EXCEPT ![Flusher] = block[Flusher] + 1]
    BY <1>9, ZenonT(60) DEF FlushWrite
  <2>2. "flush" \in WithLRU /\ pc[Flusher] \in WithLRU
    BY Zenon, <2>1 DEF WithLRU
  <2> QED BY <1>0, <1>b, <2>1, <2>2, WithBlockMove, ZenonT(60)
<1>10. CASE FlushEnd
  <2>1. /\ pc[Flusher] = "flush" /\ LRU_lock' = NoThread /\ Goto(Flusher, "off")
        /\ UNCHANGED <<block, block_lock>>
    BY <1>10, ZenonT(60) DEF FlushEnd, callVars
  <2>2. pc[Flusher] \notin WithBlock /\ "off" \notin WithLRU /\ pc[Flusher] \in WithLRU
    BY Zenon, <2>1 DEF WithBlock, WithLRU
  <2>3. LRU_lock' # Flusher /\ \A u \in Procs \ {Flusher} : LRU_lock' # u /\ LRU_lock # u
    BY <1>0, <1>b, <2>1, <2>2, ZenonT(60)
  <2> QED BY <1>0, <2>1, <2>2, <2>3, NoBlockMove, ZenonT(60)
<1>11. CASE UNCHANGED vars
  BY <1>11, ZenonT(60) DEF vars, lockVars, callVars, HoldersWork
<1>12. CASE Off
  BY <1>11, <1>12, ZenonT(60) DEF Off
<1> QED BY <1>1, <1>2, <1>3, <1>4, <1>5, <1>6, <1>7, <1>8, <1>9, <1>10, <1>11, <1>12, ZenonT(60)
        DEF Next, Step, Flush

\* Whoever holds a block_lock waits for no lock, and the holder of LRU_lock for
\* a block_lock only, so no callers of the cache ever wait in a circle.
THEOREM LocksOrdered == Spec => []LockOrder
<1>1. HoldersWork => LockOrder
  <2> SUFFICES ASSUME HoldersWork PROVE LockOrder
    BY Zenon
  <2>1. \A b \in CacheBlocks : block_lock[b] # NoThread =>
          pc[block_lock[b]] \in {"writeback", "fetch", "copy", "flush_write"}
    BY Zenon DEF HoldersWork, WithBlock
  <2>2. LRU_lock # NoThread => pc[LRU_lock] \in {"lock", "flush", "flush_lock", "flush_write"}
    <3>1. LRU_lock # NoThread => LRU_lock \in Procs
      BY Zenon DEF HoldersWork
    <3> QED BY <3>1, Zenon DEF HoldersWork, WithLRU
  <2> QED BY <2>1, <2>2, ZenonT(60) DEF LockOrder
<1> QED BY <1>1, HoldersInit, HoldersStep, PTL DEF Spec
-----------------------------------------------------------------------------
\* What the cache holds, and that it hides the disk behind it.

\* Each element of a list is there once.
Once(q) == \A i, j \in 1 .. Len(q) : q[i] = q[j] => i = j

\* ToFront() puts a new element before the others.
LEMMA ToFrontNew ==
  ASSUME NEW S, NEW q \in Seq(S), NEW x \in S, \A i \in 1 .. Len(q) : q[i] # x, Once(q)
  PROVE  /\ ToFront(x, q) \in Seq(S) /\ Len(ToFront(x, q)) = Len(q) + 1
         /\ ToFront(x, q)[1] = x /\ \A i \in 1 .. Len(q) : ToFront(x, q)[i + 1] = q[i]
         /\ Once(ToFront(x, q))
<1>1. ToFront(x, q) = <<x>> \o q
  BY Zenon DEF ToFront
<1> DEFINE r == <<x>> \o q
<1>2. r \in Seq(S) /\ Len(r) = Len(q) + 1 /\ r[1] = x /\ \A i \in 1 .. Len(q) : r[i + 1] = q[i]
  OBVIOUS
<1>3. Once(r)
  <2> HIDE DEF r
  <2> SUFFICES ASSUME NEW i \in 1 .. Len(r), NEW j \in 1 .. Len(r), r[i] = r[j] PROVE i = j
    BY DEF Once
  <2>1. \A k \in 1 .. Len(r) : k # 1 => k - 1 \in 1 .. Len(q) /\ r[k] = q[k - 1]
    <3> TAKE k \in 1 .. Len(r)
    <3>1. k # 1 => k - 1 \in 1 .. Len(q) /\ (k - 1) + 1 = k
      BY <1>2
    <3> QED BY <1>2, <3>1, Zenon
  <2>2. i # 1 /\ j # 1 => i - 1 = j - 1
    BY <2>1, ZenonT(60) DEF Once
  <2>3. i = 1 <=> j = 1
    BY <1>2, <2>1, Zenon
  <2> QED BY <2>2, <2>3
<1> QED BY <1>1, <1>2, <1>3, Zenon

\* Where the element at i of a list comes from when the one at n is moved to
\* the front.
From(i, n) == IF i = 1 THEN n ELSE IF i <= n THEN i - 1 ELSE i

\* That is a permutation of the list's places.
LEMMA FromIn ==
  ASSUME NEW m \in Nat, NEW n \in 1 .. m
  PROVE  /\ \A i \in 1 .. m : From(i, n) \in 1 .. m
         /\ \A i, j \in 1 .. m : From(i, n) = From(j, n) => i = j
         /\ \A j \in 1 .. m : \E i \in 1 .. m : From(i, n) = j
<1>1. \A j \in 1 .. m : From(IF j = n THEN 1 ELSE IF j < n THEN j + 1 ELSE j, n) = j
  BY DEF From
<1>2. \A j \in 1 .. m : (IF j = n THEN 1 ELSE IF j < n THEN j + 1 ELSE j) \in 1 .. m
  OBVIOUS
<1>3. \A j \in 1 .. m : \E i \in 1 .. m : From(i, n) = j
  BY <1>1, <1>2, Zenon
<1>4. (\A i \in 1 .. m : From(i, n) \in 1 .. m) /\ \A i, j \in 1 .. m : From(i, n) = From(j, n) => i = j
  BY DEF From
<1> QED BY <1>3, <1>4, Zenon

\* ToFront() moves the element at n to the front, those before it by one place.
LEMMA ToFrontOld ==
  ASSUME NEW S, NEW q \in Seq(S), NEW n \in 1 .. Len(q), Once(q)
  PROVE  /\ ToFront(q[n], q) \in Seq(S) /\ Len(ToFront(q[n], q)) = Len(q)
         /\ \A i \in 1 .. Len(q) : ToFront(q[n], q)[i] = q[From(i, n)]
         /\ Once(ToFront(q[n], q))
<1> DEFINE r == <<q[n]>> \o SubSeq(q, 1, n - 1) \o SubSeq(q, n + 1, Len(q))
<1>1. ToFront(q[n], q) = r
  <2>1. (CHOOSE i \in 1 .. Len(q) : q[i] = q[n]) = n
    <3>1. \E i \in 1 .. Len(q) : q[i] = q[n]
      OBVIOUS
    <3>2. /\ (CHOOSE i \in 1 .. Len(q) : q[i] = q[n]) \in 1 .. Len(q)
          /\ q[CHOOSE i \in 1 .. Len(q) : q[i] = q[n]] = q[n]
      BY <3>1, Zenon
    <3> QED BY <3>2, Zenon DEF Once
  <2> QED BY <2>1, Zenon DEF ToFront
<1> DEFINE a == SubSeq(q, 1, n - 1)
           c == SubSeq(q, n + 1, Len(q))
<1>2. a \in Seq(S) /\ Len(a) = n - 1 /\ \A i \in 1 .. n - 1 : a[i] = q[i]
  OBVIOUS
<1>3. c \in Seq(S) /\ Len(c) = Len(q) - n /\ \A i \in 1 .. Len(q) - n : c[i] = q[n + i]
  OBVIOUS
<1>4. r = <<q[n]>> \o a \o c
  OBVIOUS
<1> HIDE DEF a, c, r
<1>5. /\ r \in Seq(S) /\ Len(r) = Len(q) /\ r[1] = q[n]
      /\ \A i \in 1 .. n - 1 : r[i + 1] = a[i]
      /\ \A i \in 1 .. Len(q) - n : r[n + i] = c[i]
  BY <1>2, <1>3, <1>4
<1>6. ASSUME NEW k \in 1 .. Len(q) PROVE r[k] = q[From(k, n)]
  <2>1. CASE k = 1
    BY <1>5, <2>1 DEF From
  <2>2. CASE k # 1 /\ k <= n
    <3>1. k - 1 \in 1 .. n - 1 /\ (k - 1) + 1 = k
      BY <2>2
    <3> QED BY <1>2, <1>5, <2>2, <3>1, Zenon DEF From
  <2>3. CASE k # 1 /\ ~(k <= n)
    <3>1. k - n \in 1 .. Len(q) - n /\ n + (k - n) = k
      BY <2>3
    <3> QED BY <1>3, <1>5, <2>3, <3>1, Zenon DEF From
  <2> QED BY <2>1, <2>2, <2>3, Zenon
<1>7. Len(q) \in Nat
  OBVIOUS
<1>8. Once(r)
  <2>1. (\A i \in 1 .. Len(q) : From(i, n) \in 1 .. Len(q)) /\ \A i, j \in 1 .. Len(q) : From(i, n) = From(j, n) => i = j
    BY <1>7, FromIn, Zenon
  <2>2. \A i, j \in 1 .. Len(q) : r[i] = r[j] => From(i, n) = From(j, n)
    BY <1>6, <2>1, Zenon DEF Once
  <2>3. 1 .. Len(r) = 1 .. Len(q)
    BY <1>5, Zenon
  <2> QED BY <2>1, <2>2, <2>3, Zenon DEF Once
<1> QED BY <1>1, <1>5, <1>6, <1>8, Zenon

\* The blocks in use: those that the search loop looks at.
InUse == 0 .. Len(LRU_list) - 1

\* The sector that a block holds, or is being evicted for: the tag of an evicted
\* block changes when block_lock is taken, after the lists have.
Meant(b) ==
  IF LRU_lock \in Threads /\ how[LRU_lock] = "evict" /\ block[LRU_lock] = b
  THEN want[LRU_lock] ELSE sector_tag[b]

\* LRU_list holds the blocks in use, once each, and their sectors head the list
\* of those looked up, in the same order; no sector is in two blocks.
Listed ==
  /\ LRU_list \in Seq(CacheBlocks) /\ Len(LRU_list) <= CACHE_SIZE
  /\ recent \in Seq(Sectors) /\ Len(LRU_list) <= Len(recent)
  /\ Once(LRU_list) /\ Once(recent)
  /\ \A i \in 1 .. Len(LRU_list) : LRU_list[i] \in InUse
  /\ \A b \in InUse : \E i \in 1 .. Len(LRU_list) : LRU_list[i] = b
  /\ \A i \in 1 .. Len(LRU_list) : recent[i] = Meant(LRU_list[i])
  /\ \A b, c \in InUse : sector_tag[b] = sector_tag[c] => b = c

\* What a caller may count on at each label: its block is in use, is locked by
\* it once it is past the lock, and carries the tag that it looked for; a
\* fresh block is nobody's; only a dirty block is written back, and only a
\* read fetches.
WorksOn(t) ==
  /\ pc[t] \in {"lock", "writeback", "fetch", "copy"} => block[t] \in InUse
  /\ pc[t] \in {"writeback", "fetch", "copy"} =>
       block_lock[block[t]] = t /\ sector_tag[block[t]] = want[t]
  /\ pc[t] = "lock" /\ how[t] # "evict" => sector_tag[block[t]] = want[t]
  /\ pc[t] = "lock" /\ how[t] = "evict" => \A b \in InUse : sector_tag[b] # want[t]
  /\ pc[t] = "lock" /\ how[t] = "fresh" =>
       block_lock[block[t]] = NoThread /\ (dirty_bit[block[t]] <=> op[t] = "write")
  /\ pc[t] = "writeback" => how[t] = "evict" /\ dirty_bit[block[t]]
  /\ pc[t] = "fetch" => how[t] # "hit" /\ op[t] = "read" /\ ~dirty_bit[block[t]]

\* Every caller is where it may be, blocks not in use are not locked, and
\* cache_flush() is at a block in use.
Working ==
  /\ \A t \in Threads : WorksOn(t)
  /\ \A b \in CacheBlocks \ InUse : block_lock[b] = NoThread
  /\ pc[Flusher] = "flush" => block[Flusher] <= Len(LRU_list)
  /\ pc[Flusher] \in {"flush_lock", "flush_write"} => block[Flusher] \in InUse
  /\ pc[Flusher] = "flush_write" => block_lock[block[Flusher]] = Flusher

\* Callers that have yet to put the contents of their sector into their block,
\* and the blocks they do it to.
Fills(t) ==
  \/ pc[t] \in {"writeback", "fetch"}
  \/ pc[t] = "copy" /\ op[t] = "write" /\ how[t] # "hit"
  \/ pc[t] = "lock" /\ how[t] = "fresh"

Filling(b) == \E t \in Threads : Fills(t) /\ block[t] = b

\* What is where while nobody races an eviction.
Coherent ==
  /\ \A b \in InUse : ~Filling(b) => sector[b] = last[sector_tag[b]]
  /\ \A b \in InUse : Filling(b) \/ ~dirty_bit[b] => disk[sector_tag[b]] = last[sector_tag[b]]
  /\ \A t \in Threads : pc[t] = "writeback" =>
       /\ sector[block[t]] = last[old_sector[t]]
       /\ \A b \in InUse : sector_tag[b] # old_sector[t]
       /\ \A u \in Threads : pc[u] = "writeback" /\ old_sector[u] = old_sector[t] => u = t
       /\ \A u \in Threads : pc[u] = "lock" => want[u] # old_sector[t]
  /\ \A s \in Sectors :
       \/ disk[s] = last[s]
       \/ \E b \in InUse : sector_tag[b] = s
       \/ \E t \in Threads : pc[t] = "writeback" /\ old_sector[t] = s

\* Since cache_flush() began, what the disk lacks of a sector not written since
\* is in a block that the flush has yet to reach, or is being written back
\* from one.
Saving ==
  /\ pc[Flusher] \in {"flush", "flush_lock", "flush_write"} => \A s \in stable :
       \/ disk[s] = last[s]
       \/ \E b \in InUse : b >= block[Flusher] /\ sector_tag[b] = s
       \/ \E t \in Threads : pc[t] = "writeback" /\ block[t] >= block[Flusher] /\ old_sector[t] = s
  /\ pc[Flusher] = "off" => \A s \in stable : disk[s] = last[s]

\* Under file_lock there is one caller at a time, and no race.
OneCaller == use.file_lock => ~raced /\ \A t, u \in Callers : t = u

\* The lengths of both lists are numbers; blocks in use are blocks.
LEMMA ListFacts ==
  ASSUME Listed
  PROVE  /\ Len(LRU_list) \in Nat /\ Len(LRU_list) \in 0 .. Len(recent) /\ Len(recent) \in Nat
         /\ InUse \subseteq CacheBlocks
         /\ 1 .. Len(LRU_list) \subseteq 1 .. Len(recent)
BY CacheAssumption DEF Listed, InUse, CacheBlocks

\* A hit: the block and its sector are at the same place of both lists.
LEMMA ListedHit ==
  ASSUME TypeOK, Listed, LRU_lock = NoThread, NEW t \in Threads, LookupHit(t)
  PROVE  Listed' /\ InUse' = InUse
<1>1. PICK b \in Hits(want[t]) : Found(t, b, "hit")
  BY Zenon DEF LookupHit
<1>2. b \in InUse /\ sector_tag[b] = want[t]
  BY <1>1, Zenon DEF Hits, InUse
<1>3. PICK n \in 1 .. Len(LRU_list) : LRU_list[n] = b
  BY <1>2, Zenon DEF Listed
<1>4. \A c : Meant(c) = sector_tag[c]
  BY CacheAssumption, Zenon DEF Meant
<1>5. \A c : Meant(c)' = sector_tag[c]
  BY <1>1, Zenon DEF Meant, Found, LookupHit, TypeOK
<1>6. recent[n] = want[t] /\ n \in 1 .. Len(recent) /\ Len(LRU_list) \in Nat
  BY <1>2, <1>3, <1>4, ListFacts, Zenon DEF Listed
<1>7. /\ LRU_list' \in Seq(CacheBlocks) /\ Len(LRU_list') = Len(LRU_list) /\ Once(LRU_list')
      /\ \A i \in 1 .. Len(LRU_list) : LRU_list'[i] = LRU_list[From(i, n)]
  <2>1. LRU_list' = ToFront(LRU_list[n], LRU_list) /\ LRU_list \in Seq(CacheBlocks) /\ Once(LRU_list)
    BY <1>1, <1>3, Zenon DEF Found, Listed
  <2> QED BY <2>1, ToFrontOld, Zenon
<1>8. /\ recent' \in Seq(Sectors) /\ Len(recent') = Len(recent) /\ Once(recent')
      /\ \A i \in 1 .. Len(recent) : recent'[i] = recent[From(i, n)]
  <2>1. recent' = ToFront(recent[n], recent) /\ recent \in Seq(Sectors) /\ Once(recent)
    BY <1>1, <1>6, Zenon DEF Found, Listed
  <2> QED BY <1>6, <2>1, ToFrontOld, Zenon
<1>9. InUse' = InUse /\ sector_tag' = sector_tag
  BY <1>7, Zenon DEF InUse, LookupHit
<1>10. /\ \A i \in 1 .. Len(LRU_list) : From(i, n) \in 1 .. Len(LRU_list)
       /\ \A j \in 1 .. Len(LRU_list) : \E i \in 1 .. Len(LRU_list) : From(i, n) = j
  BY <1>3, <1>6, FromIn, Zenon
<1>11. \A i \in 1 .. Len(LRU_list) : LRU_list'[i] \in InUse
  BY <1>7, <1>10, Zenon DEF Listed
<1>12. \A c \in InUse : \E i \in 1 .. Len(LRU_list) : LRU_list'[i] = c
  <2> SUFFICES ASSUME NEW c \in InUse PROVE \E i \in 1 .. Len(LRU_list) : LRU_list'[i] = c
    BY Zenon
  <2>1. PICK j \in 1 .. Len(LRU_list) : LRU_list[j] = c
    BY Zenon DEF Listed
  <2> QED BY <1>7, <1>10, <2>1, Zenon
<1>13. \A i \in 1 .. Len(LRU_list) : (recent[i] = Meant(LRU_list[i]))'
  <2> SUFFICES ASSUME NEW i \in 1 .. Len(LRU_list) PROVE recent'[i] = sector_tag[LRU_list'[i]]
    BY <1>5, Zenon
  <2>1. i \in 1 .. Len(recent) /\ From(i, n) \in 1 .. Len(LRU_list)
    BY <1>10, ListFacts, Zenon
  <2>2. recent[From(i, n)] = sector_tag[LRU_list[From(i, n)]]
    BY <1>4, <2>1, Zenon DEF Listed
  <2> QED BY <1>7, <1>8, <2>1, <2>2, Zenon
<1>14. Len(LRU_list) <= CACHE_SIZE /\ Len(LRU_list) <= Len(recent)
  BY Zenon DEF Listed
<1>15. \A b1, c \in InUse : sector_tag[b1] = sector_tag[c] => b1 = c
  BY Zenon DEF Listed
<1> QED BY <1>7, <1>8, <1>9, <1>11, <1>12, <1>13, <1>14, <1>15, Zenon DEF Listed

\* A miss: the sector comes before those in the cache, which stay in order.
LEMMA RecentMiss ==
  ASSUME NEW S, NEW q \in Seq(S), NEW w \in S, Once(q), NEW m \in 0 .. Len(q), \A i \in 1 .. m : q[i] # w
  PROVE  /\ ToFront(w, q) \in Seq(S) /\ Once(ToFront(w, q))
         /\ Len(q) <= Len(ToFront(w, q)) /\ m + 1 <= Len(ToFront(w, q))
         /\ ToFront(w, q)[1] = w /\ \A i \in 1 .. m : ToFront(w, q)[i + 1] = q[i]
<1>1. CASE \E n \in 1 .. Len(q) : q[n] = w
  <2>1. PICK n \in 1 .. Len(q) : q[n] = w
    BY <1>1
  <2>2. m < n
    BY <2>1
  <2>3. /\ ToFront(w, q) \in Seq(S) /\ Len(ToFront(w, q)) = Len(q) /\ Once(ToFront(w, q))
        /\ \A i \in 1 .. Len(q) : ToFront(w, q)[i] = q[From(i, n)]
    BY <2>1, ToFrontOld, Zenon
  <2>4. 1 \in 1 .. Len(q) /\ From(1, n) = n /\ \A i \in 1 .. m : i + 1 \in 1 .. Len(q) /\ From(i + 1, n) = i
    BY <2>2 DEF From
  <2>5. ToFront(w, q)[1] = w /\ \A i \in 1 .. m : ToFront(w, q)[i + 1] = q[i]
    BY <2>1, <2>3, <2>4, Zenon
  <2>6. Len(q) <= Len(ToFront(w, q)) /\ m + 1 <= Len(ToFront(w, q))
    BY <2>2, <2>3
  <2> QED BY <2>3, <2>5, <2>6, Zenon
<1>2. CASE \A n \in 1 .. Len(q) : q[n] # w
  <2>1. /\ ToFront(w, q) \in Seq(S) /\ Len(ToFront(w, q)) = Len(q) + 1 /\ ToFront(w, q)[1] = w
        /\ \A i \in 1 .. Len(q) : ToFront(w, q)[i + 1] = q[i]
        /\ Once(ToFront(w, q))
    BY <1>2, ToFrontNew, ZenonT(60)
  <2>2. Len(q) <= Len(q) + 1 /\ m + 1 <= Len(q) + 1 /\ 1 .. m \subseteq 1 .. Len(q)
    OBVIOUS
  <2> QED BY <2>1, <2>2, Zenon
<1> QED BY <1>1, <1>2, Zenon

\* What a miss makes of the sectors looked up.
LEMMA MissRecent ==
  ASSUME TypeOK, Listed, LRU_lock = NoThread, NEW t \in Threads, Hits(want[t]) = {},
         NEW b, NEW branch, Found(t, b, branch)
  PROVE  /\ recent' \in Seq(Sectors) /\ Once(recent')
         /\ Len(recent) <= Len(recent') /\ Len(LRU_list) + 1 <= Len(recent')
         /\ recent'[1] = want[t]
         /\ \A i \in 1 .. Len(LRU_list) : recent'[i + 1] = sector_tag[LRU_list[i]]
         /\ \A c \in InUse : sector_tag[c] # want[t]
<1>1. \A c \in InUse : sector_tag[c] # want[t]
  BY Zenon DEF Hits, InUse
<1>2. \A c : Meant(c) = sector_tag[c]
  BY CacheAssumption, Zenon DEF Meant
<1>3. \A i \in 1 .. Len(LRU_list) : recent[i] = sector_tag[LRU_list[i]] /\ recent[i] # want[t]
  <2>1. \A i \in 1 .. Len(LRU_list) : recent[i] = Meant(LRU_list[i]) /\ LRU_list[i] \in InUse
    BY Zenon DEF Listed
  <2> QED BY <1>1, <1>2, <2>1, Zenon
<1>4. /\ recent' = ToFront(want[t], recent) /\ recent \in Seq(Sectors) /\ Once(recent)
      /\ want[t] \in Sectors /\ Len(LRU_list) \in 0 .. Len(recent)
  <2>1. recent' = ToFront(want[t], recent)
    BY Zenon DEF Found
  <2>2. want[t] \in Sectors
    BY Zenon DEF TypeOK
  <2>3. recent \in Seq(Sectors) /\ Once(recent)
    BY Zenon DEF Listed
  <2> QED BY <2>1, <2>2, <2>3, ListFacts, Zenon
<1>5. /\ ToFront(want[t], recent) \in Seq(Sectors) /\ Once(ToFront(want[t], recent))
      /\ Len(recent) <= Len(ToFront(want[t], recent))
      /\ Len(LRU_list) + 1 <= Len(ToFront(want[t], recent))
      /\ ToFront(want[t], recent)[1] = want[t]
      /\ \A i \in 1 .. Len(LRU_list) : ToFront(want[t], recent)[i + 1] = recent[i]
  <2>1. \A i \in 1 .. Len(LRU_list) : recent[i] # want[t]
    BY <1>3, Zenon
  <2>2. recent \in Seq(Sectors) /\ Once(recent) /\ want[t] \in Sectors /\ Len(LRU_list) \in 0 .. Len(recent)
    BY <1>4, Zenon
  <2> DEFINE m == Len(LRU_list)
             w == want[t]
  <2> HIDE DEF m, w
  <2>3. \A i \in 1 .. m : recent[i] # w
    BY <2>1, Zenon DEF m, w
  <2>4. w \in Sectors /\ m \in 0 .. Len(recent)
    BY <2>2, Zenon DEF m, w
  <2>5. /\ ToFront(w, recent) \in Seq(Sectors) /\ Once(ToFront(w, recent))
        /\ Len(recent) <= Len(ToFront(w, recent)) /\ m + 1 <= Len(ToFront(w, recent))
        /\ ToFront(w, recent)[1] = w /\ \A i \in 1 .. m : ToFront(w, recent)[i + 1] = recent[i]
    BY <2>2, <2>3, <2>4, RecentMiss
  <2> QED BY <2>5, Zenon DEF m, w
<1>6. \A i \in 1 .. Len(LRU_list) : recent'[i + 1] = sector_tag[LRU_list[i]]
  <2> TAKE i \in 1 .. Len(LRU_list)
  <2>1. ToFront(want[t], recent)[i + 1] = recent[i] /\ recent[i] = sector_tag[LRU_list[i]]
    BY <1>3, <1>5, Zenon
  <2>2. recent' = ToFront(want[t], recent)
    BY <1>4, Zenon
  <2> QED BY <2>1, <2>2, Zenon
<1>7. /\ recent' \in Seq(Sectors) /\ Once(recent') /\ Len(recent) <= Len(recent')
      /\ Len(LRU_list) + 1 <= Len(recent') /\ recent'[1] = want[t]
  BY <1>4, <1>5, Zenon
<1> QED BY <1>1, <1>6, <1>7, Zenon

\* A miss with a block to spare.
LEMMA ListedFresh ==
  ASSUME TypeOK, Listed, LRU_lock = NoThread, NEW t \in Threads, LookupFresh(t)
  PROVE  /\ Listed' /\ InUse' = InUse \cup {Len(LRU_list)}
         /\ Len(LRU_list) \notin InUse /\ Len(LRU_list) \in CacheBlocks
<1> DEFINE b == Len(LRU_list)
<1>1. /\ Found(t, b, "fresh") /\ Hits(want[t]) = {} /\ sector_tag' = [sector_tag EXCEPT ![b] = want[t]]
      /\ LRU_list' = ToFront(b, LRU_list) /\ how'[t] = "fresh" /\ LRU_lock' = t
  BY Zenon DEF LookupFresh, Found, TypeOK
<1>2. /\ b \in CacheBlocks /\ b \notin InUse /\ b \in Nat /\ b + 1 <= CACHE_SIZE
      /\ InUse \subseteq CacheBlocks
  BY CacheAssumption, ListFacts DEF LookupFresh, CacheBlocks, InUse
<1>3. /\ recent' \in Seq(Sectors) /\ Once(recent')
      /\ b + 1 <= Len(recent') /\ recent'[1] = want[t]
      /\ \A i \in 1 .. b : recent'[i + 1] = sector_tag[LRU_list[i]]
      /\ \A c \in InUse : sector_tag[c] # want[t]
  BY <1>1, MissRecent, Zenon
<1>4. LRU_list \in Seq(CacheBlocks) /\ Once(LRU_list) /\ \A i \in 1 .. b : LRU_list[i] # b
  <2>1. \A i \in 1 .. Len(LRU_list) : LRU_list[i] \in InUse
    BY Zenon DEF Listed
  <2>2. LRU_list \in Seq(CacheBlocks) /\ Once(LRU_list)
    BY Zenon DEF Listed
  <2> QED BY <1>2, <2>1, <2>2, Zenon
<1>5. /\ LRU_list' \in Seq(CacheBlocks) /\ Len(LRU_list') = b + 1 /\ LRU_list'[1] = b
      /\ \A i \in 1 .. b : LRU_list'[i + 1] = LRU_list[i]
      /\ Once(LRU_list')
  <2>1. /\ ToFront(b, LRU_list) \in Seq(CacheBlocks) /\ Len(ToFront(b, LRU_list)) = b + 1
        /\ ToFront(b, LRU_list)[1] = b /\ \A i \in 1 .. b : ToFront(b, LRU_list)[i + 1] = LRU_list[i]
        /\ Once(ToFront(b, LRU_list))
    BY <1>2, <1>4, ToFrontNew, Zenon
  <2> HIDE DEF b
  <2> QED BY <1>1, <2>1, Zenon
<1>6. InUse' = InUse \cup {b}
  BY <1>2, <1>5 DEF InUse
<1>7. \A c : Meant(c)' = sector_tag'[c]
  BY <1>1, Zenon DEF Meant
<1>8. sector_tag'[b] = want[t] /\ \A c \in InUse : sector_tag'[c] = sector_tag[c]
  BY <1>1, <1>2, Zenon DEF TypeOK
<1> HIDE DEF b
<1>9. \A i \in 1 .. b + 1 : i = 1 \/ (i - 1 \in 1 .. b /\ (i - 1) + 1 = i)
  BY <1>2
<1>10. \A i \in 1 .. b : LRU_list[i] \in InUse
  BY Zenon DEF Listed, b
<1>11. ASSUME NEW i \in 1 .. b + 1 PROVE LRU_list'[i] \in InUse' /\ recent'[i] = sector_tag'[LRU_list'[i]]
  <2>1. CASE i = 1
    BY <1>3, <1>5, <1>6, <1>8, <2>1, Zenon
  <2>2. CASE i # 1
    <3>1. i - 1 \in 1 .. b /\ (i - 1) + 1 = i
      BY <1>9, <2>2, Zenon
    <3>2. LRU_list'[i] = LRU_list[i - 1] /\ recent'[i] = sector_tag[LRU_list[i - 1]] /\ LRU_list[i - 1] \in InUse
      <4>1. recent'[i] = sector_tag[LRU_list[i - 1]]
        BY <1>3, <3>1, Zenon
      <4>2. LRU_list'[i] = LRU_list[i - 1]
        BY <1>5, <3>1, Zenon
      <4> QED BY <1>10, <3>1, <4>1, <4>2, Zenon
    <3> QED BY <1>6, <1>8, <3>2, Zenon
  <2> QED BY <2>1, <2>2, Zenon
<1>12. ASSUME NEW c \in InUse' PROVE \E i \in 1 .. b + 1 : LRU_list'[i] = c
  <2>1. CASE c = b
    <3>1. 1 \in 1 .. b + 1
      BY <1>2
    <3> QED BY <1>5, <2>1, <3>1, Zenon
  <2>2. CASE c \in InUse
    <3>1. PICK i \in 1 .. b : LRU_list[i] = c
      BY <2>2, Zenon DEF Listed, b
    <3>2. i + 1 \in 1 .. b + 1
      BY <1>2
    <3> QED BY <1>5, <3>1, <3>2, Zenon
  <2> QED BY <1>6, <2>1, <2>2, Zenon
<1>13. ASSUME NEW c \in InUse', NEW e \in InUse', sector_tag'[c] = sector_tag'[e] PROVE c = e
  <2>1. \A x, y \in InUse : sector_tag[x] = sector_tag[y] => x = y
    BY Zenon DEF Listed
  <2> QED BY <1>3, <1>6, <1>8, <1>13, <2>1, ZenonT(60)
<1>14. \A i \in 1 .. b + 1 : (recent[i] = Meant(LRU_list[i]))'
  BY <1>7, <1>11, Zenon
<1>15. Listed'
  BY <1>2, <1>3, <1>5, <1>11, <1>12, <1>13, <1>14, Zenon DEF Listed
<1> QED BY <1>2, <1>6, <1>15, Zenon DEF b

\* A miss that evicts the block used longest ago.
LEMMA ListedEvict ==
  ASSUME TypeOK, Listed, LRU_lock = NoThread, NEW t \in Threads, LookupEvict(t)
  PROVE  Listed' /\ InUse' = InUse
<1> DEFINE n == Len(LRU_list)
<1>1. /\ Found(t, LRU_list[n], "evict") /\ Hits(want[t]) = {} /\ sector_tag' = sector_tag
      /\ LRU_list' = ToFront(LRU_list[n], LRU_list) /\ LRU_lock' = t
      /\ how'[t] = "evict" /\ block'[t] = LRU_list[n] /\ want' = want
  BY Zenon DEF LookupEvict, Found, TypeOK
<1>2. n \in Nat /\ n \in 1 .. n
  BY CacheAssumption, ListFacts DEF LookupEvict
<1>3. /\ recent' \in Seq(Sectors) /\ Once(recent') /\ n + 1 <= Len(recent') /\ Len(recent') \in Nat
      /\ recent'[1] = want[t]
      /\ \A i \in 1 .. n : recent'[i + 1] = sector_tag[LRU_list[i]]
      /\ \A c \in InUse : sector_tag[c] # want[t]
  BY <1>1, MissRecent
<1>4. LRU_list \in Seq(CacheBlocks) /\ Once(LRU_list)
  BY Zenon DEF Listed
<1>5. /\ LRU_list' \in Seq(CacheBlocks) /\ Len(LRU_list') = n /\ Once(LRU_list')
      /\ \A i \in 1 .. n : LRU_list'[i] = LRU_list[From(i, n)]
  BY <1>1, <1>2, <1>4, ToFrontOld, Zenon
<1>6. InUse' = InUse
  BY <1>5, Zenon DEF InUse
<1>7. \A c : Meant(c)' = IF c = LRU_list[n] THEN want[t] ELSE sector_tag[c]
  BY <1>1, Zenon DEF Meant
<1>8. /\ \A i \in 1 .. n : From(i, n) \in 1 .. n
      /\ \A j \in 1 .. n : \E i \in 1 .. n : From(i, n) = j
  BY <1>2, FromIn, Zenon
<1>9. \A i \in 1 .. n : LRU_list[i] \in InUse
  BY Zenon DEF Listed
<1>10. \A i \in 1 .. n : LRU_list'[i] \in InUse
  BY <1>5, <1>8, <1>9, Zenon
<1>11. ASSUME NEW c \in InUse PROVE \E i \in 1 .. n : LRU_list'[i] = c
  <2>1. PICK j \in 1 .. n : LRU_list[j] = c
    BY Zenon DEF Listed
  <2> QED BY <1>5, <1>8, <2>1, Zenon
<1>12. ASSUME NEW i \in 1 .. n
       PROVE  recent'[i] = IF LRU_list'[i] = LRU_list[n] THEN want[t] ELSE sector_tag[LRU_list'[i]]
  <2>1. CASE i = 1
    BY <1>2, <1>3, <1>5, <2>1, Zenon DEF From
  <2>2. CASE i # 1
    <3>1. From(i, n) = i - 1 /\ i - 1 \in 1 .. n /\ i - 1 # n /\ (i - 1) + 1 = i
      BY <1>2, <2>2 DEF From
    <3>2. LRU_list[i - 1] # LRU_list[n]
      BY <1>2, <1>4, <3>1, Zenon DEF Once
    <3> QED BY <1>3, <1>5, <3>1, <3>2, ZenonT(60)
  <2> QED BY <2>1, <2>2, Zenon
<1>13. \A i \in 1 .. n : (recent[i] = Meant(LRU_list[i]))'
  BY <1>7, <1>12, Zenon
<1>14. n <= CACHE_SIZE /\ n <= Len(recent')
  BY <1>2, <1>3 DEF Listed
<1>15. \A x, y \in InUse : sector_tag[x] = sector_tag[y] => x = y
  BY Zenon DEF Listed
<1> HIDE DEF n
<1> QED BY <1>1, <1>3, <1>5, <1>6, <1>10, <1>11, <1>13, <1>14, <1>15, Zenon DEF Listed

\* What each block is meant to hold stays the same when no caller under
\* LRU_lock is concerned.
LEMMA MeantSame ==
  ASSUME HoldersWork, sector_tag' = sector_tag,
         \/ LRU_lock \notin Threads /\ LRU_lock' \notin Threads
         \/ /\ LRU_lock' = LRU_lock /\ how'[LRU_lock] = how[LRU_lock]
            /\ block'[LRU_lock] = block[LRU_lock] /\ want'[LRU_lock] = want[LRU_lock]
  PROVE  \A b : Meant(b)' = Meant(b)
BY Zenon DEF Meant

\* Steps that leave the lists and the tags alone.
LEMMA ListedSame ==
  ASSUME Listed, LRU_list' = LRU_list, recent' = recent, sector_tag' = sector_tag, \A b : Meant(b)' = Meant(b)
  PROVE  Listed'
<1>1. InUse' = InUse
  BY Zenon DEF InUse
<1>2. \A i \in 1 .. Len(LRU_list) : (recent[i] = Meant(LRU_list[i]))'
  <2> TAKE i \in 1 .. Len(LRU_list)
  <2>1. recent[i] = Meant(LRU_list[i])
    BY Zenon DEF Listed
  <2> QED BY <2>1, Zenon
<1> QED BY <1>1, <1>2, Zenon DEF Listed

\* The evicted block has its new tag when its lock is taken.
LEMMA ListedLock ==
  ASSUME TypeOK, HoldersWork, Listed, Working, NEW t \in Threads, LockBlock(t)
  PROVE  Listed'
<1>1. /\ LRU_list' = LRU_list /\ recent' = recent /\ InUse' = InUse /\ LRU_lock' = NoThread
      /\ pc[t] = "lock" /\ block[t] \in InUse /\ NoThread \notin Threads
  BY CacheAssumption, Zenon DEF LockBlock, histVars, InUse, Working, WorksOn
<1>2. LRU_lock = t
  BY <1>1, Zenon DEF HoldersWork, WithLRU, Procs
<1>3. \A b : Meant(b)' = sector_tag'[b]
  BY <1>1, Zenon DEF Meant
<1>4. CASE how[t] = "evict"
  <2>1. sector_tag' = [sector_tag EXCEPT ![block[t]] = want[t]]
    BY <1>4, Zenon DEF LockBlock
  <2>2. \A b \in InUse : sector_tag'[b] = Meant(b)
    <3>1. InUse \subseteq CacheBlocks
      BY ListFacts
    <3> QED BY <1>2, <1>4, <2>1, <3>1, Zenon DEF Meant, TypeOK
  <2>3. \A i \in 1 .. Len(LRU_list) : LRU_list[i] \in InUse /\ recent[i] = Meant(LRU_list[i])
    BY Zenon DEF Listed
  <2>4. \A i \in 1 .. Len(LRU_list) : (recent[i] = Meant(LRU_list[i]))'
    BY <1>1, <1>3, <2>2, <2>3, Zenon
  <2>5. ASSUME NEW b \in InUse, NEW c \in InUse, sector_tag'[b] = sector_tag'[c] PROVE b = c
    <3>1. PICK i \in 1 .. Len(LRU_list) : LRU_list[i] = b
      BY Zenon DEF Listed
    <3>2. PICK j \in 1 .. Len(LRU_list) : LRU_list[j] = c
      BY Zenon DEF Listed
    <3>3. recent[i] = recent[j] /\ i \in 1 .. Len(recent) /\ j \in 1 .. Len(recent)
      BY <2>2, <2>3, <2>5, <3>1, <3>2, ListFacts, Zenon
    <3> QED BY <3>1, <3>2, <3>3, Zenon DEF Listed, Once
  <2> QED BY <1>1, <2>4, <2>5, Zenon DEF Listed
<1>5. CASE how[t] # "evict"
  <2>1. sector_tag' = sector_tag
    BY <1>5, Zenon DEF LockBlock
  <2>2. \A b : Meant(b)' = Meant(b)
    BY <1>2, <1>3, <1>5, <2>1, Zenon DEF Meant
  <2> QED BY <1>1, <2>1, <2>2, ListedSame, Zenon
<1> QED BY <1>4, <1>5, Zenon

\* Every step keeps the lists in order.
LEMMA ListedStep ==
  ASSUME TypeOK, HoldersWork, Listed, Working, [Next]_vars
  PROVE  Listed'
<1>0. Flusher \notin Threads /\ NoThread \notin Threads /\ Threads \subseteq Procs /\ Flusher \in Procs
  BY CacheAssumption, Zenon DEF Procs
<1>a. \A u \in Threads : LRU_lock = u => pc[u] \in WithLRU
  BY <1>0, Zenon DEF HoldersWork
<1>b. LRU_lock \in Threads \/ LRU_lock \notin Threads
  OBVIOUS
<1>1. ASSUME NEW t \in Threads, NEW o, NEW s, NEW d, Call(t, o, s, d) PROVE Listed'
  <2>1. /\ pc[t] = "idle" /\ LRU_list' = LRU_list /\ recent' = recent /\ sector_tag' = sector_tag
        /\ LRU_lock' = LRU_lock /\ how' = how /\ block' = block /\ want' = [want EXCEPT ![t] = s]
    BY <1>1, Zenon DEF Call, diskVars, lockVars, histVars
  <2>2. LRU_lock # t
    BY <1>a, <2>1, Zenon DEF WithLRU
  <2>3. LRU_lock \in Threads => want'[LRU_lock] = want[LRU_lock]
    BY <2>1, <2>2, Zenon DEF TypeOK
  <2> QED BY <2>1, <2>3, MeantSame, ListedSame, Zenon
<1>2. ASSUME NEW t \in Threads, LookupHit(t) \/ LookupFresh(t) \/ LookupEvict(t) PROVE Listed'
  <2>1. LRU_lock = NoThread
    BY <1>2, Zenon DEF LookupHit, LookupFresh, LookupEvict
  <2> QED BY <1>2, <2>1, ListedHit, ListedFresh, ListedEvict, Zenon
<1>3. ASSUME NEW t \in Threads, LockBlock(t) PROVE Listed'
  BY <1>3, ListedLock, Zenon
<1>4. ASSUME NEW t \in Threads, WriteBack(t) \/ Fetch(t) PROVE Listed'
  <2>1. /\ LRU_list' = LRU_list /\ recent' = recent /\ sector_tag' = sector_tag
        /\ LRU_lock' = LRU_lock /\ how' = how /\ block' = block /\ want' = want
    BY <1>4, Zenon DEF WriteBack, Fetch, lockVars, callVars, histVars
  <2> QED BY <2>1, MeantSame, ListedSame, Zenon
<1>5. ASSUME NEW t \in Threads, CopyOut(t) \/ CopyIn(t) PROVE Listed'
  <2>1. /\ pc[t] = "copy" /\ LRU_list' = LRU_list /\ recent' = recent /\ sector_tag' = sector_tag
        /\ LRU_lock' = LRU_lock
        /\ how' = [how EXCEPT ![t] = "hit"] /\ block' = [block EXCEPT ![t] = 0] /\ want' = [want EXCEPT ![t] = 0]
    BY <1>5, Zenon DEF CopyOut, CopyIn, Return, diskVars, histVars
  <2>2. LRU_lock # t
    BY <1>a, <2>1, Zenon DEF WithLRU
  <2>3. LRU_lock \in Threads =>
          want'[LRU_lock] = want[LRU_lock] /\ how'[LRU_lock] = how[LRU_lock] /\ block'[LRU_lock] = block[LRU_lock]
    BY <2>1, <2>2, Zenon DEF TypeOK
  <2> QED BY <2>1, <2>3, MeantSame, ListedSame, Zenon
<1>6. CASE Flush
  <2>1. LRU_list' = LRU_list /\ recent' = recent /\ sector_tag' = sector_tag
    BY <1>6, Zenon DEF Flush, FlushStart, FlushTest, FlushLock, FlushWrite, FlushEnd, diskVars, lockVars, histVars
  <2>2. LRU_lock \in {NoThread, Flusher} /\ LRU_lock' \in {NoThread, Flusher}
    <3>1. CASE FlushStart
      BY <3>1, Zenon DEF FlushStart
    <3>2. CASE FlushTest \/ FlushLock \/ FlushWrite \/ FlushEnd
      <4>1. pc[Flusher] \in WithLRU /\ (LRU_lock' = LRU_lock \/ LRU_lock' = NoThread)
        BY <3>2, Zenon DEF FlushTest, FlushLock, FlushWrite, FlushEnd, lockVars, WithLRU
      <4> QED BY <1>0, <4>1, Zenon DEF HoldersWork
    <3> QED BY <1>6, <3>1, <3>2, Zenon DEF Flush
  <2> QED BY <1>0, <2>1, <2>2, MeantSame, ListedSame, Zenon
<1>7. CASE UNCHANGED vars
  <2>1. /\ LRU_list' = LRU_list /\ recent' = recent /\ sector_tag' = sector_tag
        /\ LRU_lock' = LRU_lock /\ how' = how /\ block' = block /\ want' = want
    BY <1>7, Zenon DEF vars, diskVars, lockVars, callVars, histVars
  <2> QED BY <2>1, MeantSame, ListedSame, Zenon
<1>8. CASE Off
  BY <1>7, <1>8, Zenon DEF Off
<1> QED BY <1>1, <1>2, <1>3, <1>4, <1>5, <1>6, <1>7, <1>8, Zenon DEF Next, Step

\* Every step keeps the types, given that the list stays in bounds.
LEMMA TypesStep ==
  ASSUME TypeOK, HoldersWork, Listed, Working, Listed', [Next]_vars
  PROVE  TypeOK'
<1>0. /\ 0 \in Sectors /\ CacheBlocks \subseteq 0 .. CACHE_SIZE /\ 0 \in 0 .. CACHE_SIZE
      /\ Len(LRU_list) \in Nat /\ Len(LRU_list) <= CACHE_SIZE /\ CACHE_SIZE \in Nat
  BY CacheAssumption DEF CacheBlocks, Sectors, Listed
<1>a. InUse \subseteq CacheBlocks /\ LRU_list \in Seq(CacheBlocks)
  BY ListFacts, Zenon DEF Listed
<1>b. LRU_list' \in Seq(CacheBlocks)
  BY Zenon DEF Listed
<1>1. ASSUME NEW t \in Threads, NEW o \in {"read", "write"}, NEW s \in Sectors, NEW d \in Data, Call(t, o, s, d)
      PROVE  TypeOK'
  BY <1>1, Zenon DEF TypeOK, Call, Goto, diskVars, lockVars, histVars
<1>2. ASSUME NEW t \in Threads, NEW b \in CacheBlocks, NEW branch \in {"hit", "fresh", "evict"}, Found(t, b, branch),
             sector_tag' \in [CacheBlocks -> Sectors], dirty_bit' \in [CacheBlocks -> BOOLEAN]
      PROVE  TypeOK'
  <2>1. raced' \in BOOLEAN
    BY <1>2, Zenon DEF Found
  <2> QED BY <1>0, <1>2, <1>b, <2>1, Zenon DEF TypeOK, Found, Goto, Holder
<1>3. ASSUME NEW t \in Threads, LookupHit(t) \/ LookupFresh(t) \/ LookupEvict(t) PROVE TypeOK'
  <2>0. sector_tag \in [CacheBlocks -> Sectors] /\ dirty_bit \in [CacheBlocks -> BOOLEAN] /\ want[t] \in Sectors
    BY Zenon DEF TypeOK
  <2>1. CASE LookupHit(t)
    <3>1. PICK b \in Hits(want[t]) : Found(t, b, "hit")
      BY <2>1, Zenon DEF LookupHit
    <3>2. b \in CacheBlocks
      BY <1>a, <3>1, Zenon DEF Hits, InUse
    <3>3. sector_tag' \in [CacheBlocks -> Sectors] /\ dirty_bit' \in [CacheBlocks -> BOOLEAN]
      BY <2>0, <2>1, Zenon DEF LookupHit
    <3> QED BY <1>2, <3>1, <3>2, <3>3, Zenon
  <2>2. CASE LookupFresh(t)
    <3>1. Found(t, Len(LRU_list), "fresh") /\ Len(LRU_list) < CACHE_SIZE
      BY <2>2, Zenon DEF LookupFresh
    <3>2. Len(LRU_list) \in CacheBlocks
      BY <1>0, <3>1 DEF CacheBlocks
    <3>3. sector_tag' \in [CacheBlocks -> Sectors] /\ dirty_bit' \in [CacheBlocks -> BOOLEAN]
      BY <2>0, <2>2, Zenon DEF LookupFresh
    <3> QED BY <1>2, <3>1, <3>2, <3>3, Zenon
  <2>3. CASE LookupEvict(t)
    <3>1. Found(t, LRU_list[Len(LRU_list)], "evict") /\ Len(LRU_list) = CACHE_SIZE
      BY <2>3, Zenon DEF LookupEvict
    <3>2. LRU_list[Len(LRU_list)] \in CacheBlocks
      BY <1>a, <3>1, CacheAssumption
    <3>3. sector_tag' \in [CacheBlocks -> Sectors] /\ dirty_bit' \in [CacheBlocks -> BOOLEAN]
      BY <2>0, <2>3, Zenon DEF LookupEvict
    <3> QED BY <1>2, <3>1, <3>2, <3>3, Zenon
  <2> QED BY <1>3, <2>1, <2>2, <2>3, Zenon
<1>4. ASSUME NEW t \in Threads, LockBlock(t) PROVE TypeOK'
  <2>1. block[t] \in CacheBlocks
    BY <1>4, <1>a, Zenon DEF Working, WorksOn, LockBlock
  <2>2. PICK label \in {"copy", "writeback", "fetch"} : Goto(t, label)
    BY Zenon, <1>4 DEF LockBlock, Transfer
  <2>3. /\ block_lock' = [block_lock EXCEPT ![block[t]] = t] /\ LRU_lock' = NoThread
        /\ use' = use /\ disk' = disk /\ sector' = sector /\ dirty_bit' = dirty_bit /\ op' = op /\ want' = want
        /\ buffer' = buffer /\ block' = block /\ how' = how
        /\ raced' = raced /\ last' = last /\ stable' = stable
    BY <1>4, Zenon DEF LockBlock, histVars
  <2>4. old_sector' = old_sector \/ old_sector' = [old_sector EXCEPT ![t] = sector_tag[block[t]]]
    BY <1>4, Zenon DEF LockBlock
  <2>5. sector_tag' = sector_tag \/ sector_tag' = [sector_tag EXCEPT ![block[t]] = want[t]]
    BY <1>4, Zenon DEF LockBlock
  <2>6. old_sector' \in [Threads -> Sectors]
    BY <2>1, <2>4, ZenonT(60) DEF TypeOK
  <2>7. sector_tag' \in [CacheBlocks -> Sectors]
    BY <2>1, <2>5, ZenonT(60) DEF TypeOK
  <2> QED BY <1>0, <1>b, <2>1, <2>2, <2>3, <2>6, <2>7, Zenon DEF TypeOK, Goto, Holder
<1>5. ASSUME NEW t \in Threads, WriteBack(t) PROVE TypeOK'
  <2>1. block[t] \in CacheBlocks
    BY <1>5, <1>a, Zenon DEF Working, WorksOn, WriteBack
  <2>2. PICK label \in {"copy", "fetch"} : Goto(t, label)
    BY Zenon, <1>5 DEF WriteBack, Transfer
  <2>3. dirty_bit' \in [CacheBlocks -> BOOLEAN] /\ disk' \in [Sectors -> Data]
    BY <1>5, <2>1, Zenon DEF WriteBack, TypeOK
  <2>4. /\ use' = use /\ sector_tag' = sector_tag /\ sector' = sector /\ LRU_list' = LRU_list
        /\ LRU_lock' = LRU_lock /\ block_lock' = block_lock /\ op' = op /\ want' = want /\ buffer' = buffer
        /\ block' = block /\ how' = how /\ old_sector' = old_sector
        /\ raced' = raced /\ last' = last /\ stable' = stable
    BY <1>5, Zenon DEF WriteBack, lockVars, callVars, histVars
  <2> QED BY <2>2, <2>3, <2>4, Zenon DEF TypeOK, Goto
<1>6. ASSUME NEW t \in Threads, Fetch(t) PROVE TypeOK'
  BY <1>6, Zenon DEF TypeOK, Fetch, Goto, lockVars, callVars, histVars, Holder
<1>7. ASSUME NEW t \in Threads, CopyOut(t) PROVE TypeOK'
  <2>1. block[t] \in CacheBlocks
    BY <1>7, <1>a, Zenon DEF Working, WorksOn, CopyOut
  <2> QED BY <1>0, <1>7, <2>1, Zenon DEF TypeOK, CopyOut, Return, Goto, diskVars, histVars, Holder
<1>8. ASSUME NEW t \in Threads, CopyIn(t) PROVE TypeOK'
  BY <1>0, <1>8, Zenon DEF TypeOK, CopyIn, Return, Goto, diskVars, histVars, Holder
<1>9. CASE FlushStart
  BY <1>0, <1>9, Zenon DEF TypeOK, FlushStart, Goto, diskVars, Holder
<1>10. CASE FlushTest
  <2>1. pc' \in [Threads \cup {Flusher} -> {"idle", "lookup", "lock", "writeback", "fetch", "copy",
                "flush", "flush_lock", "flush_write", "off"}]
    <3>1. pc' = pc \/ pc' = [pc EXCEPT ![Flusher] = "flush_lock"]
      BY <1>10, Zenon DEF FlushTest, Goto
    <3> QED BY <3>1, Zenon DEF TypeOK
  <2>2. block' \in [Threads \cup {Flusher} -> 0 .. CACHE_SIZE]
    <3>1. block[Flusher] < Len(LRU_list) /\ block \in [Threads \cup {Flusher} -> 0 .. CACHE_SIZE]
      BY <1>10, Zenon DEF TypeOK, FlushTest
    <3>2. block[Flusher] + 1 \in 0 .. CACHE_SIZE
      BY <1>0, <3>1
    <3> QED BY <1>10, <3>1, <3>2, Zenon DEF FlushTest
  <2> QED BY <1>10, <2>1, <2>2, Zenon DEF TypeOK, FlushTest, diskVars, lockVars, histVars
<1>11. CASE FlushLock
  BY <1>0, <1>11, Zenon DEF TypeOK, FlushLock, Goto, diskVars, callVars, histVars, Holder
<1>12. CASE FlushWrite
  <2>1. block[Flusher] \in CacheBlocks
    BY <1>12, <1>a, Zenon DEF Working, WorksOn, FlushWrite
  <2>2. block[Flusher] + 1 \in 0 .. CACHE_SIZE
    BY <1>0, <2>1 DEF CacheBlocks
  <2> QED BY <1>12, <2>1, <2>2, Zenon DEF TypeOK, FlushWrite, Goto, diskVars, callVars, histVars, Holder
<1>13. CASE FlushEnd
  BY <1>0, <1>13, Zenon DEF TypeOK, FlushEnd, Goto, diskVars, callVars, histVars, Holder
<1>14. CASE UNCHANGED vars
  BY <1>14, Zenon DEF vars, TypeOK, diskVars, lockVars, callVars, histVars
<1>15. CASE Off
  BY <1>14, <1>15, Zenon DEF Off
<1> QED BY <1>1, <1>3, <1>4, <1>5, <1>6, <1>7, <1>8, <1>9, <1>10, <1>11, <1>12, <1>13, <1>14, <1>15, Zenon
        DEF Next, Step, Flush

\* Labels at which a caller has its block locked.
Locked == {"writeback", "fetch", "copy"}

\* A caller is not disturbed by what happens to other blocks.
LEMMA WorksFrame ==
  ASSUME NEW u \in Threads, WorksOn(u), InUse \subseteq InUse',
         pc'[u] = pc[u], block'[u] = block[u], how'[u] = how[u], want'[u] = want[u], op'[u] = op[u],
         pc[u] = "lock" => sector_tag' = sector_tag /\ InUse' = InUse,
         pc[u] \in Locked \/ (pc[u] = "lock" /\ how[u] = "fresh") =>
           /\ block_lock'[block[u]] = block_lock[block[u]] /\ sector_tag'[block[u]] = sector_tag[block[u]]
           /\ dirty_bit'[block[u]] = dirty_bit[block[u]]
  PROVE  WorksOn(u)'
<1>1. CASE pc[u] = "lock"
  <2>1. block[u] \in InUse
    BY <1>1, Zenon DEF WorksOn
  <2>2. how[u] # "evict" => sector_tag[block[u]] = want[u]
    BY <1>1, Zenon DEF WorksOn
  <2>3. how[u] = "evict" => \A b \in InUse : sector_tag[b] # want[u]
    BY <1>1, Zenon DEF WorksOn
  <2>4. how[u] = "fresh" => block_lock[block[u]] = NoThread /\ (dirty_bit[block[u]] <=> op[u] = "write")
    BY <1>1, Zenon DEF WorksOn
  <2>5. how[u] = "fresh" => block_lock'[block[u]] = NoThread /\ (dirty_bit'[block[u]] <=> op[u] = "write")
    BY <1>1, <2>4, Zenon
  <2>6. how'[u] # "evict" => sector_tag'[block'[u]] = want'[u]
    BY <1>1, <2>2, Zenon
  <2>7. how'[u] = "evict" => \A b \in InUse' : sector_tag'[b] # want'[u]
    BY <1>1, <2>3, Zenon
  <2> QED BY <1>1, <2>1, <2>5, <2>6, <2>7, Zenon DEF WorksOn
<1>2. CASE pc[u] \in Locked
  <2>0. /\ block_lock'[block[u]] = block_lock[block[u]] /\ sector_tag'[block[u]] = sector_tag[block[u]]
        /\ dirty_bit'[block[u]] = dirty_bit[block[u]]
    BY <1>2, Zenon
  <2>1. block'[u] \in InUse' /\ block_lock'[block'[u]] = u /\ sector_tag'[block'[u]] = want'[u]
    <3>1. block[u] \in InUse /\ block_lock[block[u]] = u /\ sector_tag[block[u]] = want[u]
      BY <1>2, Zenon DEF WorksOn, Locked
    <3> QED BY <2>0, <3>1, Zenon
  <2>2. pc'[u] = "writeback" => how'[u] = "evict" /\ dirty_bit'[block'[u]]
    <3>1. pc[u] = "writeback" => how[u] = "evict" /\ dirty_bit[block[u]]
      BY Zenon DEF WorksOn
    <3> QED BY <2>0, <3>1, Zenon
  <2>3. pc'[u] = "fetch" => how'[u] # "hit" /\ op'[u] = "read" /\ ~dirty_bit'[block'[u]]
    <3>1. pc[u] = "fetch" => how[u] # "hit" /\ op[u] = "read" /\ ~dirty_bit[block[u]]
      BY Zenon DEF WorksOn
    <3> QED BY <2>0, <3>1, Zenon
  <2>4. pc'[u] # "lock"
    BY <1>2, Zenon DEF Locked
  <2> QED BY <2>1, <2>2, <2>3, <2>4, Zenon DEF WorksOn
<1>3. CASE pc[u] # "lock" /\ pc[u] \notin Locked
  BY <1>3, Zenon DEF WorksOn, Locked
<1> QED BY <1>1, <1>2, <1>3, Zenon

\* Thread t takes a step; the others stay where they are.
LEMMA OthersWork ==
  ASSUME TypeOK, HoldersWork, Working, NEW t \in Procs, NEW label, Goto(t, label), InUse \subseteq InUse',
         \A u \in Threads \ {t} :
           block'[u] = block[u] /\ how'[u] = how[u] /\ want'[u] = want[u] /\ op'[u] = op[u],
         LRU_lock \in {NoThread, t} \/ (sector_tag' = sector_tag /\ InUse' = InUse),
         Listed, NEW x, pc[t] \in WithBlock => block_lock[x] = t,
         pc[t] \notin WithBlock => x \notin InUse \/ block_lock[x] = NoThread,
         pc[t] \notin WithBlock => LRU_lock \in {NoThread, t},
         \A b \in CacheBlocks \ {x} : block_lock'[b] = block_lock[b] /\ sector_tag'[b] = sector_tag[b]
                                        /\ dirty_bit'[b] = dirty_bit[b]
  PROVE  \A u \in Threads \ {t} : WorksOn(u)'
<1> TAKE u \in Threads \ {t}
<1>0. /\ u \in Procs /\ u # t /\ u \in Threads /\ NoThread \notin Procs
  BY CacheAssumption, Zenon DEF Procs
<1>1. pc'[u] = pc[u] /\ block'[u] = block[u] /\ how'[u] = how[u] /\ want'[u] = want[u] /\ op'[u] = op[u]
  BY <1>0, Zenon DEF Goto, TypeOK
<1>2. WorksOn(u)
  BY Zenon DEF Working
<1>3. pc[u] = "lock" => LRU_lock = u
  BY <1>0, Zenon DEF HoldersWork, WithLRU
<1>4. pc[u] = "lock" => sector_tag' = sector_tag /\ InUse' = InUse /\ pc[t] \in WithBlock
  BY <1>0, <1>3, Zenon
<1>5. ASSUME pc[u] \in Locked \/ (pc[u] = "lock" /\ how[u] = "fresh") PROVE block[u] \in CacheBlocks \ {x}
  <2>1. block[u] \in InUse
    BY <1>2, <1>5, Zenon DEF WorksOn, Locked
  <2>2. pc[u] \in Locked => block_lock[block[u]] = u
    BY <1>2, Zenon DEF WorksOn, Locked
  <2>3. pc[u] = "lock" /\ how[u] = "fresh" => block_lock[block[u]] = NoThread
    BY <1>2, Zenon DEF WorksOn
  <2>4. block[u] # x
    <3>1. CASE pc[u] \in Locked
      BY <1>0, <2>1, <2>2, <3>1, ZenonT(60)
    <3>2. CASE pc[u] = "lock" /\ how[u] = "fresh"
      <4>1. block_lock[block[u]] = NoThread /\ block_lock[x] = t
        BY <1>4, <2>3, <3>2, Zenon
      <4> QED BY <1>0, <4>1, Zenon
    <3> QED BY <1>5, <3>1, <3>2, Zenon
  <2>5. block[u] \in CacheBlocks
    BY <2>1, ListFacts, Zenon
  <2> QED BY <2>4, <2>5, Zenon
<1> QED BY <1>0, <1>1, <1>2, <1>4, <1>5, WorksFrame, Zenon

\* A new call disturbs no caller.
LEMMA WorkingCall ==
  ASSUME TypeOK, HoldersWork, Listed, Working, NEW t \in Threads, NEW o, NEW s, NEW d, Call(t, o, s, d)
  PROVE  \A u \in Threads : WorksOn(u)'
<1>1. /\ Goto(t, "lookup") /\ InUse' = InUse /\ block' = block /\ how' = how /\ want' = [want EXCEPT ![t] = s]
      /\ op' = [op EXCEPT ![t] = o] /\ block_lock' = block_lock /\ sector_tag' = sector_tag
      /\ dirty_bit' = dirty_bit /\ pc'[t] = "lookup" /\ pc[t] = "idle"
  BY Zenon DEF Call, diskVars, lockVars, InUse, TypeOK, Goto
<1>2. WorksOn(t)'
  BY <1>1, Zenon DEF WorksOn
<1>3. ASSUME NEW u \in Threads \ {t} PROVE WorksOn(u)'
  <2>1. pc'[u] = pc[u] /\ want'[u] = want[u] /\ op'[u] = op[u]
    BY <1>1, Zenon DEF TypeOK, Goto
  <2>2. WorksOn(u)
    BY Zenon DEF Working
  <2> QED BY <1>1, <2>1, <2>2, WorksFrame, Zenon
<1> QED BY <1>2, <1>3, Zenon

\* What a branch of the search does that finds block b.
Looks(t, b, branch) ==
  /\ Found(t, b, branch) /\ LRU_lock = NoThread /\ pc[t] = "lookup" /\ On
  /\ b \in InUse' /\ InUse \subseteq InUse'
  /\ block' = [block EXCEPT ![t] = b] /\ how' = [how EXCEPT ![t] = branch]
  /\ \/ /\ branch = "hit" /\ sector_tag[b] = want[t]
        /\ InUse' = InUse /\ sector_tag' = sector_tag /\ dirty_bit' = dirty_bit
     \/ /\ branch = "fresh" /\ b \notin InUse /\ b \in CacheBlocks /\ InUse' = InUse \cup {b}
        /\ sector_tag' = [sector_tag EXCEPT ![b] = want[t]]
        /\ dirty_bit' = [dirty_bit EXCEPT ![b] = (op[t] = "write")]
        /\ \A c \in InUse : sector_tag[c] # want[t]
     \/ /\ branch = "evict" /\ \A c \in InUse : sector_tag[c] # want[t]
        /\ InUse' = InUse /\ sector_tag' = sector_tag /\ dirty_bit' = dirty_bit

\* Where each branch of the search leaves its caller.
LEMMA LookupDoes ==
  ASSUME TypeOK, Listed, NEW t \in Threads, LookupHit(t) \/ LookupFresh(t) \/ LookupEvict(t)
  PROVE  \E b, branch : Looks(t, b, branch)
<1>1. CASE LookupHit(t)
  <2>1. PICK b \in Hits(want[t]) : Found(t, b, "hit")
    BY <1>1, Zenon DEF LookupHit
  <2>2. b \in InUse /\ sector_tag[b] = want[t]
    BY <2>1, Zenon DEF Hits, InUse
  <2>3. LRU_lock = NoThread /\ pc[t] = "lookup" /\ On /\ sector_tag' = sector_tag /\ dirty_bit' = dirty_bit
    BY <1>1, Zenon DEF LookupHit
  <2>4. InUse' = InUse
    BY <1>1, <2>3, ListedHit, Zenon
  <2>5. block' = [block EXCEPT ![t] = b] /\ how' = [how EXCEPT ![t] = "hit"]
    BY <2>1, Zenon DEF Found
  <2>6. b \in InUse' /\ InUse \subseteq InUse'
    BY <2>2, <2>4, Zenon
  <2> QED BY <2>1, <2>2, <2>3, <2>4, <2>5, <2>6, Zenon DEF Looks
<1>2. CASE LookupFresh(t)
  <2> DEFINE b == Len(LRU_list)
  <2>1. /\ LRU_lock = NoThread /\ pc[t] = "lookup" /\ On /\ Found(t, b, "fresh")
        /\ sector_tag' = [sector_tag EXCEPT ![b] = want[t]]
        /\ dirty_bit' = [dirty_bit EXCEPT ![b] = (op[t] = "write")]
    BY <1>2, Zenon DEF LookupFresh
  <2>2. InUse' = InUse \cup {b} /\ b \notin InUse /\ b \in CacheBlocks
    BY <1>2, <2>1, ListedFresh, Zenon
  <2>3. \A c \in InUse : sector_tag[c] # want[t]
    BY <1>2, Zenon DEF LookupFresh, Hits, InUse
  <2>4. block' = [block EXCEPT ![t] = b] /\ how' = [how EXCEPT ![t] = "fresh"]
    BY <2>1, Zenon DEF Found
  <2> HIDE DEF b
  <2>5. b \in InUse' /\ InUse \subseteq InUse'
    BY <2>2, Zenon
  <2> QED BY <2>1, <2>2, <2>3, <2>4, <2>5, Zenon DEF Looks
<1>3. CASE LookupEvict(t)
  <2> DEFINE b == LRU_list[Len(LRU_list)]
  <2>1. /\ LRU_lock = NoThread /\ pc[t] = "lookup" /\ On /\ Found(t, b, "evict")
        /\ sector_tag' = sector_tag /\ dirty_bit' = dirty_bit
    BY <1>3, Zenon DEF LookupEvict
  <2>2. InUse' = InUse
    BY <1>3, <2>1, ListedEvict, Zenon
  <2>3. \A c \in InUse : sector_tag[c] # want[t]
    BY <1>3, Zenon DEF LookupEvict, Hits, InUse
  <2>4. block' = [block EXCEPT ![t] = b] /\ how' = [how EXCEPT ![t] = "evict"]
    BY <2>1, Zenon DEF Found
  <2>5. b \in InUse
    <3>1. Len(LRU_list) \in 1 .. Len(LRU_list)
      BY <1>3, CacheAssumption DEF LookupEvict
    <3> QED BY <3>1, Zenon DEF Listed
  <2> HIDE DEF b
  <2>6. b \in InUse' /\ InUse \subseteq InUse'
    BY <2>2, <2>5, Zenon
  <2> QED BY <2>1, <2>2, <2>3, <2>4, <2>6, Zenon DEF Looks
<1> QED BY <1>1, <1>2, <1>3, Zenon

\* Nor does a search, which changes no block that a caller has locked.
LEMMA WorkingLookup ==
  ASSUME TypeOK, HoldersWork, Listed, Working, NEW t \in Threads, LookupHit(t) \/ LookupFresh(t) \/ LookupEvict(t)
  PROVE  (\A u \in Threads : WorksOn(u)') /\ InUse \subseteq InUse' /\ block_lock' = block_lock
<1>0. PICK b, branch : Looks(t, b, branch)
  BY LookupDoes, Zenon
<1>1.      /\ Found(t, b, branch) /\ LRU_lock = NoThread /\ pc[t] = "lookup" /\ On
           /\ b \in InUse' /\ InUse \subseteq InUse'
           /\ block' = [block EXCEPT ![t] = b] /\ how' = [how EXCEPT ![t] = branch]
           /\ \/ /\ branch = "hit" /\ sector_tag[b] = want[t]
                 /\ InUse' = InUse /\ sector_tag' = sector_tag /\ dirty_bit' = dirty_bit
              \/ /\ branch = "fresh" /\ b \notin InUse /\ b \in CacheBlocks /\ InUse' = InUse \cup {b}
                 /\ sector_tag' = [sector_tag EXCEPT ![b] = want[t]]
                 /\ dirty_bit' = [dirty_bit EXCEPT ![b] = (op[t] = "write")]
                 /\ \A c \in InUse : sector_tag[c] # want[t]
              \/ /\ branch = "evict" /\ \A c \in InUse : sector_tag[c] # want[t]
                 /\ InUse' = InUse /\ sector_tag' = sector_tag /\ dirty_bit' = dirty_bit
  BY <1>0, Zenon DEF Looks
<1>2. /\ Goto(t, "lock") /\ want' = want /\ op' = op /\ block_lock' = block_lock
  BY <1>1, Zenon DEF Found
<1>3. block'[t] = b /\ how'[t] = branch /\ pc'[t] = "lock" /\ t \in Procs /\ InUse \subseteq CacheBlocks
  BY <1>1, <1>2, ListFacts, Zenon DEF TypeOK, Goto, Procs
<1>4. \A u \in Threads \ {t} : block'[u] = block[u] /\ how'[u] = how[u] /\ want'[u] = want[u] /\ op'[u] = op[u]
  BY <1>1, <1>2, Zenon DEF TypeOK
<1>5. pc[t] \notin WithBlock
  BY Zenon, <1>1 DEF WithBlock
<1>6. PICK x : /\ x \notin InUse
               /\ \A c \in CacheBlocks \ {x} : block_lock'[c] = block_lock[c] /\ sector_tag'[c] = sector_tag[c]
                                                  /\ dirty_bit'[c] = dirty_bit[c]
  <2>1. CASE branch = "fresh"
    <3>1. \A c \in CacheBlocks \ {b} : sector_tag'[c] = sector_tag[c] /\ dirty_bit'[c] = dirty_bit[c]
      BY <1>1, <2>1, Zenon DEF TypeOK
    <3> QED BY <1>1, <1>2, <2>1, <3>1, Zenon
  <2>2. CASE branch # "fresh"
    <3>1. CACHE_SIZE \notin InUse
      BY <1>3, CacheAssumption DEF CacheBlocks
    <3> QED BY <1>1, <1>2, <2>2, <3>1, Zenon
  <2> QED BY <2>1, <2>2, Zenon
<1>7. \A u \in Threads \ {t} : WorksOn(u)'
  <2>1. Goto(t, "lock") /\ t \in Procs /\ InUse \subseteq InUse' /\ LRU_lock \in {NoThread, t}
    BY <1>1, <1>2, <1>3, Zenon
  <2> QED BY <1>4, <1>5, <1>6, <2>1, OthersWork, Zenon
<1>8. WorksOn(t)'
  <2>1. block'[t] \in InUse'
    BY <1>1, <1>3, Zenon
  <2>2. branch # "evict" => sector_tag'[b] = want[t]
    BY <1>1, Zenon DEF TypeOK
  <2>3. branch = "evict" => \A c \in InUse' : sector_tag'[c] # want[t]
    BY <1>1, Zenon
  <2>4. branch = "fresh" => block_lock'[b] = NoThread /\ (dirty_bit'[b] <=> op[t] = "write")
    <3>1. branch = "fresh" => block_lock[b] = NoThread
      BY <1>1, Zenon DEF Working
    <3>2. branch = "fresh" => dirty_bit'[b] = (op[t] = "write")
      BY <1>1, Zenon DEF TypeOK
    <3> QED BY <1>2, <3>1, <3>2, Zenon
  <2> QED BY <1>2, <1>3, <2>1, <2>2, <2>3, <2>4, Zenon DEF WorksOn
<1> QED BY <1>1, <1>2, <1>7, <1>8, Zenon

\* Nor does the taking of a block_lock with the change of the evicted block's
\* tag.
LEMMA WorkingLock ==
  ASSUME TypeOK, HoldersWork, Listed, Working, NEW t \in Threads, LockBlock(t)
  PROVE  \A u \in Threads : WorksOn(u)'
<1> DEFINE b == block[t]
<1>1. /\ pc[t] = "lock" /\ block_lock[b] = NoThread /\ block_lock' = [block_lock EXCEPT ![b] = t]
      /\ dirty_bit' = dirty_bit /\ op' = op /\ want' = want /\ block' = block /\ how' = how /\ InUse' = InUse
  BY Zenon DEF LockBlock, InUse
<1>2. WorksOn(t) /\ b \in InUse /\ b \in CacheBlocks /\ t \in Procs /\ LRU_lock = t
  <2>1. WorksOn(t) /\ t \in Procs
    BY Zenon DEF Working, Procs
  <2>2. b \in InUse /\ b \in CacheBlocks
    BY <1>1, <2>1, ListFacts, Zenon DEF WorksOn
  <2>3. LRU_lock = t
    BY <1>1, <2>1, Zenon DEF HoldersWork, WithLRU
  <2> QED BY <2>1, <2>2, <2>3, Zenon
<1>3. PICK label \in Locked :
        /\ Goto(t, label)
        /\ label = "writeback" => how[t] = "evict" /\ dirty_bit[b]
        /\ label = "fetch" => how[t] # "hit" /\ op[t] = "read" /\ ~(how[t] = "evict" /\ dirty_bit[b])
  <2>1. CASE how[t] = "hit"
    <3>1. Goto(t, "copy") /\ "copy" \in Locked /\ "copy" # "writeback" /\ "copy" # "fetch"
      BY <2>1, Zenon DEF LockBlock, Locked
    <3> QED BY <3>1, Zenon
  <2>2. CASE how[t] # "hit" /\ how[t] = "evict" /\ dirty_bit[b]
    <3>1. Goto(t, "writeback") /\ "writeback" \in Locked /\ "writeback" # "fetch"
      BY <2>2, Zenon DEF LockBlock, Locked
    <3> QED BY <2>2, <3>1, Zenon
  <2>3. CASE how[t] # "hit" /\ ~(how[t] = "evict" /\ dirty_bit[b])
    <3>1. Goto(t, IF op[t] = "read" THEN "fetch" ELSE "copy")
      BY <2>3, Zenon DEF LockBlock, Transfer
    <3>2. /\ "fetch" \in Locked /\ "copy" \in Locked
          /\ "copy" # "writeback" /\ "copy" # "fetch" /\ "fetch" # "writeback"
      BY Zenon DEF Locked
    <3> QED BY <2>3, <3>1, <3>2, Zenon
  <2> QED BY <2>1, <2>2, <2>3, Zenon
<1>4. /\ sector_tag'[b] = want[t] /\ \A c \in CacheBlocks \ {b} : sector_tag'[c] = sector_tag[c]
  <2>1. CASE how[t] = "evict"
    BY <1>2, <2>1, Zenon DEF LockBlock, TypeOK
  <2>2. CASE how[t] # "evict"
    <3>1. sector_tag[b] = want[t]
      BY <1>1, <1>2, <2>2, Zenon DEF WorksOn
    <3> QED BY <2>2, <3>1, Zenon DEF LockBlock
  <2> QED BY <2>1, <2>2, Zenon
<1>5. block_lock'[b] = t /\ \A c \in CacheBlocks \ {b} : block_lock'[c] = block_lock[c]
  BY <1>1, <1>2, Zenon DEF TypeOK
<1>6. pc'[t] = label
  BY <1>2, <1>3, Zenon DEF Goto, TypeOK, Procs
<1>7. WorksOn(t)'
  <2>1. how[t] = "fresh" => (dirty_bit[b] <=> op[t] = "write")
    BY <1>1, <1>2, Zenon DEF WorksOn
  <2>2. how[t] \in {"hit", "fresh", "evict"} /\ op[t] \in {"read", "write"}
    BY Zenon DEF TypeOK
  <2>3. label = "fetch" => ~dirty_bit[b]
    BY <1>3, <2>1, <2>2, Zenon
  <2>4. label # "lock" /\ block'[t] \in InUse' /\ block_lock'[block'[t]] = t /\ sector_tag'[block'[t]] = want'[t]
    BY <1>1, <1>2, <1>3, <1>4, <1>5, Zenon DEF Locked
  <2>5. pc'[t] = "writeback" => how'[t] = "evict" /\ dirty_bit'[block'[t]]
    BY <1>1, <1>3, <1>6, Zenon
  <2>6. pc'[t] = "fetch" => how'[t] # "hit" /\ op'[t] = "read" /\ ~dirty_bit'[block'[t]]
    BY <1>1, <1>3, <1>6, <2>3, Zenon
  <2> QED BY <1>6, <2>4, <2>5, <2>6, Zenon DEF WorksOn
<1>8. pc[t] \notin WithBlock
  BY Zenon, <1>1 DEF WithBlock
<1>9. \A u \in Threads \ {t} : WorksOn(u)'
  <2>1. LRU_lock \in {NoThread, t} /\ InUse \subseteq InUse'
    BY <1>1, <1>2, Zenon
  <2>2. \A c \in CacheBlocks \ {b} : block_lock'[c] = block_lock[c] /\ sector_tag'[c] = sector_tag[c]
                                       /\ dirty_bit'[c] = dirty_bit[c]
    BY <1>1, <1>4, <1>5, Zenon
  <2>3. \A u \in Threads \ {t} : block'[u] = block[u] /\ how'[u] = how[u] /\ want'[u] = want[u] /\ op'[u] = op[u]
    BY <1>1, Zenon
  <2>4. Goto(t, label) /\ t \in Procs /\ block_lock[b] = NoThread
    BY <1>1, <1>2, <1>3, Zenon
  <2> HIDE DEF b
  <2> QED BY <1>8, <2>1, <2>2, <2>3, <2>4, OthersWork, Zenon
<1> QED BY <1>7, <1>9, Zenon

\* A step of a caller with its block locked.
LEMMA WorkingLocked ==
  ASSUME TypeOK, HoldersWork, Listed, Working, NEW t \in Threads,
         WriteBack(t) \/ Fetch(t) \/ CopyOut(t) \/ CopyIn(t)
  PROVE  \A u \in Threads : WorksOn(u)'
<1> DEFINE b == block[t]
<1>1. pc[t] \in Locked /\ pc[t] \in WithBlock /\ sector_tag' = sector_tag /\ LRU_list' = LRU_list
  BY Zenon DEF WriteBack, Fetch, CopyOut, CopyIn, diskVars, lockVars, Locked, WithBlock
<1>2. WorksOn(t) /\ b \in InUse /\ b \in CacheBlocks /\ t \in Procs /\ block_lock[b] = t /\ sector_tag[b] = want[t]
  <2>1. WorksOn(t) /\ t \in Procs
    BY Zenon DEF Working, Procs
  <2>2. b \in InUse /\ b \in CacheBlocks /\ block_lock[b] = t /\ sector_tag[b] = want[t]
    BY <1>1, <2>1, ListFacts, Zenon DEF WorksOn, Locked
  <2> QED BY <2>1, <2>2, Zenon
<1>3. \A u \in Threads \ {t} : block'[u] = block[u] /\ how'[u] = how[u] /\ want'[u] = want[u] /\ op'[u] = op[u]
  BY ZenonT(60) DEF WriteBack, Fetch, CopyOut, CopyIn, Return, callVars, TypeOK
<1>4. \A c \in CacheBlocks \ {b} : block_lock'[c] = block_lock[c] /\ sector_tag'[c] = sector_tag[c]
                                     /\ dirty_bit'[c] = dirty_bit[c]
  BY Zenon DEF WriteBack, Fetch, CopyOut, CopyIn, Return, diskVars, lockVars, TypeOK
<1>5. PICK label \in {"fetch", "copy", "idle"} : Goto(t, label)
  BY Zenon DEF WriteBack, Fetch, CopyOut, CopyIn, Return, Transfer
<1>6. \A u \in Threads \ {t} : WorksOn(u)'
  <2>1. InUse' = InUse /\ InUse \subseteq InUse'
    BY <1>1, Zenon DEF InUse
  <2>2. t \in Procs /\ block_lock[b] = t
    BY <1>2, Zenon
  <2> HIDE DEF b
  <2> QED BY <1>1, <1>3, <1>4, <1>5, <2>1, <2>2, OthersWork, ZenonT(60)
<1>7. WorksOn(t)'
  <2>1. CASE WriteBack(t) \/ Fetch(t)
    <3>1. /\ InUse' = InUse /\ op' = op /\ want' = want /\ block' = block /\ how' = how
          /\ block_lock' = block_lock /\ sector_tag' = sector_tag
      BY <1>1, <2>1, Zenon DEF WriteBack, Fetch, lockVars, callVars, InUse
    <3>2. /\ pc'[t] = "fetch" \/ pc'[t] = "copy"
          /\ pc'[t] = "fetch" => op[t] = "read" /\ how[t] # "hit" /\ ~dirty_bit'[b]
      <4>1. CASE WriteBack(t)
        <5>1. pc'[t] = IF op[t] = "read" THEN "fetch" ELSE "copy"
          BY <4>1, Zenon DEF WriteBack, Goto, TypeOK, Transfer
        <5>2. dirty_bit'[b] = (dirty_bit[b] /\ op[t] = "write")
          BY <1>2, <4>1, Zenon DEF WriteBack, TypeOK
        <5>3. how[t] = "evict"
          BY <1>2, <4>1, Zenon DEF WriteBack, WorksOn
        <5> QED BY <5>1, <5>2, <5>3, Zenon
      <4>2. CASE Fetch(t)
        <5>1. pc'[t] = "copy"
          BY <4>2, Zenon DEF Fetch, Goto, TypeOK
        <5> QED BY <5>1, Zenon
      <4> QED BY <2>1, <4>1, <4>2, Zenon
    <3>3. block'[t] \in InUse' /\ block_lock'[block'[t]] = t /\ sector_tag'[block'[t]] = want'[t]
      BY <1>2, <3>1, Zenon
    <3> QED BY <3>1, <3>2, <3>3, Zenon DEF WorksOn
  <2>2. CASE CopyOut(t) \/ CopyIn(t)
    <3>1. pc'[t] = "idle"
      BY <2>2, Zenon DEF CopyOut, CopyIn, Return, Goto, TypeOK
    <3> QED BY <3>1, Zenon DEF WorksOn
  <2> QED BY <2>1, <2>2, Zenon
<1> QED BY <1>6, <1>7, Zenon

\* A step of cache_flush() disturbs no caller.
LEMMA WorkingFlush ==
  ASSUME TypeOK, HoldersWork, Listed, Working, Flush
  PROVE  \A u \in Threads : WorksOn(u)'
<1>0. Flusher \in Procs /\ Flusher \notin Threads /\ NoThread \notin Procs /\ Threads \subseteq Procs
  BY CacheAssumption, Zenon DEF Procs
<1>1. /\ sector_tag' = sector_tag /\ LRU_list' = LRU_list /\ op' = op /\ want' = want /\ how' = how
  BY Zenon DEF Flush, FlushStart, FlushTest, FlushLock, FlushWrite, FlushEnd, diskVars, lockVars, callVars
<1>2. InUse' = InUse
  BY <1>1, Zenon DEF InUse
<1>3. ASSUME NEW u \in Threads PROVE pc'[u] = pc[u] /\ block'[u] = block[u]
  <2>1. u # Flusher
    BY <1>0, Zenon
  <2> QED BY <2>1, Zenon DEF Flush, FlushStart, FlushTest, FlushLock, FlushWrite, FlushEnd, callVars, Goto, TypeOK
<1>4. ASSUME NEW u \in Threads, pc[u] \in Locked \/ (pc[u] = "lock" /\ how[u] = "fresh")
      PROVE  block_lock'[block[u]] = block_lock[block[u]] /\ dirty_bit'[block[u]] = dirty_bit[block[u]]
  <2>1. CASE FlushStart \/ FlushTest \/ FlushEnd
    BY <2>1, Zenon DEF FlushStart, FlushTest, FlushEnd, diskVars, lockVars
  <2>2. CASE FlushLock \/ FlushWrite
    <3>1. LRU_lock = Flusher
      BY <1>0, <2>2, Zenon DEF FlushLock, FlushWrite, HoldersWork, WithLRU
    <3>2. pc[u] # "lock"
      BY <1>0, <3>1, Zenon DEF HoldersWork, WithLRU
    <3>3. block_lock[block[u]] = u /\ block[u] \in CacheBlocks
      <4>1. WorksOn(u)
        BY Zenon DEF Working
      <4> QED BY <1>4, <3>2, <4>1, ListFacts, Zenon DEF WorksOn, Locked
    <3>4. block_lock[block[Flusher]] \in {NoThread, Flusher}
      BY <2>2, Zenon DEF FlushLock, FlushWrite, Working
    <3>5. block[u] # block[Flusher]
      BY <1>0, <3>3, <3>4, Zenon
    <3> QED BY <2>2, <3>3, <3>5, Zenon DEF FlushLock, FlushWrite, diskVars, TypeOK
  <2> QED BY <2>1, <2>2, Zenon DEF Flush
<1>5. ASSUME NEW u \in Threads PROVE WorksOn(u)'
  <2>1. WorksOn(u) /\ InUse \subseteq InUse'
    BY <1>2, Zenon DEF Working
  <2> QED BY <1>1, <1>2, <1>3, <1>4, <2>1, WorksFrame, Zenon
<1> QED BY <1>5, Zenon

\* Every step leaves every caller where it may be.
LEMMA WorkingStep ==
  ASSUME TypeOK, HoldersWork, Listed, Working, [Next]_vars
  PROVE  Working'
<1>0. /\ Flusher \in Procs /\ Flusher \notin Threads /\ NoThread \notin Procs /\ Threads \subseteq Procs
      /\ InUse \subseteq CacheBlocks
  BY CacheAssumption, ListFacts, Zenon DEF Procs
<1>w. \A b \in CacheBlocks \ InUse : block_lock[b] = NoThread
  BY Zenon DEF Working
<1>f. /\ pc[Flusher] = "flush" => block[Flusher] <= Len(LRU_list)
      /\ pc[Flusher] \in {"flush_lock", "flush_write"} => block[Flusher] \in InUse
      /\ pc[Flusher] = "flush_write" => block_lock[block[Flusher]] = Flusher
  BY Zenon DEF Working
<1>1. ASSUME NEW t \in Threads, NEW o, NEW s, NEW d, Call(t, o, s, d) PROVE Working'
  <2>1. /\ InUse' = InUse /\ LRU_list' = LRU_list /\ block_lock' = block_lock /\ block' = block
    BY <1>1, Zenon DEF Call, lockVars, InUse
  <2>2. pc'[Flusher] = pc[Flusher]
    BY <1>0, <1>1, Zenon DEF Call, Goto, TypeOK
  <2> QED BY <1>1, <1>f, <1>w, <2>1, <2>2, WorkingCall, Zenon DEF Working
<1>2. ASSUME NEW t \in Threads, LookupHit(t) \/ LookupFresh(t) \/ LookupEvict(t) PROVE Working'
  <2>1. (\A u \in Threads : WorksOn(u)') /\ InUse \subseteq InUse' /\ block_lock' = block_lock
    BY <1>2, WorkingLookup, Zenon
  <2>2. LRU_lock = NoThread /\ \E label : Goto(t, label)
    BY <1>2, Zenon DEF LookupHit, LookupFresh, LookupEvict, Found
  <2>3. pc'[Flusher] = pc[Flusher] /\ pc[Flusher] \notin WithLRU
    BY <1>0, <2>2, ZenonT(60) DEF HoldersWork, Goto, TypeOK
  <2>4. pc'[Flusher] # "flush" /\ pc'[Flusher] \notin {"flush_lock", "flush_write"}
    BY <2>3, Zenon DEF WithLRU
  <2>5. \A b \in CacheBlocks \ InUse' : block_lock'[b] = NoThread
    BY <1>w, <2>1, Zenon
  <2> QED BY <2>1, <2>4, <2>5, Zenon DEF Working
<1>3. ASSUME NEW t \in Threads, LockBlock(t) PROVE Working'
  <2>1. /\ InUse' = InUse /\ pc[t] = "lock" /\ block_lock' = [block_lock EXCEPT ![block[t]] = t] /\ block[t] \in InUse
    BY <1>3, Zenon DEF LockBlock, InUse, Working, WorksOn
  <2>2. pc'[Flusher] = pc[Flusher]
    BY <1>0, <1>3, Zenon DEF LockBlock, Goto, TypeOK
  <2>3. pc'[Flusher] # "flush" /\ pc'[Flusher] \notin {"flush_lock", "flush_write"}
    <3>1. LRU_lock = t
      BY <1>0, <2>1, Zenon DEF HoldersWork, WithLRU
    <3>2. pc[Flusher] \notin WithLRU
      BY <1>0, <3>1, Zenon DEF HoldersWork
    <3> QED BY <2>2, <3>2, Zenon DEF WithLRU
  <2>4. \A b \in CacheBlocks \ InUse' : block_lock'[b] = NoThread
    BY <1>w, <2>1, Zenon DEF TypeOK
  <2>5. \A u \in Threads : WorksOn(u)'
    BY <1>3, WorkingLock, Zenon
  <2> QED BY <2>3, <2>4, <2>5, Zenon DEF Working
<1>4. ASSUME NEW t \in Threads, WriteBack(t) \/ Fetch(t) \/ CopyOut(t) \/ CopyIn(t) PROVE Working'
  <2>1. /\ LRU_list' = LRU_list /\ (block_lock' = block_lock \/ block_lock' = [block_lock EXCEPT ![block[t]] = NoThread])
        /\ (block' = block \/ block' = [block EXCEPT ![t] = 0]) /\ \E label : Goto(t, label)
    BY <1>4, Zenon DEF WriteBack, Fetch, CopyOut, CopyIn, Return, lockVars, callVars
  <2>2. InUse' = InUse
    BY <2>1, Zenon DEF InUse
  <2>3. pc'[Flusher] = pc[Flusher] /\ block'[Flusher] = block[Flusher]
    BY <1>0, <2>1, Zenon DEF Goto, TypeOK
  <2>4. \A b \in CacheBlocks \ InUse' : block_lock'[b] = NoThread
    BY <1>w, <2>1, <2>2, Zenon DEF TypeOK
  <2>5. pc[Flusher] = "flush_write" => block_lock'[block[Flusher]] = Flusher
    <3>1. block_lock[block[t]] = t /\ t # Flusher
      <4>1. pc[t] \in Locked /\ WorksOn(t)
        BY <1>4, Zenon DEF WriteBack, Fetch, CopyOut, CopyIn, Locked, Working
      <4> QED BY <1>0, <4>1, Zenon DEF WorksOn, Locked
    <3>2. pc[Flusher] = "flush_write" => block[Flusher] \in CacheBlocks /\ block_lock[block[Flusher]] = Flusher
      BY <1>0, <1>f, Zenon
    <3> QED BY <2>1, <3>1, <3>2, Zenon DEF TypeOK
  <2>6. \A u \in Threads : WorksOn(u)'
    BY <1>4, WorkingLocked, Zenon
  <2> QED BY <1>f, <2>1, <2>2, <2>3, <2>4, <2>5, <2>6, Zenon DEF Working
<1>5. CASE Flush
  <2>1. \A u \in Threads : WorksOn(u)'
    BY <1>5, WorkingFlush, Zenon
  <2>2. LRU_list' = LRU_list /\ InUse' = InUse /\ Len(LRU_list) \in Nat
    BY <1>5, ListFacts, Zenon DEF Flush, FlushStart, FlushTest, FlushLock, FlushWrite, FlushEnd, lockVars, InUse
  <2>3. /\ pc \in [Procs -> {"idle", "lookup", "lock", "writeback", "fetch", "copy",
                             "flush", "flush_lock", "flush_write", "off"}]
        /\ block \in [Procs -> 0 .. CACHE_SIZE] /\ block_lock \in [CacheBlocks -> Holder]
    BY Zenon DEF TypeOK, Procs
  <2>4. CASE FlushStart
    <3>1. pc'[Flusher] = "flush" /\ block'[Flusher] = 0 /\ block_lock' = block_lock
      BY <1>0, <2>3, <2>4, Zenon DEF FlushStart, Goto
    <3>2. 0 <= Len(LRU_list)
      BY <2>2
    <3> QED BY <1>w, <2>1, <2>2, <3>1, <3>2, Zenon DEF Working
  <2>5. CASE FlushTest
    <3>1. pc[Flusher] = "flush" /\ block[Flusher] < Len(LRU_list) /\ block_lock' = block_lock
      BY <2>5, Zenon DEF FlushTest, lockVars
    <3>2. CASE dirty_bit[block[Flusher]]
      <4>1. pc'[Flusher] = "flush_lock" /\ block' = block
        BY <1>0, <2>3, <2>5, <3>2, Zenon DEF FlushTest, Goto
      <4>2. block[Flusher] \in InUse
        BY <1>0, <2>2, <2>3, <3>1 DEF InUse
      <4> QED BY <1>w, <2>1, <2>2, <3>1, <4>1, <4>2, Zenon DEF Working
    <3>3. CASE ~dirty_bit[block[Flusher]]
      <4>1. pc'[Flusher] = "flush" /\ block'[Flusher] = block[Flusher] + 1
        BY <1>0, <2>3, <2>5, <3>1, <3>3, Zenon DEF FlushTest
      <4>2. block[Flusher] + 1 <= Len(LRU_list)
        BY <1>0, <2>2, <2>3, <3>1
      <4> QED BY <1>w, <2>1, <2>2, <3>1, <4>1, <4>2, Zenon DEF Working
    <3> QED BY <3>2, <3>3, Zenon
  <2>6. CASE FlushLock
    <3>1. /\ pc[Flusher] = "flush_lock" /\ block_lock' = [block_lock EXCEPT ![block[Flusher]] = Flusher]
          /\ pc'[Flusher] = "flush_write" /\ block' = block
      BY <1>0, <2>3, <2>6, Zenon DEF FlushLock, Goto, callVars
    <3>2. block[Flusher] \in InUse /\ block[Flusher] \in CacheBlocks
      BY <1>0, <1>f, <3>1, Zenon
    <3>3. block_lock'[block[Flusher]] = Flusher /\ \A b \in CacheBlocks \ InUse : block_lock'[b] = NoThread
      BY <1>w, <2>3, <3>1, <3>2, Zenon
    <3> QED BY <2>1, <2>2, <3>1, <3>2, <3>3, Zenon DEF Working
  <2>7. CASE FlushWrite
    <3>1. /\ pc[Flusher] = "flush_write" /\ block_lock' = [block_lock EXCEPT ![block[Flusher]] = NoThread]
          /\ pc'[Flusher] = "flush" /\ block'[Flusher] = block[Flusher] + 1
      BY <1>0, <2>3, <2>7, Zenon DEF FlushWrite, Goto
    <3>2. block[Flusher] \in InUse
      BY <1>f, <3>1, Zenon
    <3>3. block[Flusher] + 1 <= Len(LRU_list)
      BY <2>2, <3>2 DEF InUse
    <3>4. \A b \in CacheBlocks \ InUse : block_lock'[b] = NoThread
      BY <1>w, <2>3, <3>1, Zenon
    <3> QED BY <2>1, <2>2, <3>1, <3>3, <3>4, Zenon DEF Working
  <2>8. CASE FlushEnd
    <3>1. pc'[Flusher] = "off" /\ block_lock' = block_lock
      BY <1>0, <2>3, <2>8, Zenon DEF FlushEnd, Goto
    <3> QED BY <1>w, <2>1, <2>2, <3>1, Zenon DEF Working
  <2> QED BY <1>5, <2>4, <2>5, <2>6, <2>7, <2>8, Zenon DEF Flush
<1>6. CASE UNCHANGED vars
  BY <1>6, ZenonT(60) DEF vars, diskVars, lockVars, callVars, Working, WorksOn, InUse
<1>7. CASE Off
  BY <1>6, <1>7, Zenon DEF Off
<1> QED BY <1>1, <1>2, <1>3, <1>4, <1>5, <1>6, <1>7, Zenon DEF Next, Step

\* The strengthening for the order of use.
CacheInv == TypeOK /\ HoldersWork /\ Listed /\ Working

\* It holds at first.
LEMMA CacheInit == Init => CacheInv
<1> SUFFICES ASSUME Init PROVE CacheInv
  BY Zenon
<1>0. /\ 0 \in Sectors /\ 0 \in 0 .. CACHE_SIZE /\ Blank \in Data
      /\ Len(<<>>) = 0 /\ \A S : <<>> \in Seq(S) /\ 1 .. 0 = {} /\ 0 <= CACHE_SIZE
  BY CacheAssumption DEF Sectors
<1>1. TypeOK
  <2>1. /\ use \in Uses /\ disk \in [Sectors -> Data] /\ sector_tag \in [CacheBlocks -> Sectors]
        /\ sector \in [CacheBlocks -> Data] /\ dirty_bit \in [CacheBlocks -> BOOLEAN]
        /\ LRU_list \in Seq(CacheBlocks) /\ LRU_lock \in Holder /\ block_lock \in [CacheBlocks -> Holder]
    BY <1>0, Zenon DEF Init, Holder
  <2>2. /\ pc \in [Threads \cup {Flusher} -> {"idle", "lookup", "lock", "writeback", "fetch", "copy",
                    "flush", "flush_lock", "flush_write", "off"}]
        /\ op \in [Threads -> {"read", "write"}] /\ want \in [Threads -> Sectors]
        /\ buffer \in [Threads -> Data] /\ block \in [Threads \cup {Flusher} -> 0 .. CACHE_SIZE]
        /\ how \in [Threads -> {"hit", "fresh", "evict"}] /\ old_sector \in [Threads -> Sectors]
        /\ raced \in BOOLEAN /\ last \in [Sectors -> Data] /\ stable \subseteq Sectors
    BY <1>0, Zenon DEF Init
  <2> QED BY <2>1, <2>2, Zenon DEF TypeOK
<1>2. InUse = {}
  BY DEF Init, InUse
<1>3. Listed
  <2>1. LRU_list = <<>> /\ recent = <<>>
    BY Zenon DEF Init
  <2>2. Len(LRU_list) = 0 /\ Len(recent) = 0
    BY <1>0, <2>1, Zenon
  <2>3. Once(LRU_list) /\ Once(recent)
    BY <1>0, <2>2, Zenon DEF Once
  <2>4. 0 <= 0
    OBVIOUS
  <2> QED BY <1>0, <1>2, <2>1, <2>2, <2>3, <2>4, Zenon DEF Listed
<1>4. Working
  <2>1. \A t \in Threads : pc[t] = "idle"
    BY Zenon DEF Init
  <2>2. pc[Flusher] = "idle" /\ \A b \in CacheBlocks : block_lock[b] = NoThread
    BY Zenon DEF Init
  <2>3. \A t \in Threads : WorksOn(t)
    BY <2>1, Zenon DEF WorksOn
  <2> QED BY <2>2, <2>3, Zenon DEF Working
<1> QED BY <1>1, <1>3, <1>4, HoldersInit, Zenon DEF CacheInv

\* Every step keeps it.
LEMMA CacheStep == CacheInv /\ [Next]_vars => CacheInv'
<1> SUFFICES ASSUME CacheInv, [Next]_vars PROVE CacheInv'
  BY Zenon
<1>1. TypeOK /\ HoldersWork /\ Listed /\ Working
  BY Zenon DEF CacheInv
<1>2. Listed' /\ Working' /\ HoldersWork'
  BY <1>1, ListedStep, WorkingStep, HoldersStep, Zenon
<1>3. TypeOK'
  BY <1>1, <1>2, TypesStep, Zenon
<1> QED BY <1>2, <1>3, Zenon DEF CacheInv

\* For any number of callers, blocks and sectors and every use made of the
\* cache: each sector is in at most one block, LRU_list holds the blocks in
\* use, and cache_read() and cache_write() evict the sector used longest ago.
THEOREM LeastRecentlyUsed == Spec => []LRUOrder
<1>1. CacheInv => LRUOrder
  <2> SUFFICES ASSUME TypeOK, HoldersWork, Listed, Working PROVE LRUOrder
    BY Zenon DEF CacheInv
  <2>1. \A b \in CacheBlocks : b < Len(LRU_list) <=> b \in InUse
    BY ListFacts, CacheAssumption DEF InUse, CacheBlocks
  <2>2. \A b \in CacheBlocks : b < Len(LRU_list) <=> \E i \in 1 .. Len(LRU_list) : LRU_list[i] = b
    <3>1. \A i \in 1 .. Len(LRU_list) : LRU_list[i] \in InUse
      BY Zenon DEF Listed
    <3>2. \A b \in InUse : \E i \in 1 .. Len(LRU_list) : LRU_list[i] = b
      BY Zenon DEF Listed
    <3> QED BY <2>1, <3>1, <3>2, Zenon
  <2>3. \A s \in Sectors : \A b, c \in Hits(s) : b = c
    <3>1. \A b, c \in InUse : sector_tag[b] = sector_tag[c] => b = c
      BY Zenon DEF Listed
    <3> QED BY <3>1, Zenon DEF Hits, InUse
  <2>4. ASSUME LRU_lock \in {NoThread, Flusher}, NEW i \in 1 .. Len(LRU_list)
        PROVE  sector_tag[LRU_list[i]] = recent[i]
    <3>1. LRU_lock \notin Threads
      BY <2>4, CacheAssumption, Zenon
    <3>2. Meant(LRU_list[i]) = sector_tag[LRU_list[i]]
      BY <3>1, Zenon DEF Meant
    <3>3. recent[i] = Meant(LRU_list[i])
      BY Zenon DEF Listed
    <3> QED BY <3>2, <3>3, Zenon
  <2> QED BY <2>2, <2>3, <2>4, Zenon DEF LRUOrder
<1> QED BY <1>1, CacheInit, CacheStep, PTL DEF Spec

\* A step of thread t leaves the calls of the others where they are.
LEMMA OthersStay ==
  ASSUME TypeOK, NEW t \in Threads, Step(t)
  PROVE  \A u \in Threads \ {t} :
           /\ pc'[u] = pc[u] /\ block'[u] = block[u] /\ how'[u] = how[u] /\ op'[u] = op[u]
           /\ want'[u] = want[u] /\ old_sector'[u] = old_sector[u] /\ (Fills(u)' <=> Fills(u))
<1> TAKE u \in Threads \ {t}
<1>1. CASE LookupHit(t) \/ LookupFresh(t) \/ LookupEvict(t)
  <2>1. PICK b, branch : Found(t, b, branch)
    BY <1>1, Zenon DEF LookupHit, LookupFresh, LookupEvict
  <2>2. /\ pc'[u] = pc[u] /\ block'[u] = block[u] /\ how'[u] = how[u] /\ op'[u] = op[u]
        /\ want'[u] = want[u] /\ old_sector'[u] = old_sector[u]
    BY <2>1, Zenon DEF Found, Goto, TypeOK
  <2> QED BY <2>2, Zenon DEF Fills
<1>2. CASE LockBlock(t)
  <2>1. /\ block' = block /\ how' = how /\ op' = op /\ want' = want
    BY <1>2, Zenon DEF LockBlock
  <2>2. pc'[u] = pc[u]
    BY <1>2, Zenon DEF LockBlock, Goto, TypeOK
  <2>3. old_sector'[u] = old_sector[u]
    BY <1>2, Zenon DEF LockBlock, TypeOK
  <2> QED BY <2>1, <2>2, <2>3, Zenon DEF Fills
<1>3. CASE WriteBack(t) \/ Fetch(t)
  <2>1. /\ block' = block /\ how' = how /\ op' = op /\ want' = want /\ old_sector' = old_sector
    BY <1>3, Zenon DEF WriteBack, Fetch, callVars
  <2>2. pc'[u] = pc[u]
    BY <1>3, Zenon DEF WriteBack, Fetch, Goto, TypeOK
  <2> QED BY <2>1, <2>2, Zenon DEF Fills
<1>4. CASE CopyOut(t) \/ CopyIn(t)
  <2>1. /\ pc'[u] = pc[u] /\ block'[u] = block[u] /\ how'[u] = how[u] /\ op'[u] = op[u]
        /\ want'[u] = want[u] /\ old_sector'[u] = old_sector[u]
    BY <1>4, ZenonT(60) DEF CopyOut, CopyIn, Return, Goto, TypeOK
  <2> QED BY <2>1, Zenon DEF Fills
<1> QED BY <1>1, <1>2, <1>3, <1>4, Zenon DEF Step

\* The block that a caller fills is its own.
LEMMA FillerOwns ==
  ASSUME Working, NEW u \in Threads, Fills(u)
  PROVE  /\ block[u] \in InUse /\ sector_tag[block[u]] = want[u]
         /\ block_lock[block[u]] = u \/ (block_lock[block[u]] = NoThread /\ pc[u] = "lock" /\ how[u] = "fresh")
<1>1. WorksOn(u)
  BY Zenon DEF Working
<1>2. pc[u] \in Locked \/ (pc[u] = "lock" /\ how[u] = "fresh")
  BY Zenon DEF Fills, Locked
<1>3. CASE pc[u] \in Locked
  BY <1>1, <1>3, Zenon DEF WorksOn, Locked
<1>4. CASE pc[u] = "lock" /\ how[u] = "fresh"
  BY <1>1, <1>4, Zenon DEF WorksOn
<1> QED BY <1>2, <1>3, <1>4, Zenon

\* Nobody else fills the block that t has locked.
LEMMA LockedAlone ==
  ASSUME Working, NEW t \in Procs, NEW b, block_lock[b] = t, NEW u \in Threads, Fills(u), block[u] = b
  PROVE  u = t
<1>1. t # NoThread
  BY CacheAssumption, Zenon DEF Procs
<1> QED BY <1>1, FillerOwns, Zenon

\* Steps that move neither contents nor blocks.
LEMMA CoherentFrame ==
  ASSUME Coherent, InUse' = InUse, disk' = disk, sector' = sector, sector_tag' = sector_tag,
         dirty_bit' = dirty_bit, last' = last,
         \A u \in Threads : Fills(u)' <=> Fills(u),
         \A u \in Threads : Fills(u) => block'[u] = block[u],
         \A u \in Threads : pc'[u] = "writeback" <=> pc[u] = "writeback",
         \A u \in Threads : pc[u] = "writeback" => old_sector'[u] = old_sector[u],
         \A u, v \in Threads : pc'[u] = "lock" /\ pc[v] = "writeback" => want'[u] # old_sector[v]
  PROVE  Coherent'
<1>1. \A b : Filling(b)' <=> Filling(b)
  BY Zenon DEF Filling
<1>2. \A b \in InUse : ~Filling(b)' => sector[b] = last[sector_tag[b]]
  BY <1>1, Zenon DEF Coherent
<1>3. \A b \in InUse : Filling(b)' \/ ~dirty_bit[b] => disk[sector_tag[b]] = last[sector_tag[b]]
  BY <1>1, Zenon DEF Coherent
<1>4. ASSUME NEW t \in Threads, pc'[t] = "writeback"
      PROVE  /\ sector[block'[t]] = last[old_sector'[t]]
             /\ \A b \in InUse : sector_tag[b] # old_sector'[t]
             /\ \A u \in Threads : pc'[u] = "writeback" /\ old_sector'[u] = old_sector'[t] => u = t
             /\ \A u \in Threads : pc'[u] = "lock" => want'[u] # old_sector'[t]
  <2>1. pc[t] = "writeback" /\ old_sector'[t] = old_sector[t]
    BY <1>4, Zenon
  <2>2. block'[t] = block[t]
    BY <2>1, Zenon DEF Fills
  <2>3. /\ sector[block[t]] = last[old_sector[t]]
        /\ \A b \in InUse : sector_tag[b] # old_sector[t]
        /\ \A u \in Threads : pc[u] = "writeback" /\ old_sector[u] = old_sector[t] => u = t
    BY <2>1, Zenon DEF Coherent
  <2> QED BY <2>1, <2>2, <2>3, Zenon
<1>5. \A s \in Sectors :
       \/ disk[s] = last[s]
       \/ \E b \in InUse : sector_tag[b] = s
       \/ \E t \in Threads : pc'[t] = "writeback" /\ old_sector'[t] = s
  <2> TAKE s \in Sectors
  <2>1. \/ disk[s] = last[s]
        \/ \E b \in InUse : sector_tag[b] = s
        \/ \E t \in Threads : pc[t] = "writeback" /\ old_sector[t] = s
    BY Zenon DEF Coherent
  <2> QED BY <2>1, Zenon
<1> QED BY <1>2, <1>3, <1>4, <1>5, ZenonT(60) DEF Coherent

\* A new call moves nothing.
LEMMA CoherentCall ==
  ASSUME CacheInv, Coherent, NEW t \in Threads, NEW o, NEW s, NEW d, Call(t, o, s, d)
  PROVE  Coherent'
<1>0. TypeOK
  BY Zenon DEF CacheInv
<1>1. /\ InUse' = InUse /\ disk' = disk /\ sector' = sector /\ sector_tag' = sector_tag /\ dirty_bit' = dirty_bit
      /\ last' = last /\ block' = block /\ how' = how /\ old_sector' = old_sector
      /\ Goto(t, "lookup") /\ pc[t] = "idle" /\ want' = [want EXCEPT ![t] = s] /\ op' = [op EXCEPT ![t] = o]
  BY Zenon DEF Call, diskVars, lockVars, histVars, InUse
<1>2. pc'[t] = "lookup" /\ \A u \in Threads \ {t} : pc'[u] = pc[u] /\ want'[u] = want[u] /\ op'[u] = op[u]
  BY <1>0, <1>1, Zenon DEF Goto, TypeOK
<1>3. ~Fills(t) /\ ~Fills(t)'
  BY <1>1, <1>2, Zenon DEF Fills
<1>4. \A u \in Threads : Fills(u)' <=> Fills(u)
  BY <1>1, <1>2, <1>3, Zenon DEF Fills
<1>5. \A u \in Threads : (pc'[u] = "writeback" <=> pc[u] = "writeback") /\ (pc'[u] = "lock" => pc[u] = "lock" /\ u # t)
  BY <1>1, <1>2, Zenon
<1>6. \A u, v \in Threads : pc[u] = "lock" /\ pc[v] = "writeback" => want[u] # old_sector[v]
  BY Zenon DEF Coherent
<1>7. \A u, v \in Threads : pc'[u] = "lock" /\ pc[v] = "writeback" => want'[u] # old_sector[v]
  BY <1>2, <1>5, <1>6, ZenonT(60)
<1> QED BY <1>1, <1>4, <1>5, <1>7, CoherentFrame, Zenon

\* A search that does not race an eviction: a fresh block is filled from now on.
LEMMA CoherentLookup ==
  ASSUME CacheInv, Coherent, NEW t \in Threads, ~raced',
         LookupHit(t) \/ LookupFresh(t) \/ LookupEvict(t)
  PROVE  Coherent'
<1>0. TypeOK /\ HoldersWork /\ Listed /\ Working /\ InUse \subseteq CacheBlocks
  BY ListFacts, Zenon DEF CacheInv
<1>1. PICK b, branch : Looks(t, b, branch)
  BY <1>0, LookupDoes, Zenon
<1>2. /\ Found(t, b, branch) /\ LRU_lock = NoThread /\ pc[t] = "lookup"
      /\ block' = [block EXCEPT ![t] = b] /\ how' = [how EXCEPT ![t] = branch]
  BY <1>1, Zenon DEF Looks
<1>3. /\ disk' = disk /\ sector' = sector /\ last' = last /\ want' = want /\ op' = op
      /\ old_sector' = old_sector /\ block_lock' = block_lock /\ Goto(t, "lock")
      /\ \A v \in Threads : pc[v] = "writeback" => want[t] # old_sector[v]
  BY <1>2, Zenon DEF Found
<1>4. pc'[t] = "lock" /\ how'[t] = branch /\ block'[t] = b
  BY <1>0, <1>2, <1>3, Zenon DEF Goto, TypeOK
<1>5. \A u \in Threads \ {t} :
           /\ pc'[u] = pc[u] /\ block'[u] = block[u] /\ how'[u] = how[u] /\ op'[u] = op[u]
           /\ want'[u] = want[u] /\ old_sector'[u] = old_sector[u] /\ (Fills(u)' <=> Fills(u))
  BY <1>0, OthersStay, Zenon DEF Step
<1>6. ~Fills(t) /\ (Fills(t)' <=> branch = "fresh")
  BY <1>2, <1>4, Zenon DEF Fills
<1>7. \A u \in Threads : (pc'[u] = "writeback" <=> pc[u] = "writeback") /\ (pc[u] = "writeback" => u # t)
  BY <1>2, <1>4, <1>5, Zenon
<1>8. \A u \in Threads : pc[u] # "lock"
  BY <1>0, <1>2, CacheAssumption, Zenon DEF HoldersWork, Procs, WithLRU
<1>9. \A u, v \in Threads : pc'[u] = "lock" /\ pc[v] = "writeback" => want'[u] # old_sector[v]
  BY <1>3, <1>5, <1>8, Zenon
<1>10. CASE branch # "fresh"
  <2>1. InUse' = InUse /\ sector_tag' = sector_tag /\ dirty_bit' = dirty_bit
    BY <1>1, <1>10, Zenon DEF Looks
  <2>2. \A u \in Threads : (Fills(u)' <=> Fills(u)) /\ (Fills(u) => block'[u] = block[u])
    BY <1>5, <1>6, <1>10, Zenon
  <2> QED BY <1>3, <1>7, <1>9, <2>1, <2>2, CoherentFrame, Zenon
<1>11. CASE branch = "fresh"
  <2>1. /\ b \notin InUse /\ b \in CacheBlocks /\ InUse' = InUse \cup {b}
        /\ sector_tag' = [sector_tag EXCEPT ![b] = want[t]]
        /\ dirty_bit' = [dirty_bit EXCEPT ![b] = (op[t] = "write")]
        /\ \A c \in InUse : sector_tag[c] # want[t]
    BY <1>1, <1>11, Zenon DEF Looks
  <2>2. /\ sector_tag'[b] = want[t]
        /\ \A c \in InUse : c # b /\ sector_tag'[c] = sector_tag[c] /\ dirty_bit'[c] = dirty_bit[c]
    BY <1>0, <2>1, Zenon DEF TypeOK
  <2>3. Filling(b)'
    BY <1>4, <1>6, <1>11, Zenon DEF Filling
  <2>4. \A c \in InUse : Filling(c)' <=> Filling(c)
    BY <1>4, <1>5, <1>6, <2>1, Zenon DEF Filling
  <2>5. disk[want[t]] = last[want[t]]
    <3>1. want[t] \in Sectors
      BY <1>0, Zenon DEF TypeOK
    <3> QED BY <1>3, <2>1, <3>1, ZenonT(60) DEF Coherent
  <2>6. \A c \in InUse' : ~Filling(c)' => sector'[c] = last'[sector_tag'[c]]
    <3>1. \A c \in InUse : ~Filling(c) => sector[c] = last[sector_tag[c]]
      BY Zenon DEF Coherent
    <3> QED BY <1>3, <2>1, <2>2, <2>3, <2>4, <3>1, Zenon
  <2>7. \A c \in InUse' : Filling(c)' \/ ~dirty_bit'[c] => disk'[sector_tag'[c]] = last'[sector_tag'[c]]
    <3>1. \A c \in InUse : Filling(c) \/ ~dirty_bit[c] => disk[sector_tag[c]] = last[sector_tag[c]]
      BY Zenon DEF Coherent
    <3> QED BY <1>3, <2>1, <2>2, <2>4, <2>5, <3>1, ZenonT(60)
  <2>8. ASSUME NEW v \in Threads, pc'[v] = "writeback"
        PROVE  /\ sector'[block'[v]] = last'[old_sector'[v]]
               /\ \A c \in InUse' : sector_tag'[c] # old_sector'[v]
               /\ \A u \in Threads : pc'[u] = "writeback" /\ old_sector'[u] = old_sector'[v] => u = v
               /\ \A u \in Threads : pc'[u] = "lock" => want'[u] # old_sector'[v]
    <3>1. pc[v] = "writeback" /\ block'[v] = block[v]
      BY <1>5, <1>7, <2>8, Zenon
    <3>2. /\ sector[block[v]] = last[old_sector[v]]
          /\ \A c \in InUse : sector_tag[c] # old_sector[v]
          /\ \A u \in Threads : pc[u] = "writeback" /\ old_sector[u] = old_sector[v] => u = v
      BY <3>1, Zenon DEF Coherent
    <3>3. \A c \in InUse' : sector_tag'[c] # old_sector[v]
      <4> TAKE c \in InUse'
      <4>1. CASE c \in InUse
        BY <2>2, <3>2, <4>1, Zenon
      <4>2. CASE c = b
        BY <1>3, <2>2, <3>1, <4>2, Zenon
      <4> QED BY <2>1, <4>1, <4>2, Zenon
    <3>4. \A u \in Threads : pc'[u] = "writeback" /\ old_sector'[u] = old_sector'[v] => u = v
      BY <1>3, <1>7, <3>2, Zenon
    <3> QED BY <1>3, <1>9, <3>1, <3>2, <3>3, <3>4, Zenon
  <2>9. ASSUME NEW s \in Sectors
        PROVE  \/ disk'[s] = last'[s]
               \/ \E c \in InUse' : sector_tag'[c] = s
               \/ \E v \in Threads : pc'[v] = "writeback" /\ old_sector'[v] = s
    <3>1. \/ disk[s] = last[s]
          \/ \E c \in InUse : sector_tag[c] = s
          \/ \E v \in Threads : pc[v] = "writeback" /\ old_sector[v] = s
      BY Zenon DEF Coherent
    <3>2. CASE \E c \in InUse : sector_tag[c] = s
      BY <2>1, <2>2, <3>2, Zenon
    <3>3. CASE \E v \in Threads : pc[v] = "writeback" /\ old_sector[v] = s
      BY <1>3, <1>7, <3>3, Zenon
    <3> QED BY <1>3, <3>1, <3>2, <3>3, Zenon
  <2> QED BY <2>6, <2>7, <2>8, <2>9, Zenon DEF Coherent
<1> QED BY <1>10, <1>11, Zenon

\* The block is filled from now on, or stays as it is.
LEMMA CoherentLock ==
  ASSUME CacheInv, Coherent, NEW t \in Threads, LockBlock(t)
  PROVE  Coherent'
<1> DEFINE b == block[t]
<1>0. TypeOK /\ HoldersWork /\ Listed /\ Working /\ InUse \subseteq CacheBlocks /\ WorksOn(t)
  BY ListFacts, Zenon DEF CacheInv, Working
<1>1. /\ pc[t] = "lock" /\ block_lock[b] = NoThread /\ disk' = disk /\ sector' = sector /\ dirty_bit' = dirty_bit
      /\ op' = op /\ want' = want /\ block' = block /\ how' = how /\ last' = last /\ InUse' = InUse
  BY Zenon DEF LockBlock, InUse, histVars
<1>2. b \in InUse /\ b \in CacheBlocks /\ t \in Procs
  BY <1>0, <1>1, Zenon DEF WorksOn, Procs
<1>3. \A u \in Threads : pc[u] = "lock" => u = t
  <2>1. LRU_lock = t
    BY <1>0, <1>1, <1>2, Zenon DEF HoldersWork, WithLRU
  <2> QED BY <1>0, <2>1, Zenon DEF HoldersWork, WithLRU, Procs
<1>4. \A u \in Threads \ {t} :
           /\ pc'[u] = pc[u] /\ block'[u] = block[u] /\ how'[u] = how[u] /\ op'[u] = op[u]
           /\ want'[u] = want[u] /\ old_sector'[u] = old_sector[u] /\ (Fills(u)' <=> Fills(u))
  BY <1>0, OthersStay, Zenon DEF Step
<1>5. pc'[t] # "lock" /\ pc'[t] = CASE how[t] = "hit" -> "copy"
                                     [] how[t] = "evict" /\ dirty_bit[b] -> "writeback"
                                     [] OTHER -> Transfer(t)
  <2>1. pc'[t] = CASE how[t] = "hit" -> "copy"
                   [] how[t] = "evict" /\ dirty_bit[b] -> "writeback"
                   [] OTHER -> Transfer(t)
    BY <1>0, Zenon DEF LockBlock, Goto, TypeOK
  <2> QED BY <2>1, Zenon DEF Transfer
<1>6. \A u \in Threads : pc'[u] # "lock"
  BY <1>3, <1>4, <1>5, Zenon
<1>o. op[t] \in {"read", "write"} /\ how[t] \in {"hit", "fresh", "evict"}
  BY <1>0, Zenon DEF TypeOK
<1>7. CASE how[t] # "evict"
  <2>1. sector_tag' = sector_tag /\ old_sector' = old_sector
    BY <1>7, Zenon DEF LockBlock
  <2>2. pc'[t] # "writeback" /\ (Fills(t)' <=> Fills(t))
    <3>1. CASE how[t] = "hit"
      <4>1. pc'[t] = "copy"
        BY <1>5, <3>1, Zenon
      <4> QED BY <1>1, <3>1, <4>1, Zenon DEF Fills
    <3>2. CASE how[t] = "fresh"
      <4>1. pc'[t] = IF op[t] = "read" THEN "fetch" ELSE "copy"
        BY <1>5, <3>2, Zenon DEF Transfer
      <4> QED BY <1>1, <1>o, <3>2, <4>1, Zenon DEF Fills
    <3> QED BY <1>7, <1>o, <3>1, <3>2, Zenon
  <2>3. \A u \in Threads : (Fills(u)' <=> Fills(u)) /\ (pc'[u] = "writeback" <=> pc[u] = "writeback")
    BY <1>1, <1>4, <2>2, Zenon
  <2> QED BY <1>1, <1>6, <2>1, <2>3, CoherentFrame, Zenon
<1>8. CASE how[t] = "evict"
  <2>1. sector_tag' = [sector_tag EXCEPT ![b] = want[t]] /\ old_sector' = [old_sector EXCEPT ![t] = sector_tag[b]]
    BY <1>8, Zenon DEF LockBlock
  <2>2. /\ sector_tag'[b] = want[t] /\ old_sector'[t] = sector_tag[b]
        /\ \A c \in InUse \ {b} : sector_tag'[c] = sector_tag[c]
    BY <1>0, <1>2, <2>1, Zenon DEF TypeOK
  <2>3. /\ ~Fills(t) /\ Fills(t)' /\ (pc'[t] = "writeback" <=> dirty_bit[b])
    <3>1. dirty_bit[b] => pc'[t] = "writeback"
      BY <1>5, <1>8, Zenon
    <3>2. ~dirty_bit[b] => pc'[t] = IF op[t] = "read" THEN "fetch" ELSE "copy"
      BY <1>5, <1>8, Zenon DEF Transfer
    <3> QED BY <1>1, <1>8, <1>o, <3>1, <3>2, Zenon DEF Fills
  <2>4. ~Filling(b)
    <3> SUFFICES ASSUME NEW u \in Threads, Fills(u), block[u] = b PROVE FALSE
      BY Zenon DEF Filling
    <3>1. block_lock[b] = u \/ pc[u] = "lock"
      BY <1>0, FillerOwns, Zenon
    <3>2. u # NoThread
      BY CacheAssumption, Zenon
    <3> QED BY <1>1, <1>3, <2>3, <3>1, <3>2, Zenon
  <2>5. Filling(b)' /\ \A c \in InUse \ {b} : Filling(c)' <=> Filling(c)
    <3>1. Filling(b)'
      BY <1>1, <2>3, Zenon DEF Filling
    <3>2. \A c \in InUse \ {b} : Filling(c)' <=> Filling(c)
      BY <1>1, <1>4, <2>3, Zenon DEF Filling
    <3> QED BY <3>1, <3>2, Zenon
  <2>6. \A c \in InUse : sector_tag[c] # want[t]
    BY <1>0, <1>1, <1>8, Zenon DEF WorksOn
  <2>7. \A v \in Threads : pc[v] = "writeback" => want[t] # old_sector[v] /\ sector_tag[b] # old_sector[v] /\ v # t
    BY <1>1, <1>2, Zenon DEF Coherent
  <2>8. disk[want[t]] = last[want[t]]
    <3>1. want[t] \in Sectors
      BY <1>0, Zenon DEF TypeOK
    <3> QED BY <2>6, <2>7, <3>1, ZenonT(60) DEF Coherent
  <2>9. sector[b] = last[sector_tag[b]] /\ (~dirty_bit[b] => disk[sector_tag[b]] = last[sector_tag[b]])
    BY <1>2, <2>4, Zenon DEF Coherent
  <2>10. \A c \in InUse' : ~Filling(c)' => sector'[c] = last'[sector_tag'[c]]
    <3>1. \A c \in InUse : ~Filling(c) => sector[c] = last[sector_tag[c]]
      BY Zenon DEF Coherent
    <3> QED BY <1>1, <2>2, <2>5, <3>1, Zenon
  <2>11. \A c \in InUse' : Filling(c)' \/ ~dirty_bit'[c] => disk'[sector_tag'[c]] = last'[sector_tag'[c]]
    <3>1. \A c \in InUse : Filling(c) \/ ~dirty_bit[c] => disk[sector_tag[c]] = last[sector_tag[c]]
      BY Zenon DEF Coherent
    <3> TAKE c \in InUse'
    <3>2. CASE c = b
      BY <1>1, <2>2, <2>8, <3>2, Zenon
    <3>3. CASE c # b
      BY <1>1, <2>2, <2>5, <3>1, <3>3, Zenon
    <3> QED BY <3>2, <3>3, Zenon
  <2>u. \A c \in InUse \ {b} : sector_tag[c] # sector_tag[b]
    BY <1>0, <1>2, Zenon DEF Listed
  <2>12. ASSUME NEW v \in Threads, pc'[v] = "writeback"
         PROVE  /\ sector'[block'[v]] = last'[old_sector'[v]]
                /\ \A c \in InUse' : sector_tag'[c] # old_sector'[v]
                /\ \A u \in Threads : pc'[u] = "writeback" /\ old_sector'[u] = old_sector'[v] => u = v
                /\ \A u \in Threads : pc'[u] = "lock" => want'[u] # old_sector'[v]
    <3>0. \A u \in Threads : pc'[u] = "writeback" /\ u # t => pc[u] = "writeback" /\ old_sector'[u] = old_sector[u]
      BY <1>4, Zenon
    <3>1. CASE v = t
      <4>1. \A c \in InUse' : sector_tag'[c] # old_sector'[t]
        BY <1>1, <1>2, <2>2, <2>6, <2>u, Zenon
      <4>2. \A u \in Threads : pc'[u] = "writeback" /\ old_sector'[u] = old_sector'[t] => u = t
        BY <2>2, <2>7, <3>0, Zenon
      <4>3. sector'[block'[t]] = last'[old_sector'[t]]
        BY <1>1, <2>2, <2>9, Zenon
      <4> QED BY <1>6, <3>1, <4>1, <4>2, <4>3, Zenon
    <3>2. CASE v # t
      <4>1. pc[v] = "writeback" /\ block'[v] = block[v] /\ old_sector'[v] = old_sector[v]
        BY <1>1, <1>4, <2>12, <3>2, Zenon
      <4>2. /\ sector[block[v]] = last[old_sector[v]]
            /\ \A c \in InUse : sector_tag[c] # old_sector[v]
            /\ \A u \in Threads : pc[u] = "writeback" /\ old_sector[u] = old_sector[v] => u = v
        BY <4>1, Zenon DEF Coherent
      <4>3. \A c \in InUse' : sector_tag'[c] # old_sector[v]
        BY <1>1, <2>2, <2>7, <4>1, <4>2, Zenon
      <4>4. \A u \in Threads : pc'[u] = "writeback" /\ old_sector'[u] = old_sector[v] => u = v
        BY <2>2, <2>7, <3>0, <4>1, <4>2, ZenonT(60)
      <4> QED BY <1>1, <1>6, <4>1, <4>2, <4>3, <4>4, Zenon
    <3> QED BY <3>1, <3>2, Zenon
  <2>13. ASSUME NEW s \in Sectors
         PROVE  \/ disk'[s] = last'[s]
                \/ \E c \in InUse' : sector_tag'[c] = s
                \/ \E v \in Threads : pc'[v] = "writeback" /\ old_sector'[v] = s
    <3>1. \/ disk[s] = last[s]
          \/ \E c \in InUse : sector_tag[c] = s
          \/ \E v \in Threads : pc[v] = "writeback" /\ old_sector[v] = s
      BY Zenon DEF Coherent
    <3>2. CASE \E c \in InUse : sector_tag[c] = s
      <4>1. PICK c \in InUse : sector_tag[c] = s
        BY <3>2, Zenon
      <4>2. CASE c = b /\ dirty_bit[b]
        BY <2>2, <2>3, <4>1, <4>2, Zenon
      <4>3. CASE c = b /\ ~dirty_bit[b]
        BY <1>1, <2>9, <4>1, <4>3, Zenon
      <4>4. CASE c # b
        BY <1>1, <2>2, <4>1, <4>4, Zenon
      <4> QED BY <4>2, <4>3, <4>4, Zenon
    <3>3. CASE \E v \in Threads : pc[v] = "writeback" /\ old_sector[v] = s
      <4>1. PICK v \in Threads : pc[v] = "writeback" /\ old_sector[v] = s
        BY <3>3, Zenon
      <4>2. pc'[v] = "writeback" /\ old_sector'[v] = s
        BY <1>4, <2>7, <4>1, Zenon
      <4> QED BY <4>2, Zenon
    <3> QED BY <1>1, <3>1, <3>2, <3>3, Zenon
  <2> QED BY <2>10, <2>11, <2>12, <2>13, Zenon DEF Coherent
<1> QED BY <1>7, <1>8, Zenon

\* The evicted contents reach the disk.
LEMMA CoherentWriteBack ==
  ASSUME CacheInv, Coherent, NEW t \in Threads, WriteBack(t)
  PROVE  Coherent'
<1> DEFINE b == block[t]
           o == old_sector[t]
<1>0. TypeOK /\ Listed /\ Working /\ InUse \subseteq CacheBlocks /\ WorksOn(t)
  BY ListFacts, Zenon DEF CacheInv, Working
<1>1. /\ pc[t] = "writeback" /\ disk' = [disk EXCEPT ![o] = sector[b]] /\ sector_tag' = sector_tag /\ sector' = sector
      /\ dirty_bit' = [dirty_bit EXCEPT ![b] = @ /\ op[t] = "write"] /\ InUse' = InUse /\ op' = op /\ want' = want
      /\ block' = block /\ how' = how /\ old_sector' = old_sector /\ last' = last
  BY Zenon DEF WriteBack, InUse, lockVars, callVars, histVars
<1>2. /\ sector[b] = last[o] /\ (\A c \in InUse : sector_tag[c] # o)
      /\ \A u \in Threads : pc[u] = "writeback" /\ old_sector[u] = o => u = t
  BY <1>1, Zenon DEF Coherent
<1>3. \A u \in Threads \ {t} : pc'[u] = pc[u] /\ (Fills(u)' <=> Fills(u))
  BY <1>0, OthersStay, Zenon DEF Step
<1>4. /\ pc'[t] = IF op[t] = "read" THEN "fetch" ELSE "copy"
      /\ op[t] \in {"read", "write"} /\ how[t] = "evict"
  BY <1>0, <1>1, Zenon DEF WriteBack, Goto, Transfer, TypeOK, WorksOn
<1>5. Fills(t) /\ Fills(t)' /\ pc'[t] # "writeback" /\ pc'[t] # "lock"
  BY <1>1, <1>4, Zenon DEF Fills
<1>6. \A c : Filling(c)' <=> Filling(c)
  BY <1>1, <1>3, <1>5, Zenon DEF Filling
<1>7. /\ disk'[o] = last[o] /\ \A s \in Sectors : s # o => disk'[s] = disk[s]
  BY <1>0, <1>1, <1>2, Zenon DEF TypeOK
<1>8. Filling(b) /\ \A c \in InUse \ {b} : dirty_bit'[c] = dirty_bit[c]
  BY <1>0, <1>1, <1>5, Zenon DEF TypeOK, Filling
<1>9. \A c \in InUse' : ~Filling(c)' => sector'[c] = last'[sector_tag'[c]]
  BY <1>1, <1>6, Zenon DEF Coherent
<1>10. ASSUME NEW c \in InUse, Filling(c)' \/ ~dirty_bit'[c] PROVE disk'[sector_tag[c]] = last[sector_tag[c]]
  <2>1. Filling(c) \/ ~dirty_bit[c]
    BY <1>6, <1>8, <1>10, Zenon
  <2>2. disk[sector_tag[c]] = last[sector_tag[c]]
    BY <2>1, Zenon DEF Coherent
  <2>3. sector_tag[c] \in Sectors /\ sector_tag[c] # o
    BY <1>0, <1>2, Zenon DEF TypeOK
  <2> QED BY <1>7, <2>2, <2>3, Zenon
<1>11. ASSUME NEW v \in Threads, pc'[v] = "writeback"
       PROVE  /\ sector'[block'[v]] = last'[old_sector'[v]]
              /\ \A c \in InUse' : sector_tag'[c] # old_sector'[v]
              /\ \A u \in Threads : pc'[u] = "writeback" /\ old_sector'[u] = old_sector'[v] => u = v
              /\ \A u \in Threads : pc'[u] = "lock" => want'[u] # old_sector'[v]
  <2>1. pc[v] = "writeback" /\ \A u \in Threads : (pc'[u] = "writeback" => pc[u] = "writeback") /\ (pc'[u] = "lock" => pc[u] = "lock")
    BY <1>3, <1>5, <1>11, Zenon
  <2>2. /\ sector[block[v]] = last[old_sector[v]]
        /\ \A c \in InUse : sector_tag[c] # old_sector[v]
        /\ \A u \in Threads : pc[u] = "writeback" /\ old_sector[u] = old_sector[v] => u = v
        /\ \A u \in Threads : pc[u] = "lock" => want[u] # old_sector[v]
    BY <2>1, Zenon DEF Coherent
  <2> QED BY <1>1, <2>1, <2>2, Zenon
<1>12. ASSUME NEW s \in Sectors
       PROVE  \/ disk'[s] = last'[s]
              \/ \E c \in InUse' : sector_tag'[c] = s
              \/ \E v \in Threads : pc'[v] = "writeback" /\ old_sector'[v] = s
  <2>1. \/ disk[s] = last[s]
        \/ \E c \in InUse : sector_tag[c] = s
        \/ \E v \in Threads : pc[v] = "writeback" /\ old_sector[v] = s
    BY Zenon DEF Coherent
  <2>2. CASE s = o
    BY <1>1, <1>7, <2>2, Zenon
  <2>3. CASE s # o
    BY <1>1, <1>3, <1>7, <2>1, <2>3, Zenon
  <2> QED BY <2>2, <2>3, Zenon
<1>13. \A c \in InUse' : Filling(c)' \/ ~dirty_bit'[c] => disk'[sector_tag'[c]] = last'[sector_tag'[c]]
  BY <1>1, <1>10, Zenon
<1> QED BY <1>9, <1>11, <1>12, <1>13, Zenon DEF Coherent

\* Steps after which t no longer fills its block, which nobody else does.
LEMMA FilledStep ==
  ASSUME TypeOK, Working, NEW t \in Threads, Fetch(t) \/ CopyIn(t), NEW b, b = block[t]
  PROVE  /\ ~Filling(b)' /\ \A c : c # b => (Filling(c)' <=> Filling(c))
         /\ block_lock[b] = t /\ sector_tag[b] = want[t] /\ b \in InUse
         /\ pc'[t] # "writeback" /\ pc'[t] # "lock" /\ pc[t] # "writeback"
<1>1. \A u \in Threads \ {t} : block'[u] = block[u] /\ (Fills(u)' <=> Fills(u))
  BY OthersStay, Zenon DEF Step
<1>2. pc[t] \in Locked /\ pc[t] # "writeback" /\ WorksOn(t) /\ t \in Procs
  BY Zenon DEF Fetch, CopyIn, Locked, Working, Procs
<1>3. block_lock[b] = t /\ sector_tag[b] = want[t] /\ b \in InUse
  BY <1>2, Zenon DEF WorksOn, Locked
<1>4. ~Fills(t)' /\ pc'[t] # "writeback" /\ pc'[t] # "lock"
  <2>1. CASE Fetch(t)
    <3>1. pc'[t] = "copy" /\ op'[t] = op[t]
      BY <2>1, Zenon DEF Fetch, Goto, TypeOK, callVars
    <3>2. op[t] = "read"
      BY <1>2, <2>1, Zenon DEF Fetch, WorksOn
    <3> QED BY <3>1, <3>2, Zenon DEF Fills
  <2>2. CASE CopyIn(t)
    <3>1. pc'[t] = "idle"
      BY <2>2, Zenon DEF CopyIn, Return, Goto, TypeOK
    <3> QED BY <3>1, Zenon DEF Fills
  <2> QED BY <2>1, <2>2, Zenon
<1>5. \A u \in Threads : Fills(u) /\ block[u] = b => u = t
  BY <1>2, <1>3, LockedAlone, Zenon
<1>6. ~Filling(b)'
  BY <1>1, <1>4, <1>5, Zenon DEF Filling
<1>7. ASSUME NEW c, c # b PROVE Filling(c)' <=> Filling(c)
  BY <1>1, <1>4, <1>7, Zenon DEF Filling
<1> QED BY <1>2, <1>3, <1>4, <1>6, <1>7, Zenon

\* The block gets what the disk holds of its new sector.
LEMMA CoherentFetch ==
  ASSUME CacheInv, Coherent, NEW t \in Threads, Fetch(t)
  PROVE  Coherent'
<1> PICK b : b = block[t]
  OBVIOUS
<1>0. TypeOK /\ Listed /\ Working /\ InUse \subseteq CacheBlocks
  BY ListFacts, Zenon DEF CacheInv
<1>1. /\ disk' = disk /\ sector_tag' = sector_tag /\ sector' = [sector EXCEPT ![b] = disk[want[t]]]
      /\ dirty_bit' = dirty_bit /\ InUse' = InUse /\ want' = want
      /\ block' = block /\ old_sector' = old_sector /\ last' = last /\ pc[t] = "fetch"
  BY Zenon DEF Fetch, InUse, lockVars, callVars, histVars
<1>2. /\ ~Filling(b)' /\ \A c : c # b => (Filling(c)' <=> Filling(c))
      /\ block_lock[b] = t /\ sector_tag[b] = want[t] /\ b \in InUse
      /\ pc'[t] # "writeback" /\ pc'[t] # "lock"
  BY <1>0, FilledStep, Zenon
<1>3. \A u \in Threads \ {t} : pc'[u] = pc[u]
  BY <1>0, OthersStay, Zenon DEF Step
<1>4. disk[want[t]] = last[want[t]]
  <2>1. Filling(b)
    BY <1>1, Zenon DEF Filling, Fills
  <2> QED BY <1>2, <2>1, ZenonT(60) DEF Coherent
<1>5. sector'[b] = last[want[t]] /\ \A c \in InUse \ {b} : sector'[c] = sector[c]
  BY <1>0, <1>1, <1>2, <1>4, Zenon DEF TypeOK
<1>6. \A c \in InUse' : ~Filling(c)' => sector'[c] = last'[sector_tag'[c]]
  <2>1. \A c \in InUse : ~Filling(c) => sector[c] = last[sector_tag[c]]
    BY Zenon DEF Coherent
  <2> QED BY <1>1, <1>2, <1>5, <2>1, Zenon
<1>7. \A c \in InUse' : Filling(c)' \/ ~dirty_bit'[c] => disk'[sector_tag'[c]] = last'[sector_tag'[c]]
  <2>1. \A c \in InUse : Filling(c) \/ ~dirty_bit[c] => disk[sector_tag[c]] = last[sector_tag[c]]
    BY Zenon DEF Coherent
  <2> QED BY <1>1, <1>2, <1>4, <2>1, Zenon
<1>8. ASSUME NEW v \in Threads, pc'[v] = "writeback"
      PROVE  /\ sector'[block'[v]] = last'[old_sector'[v]]
             /\ \A c \in InUse' : sector_tag'[c] # old_sector'[v]
             /\ \A u \in Threads : pc'[u] = "writeback" /\ old_sector'[u] = old_sector'[v] => u = v
             /\ \A u \in Threads : pc'[u] = "lock" => want'[u] # old_sector'[v]
  <2>1. /\ pc[v] = "writeback" /\ v # t
        /\ \A u \in Threads : (pc'[u] = "writeback" => pc[u] = "writeback") /\ (pc'[u] = "lock" => pc[u] = "lock")
    BY <1>2, <1>3, <1>8, Zenon
  <2>2. /\ sector[block[v]] = last[old_sector[v]]
        /\ \A c \in InUse : sector_tag[c] # old_sector[v]
        /\ \A u \in Threads : pc[u] = "writeback" /\ old_sector[u] = old_sector[v] => u = v
        /\ \A u \in Threads : pc[u] = "lock" => want[u] # old_sector[v]
    BY <2>1, Zenon DEF Coherent
  <2>3. block[v] \in InUse /\ block[v] # b
    <3>1. WorksOn(v)
      BY <1>0, Zenon DEF Working
    <3>2. block[v] \in InUse /\ block_lock[block[v]] = v
      BY <2>1, <3>1, Zenon DEF WorksOn
    <3> QED BY <1>2, <2>1, <3>2, Zenon
  <2>4. sector'[block[v]] = sector[block[v]]
    BY <1>5, <2>3, Zenon
  <2> QED BY <1>1, <2>1, <2>2, <2>4, Zenon
<1>9. ASSUME NEW s \in Sectors
      PROVE  \/ disk'[s] = last'[s]
             \/ \E c \in InUse' : sector_tag'[c] = s
             \/ \E v \in Threads : pc'[v] = "writeback" /\ old_sector'[v] = s
  <2>1. \/ disk[s] = last[s]
        \/ \E c \in InUse : sector_tag[c] = s
        \/ \E v \in Threads : pc[v] = "writeback" /\ old_sector[v] = s
    BY Zenon DEF Coherent
  <2>2. \A v \in Threads : pc[v] = "writeback" => pc'[v] = "writeback"
    BY <1>1, <1>3, Zenon
  <2> QED BY <1>1, <2>1, <2>2, Zenon
<1> QED BY <1>6, <1>7, <1>8, <1>9, Zenon DEF Coherent

\* A read changes nothing.
LEMMA CoherentCopyOut ==
  ASSUME CacheInv, Coherent, NEW t \in Threads, CopyOut(t)
  PROVE  Coherent'
<1>0. TypeOK
  BY Zenon DEF CacheInv
<1>1. /\ InUse' = InUse /\ disk' = disk /\ sector' = sector /\ sector_tag' = sector_tag /\ dirty_bit' = dirty_bit
      /\ last' = last /\ pc[t] = "copy" /\ op[t] = "read" /\ Return(t)
  BY Zenon DEF CopyOut, diskVars, histVars, InUse
<1>2. pc'[t] = "idle"
  BY <1>0, <1>1, Zenon DEF Return, Goto, TypeOK
<1>3. \A u \in Threads \ {t} :
           /\ pc'[u] = pc[u] /\ block'[u] = block[u] /\ want'[u] = want[u] /\ old_sector'[u] = old_sector[u]
           /\ (Fills(u)' <=> Fills(u))
  BY <1>0, OthersStay, Zenon DEF Step
<1>4. ~Fills(t) /\ ~Fills(t)'
  BY <1>1, <1>2, Zenon DEF Fills
<1>5. \A u, v \in Threads : pc[u] = "lock" /\ pc[v] = "writeback" => want[u] # old_sector[v]
  BY Zenon DEF Coherent
<1>6. \A u, v \in Threads : pc'[u] = "lock" /\ pc[v] = "writeback" => want'[u] # old_sector[v]
  BY <1>2, <1>3, <1>5, ZenonT(60)
<1>7. \A u \in Threads : (Fills(u)' <=> Fills(u)) /\ (Fills(u) => block'[u] = block[u])
  BY <1>3, <1>4, Zenon
<1>8. \A u \in Threads : (pc'[u] = "writeback" <=> pc[u] = "writeback") /\ (pc[u] = "writeback" => old_sector'[u] = old_sector[u])
  BY <1>1, <1>2, <1>3, Zenon
<1> QED BY <1>1, <1>6, <1>7, <1>8, CoherentFrame, Zenon

\* A write changes one block and one sector's last contents.
LEMMA CoherentCopyIn ==
  ASSUME CacheInv, Coherent, NEW t \in Threads, CopyIn(t)
  PROVE  Coherent'
<1> PICK b : b = block[t]
  OBVIOUS
<1> PICK w : w = want[t]
  OBVIOUS
<1>0. TypeOK /\ Listed /\ Working /\ InUse \subseteq CacheBlocks
  BY ListFacts, Zenon DEF CacheInv
<1>1. /\ disk' = disk /\ sector_tag' = sector_tag /\ sector' = [sector EXCEPT ![b] = buffer[t]]
      /\ dirty_bit' = [dirty_bit EXCEPT ![b] = TRUE] /\ InUse' = InUse
      /\ last' = [last EXCEPT ![w] = buffer[t]] /\ pc[t] = "copy"
  BY Zenon DEF CopyIn, InUse
<1>2. /\ ~Filling(b)' /\ \A c : c # b => (Filling(c)' <=> Filling(c))
      /\ block_lock[b] = t /\ sector_tag[b] = w /\ b \in InUse
      /\ pc'[t] # "writeback" /\ pc'[t] # "lock"
  BY <1>0, FilledStep, Zenon
<1>3. \A u \in Threads \ {t} :
           pc'[u] = pc[u] /\ block'[u] = block[u] /\ want'[u] = want[u] /\ old_sector'[u] = old_sector[u]
  BY <1>0, OthersStay, Zenon DEF Step
<1>4. w \in Sectors /\ last'[w] = buffer[t] /\ \A s \in Sectors : s # w => last'[s] = last[s]
  <2>1. w \in Sectors /\ last \in [Sectors -> Data]
    BY <1>0, Zenon DEF TypeOK
  <2> QED BY <1>1, <2>1, Zenon
<1>5. /\ sector'[b] = buffer[t] /\ dirty_bit'[b]
      /\ \A c \in InUse \ {b} : sector'[c] = sector[c] /\ dirty_bit'[c] = dirty_bit[c]
  BY <1>0, <1>1, <1>2, Zenon DEF TypeOK
<1>6. \A c \in InUse \ {b} : sector_tag[c] # w /\ sector_tag[c] \in Sectors
  <2>1. \A c, d \in InUse : sector_tag[c] = sector_tag[d] => c = d
    BY <1>0, Zenon DEF Listed
  <2>2. \A c \in InUse : sector_tag[c] \in Sectors
    BY <1>0, Zenon DEF TypeOK
  <2> QED BY <1>2, <2>1, <2>2, Zenon
<1>7. ASSUME NEW c \in InUse, ~Filling(c)' PROVE sector'[c] = last'[sector_tag[c]]
  <2>1. CASE c = b
    BY <1>2, <1>4, <1>5, <2>1, Zenon
  <2>2. CASE c # b
    <3>1. sector[c] = last[sector_tag[c]]
      BY <1>2, <1>7, <2>2, Zenon DEF Coherent
    <3> QED BY <1>4, <1>5, <1>6, <2>2, <3>1, Zenon
  <2> QED BY <2>1, <2>2, Zenon
<1>8. ASSUME NEW c \in InUse, Filling(c)' \/ ~dirty_bit'[c] PROVE disk'[sector_tag[c]] = last'[sector_tag[c]]
  <2>1. c # b
    BY <1>2, <1>5, <1>8, Zenon
  <2>2. disk[sector_tag[c]] = last[sector_tag[c]]
    BY <1>2, <1>5, <1>8, <2>1, Zenon DEF Coherent
  <2> QED BY <1>1, <1>4, <1>6, <2>1, <2>2, Zenon
<1>9. ASSUME NEW v \in Threads, pc'[v] = "writeback"
      PROVE  /\ sector'[block'[v]] = last'[old_sector'[v]]
             /\ \A c \in InUse' : sector_tag'[c] # old_sector'[v]
             /\ \A u \in Threads : pc'[u] = "writeback" /\ old_sector'[u] = old_sector'[v] => u = v
             /\ \A u \in Threads : pc'[u] = "lock" => want'[u] # old_sector'[v]
  <2>1. pc[v] = "writeback" /\ v # t /\ block'[v] = block[v] /\ old_sector'[v] = old_sector[v]
    BY <1>2, <1>3, <1>9, Zenon
  <2>0. \A u \in Threads : /\ pc'[u] = "writeback" => pc[u] = "writeback" /\ old_sector'[u] = old_sector[u]
                           /\ pc'[u] = "lock" => pc[u] = "lock" /\ want'[u] = want[u]
    BY <1>2, <1>3, Zenon
  <2>2. /\ sector[block[v]] = last[old_sector[v]]
        /\ \A c \in InUse : sector_tag[c] # old_sector[v]
        /\ \A u \in Threads : pc[u] = "writeback" /\ old_sector[u] = old_sector[v] => u = v
        /\ \A u \in Threads : pc[u] = "lock" => want[u] # old_sector[v]
    BY <2>1, Zenon DEF Coherent
  <2>3. block[v] \in InUse /\ block[v] # b
    <3>1. WorksOn(v)
      BY <1>0, Zenon DEF Working
    <3>2. block[v] \in InUse /\ block_lock[block[v]] = v
      BY <2>1, <3>1, Zenon DEF WorksOn
    <3> QED BY <1>2, <2>1, <3>2, Zenon
  <2>4. sector'[block[v]] = last'[old_sector[v]]
    <3>1. old_sector[v] \in Sectors /\ old_sector[v] # w
      BY <1>0, <1>2, <2>2, Zenon DEF TypeOK
    <3> QED BY <1>4, <1>5, <2>2, <2>3, <3>1, Zenon
  <2>5. \A u \in Threads : pc'[u] = "writeback" /\ old_sector'[u] = old_sector'[v] => u = v
    BY <2>0, <2>1, <2>2, Zenon
  <2>6. \A u \in Threads : pc'[u] = "lock" => want'[u] # old_sector'[v]
    BY <2>0, <2>1, <2>2, Zenon
  <2> QED BY <1>1, <2>1, <2>2, <2>4, <2>5, <2>6, Zenon
<1>10. ASSUME NEW s \in Sectors
       PROVE  \/ disk'[s] = last'[s]
              \/ \E c \in InUse' : sector_tag'[c] = s
              \/ \E v \in Threads : pc'[v] = "writeback" /\ old_sector'[v] = s
  <2>1. CASE s = w
    BY <1>1, <1>2, <2>1, Zenon
  <2>2. CASE s # w
    <3>1. \/ disk[s] = last[s]
          \/ \E c \in InUse : sector_tag[c] = s
          \/ \E v \in Threads : pc[v] = "writeback" /\ old_sector[v] = s
      BY Zenon DEF Coherent
    <3>2. \A v \in Threads : pc[v] = "writeback" => pc'[v] = "writeback" /\ old_sector'[v] = old_sector[v]
      BY <1>1, <1>3, Zenon
    <3>3. last'[s] = last[s]
      BY <1>4, <2>2, Zenon
    <3> QED BY <1>1, <3>1, <3>2, <3>3, Zenon
  <2> QED BY <2>1, <2>2, Zenon
<1>11. \A c \in InUse' : ~Filling(c)' => sector'[c] = last'[sector_tag'[c]]
  BY <1>1, <1>7, Zenon
<1>12. \A c \in InUse' : Filling(c)' \/ ~dirty_bit'[c] => disk'[sector_tag'[c]] = last'[sector_tag'[c]]
  BY <1>1, <1>8, Zenon
<1> QED BY <1>9, <1>10, <1>11, <1>12, Zenon DEF Coherent

\* The flush writes a block that nobody fills.
LEMMA CoherentFlush ==
  ASSUME CacheInv, Coherent, Flush
  PROVE  Coherent'
<1>0. TypeOK /\ Listed /\ Working /\ InUse \subseteq CacheBlocks /\ Flusher \in Procs /\ Flusher \notin Threads
  BY ListFacts, CacheAssumption, Zenon DEF CacheInv, Procs
<1>1. /\ sector_tag' = sector_tag /\ sector' = sector /\ op' = op /\ want' = want /\ how' = how
      /\ old_sector' = old_sector /\ last' = last /\ InUse' = InUse
  BY Zenon DEF Flush, FlushStart, FlushTest, FlushLock, FlushWrite, FlushEnd, diskVars, lockVars, callVars, histVars, InUse
<1>2. ASSUME NEW u \in Threads PROVE pc'[u] = pc[u] /\ block'[u] = block[u]
  <2>1. u # Flusher
    BY <1>0, Zenon
  <2> QED BY <1>0, <2>1, Zenon DEF Flush, FlushStart, FlushTest, FlushLock, FlushWrite, FlushEnd, callVars, Goto, TypeOK
<1>3. \A u \in Threads : Fills(u)' <=> Fills(u)
  BY <1>1, <1>2, Zenon DEF Fills
<1>4. \A u, v \in Threads : pc'[u] = "lock" /\ pc[v] = "writeback" => want'[u] # old_sector[v]
  <2>1. \A u, v \in Threads : pc[u] = "lock" /\ pc[v] = "writeback" => want[u] # old_sector[v]
    BY Zenon DEF Coherent
  <2> QED BY <1>1, <1>2, <2>1, Zenon
<1>5. CASE FlushStart \/ FlushTest \/ FlushLock \/ FlushEnd
  <2>1. disk' = disk /\ dirty_bit' = dirty_bit
    BY <1>5, Zenon DEF FlushStart, FlushTest, FlushLock, FlushEnd, diskVars
  <2> QED BY <1>1, <1>2, <1>3, <1>4, <2>1, CoherentFrame, Zenon
<1>6. CASE FlushWrite
  <2> PICK i : i = block[Flusher]
    OBVIOUS
  <2>1. /\ disk' = [disk EXCEPT ![sector_tag[i]] = sector[i]] /\ dirty_bit' = [dirty_bit EXCEPT ![i] = FALSE]
        /\ pc[Flusher] = "flush_write"
    BY <1>6, Zenon DEF FlushWrite
  <2>2. i \in InUse /\ block_lock[i] = Flusher
    BY <1>0, <2>1, Zenon DEF Working
  <2>3. ~Filling(i)
    BY <1>0, <2>2, LockedAlone, Zenon DEF Filling
  <2>4. \A c : Filling(c)' <=> Filling(c)
    BY <1>2, <1>3, Zenon DEF Filling
  <2>5. /\ disk'[sector_tag[i]] = last[sector_tag[i]] /\ sector_tag[i] \in Sectors
        /\ \A s \in Sectors : s # sector_tag[i] => disk'[s] = disk[s]
    <3>1. sector_tag[i] \in Sectors /\ disk \in [Sectors -> Data]
      BY <1>0, <2>2, Zenon DEF TypeOK
    <3>2. sector[i] = last[sector_tag[i]]
      BY <2>2, <2>3, Zenon DEF Coherent
    <3> QED BY <2>1, <3>1, <3>2, Zenon
  <2>6. \A c \in InUse \ {i} : dirty_bit'[c] = dirty_bit[c]
    BY <1>0, <2>1, Zenon DEF TypeOK
  <2>7. ASSUME NEW c \in InUse, Filling(c)' \/ ~dirty_bit'[c] PROVE disk'[sector_tag[c]] = last[sector_tag[c]]
    <3>1. CASE c = i
      BY <2>5, <3>1, Zenon
    <3>2. CASE c # i
      <4>1. disk[sector_tag[c]] = last[sector_tag[c]]
        BY <2>4, <2>6, <2>7, <3>2, Zenon DEF Coherent
      <4>2. sector_tag[c] \in Sectors
        BY <1>0, Zenon DEF TypeOK
      <4> QED BY <2>5, <4>1, <4>2, Zenon
    <3> QED BY <3>1, <3>2, Zenon
  <2>8. \A c \in InUse' : Filling(c)' \/ ~dirty_bit'[c] => disk'[sector_tag'[c]] = last'[sector_tag'[c]]
    BY <1>1, <2>7, Zenon
  <2>9. \A c \in InUse' : ~Filling(c)' => sector'[c] = last'[sector_tag'[c]]
    BY <1>1, <2>4, Zenon DEF Coherent
  <2>10. ASSUME NEW v \in Threads, pc'[v] = "writeback"
         PROVE  /\ sector'[block'[v]] = last'[old_sector'[v]]
                /\ \A c \in InUse' : sector_tag'[c] # old_sector'[v]
                /\ \A u \in Threads : pc'[u] = "writeback" /\ old_sector'[u] = old_sector'[v] => u = v
                /\ \A u \in Threads : pc'[u] = "lock" => want'[u] # old_sector'[v]
    <3>1. pc[v] = "writeback" /\ block'[v] = block[v]
      BY <1>2, <2>10, Zenon
    <3>2. /\ sector[block[v]] = last[old_sector[v]]
          /\ \A c \in InUse : sector_tag[c] # old_sector[v]
          /\ \A u \in Threads : pc[u] = "writeback" /\ old_sector[u] = old_sector[v] => u = v
      BY <3>1, Zenon DEF Coherent
    <3> QED BY <1>1, <1>2, <1>4, <3>1, <3>2, Zenon
  <2>11. ASSUME NEW s \in Sectors
         PROVE  \/ disk'[s] = last'[s]
                \/ \E c \in InUse' : sector_tag'[c] = s
                \/ \E v \in Threads : pc'[v] = "writeback" /\ old_sector'[v] = s
    <3>1. \/ disk[s] = last[s]
          \/ \E c \in InUse : sector_tag[c] = s
          \/ \E v \in Threads : pc[v] = "writeback" /\ old_sector[v] = s
      BY Zenon DEF Coherent
    <3> QED BY <1>1, <1>2, <2>5, <3>1, Zenon
  <2> QED BY <2>8, <2>9, <2>10, <2>11, Zenon DEF Coherent
<1> QED BY <1>5, <1>6, Zenon DEF Flush

\* At first nothing is cached and the disk is up to date.
LEMMA CoherentInit == Init => Coherent /\ Saving /\ OneCaller
<1> SUFFICES ASSUME Init PROVE Coherent /\ Saving /\ OneCaller
  BY Zenon
<1>1. InUse = {}
  BY DEF Init, InUse
<1>2. /\ \A t \in Threads : pc[t] = "idle"
      /\ pc[Flusher] = "idle" /\ last = disk /\ ~raced
  BY Zenon DEF Init
<1>3. Coherent
  BY <1>1, <1>2, Zenon DEF Coherent
<1>4. Saving
  BY <1>2, Zenon DEF Saving
<1>5. OneCaller
  BY <1>2, Zenon DEF OneCaller, Callers
<1> QED BY <1>3, <1>4, <1>5, Zenon

\* What has raced has raced.
LEMMA RacedStays == ASSUME [Next]_vars PROVE raced => raced'
<1>1. ASSUME NEW t \in Threads, LookupHit(t) \/ LookupFresh(t) \/ LookupEvict(t) PROVE raced => raced'
  BY <1>1, Zenon DEF LookupHit, LookupFresh, LookupEvict, Found
<1>2. ASSUME NEW t \in Threads, LockBlock(t) \/ WriteBack(t) \/ Fetch(t) \/ CopyOut(t) \/ CopyIn(t) PROVE raced' = raced
  BY <1>2, Zenon DEF LockBlock, WriteBack, Fetch, CopyOut, CopyIn, histVars
<1>3. ASSUME NEW t \in Threads, NEW o, NEW s, NEW d, Call(t, o, s, d) PROVE raced' = raced
  BY <1>3, Zenon DEF Call, histVars
<1>4. ASSUME Flush PROVE raced' = raced
  BY <1>4, Zenon DEF Flush, FlushStart, FlushTest, FlushLock, FlushWrite, FlushEnd, histVars
<1>5. ASSUME Off \/ UNCHANGED vars PROVE raced' = raced
  BY <1>5, Zenon DEF Off, vars, histVars
<1> QED BY <1>1, <1>2, <1>3, <1>4, <1>5, Zenon DEF Next, Step

\* Every step keeps contents coherent until somebody races an eviction.
LEMMA CoherentStep ==
  ASSUME CacheInv, ~raced => Coherent, [Next]_vars
  PROVE  ~raced' => Coherent'
<1> SUFFICES ASSUME ~raced' PROVE Coherent'
  BY Zenon
<1>1. Coherent
  BY RacedStays, Zenon
<1>2. ASSUME NEW t \in Threads, NEW o, NEW s, NEW d, Call(t, o, s, d) PROVE Coherent'
  BY <1>1, <1>2, CoherentCall, Zenon
<1>3. ASSUME NEW t \in Threads, Step(t) PROVE Coherent'
  BY <1>1, <1>3, CoherentLookup, CoherentLock, CoherentWriteBack, CoherentFetch, CoherentCopyOut, CoherentCopyIn, Zenon DEF Step
<1>4. ASSUME Flush PROVE Coherent'
  BY <1>1, <1>4, CoherentFlush, Zenon
<1>5. ASSUME Off \/ UNCHANGED vars PROVE Coherent'
  <2>1. UNCHANGED vars
    BY <1>5, Zenon DEF Off
  <2>2. /\ disk' = disk /\ sector_tag' = sector_tag /\ sector' = sector /\ dirty_bit' = dirty_bit /\ InUse' = InUse
        /\ pc' = pc /\ op' = op /\ want' = want /\ block' = block /\ how' = how /\ old_sector' = old_sector /\ last' = last
    BY <2>1, Zenon DEF vars, diskVars, lockVars, callVars, histVars, InUse
  <2>3. \A u \in Threads : Fills(u)' <=> Fills(u)
    BY <2>2, Zenon DEF Fills
  <2>4. \A u, v \in Threads : pc[u] = "lock" /\ pc[v] = "writeback" => want[u] # old_sector[v]
    BY <1>1, Zenon DEF Coherent
  <2> QED BY <1>1, <2>2, <2>3, <2>4, CoherentFrame, Zenon
<1> QED BY <1>2, <1>3, <1>4, <1>5, Zenon DEF Next

\* A caller's step leaves cache_flush() where it is.
LEMMA FlusherStays ==
  ASSUME TypeOK, NEW t \in Threads, Step(t) \/ \E o, s, d : Call(t, o, s, d)
  PROVE  pc'[Flusher] = pc[Flusher] /\ pc[Flusher] # "off" /\ block'[Flusher] = block[Flusher]
<1>0. Flusher # t
  BY CacheAssumption, Zenon
<1>1. CASE LookupHit(t) \/ LookupFresh(t) \/ LookupEvict(t)
  <2>1. PICK b, branch : Found(t, b, branch) /\ On
    BY <1>1, Zenon DEF LookupHit, LookupFresh, LookupEvict
  <2> QED BY <1>0, <2>1, Zenon DEF Found, Goto, TypeOK, On
<1>2. CASE LockBlock(t)
  BY <1>0, <1>2, Zenon DEF LockBlock, Goto, TypeOK, On
<1>3. CASE WriteBack(t) \/ Fetch(t)
  BY <1>0, <1>3, Zenon DEF WriteBack, Fetch, Goto, TypeOK, On, callVars
<1>4. CASE CopyOut(t) \/ CopyIn(t)
  BY <1>0, <1>4, Zenon DEF CopyOut, CopyIn, Return, Goto, TypeOK, On
<1>5. CASE \E o, s, d : Call(t, o, s, d)
  BY <1>0, <1>5, Zenon DEF Call, Goto, TypeOK, On
<1> QED BY <1>1, <1>2, <1>3, <1>4, <1>5, Zenon DEF Step

\* While cache_flush() is at block i, a step that leaves it there.
LEMMA SavingFrame ==
  ASSUME Saving, pc'[Flusher] = pc[Flusher], pc[Flusher] # "off", block'[Flusher] = block[Flusher],
         InUse' = InUse, sector_tag' = sector_tag,
         \A s \in stable' : s \in stable /\ last'[s] = last[s] /\ (disk'[s] = disk[s] \/ disk'[s] = last[s]),
         \A u \in Threads : pc[u] = "writeback" =>
           \/ pc'[u] = "writeback" /\ block'[u] = block[u] /\ old_sector'[u] = old_sector[u]
           \/ disk'[old_sector[u]] = last[old_sector[u]]
  PROVE  Saving'
<1>1. ASSUME pc[Flusher] \in {"flush", "flush_lock", "flush_write"}, NEW s \in stable'
      PROVE  \/ disk'[s] = last'[s]
             \/ \E b \in InUse : b >= block[Flusher] /\ sector_tag[b] = s
             \/ \E t \in Threads : pc'[t] = "writeback" /\ block'[t] >= block[Flusher] /\ old_sector'[t] = s
  <2>0. s \in stable /\ last'[s] = last[s] /\ (disk'[s] = disk[s] \/ disk'[s] = last[s])
    BY <1>1, Zenon
  <2>1. \/ disk[s] = last[s]
        \/ \E b \in InUse : b >= block[Flusher] /\ sector_tag[b] = s
        \/ \E t \in Threads : pc[t] = "writeback" /\ block[t] >= block[Flusher] /\ old_sector[t] = s
    BY <1>1, <2>0, Zenon DEF Saving
  <2>2. CASE \E t \in Threads : pc[t] = "writeback" /\ block[t] >= block[Flusher] /\ old_sector[t] = s
    <3>1. PICK t \in Threads : pc[t] = "writeback" /\ block[t] >= block[Flusher] /\ old_sector[t] = s
      BY <2>2, Zenon
    <3>2. CASE pc'[t] = "writeback" /\ block'[t] = block[t] /\ old_sector'[t] = old_sector[t]
      BY <3>1, <3>2, Zenon
    <3>3. CASE disk'[old_sector[t]] = last[old_sector[t]]
      BY <2>0, <3>1, <3>3, Zenon
    <3> QED BY <3>1, <3>2, <3>3, Zenon
  <2> QED BY <2>0, <2>1, <2>2, Zenon
<1> QED BY <1>1, ZenonT(60) DEF Saving

\* No step of a caller takes contents away from the flush: LRU_lock keeps
\* callers from evicting, and what they write is no longer in stable.
LEMMA SavingCaller ==
  ASSUME CacheInv, Coherent, Saving, NEW t \in Threads, Step(t) \/ \E o, s, d : Call(t, o, s, d)
  PROVE  Saving'
<1>0. TypeOK /\ HoldersWork /\ Working /\ Flusher \in Procs /\ t \in Procs /\ t # Flusher /\ NoThread # Flusher
  BY CacheAssumption, Zenon DEF CacheInv, Procs
<1>1. pc'[Flusher] = pc[Flusher] /\ pc[Flusher] # "off" /\ block'[Flusher] = block[Flusher]
  BY <1>0, FlusherStays, Zenon
<1>2. CASE LookupHit(t) \/ LookupFresh(t) \/ LookupEvict(t) \/ LockBlock(t)
  <2>1. LRU_lock # Flusher
    <3>1. CASE LockBlock(t)
      <4>1. pc[t] \in WithLRU
        BY <3>1, Zenon DEF LockBlock, WithLRU
      <4> QED BY <1>0, <4>1, Zenon DEF HoldersWork
    <3>2. CASE LookupHit(t) \/ LookupFresh(t) \/ LookupEvict(t)
      BY <1>0, <3>2, Zenon DEF LookupHit, LookupFresh, LookupEvict
    <3> QED BY <1>2, <3>1, <3>2, Zenon
  <2>2. pc[Flusher] \notin WithLRU
    BY <1>0, <2>1, Zenon DEF HoldersWork
  <2> QED BY <1>1, <2>2, Zenon DEF Saving, WithLRU
<1>3. CASE WriteBack(t)
  <2> PICK o : o = old_sector[t]
    OBVIOUS
  <2>1. /\ pc[t] = "writeback" /\ disk' = [disk EXCEPT ![o] = sector[block[t]]] /\ sector_tag' = sector_tag
        /\ InUse' = InUse /\ block' = block /\ old_sector' = old_sector /\ last' = last /\ stable' = stable
    BY <1>3, Zenon DEF WriteBack, InUse, lockVars, callVars, histVars
  <2>2. sector[block[t]] = last[o]
    BY <2>1, Zenon DEF Coherent
  <2>3. disk \in [Sectors -> Data] /\ o \in Sectors /\ stable \subseteq Sectors
    BY <1>0, Zenon DEF TypeOK
  <2>4. disk'[o] = last[o] /\ \A s \in Sectors : disk'[s] = disk[s] \/ disk'[s] = last[s]
    BY <2>1, <2>2, <2>3, Zenon
  <2>5. \A u \in Threads \ {t} : pc'[u] = pc[u]
    BY <1>0, OthersStay, Zenon, <1>3 DEF Step
  <2>6. \A u \in Threads : pc[u] = "writeback" =>
           \/ pc'[u] = "writeback" /\ block'[u] = block[u] /\ old_sector'[u] = old_sector[u]
           \/ disk'[old_sector[u]] = last[old_sector[u]]
    BY <2>1, <2>4, <2>5, Zenon
  <2> QED BY <1>1, <2>1, <2>3, <2>4, <2>6, SavingFrame, Zenon
<1>4. CASE Fetch(t) \/ CopyOut(t) \/ CopyIn(t)
  <2>1. /\ pc[t] # "writeback" /\ disk' = disk /\ sector_tag' = sector_tag /\ InUse' = InUse
    BY <1>4, Zenon DEF Fetch, CopyOut, CopyIn, InUse, lockVars, diskVars
  <2>2. \A s \in stable' : s \in stable /\ last'[s] = last[s]
    <3>1. CASE Fetch(t) \/ CopyOut(t)
      BY <3>1, Zenon DEF Fetch, CopyOut, histVars
    <3>2. CASE CopyIn(t)
      <4>1. last' = [last EXCEPT ![want[t]] = buffer[t]] /\ stable' = stable \ {want[t]}
        BY <3>2, Zenon DEF CopyIn
      <4>2. last \in [Sectors -> Data] /\ stable \subseteq Sectors
        BY <1>0, Zenon DEF TypeOK
      <4> QED BY <4>1, <4>2, Zenon
    <3> QED BY <1>4, <3>1, <3>2, Zenon
  <2>3. \A u \in Threads \ {t} : pc'[u] = pc[u] /\ block'[u] = block[u] /\ old_sector'[u] = old_sector[u]
    BY <1>0, <1>4, OthersStay, Zenon DEF Step
  <2>4. \A u \in Threads : pc[u] = "writeback" =>
           pc'[u] = "writeback" /\ block'[u] = block[u] /\ old_sector'[u] = old_sector[u]
    BY <2>1, <2>3, Zenon
  <2> QED BY <1>1, <2>1, <2>2, <2>4, SavingFrame, Zenon
<1>5. CASE \E o, s, d : Call(t, o, s, d)
  <2>1. /\ pc[t] # "writeback" /\ disk' = disk /\ sector_tag' = sector_tag /\ InUse' = InUse
        /\ last' = last /\ stable' = stable /\ block' = block /\ old_sector' = old_sector
        /\ \A u \in Threads \ {t} : pc'[u] = pc[u]
    BY <1>0, <1>5, Zenon DEF Call, Goto, InUse, lockVars, diskVars, histVars, TypeOK
  <2>2. \A u \in Threads : pc[u] = "writeback" =>
           pc'[u] = "writeback" /\ block'[u] = block[u] /\ old_sector'[u] = old_sector[u]
    BY <2>1, Zenon
  <2> QED BY <1>1, <2>1, <2>2, SavingFrame, Zenon
<1> QED BY <1>2, <1>3, <1>4, <1>5, Zenon DEF Step

\* What a sector's last contents still wait for when cache_flush() is at block i.
Ahead(s, i) ==
  \/ disk[s] = last[s]
  \/ \E b \in InUse : b >= i /\ sector_tag[b] = s
  \/ \E t \in Threads : pc[t] = "writeback" /\ block[t] >= i /\ old_sector[t] = s

\* cache_flush() may go past a block that holds nothing the disk lacks and that
\* nobody is writing back.
LEMMA FlushPast ==
  ASSUME TypeOK, Working, NEW i \in Nat, NEW s, Ahead(s, i),
         i \in InUse => disk[sector_tag[i]] = last[sector_tag[i]],
         \A t \in Threads : pc[t] = "writeback" => block[t] # i
  PROVE  Ahead(s, i + 1)
<1>1. \A n \in Nat : n >= i /\ n # i => n >= i + 1
  OBVIOUS
<1>2. InUse \subseteq Nat
  BY DEF InUse
<1>3. \A t \in Threads : pc[t] = "writeback" => block[t] \in InUse
  BY Zenon DEF Working, WorksOn
<1> QED BY <1>1, <1>2, <1>3, Zenon DEF Ahead

\* Each step of the flush, and its end.
LEMMA SavingFlush ==
  ASSUME CacheInv, Coherent, Saving, Flush
  PROVE  Saving'
<1> PICK i : i = block[Flusher]
  OBVIOUS
<1>0. TypeOK /\ HoldersWork /\ Listed /\ Working /\ Flusher \in Procs /\ Flusher \notin Threads /\ NoThread # Flusher
  BY CacheAssumption, Zenon DEF CacheInv, Procs
<1>1. /\ sector_tag' = sector_tag /\ old_sector' = old_sector /\ last' = last /\ InUse' = InUse
  BY Zenon DEF Flush, FlushStart, FlushTest, FlushLock, FlushWrite, FlushEnd, diskVars, lockVars, callVars, histVars, InUse
<1>2. ASSUME NEW u \in Threads PROVE pc'[u] = pc[u] /\ block'[u] = block[u]
  <2>1. u # Flusher
    BY <1>0, Zenon
  <2> QED BY <1>0, <2>1, Zenon DEF Flush, FlushStart, FlushTest, FlushLock, FlushWrite, FlushEnd, callVars, Goto, TypeOK
<1>3. ASSUME NEW s, NEW j, Ahead(s, j), disk'[s] = disk[s] \/ disk'[s] = last[s] PROVE Ahead(s, j)'
  BY <1>1, <1>2, <1>3, Zenon DEF Ahead
<1>4. pc[Flusher] \in {"flush", "flush_lock", "flush_write"} => \A s \in stable : Ahead(s, i)
  BY Zenon DEF Saving, Ahead
<1>5. i \in Nat
  <2>1. i \in 0 .. CACHE_SIZE
    BY <1>0, Zenon DEF TypeOK, Procs
  <2> QED BY <2>1, CacheAssumption
<1>6. ASSUME NEW j, j = block'[Flusher], \A s \in stable' : Ahead(s, j)', pc'[Flusher] # "off" PROVE Saving'
  <2>1. pc'[Flusher] \in {"flush", "flush_lock", "flush_write"} => \A s \in stable' :
       \/ disk'[s] = last'[s]
       \/ \E b \in InUse' : b >= j /\ sector_tag'[b] = s
       \/ \E t \in Threads : pc'[t] = "writeback" /\ block'[t] >= j /\ old_sector'[t] = s
    BY <1>6, Zenon DEF Ahead
  <2> QED BY <1>6, <2>1, Zenon DEF Saving
<1>7. CASE FlushStart
  <2>1. block'[Flusher] = 0 /\ pc'[Flusher] = "flush" /\ stable' = Sectors /\ disk' = disk
    BY <1>0, <1>7, Zenon DEF FlushStart, Goto, TypeOK, diskVars, Procs
  <2>2. ASSUME NEW s \in Sectors PROVE Ahead(s, 0)
    <3>1. \A n \in InUse : n >= 0
      BY DEF InUse
    <3>2. \A t \in Threads : pc[t] = "writeback" => block[t] \in InUse
      BY <1>0, Zenon DEF Working, WorksOn
    <3>3. \/ disk[s] = last[s]
          \/ \E b \in InUse : sector_tag[b] = s
          \/ \E t \in Threads : pc[t] = "writeback" /\ old_sector[t] = s
      BY Zenon DEF Coherent
    <3> QED BY <3>1, <3>2, <3>3, Zenon DEF Ahead
  <2>3. \A s \in stable' : Ahead(s, 0)'
    BY <1>3, <2>1, <2>2, Zenon
  <2> QED BY <1>6, <2>1, <2>3, Zenon
<1>8. CASE FlushTest
  <2>1. pc[Flusher] = "flush" /\ stable' = stable /\ disk' = disk /\ i < Len(LRU_list)
    BY <1>8, Zenon DEF FlushTest, diskVars, histVars
  <2>2. CASE dirty_bit[i]
    <3>1. block'[Flusher] = i /\ pc'[Flusher] = "flush_lock"
      BY <1>0, <1>8, <2>2, Zenon DEF FlushTest, Goto, TypeOK, Procs
    <3>2. \A s \in stable' : Ahead(s, i)'
      BY <1>3, <1>4, <2>1, Zenon
    <3> QED BY <1>6, <3>1, <3>2, Zenon
  <2>3. CASE ~dirty_bit[i]
    <3>1. block'[Flusher] = i + 1 /\ pc'[Flusher] = "flush"
      BY <1>0, <1>8, <2>1, <2>3, Zenon DEF FlushTest, TypeOK, Procs
    <3>2. i \in InUse => disk[sector_tag[i]] = last[sector_tag[i]]
      BY <2>3, Zenon DEF Coherent
    <3>3. \A t \in Threads : pc[t] = "writeback" => block[t] # i
      BY <1>0, <2>3, Zenon DEF Working, WorksOn
    <3>4. \A s \in stable : Ahead(s, i + 1)
      BY <1>0, <1>4, <1>5, <2>1, <3>2, <3>3, FlushPast, Zenon
    <3>5. \A s \in stable' : Ahead(s, i + 1)'
      BY <1>3, <2>1, <3>4, Zenon
    <3> QED BY <1>6, <3>1, <3>5, Zenon
  <2> QED BY <2>2, <2>3, Zenon
<1>9. CASE FlushLock
  <2>1. /\ pc[Flusher] = "flush_lock" /\ stable' = stable /\ disk' = disk
        /\ block'[Flusher] = i /\ pc'[Flusher] = "flush_write"
    BY <1>0, <1>9, Zenon DEF FlushLock, diskVars, callVars, histVars, Goto, TypeOK, Procs
  <2>2. \A s \in stable' : Ahead(s, i)'
    BY <1>3, <1>4, <2>1, Zenon
  <2> QED BY <1>6, <2>1, <2>2, Zenon
<1>10. CASE FlushWrite
  <2>1. /\ pc[Flusher] = "flush_write" /\ stable' = stable /\ disk' = [disk EXCEPT ![sector_tag[i]] = sector[i]]
        /\ block'[Flusher] = i + 1 /\ pc'[Flusher] = "flush"
    BY <1>0, <1>10, Zenon DEF FlushWrite, histVars, Goto, TypeOK, Procs
  <2>2. i \in InUse /\ block_lock[i] = Flusher
    BY <1>0, <2>1, Zenon DEF Working
  <2>3. ~Filling(i)
    BY <1>0, <2>2, LockedAlone, Zenon DEF Filling
  <2>4. \A t \in Threads : pc[t] = "writeback" => block[t] # i
    BY <2>3, Zenon DEF Filling, Fills
  <2>5. sector[i] = last[sector_tag[i]]
    BY <2>2, <2>3, Zenon DEF Coherent
  <2>6. sector_tag[i] \in Sectors /\ disk \in [Sectors -> Data] /\ stable \subseteq Sectors
    <3>1. i \in CacheBlocks
      BY <1>0, <2>2, ListFacts, Zenon
    <3> QED BY <1>0, <3>1, Zenon DEF TypeOK
  <2>7. disk'[sector_tag[i]] = last[sector_tag[i]] /\ \A s \in stable : disk'[s] = disk[s] \/ disk'[s] = last[s]
    BY <2>1, <2>5, <2>6, Zenon
  <2>8. \A s \in stable : Ahead(s, i)'
    BY <1>3, <1>4, <2>1, <2>7, Zenon
  <2>9. ASSUME NEW s \in stable PROVE Ahead(s, i + 1)'
    <3>1. \A n \in Nat : n >= i /\ n # i => n >= i + 1
      BY <1>5
    <3>2. InUse \subseteq Nat
      BY DEF InUse
    <3>3. \A t \in Threads : pc[t] = "writeback" => block[t] \in InUse
      BY <1>0, Zenon DEF Working, WorksOn
    <3>4. \/ disk'[s] = last[s]
          \/ \E b \in InUse : b >= i /\ sector_tag[b] = s
          \/ \E t \in Threads : pc[t] = "writeback" /\ block[t] >= i /\ old_sector[t] = s
      BY <1>1, <1>2, <2>8, <2>9, ZenonT(60) DEF Ahead
    <3>5. \/ disk'[s] = last[s]
          \/ \E b \in InUse : b >= i + 1 /\ sector_tag[b] = s
          \/ \E t \in Threads : pc[t] = "writeback" /\ block[t] >= i + 1 /\ old_sector[t] = s
      BY <2>4, <2>7, <3>1, <3>2, <3>3, <3>4, Zenon
    <3> QED BY <1>1, <1>2, <3>5, Zenon DEF Ahead
  <2> QED BY <1>6, <2>1, <2>9, Zenon
<1>11. CASE FlushEnd
  <2>1. /\ pc[Flusher] = "flush" /\ i = Len(LRU_list) /\ stable' = stable /\ disk' = disk
        /\ pc'[Flusher] = "off"
    BY <1>0, <1>11, Zenon DEF FlushEnd, diskVars, histVars, Goto, TypeOK, Procs
  <2>2. \A b \in InUse : ~(b >= i)
    BY <1>0, <2>1, ListFacts DEF InUse
  <2>3. \A t \in Threads : pc[t] = "writeback" => block[t] \in InUse
    BY <1>0, Zenon DEF Working, WorksOn
  <2>4. \A s \in stable : disk[s] = last[s]
    BY <1>4, <2>1, <2>2, <2>3, Zenon DEF Ahead
  <2> QED BY <1>1, <2>1, <2>4, Zenon DEF Saving
<1> QED BY <1>7, <1>8, <1>9, <1>10, <1>11, Zenon DEF Flush

\* Every step keeps what the flush promises, until somebody races an eviction.
LEMMA SavingStep ==
  ASSUME CacheInv, ~raced => Coherent /\ Saving, [Next]_vars
  PROVE  ~raced' => Saving'
<1> SUFFICES ASSUME ~raced' PROVE Saving'
  BY Zenon
<1>1. Coherent /\ Saving
  BY RacedStays, Zenon
<1>2. ASSUME NEW t \in Threads, Step(t) \/ \E o, s, d : Call(t, o, s, d) PROVE Saving'
  BY <1>1, <1>2, SavingCaller, Zenon
<1>3. ASSUME Flush PROVE Saving'
  BY <1>1, <1>3, SavingFlush, Zenon
<1>4. ASSUME Off \/ UNCHANGED vars PROVE Saving'
  <2>1. UNCHANGED vars
    BY <1>4, Zenon DEF Off
  <2>2. /\ disk' = disk /\ sector_tag' = sector_tag /\ InUse' = InUse /\ stable' = stable
        /\ pc' = pc /\ block' = block /\ old_sector' = old_sector /\ last' = last
    BY <2>1, Zenon DEF vars, diskVars, lockVars, callVars, histVars, InUse
  <2> QED BY <1>1, <2>2, Zenon DEF Saving
<1> QED BY <1>2, <1>3, <1>4, Zenon DEF Next

\* Under file_lock there is one call at a time, and nobody to race an eviction.
LEMMA OneCallerStep ==
  ASSUME TypeOK, OneCaller, [Next]_vars
  PROVE  OneCaller'
<1>0. Flusher \notin Threads
  BY CacheAssumption, Zenon
<1>1. use' = use
  <2>1. ASSUME NEW t \in Threads, LookupHit(t) \/ LookupFresh(t) \/ LookupEvict(t) PROVE use' = use
    BY <2>1, Zenon DEF LookupHit, LookupFresh, LookupEvict, Found
  <2>2. ASSUME NEW t \in Threads, LockBlock(t) \/ WriteBack(t) \/ Fetch(t) \/ CopyOut(t) \/ CopyIn(t) PROVE use' = use
    BY <2>2, Zenon DEF LockBlock, WriteBack, Fetch, CopyOut, CopyIn
  <2>3. ASSUME NEW t \in Threads, NEW o, NEW s, NEW d, Call(t, o, s, d) PROVE use' = use
    BY <2>3, Zenon DEF Call
  <2>4. ASSUME Flush PROVE use' = use
    BY <2>4, Zenon DEF Flush, FlushStart, FlushTest, FlushLock, FlushWrite, FlushEnd
  <2>5. ASSUME Off \/ UNCHANGED vars PROVE use' = use
    BY <2>5, Zenon DEF Off, vars
  <2> QED BY <2>1, <2>2, <2>3, <2>4, <2>5, Zenon DEF Next, Step
<1> SUFFICES ASSUME use.file_lock PROVE ~raced' /\ \A t, u \in Callers' : t = u
  BY <1>1, Zenon DEF OneCaller
<1>2. ~raced /\ \A t, u \in Callers : t = u
  BY Zenon DEF OneCaller
<1>3. ASSUME NEW t \in Threads, NEW o, NEW s, NEW d, Call(t, o, s, d) PROVE ~raced' /\ \A a, b \in Callers' : a = b
  <2>1. Callers = {} /\ raced' = raced /\ \A u \in Threads \ {t} : pc'[u] = pc[u]
    BY <1>3, Zenon DEF Call, histVars, Goto, TypeOK
  <2> QED BY <1>2, <2>1, Zenon DEF Callers
<1>4. ASSUME NEW t \in Threads, Step(t) PROVE ~raced' /\ \A a, b \in Callers' : a = b
  <2>1. pc[t] # "idle"
    BY <1>4, Zenon DEF Step, LookupHit, LookupFresh, LookupEvict, LockBlock, WriteBack, Fetch, CopyOut, CopyIn
  <2>2. \A u \in Threads \ {t} : pc[u] = "idle" /\ pc'[u] = pc[u]
    BY <1>2, <1>4, <2>1, OthersStay, Zenon DEF Callers
  <2>3. ~raced'
    <3>1. CASE LookupHit(t) \/ LookupFresh(t) \/ LookupEvict(t)
      <4>1. pc[t] = "lookup" /\ raced' = (raced \/ \E u \in Threads : pc[u] = "writeback" /\ old_sector[u] = want[t])
        BY <3>1, Zenon DEF LookupHit, LookupFresh, LookupEvict, Found
      <4> QED BY <1>2, <2>2, <4>1, Zenon
    <3>2. CASE LockBlock(t) \/ WriteBack(t) \/ Fetch(t) \/ CopyOut(t) \/ CopyIn(t)
      BY <1>2, <3>2, Zenon DEF LockBlock, WriteBack, Fetch, CopyOut, CopyIn, histVars
    <3> QED BY <1>4, <3>1, <3>2, Zenon DEF Step
  <2> QED BY <2>2, <2>3, Zenon DEF Callers
<1>5. ASSUME Flush PROVE ~raced' /\ \A a, b \in Callers' : a = b
  <2>1. raced' = raced
    BY <1>5, Zenon DEF Flush, FlushStart, FlushTest, FlushLock, FlushWrite, FlushEnd, histVars
  <2>2. ASSUME NEW u \in Threads PROVE pc'[u] = pc[u]
    <3>1. u # Flusher
      BY <1>0, Zenon
    <3> QED BY <1>5, <3>1, Zenon DEF Flush, FlushStart, FlushTest, FlushLock, FlushWrite, FlushEnd, Goto, TypeOK
  <2> QED BY <1>2, <2>1, <2>2, Zenon DEF Callers
<1>6. ASSUME Off \/ UNCHANGED vars PROVE ~raced' /\ \A a, b \in Callers' : a = b
  <2>1. raced' = raced /\ pc' = pc
    BY <1>6, Zenon DEF Off, vars, histVars
  <2> QED BY <1>2, <2>1, Zenon DEF Callers
<1> QED BY <1>3, <1>4, <1>5, <1>6, Zenon DEF Next

\* The whole inductive invariant of the cache.
CacheSafe == CacheInv /\ OneCaller /\ (~raced => Coherent /\ Saving)

\* It holds at first, and every step keeps it.
LEMMA CacheSafely ==
  /\ Init => CacheSafe
  /\ CacheSafe /\ [Next]_vars => CacheSafe'
<1>1. Init => CacheSafe
  BY CacheInit, CoherentInit, Zenon DEF CacheSafe
<1>2. ASSUME CacheSafe, [Next]_vars PROVE CacheSafe'
  <2>1. CacheInv /\ TypeOK /\ OneCaller /\ (~raced => Coherent) /\ (~raced => Coherent /\ Saving)
    BY <1>2, Zenon DEF CacheSafe, CacheInv
  <2>2. CacheInv'
    BY <1>2, <2>1, CacheStep, Zenon
  <2>3. OneCaller'
    BY <1>2, <2>1, OneCallerStep, Zenon
  <2>4. ~raced' => Coherent'
    BY <1>2, <2>1, CoherentStep, Zenon
  <2>5. ~raced' => Saving'
    BY <1>2, <2>1, SavingStep, Zenon
  <2> QED BY <2>2, <2>3, <2>4, <2>5, Zenon DEF CacheSafe
<1> QED BY <1>1, <1>2, Zenon

\* When cache_flush() has returned, the disk holds the last contents of every
\* sector not written since it began, for any number of callers, blocks and
\* sectors, unless callers without file_lock raced an eviction.
THEOREM FlushSaved == Spec => []FlushSaves
<1>1. CacheSafe => FlushSaves
  <2> SUFFICES ASSUME CacheSafe, ~On, Orderly PROVE \A s \in stable : disk[s] = last[s]
    BY Zenon DEF FlushSaves
  <2>1. ~raced
    BY Zenon DEF CacheSafe, OneCaller, Orderly
  <2> QED BY <2>1, Zenon DEF CacheSafe, Saving, On
<1> QED BY CacheSafely, <1>1, PTL DEF Spec

\* The request of one thread changes, those of the others stay.
LEMMA OnePending ==
  ASSUME NEW t \in Threads, NEW r, \A u \in Threads \ {t} : pc'[u] = pc[u] /\ op'[u] = op[u] /\ want'[u] = want[u],
         r = IF pc'[t] = "idle" THEN <<>> ELSE <<op'[t], want'[t]>>
  PROVE  Pending' = [Pending EXCEPT ![t] = r]
<1>1. Pending' = [u \in Threads |-> IF pc'[u] = "idle" THEN <<>> ELSE <<op'[u], want'[u]>>]
  BY Zenon DEF Pending
<1>2. [Pending EXCEPT ![t] = r] = [u \in Threads |-> IF u = t THEN r ELSE IF pc[u] = "idle" THEN <<>> ELSE <<op[u], want[u]>>]
  BY Zenon DEF Pending
<1> QED BY <1>1, <1>2, ZenonT(60)

\* Each step of the cache is a step of the array of sectors, or none: a read
\* happens at its copy, since nobody fills the block that it has locked.
LEMMA StoreStep ==
  ASSUME CacheSafe, [Next]_vars, ~raced'
  PROVE  Store!Next \/ UNCHANGED <<last, Pending, buffer>>
<1>0. TypeOK /\ Working /\ Coherent /\ Flusher \notin Threads
  <2>1. ~raced
    BY RacedStays, Zenon
  <2> QED BY <2>1, CacheAssumption, Zenon DEF CacheSafe, CacheInv
<1>1. ASSUME NEW t \in Threads, NEW o \in {"read", "write"}, NEW s \in Sectors, NEW d \in Data, Call(t, o, s, d)
      PROVE  Store!Next
  <2>1. /\ pc[t] = "idle" /\ pc'[t] = "lookup" /\ op'[t] = o /\ want'[t] = s /\ buffer' = [buffer EXCEPT ![t] = d] /\ last' = last
        /\ \A u \in Threads \ {t} : pc'[u] = pc[u] /\ op'[u] = op[u] /\ want'[u] = want[u]
    BY <1>0, <1>1, Zenon DEF Call, Goto, TypeOK, histVars
  <2>2. Pending' = [Pending EXCEPT ![t] = <<o, s>>]
    BY <2>1, OnePending, Zenon
  <2>3. Pending[t] = <<>>
    BY <2>1, Zenon DEF Pending
  <2>4. Store!Call(t, o, s, d)
    BY <2>1, <2>2, <2>3, Zenon DEF Store!Call
  <2> QED BY <2>4, Zenon DEF Store!Next
<1>2. ASSUME NEW t \in Threads, CopyOut(t) PROVE Store!Next
  <2> PICK w : w = want[t]
    OBVIOUS
  <2>1. /\ pc[t] = "copy" /\ op[t] = "read" /\ pc'[t] = "idle" /\ last' = last
        /\ buffer' = [buffer EXCEPT ![t] = sector[block[t]]]
    BY <1>0, <1>2, Zenon DEF CopyOut, Return, Goto, TypeOK, histVars
  <2>2. \A u \in Threads \ {t} : pc'[u] = pc[u] /\ op'[u] = op[u] /\ want'[u] = want[u]
    BY <1>0, <1>2, OthersStay, Zenon DEF Step
  <2>3. Pending' = [Pending EXCEPT ![t] = <<>>]
    BY <2>1, <2>2, OnePending, Zenon
  <2>4. Pending[t] = <<"read", w>> /\ w \in Sectors
    BY <1>0, <2>1, Zenon DEF Pending, TypeOK
  <2>5. sector[block[t]] = last[w]
    <3>1. block[t] \in InUse /\ block_lock[block[t]] = t /\ sector_tag[block[t]] = w
      <4>1. WorksOn(t)
        BY <1>0, Zenon DEF Working
      <4>2. pc[t] \in {"lock", "writeback", "fetch", "copy"} /\ pc[t] \in {"writeback", "fetch", "copy"}
        BY <2>1, Zenon
      <4> QED BY <4>1, <4>2, Zenon DEF WorksOn
    <3>2. ~Fills(t) /\ t \in Procs
      BY <2>1, Zenon DEF Fills, Procs
    <3>3. ~Filling(block[t])
      BY <1>0, <3>1, <3>2, LockedAlone, Zenon DEF Filling
    <3>4. \A b \in InUse : ~Filling(b) => sector[b] = last[sector_tag[b]]
      BY <1>0, Zenon DEF Coherent
    <3> QED BY <3>1, <3>3, <3>4, Zenon
  <2>6. Store!Read(t, w)
    BY <2>1, <2>3, <2>4, <2>5, Zenon DEF Store!Read
  <2> QED BY <2>4, <2>6, Zenon DEF Store!Next
<1>3. ASSUME NEW t \in Threads, CopyIn(t) PROVE Store!Next
  <2> PICK w : w = want[t]
    OBVIOUS
  <2>1. /\ pc[t] = "copy" /\ op[t] = "write" /\ pc'[t] = "idle" /\ buffer' = buffer
        /\ last' = [last EXCEPT ![w] = buffer[t]]
    BY <1>0, <1>3, Zenon DEF CopyIn, Return, Goto, TypeOK
  <2>2. \A u \in Threads \ {t} : pc'[u] = pc[u] /\ op'[u] = op[u] /\ want'[u] = want[u]
    BY <1>0, <1>3, OthersStay, Zenon DEF Step
  <2>3. Pending' = [Pending EXCEPT ![t] = <<>>]
    BY <2>1, <2>2, OnePending, Zenon
  <2>4. Pending[t] = <<"write", w>> /\ w \in Sectors
    BY <1>0, <2>1, Zenon DEF Pending, TypeOK
  <2>5. Store!Write(t, w)
    BY <2>1, <2>3, <2>4, Zenon DEF Store!Write
  <2> QED BY <2>4, <2>5, Zenon DEF Store!Next
<1>4. ASSUME NEW t \in Threads,
             LookupHit(t) \/ LookupFresh(t) \/ LookupEvict(t) \/ LockBlock(t) \/ WriteBack(t) \/ Fetch(t)
      PROVE  UNCHANGED <<last, Pending, buffer>>
  <2>1. last' = last /\ buffer' = buffer /\ op' = op /\ want' = want /\ pc[t] # "idle"
    <3>1. CASE LookupHit(t) \/ LookupFresh(t) \/ LookupEvict(t)
      BY <3>1, Zenon DEF LookupHit, LookupFresh, LookupEvict, Found
    <3>2. CASE LockBlock(t) \/ WriteBack(t) \/ Fetch(t)
      BY <3>2, Zenon DEF LockBlock, WriteBack, Fetch, callVars, histVars
    <3> QED BY <1>4, <3>1, <3>2, Zenon
  <2>2. pc'[t] # "idle"
    <3>1. CASE LookupHit(t) \/ LookupFresh(t) \/ LookupEvict(t)
      BY <1>0, <3>1, Zenon DEF LookupHit, LookupFresh, LookupEvict, Found, Goto, TypeOK
    <3>2. CASE LockBlock(t)
      <4>1. pc'[t] = CASE how[t] = "hit" -> "copy"
                   [] how[t] = "evict" /\ dirty_bit[block[t]] -> "writeback"
                   [] OTHER -> Transfer(t)
        BY <1>0, <3>2, Zenon DEF LockBlock, Goto, TypeOK
      <4>2. Transfer(t) # "idle"
        BY Zenon DEF Transfer
      <4> QED BY <4>1, <4>2, Zenon
    <3>3. CASE WriteBack(t) \/ Fetch(t)
      BY <1>0, <3>3, Zenon DEF WriteBack, Fetch, Goto, TypeOK, Transfer
    <3> QED BY <1>4, <3>1, <3>2, <3>3, Zenon
  <2>3. \A u \in Threads \ {t} : pc'[u] = pc[u]
    BY <1>0, <1>4, OthersStay, Zenon DEF Step
  <2> QED BY <2>1, <2>2, <2>3, Zenon DEF Pending
<1>5. ASSUME Flush PROVE UNCHANGED <<last, Pending, buffer>>
  <2>1. last' = last /\ buffer' = buffer /\ op' = op /\ want' = want
    BY <1>5, Zenon DEF Flush, FlushStart, FlushTest, FlushLock, FlushWrite, FlushEnd, callVars, histVars
  <2>2. ASSUME NEW u \in Threads PROVE pc'[u] = pc[u]
    <3>1. u # Flusher
      BY <1>0, Zenon
    <3> QED BY <1>0, <1>5, <3>1, Zenon DEF Flush, FlushStart, FlushTest, FlushLock, FlushWrite, FlushEnd, Goto, TypeOK
  <2> QED BY <2>1, <2>2, Zenon DEF Pending
<1>6. ASSUME Off \/ UNCHANGED vars PROVE UNCHANGED <<last, Pending, buffer>>
  BY <1>6, Zenon DEF Off, vars, histVars, callVars, Pending
<1> QED BY <1>1, <1>2, <1>3, <1>4, <1>5, <1>6, Zenon DEF Next, Step

\* The cache begins as the array does.
LEMMA StoreInit == Init => Store!Init
BY ZenonT(60) DEF Init, Store!Init, Pending

\* cache_read() and cache_write() are reads and writes of an array of sectors,
\* each at one moment of the call, for any number of callers, blocks and
\* sectors, as long as nobody looks a sector up between its eviction and its
\* write-back.
THEOREM CacheImplementsStore == Spec => CacheIsStore
<1>1. CacheSafe /\ CacheSafe' /\ [Next]_vars => [Orderly' => Store!Next]_<<last, Pending, buffer>>
  <2> SUFFICES ASSUME CacheSafe, CacheSafe', [Next]_vars, Orderly' PROVE Store!Next \/ UNCHANGED <<last, Pending, buffer>>
    BY Zenon
  <2>1. ~raced'
    BY Zenon DEF CacheSafe, OneCaller, Orderly
  <2> QED BY <2>1, StoreStep, Zenon
<1> QED BY CacheSafely, StoreInit, <1>1, PTL DEF Spec, CacheIsStore

\* In particular, if every caller held file_lock, the cache would implement the
\* array of sectors without condition.
THEOREM FileLockSuffices ==
  ASSUME \A u \in Uses : u.file_lock
  PROVE  Spec => Store!Spec
<1>1. CacheSafe /\ CacheSafe' /\ [Next]_vars => [Store!Next]_<<last, Pending, buffer>>
  <2> SUFFICES ASSUME CacheSafe, CacheSafe', [Next]_vars PROVE Store!Next \/ UNCHANGED <<last, Pending, buffer>>
    BY Zenon
  <2>1. (use \in Uses)'
    BY Zenon DEF CacheSafe, CacheInv, TypeOK
  <2>2. ~raced'
    BY <2>1, Zenon DEF CacheSafe, OneCaller
  <2> QED BY <2>2, StoreStep, Zenon
<1> QED BY CacheSafely, StoreInit, <1>1, PTL DEF Spec, Store!Spec
=============================================================================
