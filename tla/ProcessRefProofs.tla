-------------------------- MODULE ProcessRefProofs --------------------------
(***************************************************************************)
(* The steps that give a reference to a wait_status back.  ref_count       *)
(* counts the references, and a panic has one of two causes: a             *)
(* child_list_lock that was initialised while it was in use, or a child    *)
(* that outlives its parent.                                               *)
(***************************************************************************)
EXTENDS ProcessProofs

\* process_wait() gives up the parent's reference: the child has given up its
\* own, so the count was 1.
LEMMA HeldWaitRef ==
  ASSUME CoreInv, HeldInv, Steady, NEW t \in Threads, WaitRef(t)
  PROVE  HeldInv'
<1>0. CoreTypes /\ TargetOK(t) /\ FoundOK(t)
  BY Zenon DEF CoreInv, HeldInv
<1>1. /\ Step(t) /\ pc[t] = "wait_ref"
      /\ \/ pc'[t] = "wait_lock2" /\ target'[t] = target[t]
         \/ pc'[t] = "run" /\ target'[t] = NoThread /\ ref_count[target[t]] # 1
      /\ ref_count' = [ref_count EXCEPT ![target[t]] = @ - 1]
      /\ UNCHANGED <<children, parent, mem>>
  BY <1>0, WaitRefIs, Zenon
<1>2. /\ pc[t] # "none" /\ pc[t] \notin OffLabels /\ pc[t] \notin FreeingLabels /\ pc[t] \notin LeftLabels
      /\ pc[t] \notin GripLabels /\ pc[t] \in FoundLabels /\ pc[t] \in FoundLabels \ {"wait_down"}
      /\ pc[t] \in AimedLabels
  BY Zenon, <1>1 DEF OffLabels, ExitLabels, FreeingLabels, LeftLabels, GripLabels, FoundLabels, AimedLabels
<1>3. PICK e \in Procs : target[t] = e /\ e \in Range(children[t]) /\ parent[e] = t /\ pc[e] \in LeftLabels
  BY <1>0, <1>2, Zenon DEF FoundOK, TargetOK
<1>4. e # t /\ CountOK(e) /\ mem[e] = "live" /\ ref_count[e] \in Int
  BY <1>0, <1>2, <1>3, Zenon DEF HeldInv, CoreInv, ListOK, CoreTypes
<1>5. pc[e] # "none" /\ pc[e] \in OffLabels /\ pc[e] \notin FreeingLabels
  BY Zenon, <1>3 DEF LeftLabels, OffLabels, ExitLabels, FreeingLabels
<1>6. Base(e) = 0
  BY <1>5, Zenon DEF Base
<1>7. ref_count[e] = 1
  <2>1. Keeps(t, e)
    BY <1>2, <1>3, KeepsPlain, Zenon
  <2>2. Holds(e)
    BY <1>3, <2>1, Zenon DEF Holds
  <2>3. ref_count[e] = Base(e) + 1
    BY Zenon, <1>4, <2>2 DEF CountOK
  <2> QED BY <1>6, <2>3
<1>8. pc'[t] = "wait_lock2" /\ target'[t] = e
  BY <1>1, <1>3, <1>7, Zenon
<1>9. /\ pc'[t] # "none" /\ pc'[t] \notin OffLabels /\ pc'[t] \notin FreeingLabels
      /\ pc'[t] # "dead" /\ pc'[t] # "exit_child" /\ pc'[t] \in {"wait_lock2", "wait_free"}
  BY Zenon, <1>8 DEF OffLabels, ExitLabels, FreeingLabels
<1>10. /\ \A u \in Threads \ {t} : pc'[u] = pc[u] /\ target'[u] = target[u]
       /\ pc'[e] = pc[e]
  BY <1>0, <1>1, <1>4, StepAlone, Zenon DEF Threads
<1>11. ASSUME NEW p \in Procs \ {e} PROVE (Holds(p)' <=> Holds(p)) /\ (Taken(p) => Taken(p)')
  <2>1. Keeps(t, p) <=> p \in Range(children[t])
    BY <1>2, KeepsPlain, Zenon
  <2>2. Keeps(t, p)' <=> p \in Range(children[t])
    BY <1>1, <1>8, <1>9, Zenon DEF Keeps, Taking, Past
  <2>3. ~Taking(t, p)
    BY <1>2, KeepsPlain, Zenon
  <2>4. \A u \in Threads : (Keeps(u, p)' <=> Keeps(u, p)) /\ (Taking(u, p) => Taking(u, p)')
    BY <1>1, <1>10, <2>1, <2>2, <2>3, KeepsSame, Zenon
  <2> QED BY <1>1, <2>4, HoldsSame, Zenon
<1>12. CountOK(e)'
  <2>1. mem'[e] = "live" /\ ref_count'[e] = 0
    BY <1>0, <1>1, <1>3, <1>4, <1>7 DEF CoreTypes
  <2>2. Taking(t, e)'
    BY <1>8, <1>9, Zenon DEF Taking
  <2>3. Taken(e)' /\ ~Holds(e)'
    BY <1>1, <1>3, <2>2, Zenon DEF Taken, Holds, Keeps
  <2>4. Base(e)' = 0
    BY <1>5, <1>10, Zenon DEF Base
  <2> QED BY <1>5, <1>10, <2>1, <2>3, <2>4 DEF CountOK
<1>13. \A p \in Procs \ {e} : mem'[p] = mem[p] /\ ref_count'[p] = ref_count[p]
  BY <1>0, <1>1, <1>3, Zenon DEF CoreTypes
<1>14. FoundOK(t)'
  BY <1>1, <1>3, <1>8, <1>10, Zenon DEF FoundOK
<1> QED BY <1>1, <1>2, <1>9, <1>11, <1>12, <1>13, <1>14, OneMove, Zenon

\* ... and frees the wait_status.
LEMMA HeldWaitFree ==
  ASSUME CoreInv, HeldInv, Steady, NEW t \in Threads, WaitFree(t)
  PROVE  HeldInv'
<1>0. CoreTypes /\ TargetOK(t) /\ FoundOK(t) /\ ListOK(t)
  BY Zenon DEF CoreInv, HeldInv
<1>1. /\ Step(t) /\ pc[t] = "wait_free" /\ pc'[t] = "run" /\ target'[t] = NoThread
      /\ children' = [children EXCEPT ![t] = ListRemove(@, target[t])]
      /\ mem' = [mem EXCEPT ![target[t]] = "freed"]
      /\ UNCHANGED <<parent, ref_count>>
  BY <1>0, WaitFreeIs, Zenon
<1>2. /\ pc[t] # "none" /\ pc[t] \notin OffLabels /\ pc[t] \notin FreeingLabels /\ pc[t] \notin LeftLabels
      /\ pc[t] \in FoundLabels /\ pc[t] \in FoundLabels \ {"wait_down"} /\ pc[t] \in AimedLabels
      /\ pc'[t] # "none" /\ pc'[t] \notin OffLabels /\ pc'[t] \notin FreeingLabels
      /\ pc'[t] \notin GripLabels /\ pc'[t] \notin FoundLabels
      /\ pc[t] # "dead" /\ pc[t] # "exit_child"
  BY Zenon, <1>1 DEF OffLabels, ExitLabels, FreeingLabels, LeftLabels, GripLabels, FoundLabels, AimedLabels
<1>3. PICK e \in Procs : target[t] = e /\ e \in Range(children[t]) /\ parent[e] = t /\ pc[e] \in LeftLabels
  BY <1>0, <1>2, Zenon DEF FoundOK, TargetOK
<1>4. e # t /\ CountOK(e) /\ mem[e] = "live" /\ ref_count[e] \in Int
  BY <1>0, <1>2, <1>3, Zenon DEF HeldInv, CoreInv, ListOK, CoreTypes
<1>5. pc[e] # "none" /\ pc[e] \in OffLabels /\ pc[e] \notin FreeingLabels
  BY Zenon, <1>3 DEF LeftLabels, OffLabels, ExitLabels, FreeingLabels
<1>6. /\ \A u \in Threads \ {t} : pc'[u] = pc[u] /\ target'[u] = target[u] /\ children'[u] = children[u]
      /\ pc'[e] = pc[e] /\ children'[t] = ListRemove(children[t], e)
  <2>1. /\ \A u \in Threads \ {t} : pc'[u] = pc[u] /\ target'[u] = target[u]
        /\ pc'[e] = pc[e]
    BY <1>0, <1>1, <1>4, StepAlone, Zenon DEF Threads
  <2>2. /\ \A u \in Threads \ {t} : children'[u] = children[u]
        /\ children'[t] = ListRemove(children[t], e)
    BY Zenon, <1>0, <1>1, <1>3 DEF CoreTypes
  <2> QED BY <2>1, <2>2, Zenon
<1>7. Range(children'[t]) = Range(children[t]) \ {e}
  <2>1. children[t] \in Seq(Procs) /\ Once(children[t])
    BY <1>0, Zenon DEF CoreTypes, ListOK
  <2> QED BY Zenon, <1>6, <2>1, RemoveOnce
<1>8. ASSUME NEW p \in Procs \ {e} PROVE (Holds(p)' <=> Holds(p)) /\ (Taken(p) => Taken(p)')
  <2>1. Keeps(t, p) <=> p \in Range(children[t])
    BY <1>2, <1>3, Zenon DEF Keeps, Taking, Past
  <2>2. Keeps(t, p)' <=> p \in Range(children'[t])
    BY <1>2, KeepsPlainNext, Zenon
  <2>3. ~Taking(t, p)
    BY <1>3, Zenon DEF Taking
  <2>4. p \in Range(children'[t]) <=> p \in Range(children[t])
    BY <1>7
  <2>5. \A u \in Threads : (Keeps(u, p)' <=> Keeps(u, p)) /\ (Taking(u, p) => Taking(u, p)')
    BY <1>6, <2>1, <2>2, <2>3, <2>4, KeepsSame, Zenon
  <2> QED BY <1>1, <2>5, HoldsSame, Zenon
<1>9. CountOK(e)'
  <2>1. mem'[e] = "freed" /\ ref_count'[e] = ref_count[e]
    BY <1>0, <1>1, <1>3, Zenon DEF CoreTypes
  <2>2. e \notin Range(children'[t])
    BY <1>7
  <2>3. ~Holds(e)'
    BY <1>1, <1>3, <2>2, Zenon DEF Holds, Keeps
  <2>4. Base(e)' = Base(e)
    BY <1>6, Zenon DEF Base
  <2>5. Base(e) <= ref_count[e] /\ ref_count[e] <= Base(e) + 1
    BY <1>4 DEF CountOK
  <2> QED BY <1>5, <1>6, <2>1, <2>3, <2>4, <2>5 DEF CountOK
<1>10. \A p \in Procs \ {e} : mem'[p] = mem[p] /\ ref_count'[p] = ref_count[p]
  BY <1>0, <1>1, <1>3, Zenon DEF CoreTypes
<1>11. FoundOK(t)'
  BY <1>2, NotFound, Zenon
<1>12. \A u \in Threads \ {t} : pc[u] \in FoundLabels /\ target[u] \in Range(children[u]) =>
           target[u] \in Range(children'[u])
  BY <1>6, Zenon
<1> QED BY <1>1, <1>2, <1>8, <1>9, <1>10, <1>11, <1>12, OneMove, Zenon

\* The child gives up its reference.
LEMMA HeldExitRef ==
  ASSUME CoreInv, HeldInv, Steady, NEW e \in Procs, ExitRef(e)
  PROVE  HeldInv'
<1>0. CoreTypes /\ e \in Threads /\ Fresh(e) /\ CountOK(e) /\ pc[e] = "exit"
  BY Zenon DEF CoreInv, HeldInv, Threads, ExitRef, At
<1>m. my_wait[e] /\ mem[e] # "none" /\ ref_count[e] \in Int /\ parent[e] # e
  <2>1. pc[e] # "none"
    BY Zenon, <1>0
  <2> QED BY <1>0, <2>1, Zenon DEF Fresh, CoreTypes
<1>1. /\ Step(e)
      /\ \/ pc'[e] = "exit_lock" /\ ref_count[e] = 1
         \/ pc'[e] = "exit_up" /\ ref_count[e] # 1
      /\ ref_count' = [ref_count EXCEPT ![e] = @ - 1]
      /\ UNCHANGED <<children, parent, mem>>
  BY <1>0, <1>m, ExitRefIs, Zenon
<1>2. /\ pc[e] # "none" /\ pc[e] \notin OffLabels /\ pc[e] \notin LeftLabels
      /\ pc[e] \notin GripLabels
      /\ pc'[e] # "none" /\ pc'[e] \in OffLabels /\ pc'[e] \notin GripLabels /\ pc'[e] \notin FoundLabels
      /\ (pc'[e] \in FreeingLabels <=> ref_count[e] = 1)
  BY <1>0, <1>1 DEF OffLabels, ExitLabels, FreeingLabels, LeftLabels, GripLabels, FoundLabels
<1>3. ASSUME NEW p \in Procs PROVE (Holds(p)' <=> Holds(p)) /\ (Taken(p) => Taken(p)')
  <2>1. \A u \in Threads \ {e} : pc'[u] = pc[u] /\ target'[u] = target[u]
    BY <1>0, <1>1, StepAlone, Zenon
  <2>2. (Keeps(e, p)' <=> Keeps(e, p)) /\ (Taking(e, p) => Taking(e, p)')
    BY <1>1, <1>2, KeepsPlain, KeepsPlainNext, Zenon
  <2>3. \A u \in Threads : (Keeps(u, p)' <=> Keeps(u, p)) /\ (Taking(u, p) => Taking(u, p)')
    BY <1>1, <2>1, <2>2, KeepsSame, Zenon
  <2> QED BY <1>1, <2>3, HoldsSame, Zenon
<1>4. CountOK(e)'
  <2>1. mem'[e] = mem[e] /\ ref_count'[e] = ref_count[e] - 1
    BY Zenon, <1>0, <1>1 DEF CoreTypes
  <2>2. mem[e] = "live"
    BY Zenon, <1>0, <1>m, <1>2 DEF CountOK, CoreTypes
  <2>3. Base(e) = 1 /\ Base(e)' = 0
    BY <1>2, Zenon DEF Base
  <2>4. /\ Base(e) <= ref_count[e] /\ ref_count[e] <= Base(e) + 1
        /\ Holds(e) => ref_count[e] = Base(e) + 1
        /\ ~reinit /\ ~Holds(e) => ref_count[e] = Base(e)
    BY Zenon, <1>0, <1>2, <2>2 DEF CountOK
  <2>5. (~reinit' => ~reinit) /\ (Holds(e)' <=> Holds(e))
    BY <1>3, Zenon DEF Steady
  <2>6. /\ 0 <= ref_count'[e] /\ ref_count'[e] <= 1
        /\ Holds(e)' => ref_count'[e] = 1
        /\ ~reinit' /\ ~Holds(e)' => ref_count'[e] = 0
    BY <1>m, <2>1, <2>3, <2>4, <2>5
  <2>7. pc'[e] \in FreeingLabels <=> ref_count'[e] = 0
    BY <1>m, <1>2, <2>1
  <2> QED BY <1>2, <2>1, <2>2, <2>3, <2>6, <2>7 DEF CountOK
<1>5. \A p \in Procs \ {e} : mem'[p] = mem[p] /\ ref_count'[p] = ref_count[p]
  BY <1>0, <1>1, Zenon DEF CoreTypes
<1>6. FoundOK(e)'
  BY <1>2, NotFound, Zenon
<1>7. \A u \in Threads \ {e} : pc[u] \in FoundLabels /\ target[u] \in Range(children[u]) =>
           target[u] \in Range(children'[u])
  BY <1>1, Zenon
<1> QED BY <1>0, <1>1, <1>2, <1>3, <1>4, <1>5, <1>6, <1>7, OneMove, Zenon

\* The child frees the wait_status of a parent that is past it.
LEMMA HeldExitFree ==
  ASSUME CoreInv, LockOK, HeldInv, Steady, NEW e \in Procs, ExitFree(e)
  PROVE  HeldInv'
<1>0. CoreTypes /\ e \in Threads /\ Fresh(e) /\ CountOK(e) /\ TargetOK(e)
  BY Zenon DEF CoreInv, HeldInv, Threads
<1>1. /\ Step(e) /\ pc[e] = "exit_free" /\ pc'[e] = "exit_up" /\ target'[e] = target[e]
      /\ children' = [children EXCEPT ![parent[e]] = ListRemove(@, e)]
      /\ mem' = [mem EXCEPT ![e] = "freed"]
      /\ UNCHANGED <<parent, ref_count>>
  BY <1>0, ExitFreeIs, Zenon
<1>2. /\ pc[e] # "none" /\ pc[e] \in OffLabels /\ pc[e] \in FreeingLabels /\ pc[e] \notin LeftLabels
      /\ pc[e] \notin GripLabels /\ pc'[e] \notin GripLabels /\ pc'[e] \notin FoundLabels
      /\ pc'[e] # "none" /\ pc'[e] \in OffLabels /\ pc'[e] \notin FreeingLabels
  BY <1>1 DEF OffLabels, ExitLabels, FreeingLabels, LeftLabels, GripLabels, FoundLabels
<1>3. PICK v \in Threads : parent[e] = v /\ v # e
  BY <1>0, <1>2, Zenon DEF Fresh
<1>4. mem[e] # "none" /\ ref_count[e] = 0 /\ Base(e) = 0
  <2>1. Base(e) = 0
    BY <1>2, Zenon DEF Base
  <2> QED BY <1>0, <1>2, <2>1, Zenon DEF Fresh, CountOK
<1>5. ~Holds(e) /\ ~Keeps(v, e)
  <2>1. Holds(e) => ref_count[e] = Base(e) + 1
    BY Zenon, <1>0, <1>4 DEF CountOK
  <2>2. ~Holds(e)
    BY <1>4, <2>1
  <2> QED BY <1>3, <2>2, Zenon DEF Holds
<1>6. /\ \A u \in Threads \ {e} : pc'[u] = pc[u] /\ target'[u] = target[u]
      /\ \A u \in Threads \ {v} : children'[u] = children[u]
      /\ children'[v] = ListRemove(children[v], e)
  <2>1. \A u \in Threads \ {e} : pc'[u] = pc[u] /\ target'[u] = target[u]
    BY <1>0, <1>1, StepAlone, Zenon
  <2>2. /\ \A u \in Threads \ {v} : children'[u] = children[u]
        /\ children'[v] = ListRemove(children[v], e)
    BY <1>0, <1>1, <1>3 DEF CoreTypes
  <2> QED BY <2>1, <2>2, Zenon
<1>7. /\ Range(children'[v]) = Range(children[v]) \ {e}
      /\ \A a, b : a # e /\ b # e => (Before(children'[v], a, b) <=> Before(children[v], a, b))
      /\ \A b : ~Before(children'[v], e, b)
  <2>1. children[v] \in Seq(Procs) /\ Once(children[v])
    BY <1>0, Zenon DEF CoreInv, CoreTypes, ListOK
  <2>2. /\ ListRemove(children[v], e) \in Seq(Procs)
        /\ Range(ListRemove(children[v], e)) = Range(children[v]) \ {e}
        /\ \A a, b : a # e /\ b # e =>
             (Before(ListRemove(children[v], e), a, b) <=> Before(children[v], a, b))
    BY Zenon, <2>1, RemoveOnce
  <2> DEFINE r == ListRemove(children[v], e)
  <2>3. ASSUME NEW b, Before(r, e, b) PROVE FALSE
    <3>1. PICK i \in 1..Len(r) : r[i] = e
      BY <2>3, Zenon DEF Before
    <3>2. Range(r) = {r[k] : k \in 1..Len(r)}
      BY Zenon, <2>2, RangeIs
    <3>3. e \in Range(r)
      BY <3>1, <3>2
    <3> QED BY Zenon, <2>2, <3>3
  <2> QED BY <1>6, <2>2, <2>3, Zenon
<1>8. ~reinit => pc[v] # "exit_child"
  <2>1. list_lock = e
    BY Zenon DEF ExitFree
  <2>2. pc[v] = "exit_child" => pc[v] \in HoldLabels
    BY Zenon DEF HoldLabels
  <2> QED BY <1>3, <2>1, <2>2, Zenon DEF LockOK
<1>9. ASSUME NEW p \in Procs \ {e}
      PROVE  (Holds(p)' => Holds(p)) /\ (~reinit => (Holds(p) => Holds(p)')) /\ (Taken(p) => Taken(p)')
  <2>1. p # e /\ (p \in Range(children'[v]) <=> p \in Range(children[v]))
    BY <1>7
  <2>2. /\ Keeps(v, p)' => Keeps(v, p)
        /\ ~reinit => (Keeps(v, p) => Keeps(v, p)')
        /\ Taking(v, p) => Taking(v, p)'
    <3>1. pc'[v] = pc[v] /\ target'[v] = target[v]
      BY <1>3, <1>6, Zenon
    <3>2. Taking(v, p)' <=> Taking(v, p)
      BY <3>1, Zenon DEF Taking
    <3>3. Past(v, p) => Past(v, p)'
      BY <1>7, <2>1, <3>1, Zenon DEF Past
    <3>4. ~reinit => ~Past(v, p)'
      BY <1>8, <3>1, Zenon DEF Past
    <3> QED BY <2>1, <3>1, <3>2, <3>3, <3>4, Zenon DEF Keeps
  <2>3. ASSUME NEW u \in Threads \ {v} PROVE (Keeps(u, p)' <=> Keeps(u, p)) /\ (Taking(u, p) => Taking(u, p)')
    <3>1. CASE u = e
      BY <1>2, <1>6, <3>1, KeepsPlain, KeepsPlainNext, Zenon
    <3>2. CASE u # e
      BY <1>6, <3>2, KeepsSame, Zenon
    <3> QED BY <3>1, <3>2, Zenon
  <2>4. \A u \in Threads : /\ Keeps(u, p)' => Keeps(u, p)
                           /\ ~reinit => (Keeps(u, p) => Keeps(u, p)')
                           /\ Taking(u, p) => Taking(u, p)'
    BY <2>2, <2>3, Zenon
  <2> QED BY <1>1, <2>4, Zenon DEF Holds, Taken
<1>10. CountOK(e)'
  <2>1. mem'[e] = "freed" /\ ref_count'[e] = 0
    BY <1>0, <1>1, <1>4, Zenon DEF CoreTypes
  <2>2. e \notin Range(children'[v])
    BY <1>7
  <2>3. ~Holds(e)'
    BY <1>1, <1>3, <2>2, Zenon DEF Holds, Keeps
  <2>4. Base(e)' = 0
    BY <1>2, Zenon DEF Base
  <2> QED BY <1>2, <2>1, <2>3, <2>4 DEF CountOK
<1>11. \A p \in Procs \ {e} : mem'[p] = mem[p] /\ ref_count'[p] = ref_count[p]
  BY <1>0, <1>1, Zenon DEF CoreTypes
<1>12. FoundOK(e)'
  BY <1>2, NotFound, Zenon
<1>13. ASSUME NEW u \in Threads \ {e}, pc[u] \in FoundLabels, target[u] \in Range(children[u])
       PROVE  target[u] \in Range(children'[u])
  <2>1. CASE u # v
    BY <1>6, <1>13, <2>1, Zenon
  <2>2. CASE u = v
    <3>1. ASSUME target[v] = e PROVE FALSE
      <4>1. FoundOK(v)
        BY Zenon DEF HeldInv
      <4>2. pc[v] = "wait_down"
        BY Zenon, <1>2, <1>13, <2>2, <3>1, <4>1 DEF FoundOK
      <4>3. pc[v] \notin GripLabels
        BY Zenon, <4>2 DEF GripLabels
      <4> QED BY <1>5, <1>13, <2>2, <3>1, <4>3, KeepsPlain, Zenon
    <3> QED BY Zenon, <1>7, <1>13, <2>2, <3>1
  <2> QED BY <2>1, <2>2, Zenon
<1> QED BY <1>0, <1>1, <1>2, <1>9, <1>10, <1>11, <1>12, <1>13, OneMove, Zenon

\* One turn of the loop gives up the parent's reference to w.
LEMMA LoopAt ==
  ASSUME CoreInv, NEW t \in Threads, NEW w \in Procs, ExitChild(t, w)
  PROVE  /\ Keeps(t, w) /\ w # target[t]
         /\ target[t] # NoThread =>
              \A p : p # w => (Before(children[t], target[t], p) <=> Before(children[t], w, p))
         /\ target[t] = NoThread => \A p \in Range(children[t]) \ {w} : Before(children[t], w, p)
         /\ ~Before(children[t], w, w)
<1> DEFINE s == children[t]
<1>0. s \in Seq(Procs) /\ Once(s) /\ pc[t] = "exit_child"
  BY Zenon DEF CoreInv, CoreTypes, ListOK, ExitChild, At
<1>1. PICK i \in 1..Len(s) :
        /\ s[i] = w
        /\ IF target[t] = NoThread THEN i = 1 ELSE \E j \in 1..i - 1 : s[j] = target[t] /\ i = j + 1
  BY Zenon DEF ExitChild
<1>2. Range(s) = {s[k] : k \in 1..Len(s)} /\ Len(s) \in Nat
  BY Zenon, <1>0, RangeIs
<1>3. w \in Range(s)
  BY Zenon, <1>1, <1>2
<1>4. ~Before(s, w, w)
  <2>1. ASSUME NEW a \in 1..Len(s), NEW b \in 1..Len(s), s[a] = w, s[b] = w, a < b PROVE FALSE
    <3>1. a = b
      BY <1>0, <2>1, Zenon DEF Once
    <3> QED BY <2>1, <3>1
  <2> QED BY <2>1, Zenon DEF Before
<1>5. CASE target[t] = NoThread
  <2>1. i = 1
    BY <1>1, <1>5, Zenon
  <2>2. ASSUME NEW p \in Range(s) \ {w} PROVE Before(s, w, p)
    <3>1. PICK k \in 1..Len(s) : s[k] = p
      BY Zenon, <1>2
    <3>2. k # i
      BY Zenon, <1>1, <3>1
    <3>3. i < k
      BY <2>1, <3>1, <3>2
    <3> QED BY <1>1, <3>1, <3>3, Zenon DEF Before
  <2>3. Keeps(t, w)
    BY Zenon, <1>0, <1>3, <1>5 DEF Keeps, Taking, Past
  <2>4. w # target[t]
    BY <1>5, NoThreadIsNone, Zenon
  <2> QED BY <1>4, <1>5, <2>2, <2>3, <2>4, Zenon
<1>6. CASE target[t] # NoThread
  <2>1. PICK j \in 1..i - 1 : s[j] = target[t] /\ i = j + 1
    BY <1>1, <1>6, Zenon
  <2>2. j \in 1..Len(s) /\ j < i /\ i = j + 1 /\ j \in Int /\ i \in Int
    BY <1>1, <2>1
  <2>3. Before(s, target[t], w)
    BY <1>1, <2>1, <2>2, Zenon DEF Before
  <2>4. Keeps(t, w)
    <3>1. pc[t] # "dead" /\ pc[t] \notin {"wait_lock2", "wait_free"}
      BY Zenon, <1>0
    <3> QED BY <1>3, <2>3, <3>1, Zenon DEF Keeps, Taking, Past
  <2>5. w # target[t]
    <3>1. w = target[t] => i = j
      BY <1>0, <1>1, <2>1, <2>2, Zenon DEF Once
    <3> QED BY <2>2, <3>1
  <2>6. ASSUME NEW p, p # w, Before(s, target[t], p) PROVE Before(s, w, p)
    <3>1. PICK a \in 1..Len(s), b \in 1..Len(s) : s[a] = target[t] /\ s[b] = p /\ a < b
      BY <2>6, Zenon DEF Before
    <3>2. a = j
      BY <1>0, <2>1, <2>2, <3>1, Zenon DEF Once
    <3>3. b # i
      BY <1>1, <2>6, <3>1, Zenon
    <3>4. i < b
      BY <2>2, <3>1, <3>2, <3>3
    <3> QED BY <1>1, <3>1, <3>4, Zenon DEF Before
  <2>7. ASSUME NEW p, Before(s, w, p) PROVE Before(s, target[t], p)
    <3>1. PICK a \in 1..Len(s), b \in 1..Len(s) : s[a] = w /\ s[b] = p /\ a < b
      BY <2>7, Zenon DEF Before
    <3>2. a = i
      BY <1>0, <1>1, <3>1, Zenon DEF Once
    <3>3. j < b
      BY <2>2, <3>1, <3>2
    <3> QED BY <2>1, <2>2, <3>1, <3>3, Zenon DEF Before
  <2> QED BY <1>4, <1>6, <2>4, <2>5, <2>6, <2>7, Zenon
<1> QED BY <1>5, <1>6, Zenon

LEMMA HeldExitChild ==
  ASSUME CoreInv, HeldInv, Steady, NEW t \in Threads, NEW e \in Procs, ExitChild(t, e)
  PROVE  HeldInv'
<1>0. CoreTypes /\ ListOK(t) /\ CountOK(e)
  BY Zenon DEF CoreInv, HeldInv
<1>1. /\ Step(t) /\ pc[t] = "exit_child" /\ pc'[t] = "exit_child" /\ e \in Range(children[t])
      /\ ref_count' = [ref_count EXCEPT ![e] = @ - 1]
      /\ \/ /\ ref_count[e] = 1 /\ target'[t] = target[t]
            /\ mem' = [mem EXCEPT ![e] = "freed"]
            /\ children' = [children EXCEPT ![t] = ListRemove(@, e)]
         \/ ref_count[e] # 1 /\ target'[t] = e /\ UNCHANGED <<mem, children>>
      /\ UNCHANGED parent
  BY <1>0, ExitChildIs, Zenon
<1>2. /\ pc[t] # "none" /\ pc[t] \notin FoundLabels /\ pc[t] # "dead" /\ pc[t] \notin {"wait_lock2", "wait_free"}
  BY Zenon, <1>1 DEF FoundLabels
<1>3. mem[e] = "live" /\ parent[e] = t /\ e # t /\ ref_count[e] \in Int
  <2>1. mem[e] = "live" /\ parent[e] = t
    BY <1>0, <1>1, Zenon DEF ListOK
  <2>2. parent[e] # e /\ ref_count[e] \in Int
    BY <1>0, Zenon DEF CoreTypes, CoreInv, Fresh
  <2> QED BY <2>1, <2>2, Zenon
<1>4. /\ Keeps(t, e) /\ e # target[t]
      /\ target[t] # NoThread =>
           \A p : p # e => (Before(children[t], target[t], p) <=> Before(children[t], e, p))
      /\ target[t] = NoThread => \A p \in Range(children[t]) \ {e} : Before(children[t], e, p)
      /\ ~Before(children[t], e, e)
  BY Zenon, LoopAt
<1>5. ref_count[e] = Base(e) + 1
  <2>1. Holds(e)
    BY <1>3, <1>4, Zenon DEF Holds
  <2>2. mem[e] # "none"
    BY Zenon, <1>3
  <2> QED BY <1>0, <2>1, <2>2, Zenon DEF CountOK
<1>6. /\ \A u \in Threads \ {t} : pc'[u] = pc[u] /\ target'[u] = target[u] /\ children'[u] = children[u]
      /\ pc'[e] = pc[e] /\ use' = use
  <2>1. /\ \A u \in Threads \ {t} : pc'[u] = pc[u] /\ target'[u] = target[u]
        /\ pc'[e] = pc[e] /\ use' = use
    BY <1>0, <1>1, <1>3, StepAlone, Zenon DEF Threads, Step
  <2>2. \A u \in Threads \ {t} : children'[u] = children[u]
    <3>1. CASE UNCHANGED <<mem, children>>
      BY <3>1, Zenon
    <3>2. CASE children' = [children EXCEPT ![t] = ListRemove(@, e)]
      BY Zenon, <1>0, <3>2 DEF CoreTypes
    <3> QED BY <1>1, <3>1, <3>2, Zenon
  <2> QED BY <2>1, <2>2, Zenon
<1>7. Base(e)' = Base(e) /\ Base(e) \in {-2, 0, 1}
  <2>1. Base(e)' = Base(e)
    BY <1>6, Zenon DEF Base
  <2> QED BY Zenon, <2>1 DEF Base
<1>8. ref_count'[e] = Base(e)
  BY <1>0, <1>1, <1>5, <1>7 DEF CoreTypes
<1>9. \A p \in Procs \ {e} : mem'[p] = mem[p] /\ ref_count'[p] = ref_count[p]
  BY <1>0, <1>1, Zenon DEF CoreTypes
<1>10. FoundOK(t)'
  BY <1>1, <1>2, NotFound, Zenon
<1>11. \A p \in Procs : ~Taking(t, p) /\ ~Taking(t, p)'
  BY <1>1, <1>2, Zenon DEF Taking
<1>12. ASSUME ~Keeps(t, e)', \A p \in Procs \ {e} : Keeps(t, p)' <=> Keeps(t, p),
              mem'[e] = "freed" => pc[e] # "none" /\ pc[e] \in OffLabels,
              mem'[e] # "none"
       PROVE  HeldInv'
  <2>1. ASSUME NEW p \in Procs \ {e} PROVE (Holds(p)' <=> Holds(p)) /\ (Taken(p) => Taken(p)')
    <3>1. \A u \in Threads : (Keeps(u, p)' <=> Keeps(u, p)) /\ (Taking(u, p) => Taking(u, p)')
      BY <1>6, <1>11, <1>12, KeepsSame, Zenon
    <3> QED BY <1>1, <3>1, HoldsSame, Zenon
  <2>2. CountOK(e)'
    <3>1. ~Holds(e)'
      BY <1>1, <1>3, <1>12, Zenon DEF Holds
    <3>2. Base(e)' <= ref_count'[e] /\ ref_count'[e] <= Base(e)' + 1 /\ ref_count'[e] = Base(e)'
      BY <1>7, <1>8
    <3>3. pc[e] \in FreeingLabels => ref_count[e] = 0
      BY <1>0, Zenon DEF CountOK
    <3>4. pc[e] \notin FreeingLabels
      <4>1. pc[e] \in FreeingLabels => pc[e] # "none" /\ pc[e] \in OffLabels
        BY Zenon DEF FreeingLabels, OffLabels, ExitLabels
      <4>2. pc[e] \in FreeingLabels => Base(e) = 0
        BY <4>1, Zenon DEF Base
      <4> QED BY <1>5, <3>3, <4>2
    <3>5. ref_count'[e] = 0 /\ pc[e] # "none" => mem'[e] # "live"
      <4>1. ref_count'[e] = 0 => ref_count[e] = 1
        BY <1>5, <1>8
      <4>2. ref_count[e] = 1 => mem'[e] = "freed"
        BY Zenon, <1>0, <1>1 DEF CoreTypes
      <4> QED BY Zenon, <4>1, <4>2
    <3>6. mem'[e] # "none"
      BY Zenon, <1>12
    <3> QED BY <1>6, <1>12, <3>1, <3>2, <3>4, <3>5, <3>6, Zenon DEF CountOK
  <2> QED BY <1>1, <1>2, <1>6, <1>9, <1>10, <2>1, <2>2, OneMove, Zenon
<1>13. CASE ref_count[e] = 1
  <2>1. /\ target'[t] = target[t] /\ mem' = [mem EXCEPT ![e] = "freed"]
        /\ children' = [children EXCEPT ![t] = ListRemove(@, e)]
    BY <1>1, <1>13, Zenon
  <2>2. children'[t] = ListRemove(children[t], e)
    BY Zenon, <1>0, <2>1 DEF CoreTypes
  <2>3. children[t] \in Seq(Procs) /\ Once(children[t])
    BY <1>0, Zenon DEF CoreTypes, ListOK
  <2>4. /\ Range(children'[t]) = Range(children[t]) \ {e}
        /\ \A a, b : a # e /\ b # e => (Before(children'[t], a, b) <=> Before(children[t], a, b))
    BY <2>2, <2>3, RemoveOnce
  <2>5. e \notin Range(children'[t]) /\ \A p : p # e => (p \in Range(children'[t]) <=> p \in Range(children[t]))
    BY Zenon, <2>4
  <2>6. ~Keeps(t, e)'
    BY <2>5, Zenon DEF Keeps
  <2>7. ASSUME NEW p \in Procs \ {e} PROVE Keeps(t, p)' <=> Keeps(t, p)
    <3>0. p # e
      BY Zenon
    <3>1. Past(t, p)' <=> Past(t, p)
      BY <1>1, <1>4, <2>1, <2>4, <3>0, Zenon DEF Past
    <3>2. p \in Range(children'[t]) <=> p \in Range(children[t])
      BY <2>5, <3>0, Zenon
    <3> QED BY <1>1, <1>11, <3>1, <3>2, Zenon DEF Keeps
  <2>8. mem'[e] = "freed"
    BY <1>0, <2>1, Zenon DEF CoreTypes
  <2>9. pc[e] # "none" /\ pc[e] \in OffLabels
    <3>1. Base(e) = 0
      BY <1>5, <1>7, <1>13
    <3> QED BY <3>1 DEF Base
  <2>10. mem'[e] # "none"
    BY Zenon, <2>8
  <2> QED BY <1>12, <2>6, <2>7, <2>9, <2>10, Zenon
<1>14. CASE ref_count[e] # 1
  <2>1. target'[t] = e /\ UNCHANGED <<mem, children>>
    BY <1>1, <1>14, Zenon
  <2>2. e # NoThread
    BY NoThreadIsNone, Zenon
  <2>3. ~Keeps(t, e)'
    BY <1>1, <1>4, <2>1, <2>2, Zenon DEF Keeps, Past
  <2>4. ASSUME NEW p \in Procs \ {e} PROVE Keeps(t, p)' <=> Keeps(t, p)
    <3>0. p # e
      BY Zenon
    <3>1. p \in Range(children[t]) => (Past(t, p)' <=> Past(t, p))
      <4>1. CASE target[t] = NoThread
        <5>1. p \in Range(children[t]) => Before(children[t], e, p)
          BY Zenon, <1>4, <3>0, <4>1
        <5> QED BY <2>1, <4>1, <5>1, Zenon DEF Past
      <4>2. CASE target[t] # NoThread
        BY <1>1, <1>4, <2>1, <2>2, <3>0, <4>2, Zenon DEF Past
      <4> QED BY <4>1, <4>2, Zenon
    <3> QED BY <1>1, <1>11, <2>1, <3>1, Zenon DEF Keeps
  <2>5. mem'[e] = "live" /\ mem'[e] # "none" /\ mem'[e] # "freed"
    BY Zenon, <1>3, <2>1
  <2> QED BY <1>12, <2>3, <2>4, <2>5, Zenon
<1> QED BY <1>13, <1>14, Zenon

LEMMA HeldStep == CoreInv /\ StatusInv /\ LockOK /\ HeldInv /\ [Next]_vars => HeldInv'
<1> SUFFICES ASSUME CoreInv, StatusInv, LockOK, HeldInv, Steady, [Next]_vars PROVE HeldInv'
  BY Steadily, Zenon
<1>1. ASSUME NEW t \in Threads, NEW p \in Procs, Exec(t, p) \/ Wait(t, p) PROVE HeldInv'
  BY <1>1, HeldCalm, Zenon
<1>2. ASSUME NEW t \in Threads, Continue(t) PROVE HeldInv'
  <2>1. CASE ReleaseAsserts(t)
    <3>1. UNCHANGED <<children, parent, mem, ref_count, pc, target, use>>
      BY <2>1, Zenon DEF ReleaseAsserts, Halt, wsVars
    <3> QED BY <3>1, HeldStutters, Zenon
  <2>2. CASE ExecNoMemory(t) \/ AcquireList(t, "exec_lock", "exec_push") \/ ExecFail(t) \/ ExecDone(t)
             \/ AcquireList(t, "wait_lock", "wait_find")
    BY <2>2, HeldCalm, Zenon
  <2>3. CASE WaitFind(t) \/ WaitDown(t) \/ AcquireList(t, "wait_lock2", "wait_free")
    BY <2>3, HeldWait, Zenon
  <2> QED BY <1>2, <2>1, <2>2, <2>3, HeldExecInit, HeldPush, HeldCreate, HeldWaitRef, HeldWaitFree, Zenon DEF Continue
<1>3. ASSUME NEW p \in Procs, NEW c \in Codes \cup {-1}, Exit(p, c) PROVE HeldInv'
  <2>1. p \in Threads
    BY Zenon DEF Threads
  <2> QED BY <1>3, <2>1, HeldCalm, Zenon
<1>4. ASSUME NEW p \in Procs, Leave(p) PROVE HeldInv'
  <2>1. p \in Threads
    BY Zenon DEF Threads
  <2>2. CASE Load(p) \/ LoadStack(p) \/ LoadDone(p) \/ LoadFail(p) \/ AcquireList(p, "exit_lock", "exit_free")
    BY <2>1, <2>2, HeldCalm, Zenon
  <2>3. CASE AcquireList(p, "exit_lock2", "exit_child") \/ ExitEnd(p)
    BY <2>1, <2>3, HeldLoop, Zenon
  <2>4. CASE ExitUp(p)
    BY <2>1, <2>4, HeldUp, Zenon
  <2>5. ASSUME NEW w \in Procs, ExitChild(p, w) PROVE HeldInv'
    BY <2>1, <2>5, HeldExitChild, Zenon
  <2> QED BY <1>4, <2>2, <2>3, <2>4, <2>5, HeldExitRef, HeldExitFree, Zenon DEF Leave
<1>5. CASE UNCHANGED vars
  <2>1. UNCHANGED <<children, parent, mem, ref_count, pc, target, use>>
    BY <1>5, Zenon DEF vars, wsVars
  <2> QED BY <2>1, HeldStutters, Zenon
<1> QED BY <1>1, <1>2, <1>3, <1>4, <1>5, Zenon DEF Next, Stopped

LEMMA HeldInit == Init => HeldInv
<1> SUFFICES ASSUME Init PROVE HeldInv
  BY Zenon
<1>1. ASSUME NEW p \in Procs PROVE CountOK(p)
  <2>1. pc[p] = "none" /\ mem[p] = "none" /\ ref_count[p] = 0
    BY Zenon, NoThreadIsNone DEF Init, Threads
  <2> QED BY Zenon, <2>1 DEF CountOK, FreeingLabels
<1>2. ASSUME NEW t \in Threads PROVE FoundOK(t)
  <2>1. pc[t] \notin FoundLabels
    BY Zenon DEF Init, FoundLabels
  <2> QED BY Zenon, <2>1 DEF FoundOK
<1> QED BY <1>1, <1>2, Zenon DEF HeldInv

-----------------------------------------------------------------------------
(* The types of what the layers above leave out. *)

QueueTypes ==
  list_lock \in Threads \cup {NoThread} /\ list_waiters \in Seq(Threads) /\ asleep \subseteq Threads

RestTypes ==
  /\ ref_lock \in [Procs -> Threads \cup {NoThread}]
  /\ QueueTypes
  /\ loaded \in [Procs -> {"no", "ok", "failed", "done"}]
  /\ panic \in {"no", "use_after_free", "release_not_held"}
  /\ waits \in [Threads -> 0 .. MaxWaits]

LEMMA QueueHanded ==
  ASSUME QueueTypes, NEW t \in Threads,
         \/ InitList \/ ReleaseList
         \/ AcquireList(t, "exec_lock", "exec_push") \/ AcquireList(t, "wait_lock", "wait_find")
         \/ AcquireList(t, "wait_lock2", "wait_free") \/ AcquireList(t, "exit_lock", "exit_free")
         \/ AcquireList(t, "exit_lock2", "exit_child")
  PROVE  QueueTypes'
<1>1. CASE InitList
  BY <1>1 DEF InitList, QueueTypes
<1>2. CASE ReleaseList
  <2>1. CASE list_waiters = <<>>
    BY <1>2, <2>1, Zenon DEF ReleaseList, QueueTypes
  <2>2. CASE list_waiters # <<>>
    BY <1>2, <2>2 DEF ReleaseList, QueueTypes
  <2> QED BY <2>1, <2>2, Zenon
<1>3. ASSUME NEW from, NEW to, AcquireList(t, from, to) PROVE QueueTypes'
  <2>1. Append(list_waiters, t) \in Seq(Threads) /\ asleep \cup {t} \subseteq Threads
    BY DEF QueueTypes
  <2> QED BY <1>3, <2>1, Zenon DEF AcquireList, QueueTypes
<1> QED BY <1>1, <1>2, <1>3, Zenon

LEMMA RestQueue ==
  ASSUME RestTypes, NEW t \in Threads,
         \/ ExecInit(t) \/ ExecNoMemory(t) \/ ExecPush(t) \/ WaitFind(t) \/ WaitFree(t) \/ ExitFree(t) \/ ExitEnd(t)
         \/ AcquireList(t, "exec_lock", "exec_push") \/ AcquireList(t, "wait_lock", "wait_find")
         \/ AcquireList(t, "wait_lock2", "wait_free") \/ AcquireList(t, "exit_lock", "exit_free")
         \/ AcquireList(t, "exit_lock2", "exit_child")
  PROVE  RestTypes'
<1>1. QueueTypes'
  <2>1. QueueTypes
    BY Zenon DEF RestTypes
  <2>2. InitList => QueueTypes'
    BY <2>1, QueueHanded, Zenon
  <2>3. ReleaseList => QueueTypes'
    BY <2>1, QueueHanded, Zenon
  <2>4. CASE ExecInit(t) \/ ExecNoMemory(t)
    BY <2>2, <2>4, Zenon DEF ExecInit, ExecNoMemory
  <2>5. CASE ExecPush(t) \/ WaitFind(t) \/ WaitFree(t) \/ ExitFree(t) \/ ExitEnd(t)
    BY <2>3, <2>5, Zenon DEF ExecPush, WaitFind, WaitFree, ExitFree, ExitEnd
  <2> QED BY <2>1, <2>4, <2>5, QueueHanded, Zenon
<1>2. UNCHANGED <<ref_lock, loaded, panic, waits>>
  <2>1. CASE ExecInit(t) \/ ExecNoMemory(t) \/ ExecPush(t)
    BY <2>1, Zenon DEF ExecInit, ExecNoMemory, ExecPush, wsVars, loadVars, histVars
  <2>2. CASE WaitFind(t) \/ WaitFree(t) \/ ExitFree(t) \/ ExitEnd(t)
    BY <2>2, Zenon DEF WaitFind, WaitFree, ExitFree, ExitEnd, wsVars, loadVars, histVars
  <2>3. ASSUME NEW from, NEW to, AcquireList(t, from, to) PROVE UNCHANGED <<ref_lock, loaded, panic, waits>>
    BY <2>3, Zenon DEF AcquireList, wsVars, loadVars, histVars
  <2> QED BY <2>1, <2>2, <2>3, Zenon
<1> QED BY <1>1, <1>2, Zenon DEF RestTypes

LEMMA RestCalm ==
  ASSUME CoreTypes, RestTypes, NEW t \in Threads,
         \/ \E p \in Procs : Exec(t, p) \/ Wait(t, p)
         \/ ExecCreate(t) \/ ExecFail(t) \/ ExecDone(t)
         \/ (t \in Procs /\ (Load(t) \/ LoadStack(t) \/ LoadDone(t) \/ LoadFail(t)))
         \/ WaitDown(t) \/ WaitRef(t) \/ ReleaseAsserts(t)
         \/ \E c \in Codes \cup {-1} : Exit(t, c)
         \/ (t \in Procs /\ ExitRef(t)) \/ ExitUp(t) \/ (\E w \in Procs : ExitChild(t, w))
  PROVE  RestTypes'
<1>q. UNCHANGED <<list_lock, list_waiters, asleep>> => QueueTypes'
  BY Zenon DEF RestTypes, QueueTypes
<1>s. UNCHANGED <<ref_lock, list_lock, list_waiters, asleep, loaded, panic, waits>> => RestTypes'
  BY <1>q, Zenon DEF RestTypes
<1>1. ASSUME NEW p \in Procs, Exec(t, p) PROVE RestTypes'
  BY <1>s, <1>1, Zenon DEF Exec, wsVars, lockVars, histVars
<1>2. ASSUME NEW p \in Procs, Wait(t, p) PROVE RestTypes'
  <2>1. waits' \in [Threads -> 0 .. MaxWaits]
    BY <1>2, ProcessesAssumption DEF Wait, RestTypes
  <2>2. UNCHANGED <<ref_lock, list_lock, list_waiters, asleep, loaded, panic>>
    BY <1>2, Zenon DEF Wait, wsVars, lockVars, loadVars
  <2> QED BY <1>q, <2>1, <2>2, Zenon DEF RestTypes
<1>3. CASE ExecCreate(t) \/ ExecFail(t)
  BY <1>s, <1>3, Zenon DEF ExecCreate, ExecFail, wsVars, lockVars, loadVars, histVars
<1>4. CASE ExecDone(t)
  <2>1. loaded' = [loaded EXCEPT ![target[t]] = "done"] /\ UNCHANGED <<ref_lock, list_lock, list_waiters, asleep, panic, waits>>
    BY <1>4, Zenon DEF ExecDone, wsVars, lockVars, histVars
  <2>2. loaded' \in [Procs -> {"no", "ok", "failed", "done"}]
    BY Zenon, <2>1 DEF RestTypes
  <2> QED BY <1>q, <2>1, <2>2, Zenon DEF RestTypes
<1>5. CASE Load(t) \/ LoadStack(t)
  BY <1>s, <1>5, Zenon DEF Load, LoadStack, wsVars, lockVars, histVars
<1>6. CASE LoadDone(t) \/ LoadFail(t)
  <2>1. /\ loaded' = [loaded EXCEPT ![t] = "ok"] \/ loaded' = [loaded EXCEPT ![t] = "failed"]
        /\ UNCHANGED <<ref_lock, list_lock, list_waiters, asleep, panic, waits>>
    BY <1>6, Zenon DEF LoadDone, LoadFail, wsVars, lockVars, histVars
  <2>2. loaded' \in [Procs -> {"no", "ok", "failed", "done"}]
    BY Zenon, <2>1 DEF RestTypes
  <2> QED BY <1>q, <2>1, <2>2, Zenon DEF RestTypes
<1>7. CASE WaitDown(t)
  BY <1>s, <1>7, Zenon DEF WaitDown, lockVars, loadVars
<1>8. CASE WaitRef(t)
  <2>1. /\ ref_lock' = [ref_lock EXCEPT ![target[t]] = t] \/ ref_lock' = ref_lock
        /\ UNCHANGED <<list_lock, list_waiters, asleep, loaded, panic, waits>>
    BY <1>8, Zenon DEF WaitRef, lockVars, loadVars, histVars
  <2>2. ref_lock' \in [Procs -> Threads \cup {NoThread}]
    BY Zenon, <2>1 DEF RestTypes
  <2> QED BY <1>q, <2>1, <2>2, Zenon DEF RestTypes
<1>9. CASE ReleaseAsserts(t) \/ ExitUp(t)
  <2>1. /\ panic' \in {"use_after_free", "release_not_held"} \/ panic' = panic
        /\ UNCHANGED <<ref_lock, list_lock, list_waiters, asleep, loaded, waits>>
    <3>1. CASE ReleaseAsserts(t)
      BY Zenon, <3>1 DEF ReleaseAsserts, Halt, wsVars, lockVars, loadVars, histVars
    <3>2. CASE ExitUp(t)
      BY Zenon, <3>2 DEF ExitUp, Halt, wsVars, lockVars, loadVars, histVars
    <3> QED BY <1>9, <3>1, <3>2, Zenon
  <2>2. panic' \in {"no", "use_after_free", "release_not_held"}
    BY Zenon, <2>1 DEF RestTypes
  <2> QED BY <1>q, <2>1, <2>2, Zenon DEF RestTypes
<1>10. ASSUME NEW c, Exit(t, c) PROVE RestTypes'
  BY <1>s, <1>10, Zenon DEF Exit, lockVars, loadVars
<1>11. CASE ExitRef(t)
  <2>1. /\ ref_lock' = [ref_lock EXCEPT ![t] = t] \/ ref_lock' = ref_lock
        /\ UNCHANGED <<list_lock, list_waiters, asleep, loaded, panic, waits>>
    BY <1>11, Zenon DEF ExitRef, lockVars, loadVars, histVars
  <2>2. ref_lock' \in [Procs -> Threads \cup {NoThread}]
    BY Zenon, <2>1 DEF RestTypes
  <2> QED BY <1>q, <2>1, <2>2, Zenon DEF RestTypes
<1>12. ASSUME NEW w \in Procs, ExitChild(t, w) PROVE RestTypes'
  BY <1>s, <1>12, Zenon DEF ExitChild, lockVars, loadVars, histVars
<1> QED BY <1>1, <1>2, <1>3, <1>4, <1>5, <1>6, <1>7, <1>8, <1>9, <1>10, <1>11, <1>12, Zenon

LEMMA RestStep == CoreTypes /\ RestTypes /\ [Next]_vars => RestTypes'
<1> SUFFICES ASSUME CoreTypes, RestTypes, [Next]_vars PROVE RestTypes'
  BY Zenon
<1>1. ASSUME NEW t \in Threads, NEW p \in Procs, Exec(t, p) \/ Wait(t, p) PROVE RestTypes'
  BY <1>1, RestCalm, Zenon
<1>2. ASSUME NEW t \in Threads, Continue(t) PROVE RestTypes'
  BY <1>2, RestCalm, RestQueue, Zenon DEF Continue
<1>3. ASSUME NEW p \in Procs, NEW c \in Codes \cup {-1}, Exit(p, c) PROVE RestTypes'
  BY <1>3, RestCalm, Zenon DEF Threads
<1>4. ASSUME NEW p \in Procs, Leave(p) PROVE RestTypes'
  <2>1. p \in Threads
    BY Zenon DEF Threads
  <2> QED BY <1>4, <2>1, RestCalm, RestQueue, Zenon DEF Leave
<1>5. CASE UNCHANGED vars
  BY <1>5, Zenon DEF RestTypes, QueueTypes, vars, wsVars, lockVars, loadVars, histVars
<1> QED BY <1>1, <1>2, <1>3, <1>4, <1>5, Zenon DEF Next, Stopped

FaultTypes == reinit \in BOOLEAN /\ mixed \subseteq Procs

LEMMA FaultStep == CoreInv /\ FaultTypes /\ [Next]_vars => FaultTypes'
<1> SUFFICES ASSUME CoreInv, FaultTypes, [Next]_vars PROVE FaultTypes'
  BY Zenon
<1>0. ASSUME UNCHANGED faultVars PROVE FaultTypes'
  BY <1>0, Zenon DEF faultVars, FaultTypes
<1>1. ASSUME NEW t \in Threads, NEW p \in Procs, Exec(t, p) PROVE FaultTypes'
  <2>1. reinit' = reinit /\ (mixed' = mixed \/ mixed' = mixed \cup Starting \cup {p})
    BY <1>1, Zenon DEF Exec
  <2>2. ASSUME NEW q \in Starting PROVE q \in Procs
    <3>1. CASE \E u \in Threads : pc[u] \in ExecLabels /\ q = target[u]
      <4>1. PICK u \in Threads : pc[u] \in ExecLabels /\ q = target[u]
        BY <3>1, Zenon
      <4>2. pc[u] \in AimedLabels
        BY <4>1 DEF AimedLabels, ExecLabels
      <4> QED BY <4>1, <4>2, Zenon DEF CoreInv, TargetOK
    <3> QED BY <2>2, <3>1, Zenon DEF Starting
  <2> QED BY Zenon, <2>1, <2>2 DEF FaultTypes
<1>2. ASSUME NEW t, NEW from, NEW to, AcquireList(t, from, to) PROVE FaultTypes'
  BY <1>0, <1>2, Zenon DEF AcquireList
<1>3. ASSUME NEW t, ExecInit(t) \/ ExecNoMemory(t) PROVE FaultTypes'
  BY <1>3 DEF ExecInit, ExecNoMemory, InitList, FaultTypes
<1>4. ASSUME NEW t, ReleaseAsserts(t) \/ ExitUp(t) PROVE FaultTypes'
  BY <1>0, <1>4, Zenon DEF ReleaseAsserts, ExitUp, Halt
<1>5. ASSUME NEW t, NEW p, Wait(t, p) PROVE FaultTypes'
  BY <1>0, <1>5, Zenon DEF Wait
<1>6. ASSUME NEW t, Continue(t) PROVE FaultTypes'
  <2>1. \/ ExecInit(t) \/ ExecNoMemory(t) \/ ReleaseAsserts(t) \/ (\E from, to : AcquireList(t, from, to))
        \/ UNCHANGED faultVars
    BY <1>6, Zenon DEF Continue, ExecPush, ExecCreate, ExecFail, ExecDone, WaitFind, WaitDown, WaitRef, WaitFree
  <2> QED BY <1>0, <1>2, <1>3, <1>4, <2>1, Zenon
<1>7. ASSUME NEW p, Leave(p) PROVE FaultTypes'
  <2>1. \/ ExitUp(p) \/ (\E from, to : AcquireList(p, from, to)) \/ UNCHANGED faultVars
    BY <1>7, Zenon DEF Leave, Load, LoadStack, LoadDone, LoadFail, ExitRef, ExitFree, ExitChild, ExitEnd
  <2> QED BY <1>0, <1>2, <1>4, <2>1, Zenon
<1>8. ASSUME NEW p, NEW c, Exit(p, c) PROVE FaultTypes'
  BY <1>0, <1>8, Zenon DEF Exit
<1>9. CASE UNCHANGED vars
  BY <1>0, <1>9, Zenon DEF vars
<1> QED BY <1>1, <1>5, <1>6, <1>7, <1>8, <1>9, Zenon DEF Next, Stopped

LEMMA RestInit == Init => RestTypes /\ FaultTypes
<1> SUFFICES ASSUME Init PROVE RestTypes /\ FaultTypes
  BY Zenon
<1>1. waits \in [Threads -> 0 .. MaxWaits]
  BY ProcessesAssumption DEF Init
<1>2. QueueTypes
  BY DEF Init, QueueTypes
<1>3. /\ ref_lock \in [Procs -> Threads \cup {NoThread}]
      /\ loaded \in [Procs -> {"no", "ok", "failed", "done"}]
      /\ panic \in {"no", "use_after_free", "release_not_held"}
  BY Zenon DEF Init
<1>4. FaultTypes
  BY DEF Init, FaultTypes
<1> QED BY <1>1, <1>2, <1>3, <1>4, Zenon DEF RestTypes

-----------------------------------------------------------------------------
(* Children that outlive their parents, and the causes of a panic. *)

GoneLabels == {"exit_child", "dead"}

\* A child's wait_status is on its parent's list until it is freed; and when a
\* child frees it, or has yet to sema_up() one that was freed, the parent is
\* past it in its exit loop, or dead.
OrphanOK ==
  \A p \in Procs, v \in Threads : parent[p] = v /\ pc[p] # "none" =>
    /\ mem[p] = "live" => p \in Range(children[v])
    /\ pc[p] \in FreeingLabels \/ (mem[p] = "freed" /\ pc[p] \notin LeftLabels) => pc[v] \in GoneLabels

LEMMA OrphanMove ==
  ASSUME CoreTypes, OrphanOK, NEW t \in Threads, Step(t), parent' = parent,
         pc[t] # "none", pc'[t] # "none",
         pc[t] \in GoneLabels => pc'[t] \in GoneLabels,
         pc[t] \in LeftLabels => pc'[t] \in LeftLabels,
         \A v \in Threads :
           t \in Procs /\ parent[t] = v /\ pc'[t] \in FreeingLabels => pc[t] \in FreeingLabels \/ pc[v] \in GoneLabels,
         \A p \in Procs, v \in Threads : parent[p] = v /\ pc[p] # "none" =>
           /\ mem'[p] = "live" => mem[p] = "live" /\ (p \in Range(children[v]) => p \in Range(children'[v]))
           /\ mem'[p] = "freed" => mem[p] = "freed" \/ pc[p] \in LeftLabels \/ pc[v] \in GoneLabels
  PROVE  OrphanOK'
<1>0. (\A u \in Threads \ {t} : pc'[u] = pc[u]) /\ (\A p \in Procs : p \in Threads)
  BY StepAlone, Zenon DEF Threads
<1>1. SUFFICES ASSUME NEW p \in Procs, NEW v \in Threads, parent'[p] = v, pc'[p] # "none"
               PROVE  /\ mem'[p] = "live" => p \in Range(children'[v])
                      /\ pc'[p] \in FreeingLabels \/ (mem'[p] = "freed" /\ pc'[p] \notin LeftLabels) =>
                           pc'[v] \in GoneLabels
  BY Zenon DEF OrphanOK
<1>2. parent[p] = v /\ pc[p] # "none"
  BY <1>0, <1>1, Zenon
<1>3. /\ mem[p] = "live" => p \in Range(children[v])
      /\ pc[p] \in FreeingLabels \/ (mem[p] = "freed" /\ pc[p] \notin LeftLabels) => pc[v] \in GoneLabels
  BY <1>2, Zenon DEF OrphanOK
<1>4. pc[v] \in GoneLabels => pc'[v] \in GoneLabels
  BY <1>0, Zenon
<1>5. pc[p] \in LeftLabels => pc'[p] \in LeftLabels
  BY <1>0, Zenon
<1>6. ASSUME pc'[p] \in FreeingLabels PROVE pc[v] \in GoneLabels
  <2>1. CASE p = t
    BY <1>2, <1>3, <1>6, <2>1, Zenon
  <2>2. CASE p # t
    BY <1>0, <1>3, <1>6, <2>2, Zenon
  <2> QED BY <2>1, <2>2, Zenon
<1>7. ASSUME mem'[p] = "freed", pc'[p] \notin LeftLabels PROVE pc[v] \in GoneLabels
  BY <1>2, <1>3, <1>5, <1>7, Zenon
<1>8. mem'[p] = "live" => p \in Range(children'[v])
  BY <1>2, <1>3, Zenon
<1> QED BY <1>4, <1>6, <1>7, <1>8, Zenon

\* An action that neither makes nor frees a wait_status.
LEMMA OrphanPlain ==
  ASSUME CoreTypes, OrphanOK, NEW t \in Threads, Step(t), UNCHANGED <<children, parent, mem>>,
         pc[t] # "none", pc'[t] # "none",
         pc[t] \in GoneLabels => pc'[t] \in GoneLabels,
         pc[t] \in LeftLabels => pc'[t] \in LeftLabels,
         pc'[t] \in FreeingLabels => pc[t] \in FreeingLabels
  PROVE  OrphanOK'
<1>1. parent' = parent /\ mem' = mem /\ children' = children
  BY Zenon
<1> QED BY <1>1, OrphanMove, Zenon

LEMMA OrphanCalm ==
  ASSUME CoreInv, OrphanOK, NEW t \in Threads,
         \/ \E p \in Procs : Exec(t, p) \/ Wait(t, p)
         \/ ExecNoMemory(t) \/ ExecFail(t) \/ ExecDone(t)
         \/ Load(t) \/ LoadStack(t) \/ LoadDone(t) \/ LoadFail(t)
         \/ WaitFind(t) \/ WaitDown(t) \/ WaitRef(t) \/ ExitEnd(t)
         \/ \E c \in Codes \cup {-1} : Exit(t, c)
         \/ AcquireList(t, "exec_lock", "exec_push") \/ AcquireList(t, "wait_lock", "wait_find")
         \/ AcquireList(t, "wait_lock2", "wait_free") \/ AcquireList(t, "exit_lock", "exit_free")
         \/ AcquireList(t, "exit_lock2", "exit_child")
  PROVE  OrphanOK'
<1> DEFINE Live == {"run", "exec_init", "exec_lock", "exec_push", "exec_create", "exec_wait", "load", "load_stack",
                    "load_done", "wait_lock", "wait_find", "wait_down", "wait_ref", "wait_lock2", "wait_free", "exit"}
           Kind == \/ pc[t] \in Live /\ pc'[t] \in Live
                   \/ pc[t] \in FreeingLabels /\ pc'[t] \in FreeingLabels
                   \/ pc[t] = "exit_lock2" /\ pc'[t] \in LeftLabels
                   \/ pc[t] \in GoneLabels /\ pc'[t] \in GoneLabels
           Quiet == Step(t) /\ Kind /\ UNCHANGED <<children, parent, mem>>
<1>0. CoreTypes
  BY Zenon DEF CoreInv
<1>1. ASSUME NEW p \in Procs, Exec(t, p) \/ Wait(t, p) PROVE Quiet
  BY Zenon, <1>0, <1>1, ExecIs, WaitIs DEF coreVars
<1>2. ASSUME ExecNoMemory(t) \/ ExecFail(t) \/ ExecDone(t) PROVE Quiet
  BY Zenon, <1>0, <1>2, ExecNoMemoryIs, ExecFailIs, ExecDoneIs DEF coreVars
<1>3. ASSUME Load(t) \/ LoadStack(t) \/ LoadDone(t) \/ LoadFail(t) PROVE Quiet
  BY Zenon, <1>0, <1>3, LoadIs, LoadStackIs, LoadDoneIs, LoadFailIs DEF coreVars
<1>4. ASSUME WaitFind(t) \/ WaitDown(t) \/ WaitRef(t) PROVE Quiet
  BY Zenon, <1>0, <1>4, WaitFindIs, WaitDownIs, WaitRefIs DEF coreVars
<1>5. ASSUME ExitEnd(t) PROVE Quiet
  BY Zenon, <1>0, <1>5, ExitEndIs DEF coreVars, GoneLabels
<1>6. ASSUME NEW c, Exit(t, c) PROVE Quiet
  BY Zenon, <1>0, <1>6, ExitIs DEF coreVars
<1>7. ASSUME NEW from, NEW to \in Label, AcquireList(t, from, to),
             \/ from \in Live /\ to \in Live
             \/ from \in FreeingLabels /\ to \in FreeingLabels
             \/ from = "exit_lock2" /\ from \in LeftLabels /\ to \in LeftLabels
      PROVE  Quiet
  <2>1. Step(t) /\ pc[t] = from /\ pc'[t] \in {from, to} /\ UNCHANGED coreVars
    BY Zenon, <1>0, <1>7, AcquireListIs
  <2> QED BY Zenon, <1>7, <2>1 DEF coreVars
<1>8. /\ "exec_lock" \in Live /\ "exec_push" \in Live /\ "wait_lock" \in Live /\ "wait_find" \in Live
      /\ "wait_lock2" \in Live /\ "wait_free" \in Live
      /\ "exit_lock" \in FreeingLabels /\ "exit_free" \in FreeingLabels
      /\ "exit_lock2" \in LeftLabels /\ "exit_child" \in LeftLabels
  BY Zenon DEF FreeingLabels, LeftLabels
<1>9. Quiet
  <2> HIDE DEF Live, Kind, Quiet
  <2> QED BY <1>1, <1>2, <1>3, <1>4, <1>5, <1>6, <1>7, <1>8, LabelsAre, Zenon
<1>10. /\ pc[t] # "none" /\ pc'[t] # "none" /\ (pc[t] \in GoneLabels => pc'[t] \in GoneLabels)
       /\ (pc[t] \in LeftLabels => pc'[t] \in LeftLabels) /\ (pc'[t] \in FreeingLabels => pc[t] \in FreeingLabels)
  BY Zenon, <1>9 DEF FreeingLabels, GoneLabels, LeftLabels
<1> QED BY <1>0, <1>9, <1>10, OrphanPlain, Zenon

\* The actions that free a wait_status, and the one that makes it.
LEMMA OrphanFree ==
  ASSUME CoreInv, HeldInv, OrphanOK, NEW t \in Threads,
         \/ ExecInit(t) \/ WaitFree(t) \/ (\E w \in Procs : ExitChild(t, w)) \/ (t \in Procs /\ ExitFree(t))
  PROVE  OrphanOK'
<1>0. CoreTypes /\ FoundOK(t) /\ TargetOK(t) /\ (\A v \in Threads : ListOK(v))
  BY Zenon DEF CoreInv, HeldInv
<1>l. /\ "exec_init" \notin GoneLabels /\ "exec_init" \notin LeftLabels /\ "exec_lock" \notin FreeingLabels
      /\ "exec_init" \in AimedLabels /\ "exec_init" \in ExecLabels
      /\ "wait_free" \notin GoneLabels /\ "wait_free" \notin LeftLabels /\ "run" \notin FreeingLabels
      /\ "wait_free" \in FoundLabels \ {"wait_down"} /\ "wait_free" \in FoundLabels /\ "wait_free" \in AimedLabels
      /\ "exit_child" \in GoneLabels /\ "exit_child" \in LeftLabels /\ "exit_child" \notin FreeingLabels
      /\ "exit_free" \notin GoneLabels /\ "exit_free" \notin LeftLabels /\ "exit_free" \in FreeingLabels
      /\ "exit_up" \notin FreeingLabels
  BY Zenon DEF GoneLabels, LeftLabels, FreeingLabels, FoundLabels, AimedLabels, ExecLabels
<1>1. CASE ExecInit(t)
  <2>1. /\ Step(t) /\ pc[t] = "exec_init" /\ pc'[t] = "exec_lock"
        /\ mem' = [mem EXCEPT ![target[t]] = "live"] /\ UNCHANGED <<children, parent>>
    BY <1>0, <1>1, ExecInitIs, Zenon
  <2>2. target[t] \in Procs /\ pc[target[t]] = "none"
    BY <1>0, <1>l, <2>1, Zenon DEF TargetOK
  <2>3. \A p \in Procs : pc[p] # "none" => mem'[p] = mem[p]
    BY <1>0, <2>1, <2>2, Zenon DEF CoreTypes
  <2>4. pc[t] # "none" /\ pc'[t] # "none"
    BY Zenon, <2>1
  <2> QED BY <1>0, <1>l, <2>1, <2>3, <2>4, OrphanMove, Zenon
<1>2. CASE WaitFree(t)
  <2>1. /\ Step(t) /\ pc[t] = "wait_free" /\ pc'[t] = "run"
        /\ children' = [children EXCEPT ![t] = ListRemove(@, target[t])]
        /\ mem' = [mem EXCEPT ![target[t]] = "freed"] /\ parent' = parent
    BY <1>0, <1>2, WaitFreeIs, Zenon
  <2>2. PICK e \in Procs : target[t] = e /\ pc[e] \in LeftLabels
    BY <1>0, <1>l, <2>1, Zenon DEF FoundOK, TargetOK
  <2>3. (\A p \in Procs \ {e} : mem'[p] = mem[p]) /\ mem'[e] = "freed" /\ mem'[e] # "live"
    <3>1. (\A p \in Procs \ {e} : mem'[p] = mem[p]) /\ mem'[e] = "freed"
      BY <1>0, <2>1, <2>2, Zenon DEF CoreTypes
    <3> QED BY Zenon, <3>1
  <2>4. \A v \in Threads \ {t} : children'[v] = children[v]
    BY Zenon, <1>0, <2>1 DEF CoreTypes
  <2>5. Range(children'[t]) = Range(children[t]) \ {e}
    <3>1. children[t] \in Seq(Procs) /\ Once(children[t])
      BY <1>0, Zenon DEF CoreTypes, ListOK
    <3>2. children'[t] = ListRemove(children[t], e)
      BY Zenon, <1>0, <2>1, <2>2 DEF CoreTypes
    <3> QED BY Zenon, <3>1, <3>2, RemoveOnce
  <2>6. ASSUME NEW p \in Procs, p # e, NEW v \in Threads, p \in Range(children[v]) PROVE p \in Range(children'[v])
    <3>1. CASE v = t
      BY Zenon, <2>5, <2>6, <3>1
    <3>2. CASE v # t
      BY <2>4, <2>6, <3>2, Zenon
    <3> QED BY <3>1, <3>2, Zenon
  <2>7. ASSUME NEW p \in Procs, NEW v \in Threads, parent[p] = v, pc[p] # "none"
        PROVE  /\ mem'[p] = "live" => mem[p] = "live" /\ (p \in Range(children[v]) => p \in Range(children'[v]))
               /\ mem'[p] = "freed" => mem[p] = "freed" \/ pc[p] \in LeftLabels \/ pc[v] \in GoneLabels
    <3>1. CASE p = e
      BY <2>2, <2>3, <3>1, Zenon
    <3>2. CASE p # e
      BY <2>3, <2>6, <3>2, Zenon
    <3> QED BY <3>1, <3>2, Zenon
  <2>8. pc[t] # "none" /\ pc'[t] # "none"
    BY Zenon, <2>1
  <2> QED BY <1>0, <1>l, <2>1, <2>7, <2>8, OrphanMove, Zenon
<1>3. ASSUME NEW e \in Procs, ExitChild(t, e) PROVE OrphanOK'
  <2>1. /\ Step(t) /\ pc[t] = "exit_child" /\ pc'[t] = "exit_child" /\ parent' = parent /\ e \in Range(children[t])
        /\ \/ mem' = [mem EXCEPT ![e] = "freed"] /\ children' = [children EXCEPT ![t] = ListRemove(@, e)]
           \/ UNCHANGED <<mem, children>>
    BY <1>0, <1>3, ExitChildIs, Zenon
  <2>2. pc[t] # "none" /\ pc'[t] # "none" /\ parent[e] = t
    <3>1. parent[e] = t
      BY <1>0, <2>1, Zenon DEF ListOK
    <3> QED BY Zenon, <2>1, <3>1
  <2>3. CASE UNCHANGED <<mem, children>>
    BY <1>0, <1>l, <2>1, <2>2, <2>3, OrphanPlain, Zenon
  <2>4. CASE mem' = [mem EXCEPT ![e] = "freed"] /\ children' = [children EXCEPT ![t] = ListRemove(@, e)]
    <3>1. (\A p \in Procs \ {e} : mem'[p] = mem[p]) /\ mem'[e] = "freed" /\ mem'[e] # "live"
      <4>1. (\A p \in Procs \ {e} : mem'[p] = mem[p]) /\ mem'[e] = "freed"
        BY <1>0, <2>4, Zenon DEF CoreTypes
      <4> QED BY Zenon, <4>1
    <3>2. \A v \in Threads \ {t} : children'[v] = children[v]
      BY Zenon, <1>0, <2>4 DEF CoreTypes
    <3>3. Range(children'[t]) = Range(children[t]) \ {e}
      <4>1. children[t] \in Seq(Procs) /\ Once(children[t])
        BY <1>0, Zenon DEF CoreTypes, ListOK
      <4>2. children'[t] = ListRemove(children[t], e)
        BY Zenon, <1>0, <2>4 DEF CoreTypes
      <4> QED BY Zenon, <4>1, <4>2, RemoveOnce
    <3>4. ASSUME NEW p \in Procs, p # e, NEW v \in Threads, p \in Range(children[v]) PROVE p \in Range(children'[v])
      <4>1. CASE v = t
        BY Zenon, <3>3, <3>4, <4>1
      <4>2. CASE v # t
        BY <3>2, <3>4, <4>2, Zenon
      <4> QED BY <4>1, <4>2, Zenon
    <3>5. ASSUME NEW p \in Procs, NEW v \in Threads, parent[p] = v, pc[p] # "none"
          PROVE  /\ mem'[p] = "live" => mem[p] = "live" /\ (p \in Range(children[v]) => p \in Range(children'[v]))
                 /\ mem'[p] = "freed" => mem[p] = "freed" \/ pc[p] \in LeftLabels \/ pc[v] \in GoneLabels
      <4>1. CASE p = e
        BY <1>l, <2>1, <2>2, <3>1, <3>5, <4>1, Zenon
      <4>2. CASE p # e
        BY <3>1, <3>4, <4>2, Zenon
      <4> QED BY <4>1, <4>2, Zenon
    <3> QED BY <1>0, <1>l, <2>1, <2>2, <3>5, OrphanMove, Zenon
  <2> QED BY <2>1, <2>3, <2>4, Zenon
<1>4. ASSUME t \in Procs, ExitFree(t) PROVE OrphanOK'
  <2>1. /\ Step(t) /\ pc[t] = "exit_free" /\ pc'[t] = "exit_up" /\ parent' = parent
        /\ children' = [children EXCEPT ![parent[t]] = ListRemove(@, t)]
        /\ mem' = [mem EXCEPT ![t] = "freed"]
    BY <1>0, <1>4, ExitFreeIs, Zenon
  <2>2. pc[t] # "none" /\ pc'[t] # "none"
    BY Zenon, <2>1
  <2>3. PICK w \in Threads : parent[t] = w
    BY <1>4, <2>2, Zenon DEF CoreInv, Fresh
  <2>4. pc[w] \in GoneLabels
    BY <1>4, <1>l, <2>1, <2>2, <2>3, Zenon DEF OrphanOK
  <2>5. (\A p \in Procs \ {t} : mem'[p] = mem[p]) /\ mem'[t] # "live"
    <3>1. (\A p \in Procs \ {t} : mem'[p] = mem[p]) /\ mem'[t] = "freed"
      BY <1>0, <1>4, <2>1, Zenon DEF CoreTypes
    <3> QED BY Zenon, <3>1
  <2>6. \A v \in Threads \ {w} : children'[v] = children[v]
    BY Zenon, <1>0, <2>1, <2>3 DEF CoreTypes
  <2>7. Range(children'[w]) = Range(children[w]) \ {t}
    <3>1. children[w] \in Seq(Procs) /\ Once(children[w])
      BY <1>0, Zenon DEF CoreTypes, ListOK
    <3>2. children'[w] = ListRemove(children[w], t)
      BY Zenon, <1>0, <2>1, <2>3 DEF CoreTypes
    <3> QED BY Zenon, <1>4, <3>1, <3>2, RemoveOnce
  <2>8. ASSUME NEW p \in Procs, p # t, NEW v \in Threads, p \in Range(children[v]) PROVE p \in Range(children'[v])
    <3>1. CASE v = w
      BY Zenon, <2>7, <2>8, <3>1
    <3>2. CASE v # w
      BY <2>6, <2>8, <3>2, Zenon
    <3> QED BY <3>1, <3>2, Zenon
  <2>9. ASSUME NEW p \in Procs, NEW v \in Threads, parent[p] = v, pc[p] # "none"
        PROVE  /\ mem'[p] = "live" => mem[p] = "live" /\ (p \in Range(children[v]) => p \in Range(children'[v]))
               /\ mem'[p] = "freed" => mem[p] = "freed" \/ pc[p] \in LeftLabels \/ pc[v] \in GoneLabels
    <3>1. CASE p = t
      BY <2>3, <2>4, <2>5, <2>9, <3>1, Zenon
    <3>2. CASE p # t
      BY <2>5, <2>8, <3>2, Zenon
    <3> QED BY <3>1, <3>2, Zenon
  <2> QED BY <1>0, <1>l, <2>1, <2>2, <2>9, OrphanMove, Zenon
<1> QED BY <1>1, <1>2, <1>3, <1>4, Zenon

LEMMA OrphanPush ==
  ASSUME CoreInv, OrphanOK, NEW t \in Threads, ExecPush(t) \/ ExecCreate(t)
  PROVE  OrphanOK'
<1>0. CoreTypes /\ TargetOK(t)
  BY Zenon DEF CoreInv
<1>l. /\ "exec_push" \in AimedLabels /\ "exec_push" \in ExecLabels
      /\ "exec_push" \notin GoneLabels /\ "exec_create" \notin GoneLabels
      /\ "exec_create" \notin FreeingLabels /\ "exec_push" \notin LeftLabels /\ "exec_create" \notin LeftLabels
      /\ "load" \notin FreeingLabels /\ "none" \notin GoneLabels
      /\ \A l \in {"wait_lock", "exec_wait"} : l \notin FreeingLabels /\ l # "none" /\ l \notin LeftLabels
  BY Zenon DEF LeftLabels, GoneLabels, FreeingLabels, AimedLabels, ExecLabels
<1>1. CASE ExecPush(t)
  <2>1. /\ Step(t) /\ pc[t] = "exec_push" /\ pc'[t] = "exec_create" /\ mem' = mem
        /\ children' = [children EXCEPT ![t] = <<target[t]>> \o @] /\ parent' = [parent EXCEPT ![target[t]] = t]
    BY <1>0, <1>1, ExecPushIs, Zenon
  <2>2. PICK e \in Procs : target[t] = e /\ pc[e] = "none"
    BY <1>0, <1>l, <2>1, Zenon DEF TargetOK
  <2>3. \A u \in Threads \ {t} : pc'[u] = pc[u] /\ children'[u] = children[u]
    <3>1. \A u \in Threads \ {t} : children'[u] = children[u]
      BY Zenon, <1>0, <2>1 DEF CoreTypes
    <3> QED BY <1>0, <2>1, <3>1, StepAlone, Zenon
  <2>4. ASSUME NEW p \in Range(children[t]) PROVE p \in Range(children'[t])
    <3> DEFINE s == children[t]
    <3>1. s \in Seq(Procs) /\ children'[t] = <<e>> \o s
      BY Zenon, <1>0, <2>1, <2>2 DEF CoreTypes
    <3> QED BY <3>1, PushRange
  <2>5. \A p \in Procs \ {e} : parent'[p] = parent[p]
    BY Zenon, <1>0, <2>1, <2>2 DEF CoreTypes
  <2>6. pc'[e] = "none"
    <3>1. e # t
      BY Zenon, <2>1, <2>2
    <3> QED BY <2>2, <2>3, <3>1, Zenon DEF Threads
  <2>7. SUFFICES ASSUME NEW p \in Procs, NEW v \in Threads, parent'[p] = v, pc'[p] # "none"
                 PROVE  /\ mem'[p] = "live" => p \in Range(children'[v])
                        /\ pc'[p] \in FreeingLabels \/ (mem'[p] = "freed" /\ pc'[p] \notin LeftLabels) =>
                             pc'[v] \in GoneLabels
    BY Zenon DEF OrphanOK
  <2>8. p # e /\ parent[p] = v
    BY <2>5, <2>6, <2>7, Zenon
  <2>9. p = t \/ pc'[p] = pc[p]
    BY <2>3, Zenon DEF Threads
  <2>10. pc[t] # "none"
    BY Zenon, <2>1
  <2>11. /\ mem[p] = "live" => p \in Range(children[v])
         /\ pc[p] \in FreeingLabels \/ (mem[p] = "freed" /\ pc[p] \notin LeftLabels) => pc[v] \in GoneLabels
    BY <2>7, <2>8, <2>9, <2>10, Zenon DEF OrphanOK
  <2>12. pc'[p] \in FreeingLabels => pc[p] \in FreeingLabels
    BY <1>l, <2>1, <2>9, Zenon
  <2>13. pc[p] \in LeftLabels => pc'[p] \in LeftLabels
    BY <1>l, <2>1, <2>9, Zenon
  <2>14. pc[v] \in GoneLabels => pc'[v] \in GoneLabels
    BY <1>l, <2>1, <2>3, Zenon
  <2>15. p \in Range(children[v]) => p \in Range(children'[v])
    BY <2>3, <2>4, Zenon
  <2> QED BY <2>1, <2>11, <2>12, <2>13, <2>14, <2>15, Zenon
<1>2. CASE ExecCreate(t)
  <2>1. PICK e \in Procs :
           /\ pc[t] = "exec_create" /\ target[t] = e /\ pc[e] = "none" /\ e \in Range(children[t])
           /\ parent[e] = t /\ mem[e] = "live" /\ ref_count[e] = -1
           /\ my_wait' = [my_wait EXCEPT ![e] = TRUE]
           /\ ref_count' = [ref_count EXCEPT ![e] = 2]
           /\ ws_tid' = [ws_tid EXCEPT ![e] = e]
           /\ exit_code' = [exit_code EXCEPT ![e] = -1]
           /\ pc' = [pc EXCEPT ![e] = "load", ![t] = IF t = Main THEN "wait_lock" ELSE "exec_wait"]
           /\ UNCHANGED <<use, target, children, parent, mem, sema, got, code>>
    BY <1>2, CreateIs, Zenon
  <2>2. /\ e # t /\ pc'[e] = "load" /\ pc'[t] \in {"wait_lock", "exec_wait"}
        /\ \A u \in Threads \ {t, e} : pc'[u] = pc[u]
    BY Zenon, <1>0, <2>1 DEF CoreTypes, Threads
  <2>3. SUFFICES ASSUME NEW p \in Procs, NEW v \in Threads, parent[p] = v, pc'[p] # "none"
                 PROVE  /\ mem[p] = "live" => p \in Range(children[v])
                        /\ pc'[p] \in FreeingLabels \/ (mem[p] = "freed" /\ pc'[p] \notin LeftLabels) =>
                             pc'[v] \in GoneLabels
    BY <2>1, Zenon DEF OrphanOK
  <2>4. CASE p = e
    <3>1. v = t /\ ~(mem[p] = "freed")
      BY Zenon, <2>1, <2>3, <2>4
    <3> QED BY <1>l, <2>1, <2>2, <2>4, <3>1, Zenon
  <2>5. CASE p # e
    <3>1. p = t \/ pc'[p] = pc[p]
      BY <2>2, <2>5 DEF Threads
    <3>2. pc[t] # "none"
      BY Zenon, <2>1
    <3>3. /\ mem[p] = "live" => p \in Range(children[v])
          /\ pc[p] \in FreeingLabels \/ (mem[p] = "freed" /\ pc[p] \notin LeftLabels) => pc[v] \in GoneLabels
      BY <2>3, <3>1, <3>2, Zenon DEF OrphanOK
    <3>4. (pc'[p] \in FreeingLabels => pc[p] \in FreeingLabels) /\ (pc[p] \in LeftLabels => pc'[p] \in LeftLabels)
      BY <1>l, <2>1, <2>2, <3>1, Zenon
    <3>5. pc[v] \in GoneLabels => pc'[v] \in GoneLabels
      <4>1. pc[v] \in GoneLabels => v \notin {t, e}
        BY Zenon, <1>l, <2>1
      <4> QED BY <2>2, <4>1, Zenon
    <3> QED BY <3>3, <3>4, <3>5, Zenon
  <2> QED BY <2>4, <2>5, Zenon
<1> QED BY <1>1, <1>2, Zenon

\* The child gives up its reference: it is the last one only if its parent is
\* past it.  Then it wakes a parent that waits for it.
LEMMA OrphanLeave ==
  ASSUME CoreInv, HeldInv, OrphanOK, NEW e \in Procs, ExitRef(e) \/ ExitUp(e)
  PROVE  OrphanOK'
<1>0. CoreTypes /\ e \in Threads /\ Fresh(e) /\ CountOK(e)
  BY Zenon DEF CoreInv, HeldInv, Threads
<1>l. /\ "exit" \notin LeftLabels /\ "exit" \notin GoneLabels /\ "exit" \notin OffLabels
      /\ "exit_up" \notin LeftLabels /\ "exit_up" \notin GoneLabels /\ "exit_up" \notin FreeingLabels
      /\ "exit_lock2" \notin FreeingLabels
  BY Zenon DEF LeftLabels, GoneLabels, FreeingLabels, ExitLabels, OffLabels
<1>1. CASE ExitRef(e)
  <2>0. pc[e] = "exit"
    BY <1>1, Zenon DEF ExitRef, At
  <2>n. pc[e] # "none"
    BY Zenon, <2>0
  <2>m. my_wait[e] /\ mem[e] # "none" /\ mem[e] = "live"
    <3>1. my_wait[e] /\ mem[e] # "none"
      BY <1>0, <2>n, Zenon DEF Fresh
    <3>2. mem[e] # "freed"
      BY <1>0, <1>l, <2>0, Zenon DEF CountOK
    <3> QED BY Zenon, <1>0, <3>1, <3>2 DEF CoreTypes
  <2>1. /\ Step(e) /\ UNCHANGED <<children, parent, mem>>
        /\ \/ pc'[e] = "exit_lock" /\ ref_count[e] = 1
           \/ pc'[e] = "exit_up" /\ ref_count[e] # 1
    BY <1>0, <1>1, <2>m, ExitRefIs, Zenon
  <2>2. ASSUME NEW v \in Threads, parent[e] = v, pc[v] \notin GoneLabels PROVE pc'[e] = "exit_up"
    <3>1. e \in Range(children[v])
      BY <2>m, <2>n, <2>2, Zenon DEF OrphanOK
    <3>2. pc[v] # "dead" /\ pc[v] # "exit_child"
      BY Zenon, <2>2 DEF GoneLabels
    <3>3. ~Taking(v, e)
      <4>1. FoundOK(v)
        BY Zenon DEF HeldInv
      <4>2. pc[v] \in {"wait_lock2", "wait_free"} => pc[v] \in FoundLabels \ {"wait_down"}
        BY Zenon DEF FoundLabels
      <4> QED BY <1>l, <2>0, <4>1, <4>2, Zenon DEF Taking, FoundOK
    <3>4. Holds(e)
      BY <2>2, <3>1, <3>2, <3>3, Zenon DEF Holds, Keeps, Past
    <3>5. Base(e) = 1
      BY <1>l, <2>0, <2>n, Zenon DEF Base
    <3>6. ref_count[e] = Base(e) + 1
      BY <1>0, <2>m, <3>4, Zenon DEF CountOK
    <3>7. ref_count[e] # 1
      BY <3>5, <3>6
    <3> QED BY <2>1, <3>7, Zenon
  <2>3. pc'[e] # "none"
    BY Zenon, <2>1
  <2>4. parent' = parent /\ mem' = mem /\ children' = children
    BY <2>1, Zenon
  <2>5. \A v \in Threads : parent[e] = v /\ pc'[e] \in FreeingLabels => pc[v] \in GoneLabels
    BY <1>l, <2>2, Zenon
  <2> QED BY <1>0, <1>l, <2>0, <2>n, <2>1, <2>3, <2>4, <2>5, OrphanMove, Zenon
<1>2. CASE ExitUp(e)
  <2>1. /\ pc[e] = "exit_up" /\ UNCHANGED <<children, parent, mem>>
        /\ pc' = pc \/ (Step(e) /\ pc'[e] = "exit_lock2")
    BY <1>0, <1>2, ExitUpIs, Zenon DEF coreVars
  <2>2. CASE pc' = pc
    BY <2>1, <2>2, Zenon DEF OrphanOK
  <2>3. CASE Step(e) /\ pc'[e] = "exit_lock2"
    <3>1. pc[e] # "none" /\ pc'[e] # "none"
      BY Zenon, <2>1, <2>3
    <3> QED BY <1>0, <1>l, <2>1, <2>3, <3>1, OrphanPlain, Zenon
  <2> QED BY <2>1, <2>2, <2>3, Zenon
<1> QED BY <1>1, <1>2, Zenon

LEMMA OrphanStep == CoreInv /\ HeldInv /\ OrphanOK /\ [Next]_vars => OrphanOK'
<1> SUFFICES ASSUME CoreInv, HeldInv, OrphanOK, [Next]_vars PROVE OrphanOK'
  BY Zenon
<1>1. ASSUME NEW t \in Threads, NEW p \in Procs, Exec(t, p) \/ Wait(t, p) PROVE OrphanOK'
  BY <1>1, OrphanCalm, Zenon
<1>2. ASSUME NEW t \in Threads, Continue(t) PROVE OrphanOK'
  <2>1. CASE ReleaseAsserts(t)
    BY <2>1, Zenon DEF ReleaseAsserts, Halt, wsVars, OrphanOK
  <2>2. CASE ExecPush(t) \/ ExecCreate(t)
    BY <2>2, OrphanPush, Zenon
  <2>3. CASE ExecInit(t) \/ WaitFree(t)
    BY <2>3, OrphanFree, Zenon
  <2> QED BY <1>2, <2>1, <2>2, <2>3, OrphanCalm, Zenon DEF Continue
<1>3. ASSUME NEW p \in Procs, NEW c \in Codes \cup {-1}, Exit(p, c) PROVE OrphanOK'
  <2>1. p \in Threads
    BY Zenon DEF Threads
  <2> QED BY <1>3, <2>1, OrphanCalm, Zenon
<1>4. ASSUME NEW p \in Procs, Leave(p) PROVE OrphanOK'
  <2>1. p \in Threads
    BY Zenon DEF Threads
  <2>2. CASE Load(p) \/ LoadStack(p) \/ LoadDone(p) \/ LoadFail(p) \/ AcquireList(p, "exit_lock", "exit_free")
             \/ AcquireList(p, "exit_lock2", "exit_child") \/ ExitEnd(p)
    BY <2>1, <2>2, OrphanCalm, Zenon
  <2>3. CASE ExitFree(p) \/ (\E w \in Procs : ExitChild(p, w))
    BY <2>1, <2>3, OrphanFree, Zenon
  <2>4. CASE ExitRef(p) \/ ExitUp(p)
    BY <2>4, OrphanLeave, Zenon
  <2> QED BY <1>4, <2>2, <2>3, <2>4, Zenon DEF Leave
<1>5. CASE UNCHANGED vars
  BY <1>5, Zenon DEF vars, wsVars, OrphanOK
<1> QED BY <1>1, <1>2, <1>3, <1>4, <1>5, Zenon DEF Next, Stopped

LEMMA OrphanInit == Init => OrphanOK
<1> SUFFICES ASSUME Init PROVE OrphanOK
  BY Zenon
<1>1. \A p \in Procs : pc[p] = "none"
  BY Zenon, NoThreadIsNone DEF Init, Threads
<1> QED BY <1>1, Zenon DEF OrphanOK

\* Only two actions panic, and after a panic nothing happens.
LEMMA PanicSteps ==
  ASSUME [Next]_vars
  PROVE  \/ UNCHANGED vars
         \/ panic' = "no"
         \/ \E t \in Threads : ReleaseAsserts(t)
         \/ \E p \in Procs : ExitUp(p) /\ mem[p] = "freed"
<1>1. ASSUME NEW t \in Threads, NEW p \in Procs, Exec(t, p) \/ Wait(t, p) PROVE panic' = "no"
  BY <1>1, Zenon DEF Exec, Wait, At
<1>2. ASSUME NEW t, NEW from, NEW to, AcquireList(t, from, to) PROVE panic' = "no"
  BY <1>2, Zenon DEF AcquireList, At
<1>3. ASSUME NEW t \in Threads, Continue(t) PROVE panic' = "no" \/ ReleaseAsserts(t)
  <2>1. CASE ExecInit(t) \/ ExecNoMemory(t) \/ ExecPush(t) \/ ExecCreate(t) \/ ExecFail(t) \/ ExecDone(t)
    BY <2>1, Zenon DEF ExecInit, ExecNoMemory, ExecPush, ExecCreate, ExecFail, ExecDone, At
  <2>2. CASE WaitFind(t) \/ WaitDown(t) \/ WaitRef(t) \/ WaitFree(t)
    BY <2>2, Zenon DEF WaitFind, WaitDown, WaitRef, WaitFree, At
  <2> QED BY <1>2, <1>3, <2>1, <2>2, Zenon DEF Continue
<1>4. ASSUME NEW p \in Procs, Leave(p) PROVE panic' = "no" \/ (ExitUp(p) /\ mem[p] = "freed")
  <2>1. CASE Load(p) \/ LoadStack(p) \/ LoadDone(p) \/ LoadFail(p)
    BY <2>1, Zenon DEF Load, LoadStack, LoadDone, LoadFail, At
  <2>2. CASE ExitRef(p) \/ ExitFree(p) \/ ExitEnd(p) \/ \E w \in Procs : ExitChild(p, w)
    BY <2>2, Zenon DEF ExitRef, ExitFree, ExitEnd, ExitChild, At
  <2>3. CASE ExitUp(p)
    BY <2>3, Zenon DEF ExitUp, At
  <2> QED BY <1>2, <1>4, <2>1, <2>2, <2>3, Zenon DEF Leave
<1>5. ASSUME NEW p, NEW c, Exit(p, c) PROVE panic' = "no"
  BY <1>5, Zenon DEF Exit, At
<1> QED BY <1>1, <1>3, <1>4, <1>5, Zenon DEF Next, Stopped

LEMMA PanicStep == CoreInv /\ LockOK /\ OrphanOK /\ PanicCauses /\ [Next]_vars => PanicCauses'
<1> SUFFICES ASSUME CoreInv, LockOK, OrphanOK, PanicCauses, [Next]_vars PROVE PanicCauses'
  BY Zenon
<1>1. CASE UNCHANGED vars
  BY <1>1, Zenon DEF vars, wsVars, faultVars, PanicCauses
<1>2. CASE panic' = "no"
  BY Zenon, <1>2 DEF PanicCauses
<1>3. ASSUME NEW t \in Threads, ReleaseAsserts(t) PROVE PanicCauses'
  <2>1. pc[t] \in HoldLabels /\ list_lock # t /\ panic' = "release_not_held" /\ reinit' = reinit
    BY <1>3, Zenon DEF ReleaseAsserts, Halt, HoldLabels, faultVars
  <2>2. reinit
    BY <2>1, Zenon DEF LockOK
  <2>3. reinit'
    BY <2>1, <2>2, Zenon
  <2> QED BY Zenon, <2>1, <2>3 DEF PanicCauses
<1>4. ASSUME NEW p \in Procs, ExitUp(p), mem[p] = "freed" PROVE PanicCauses'
  <2>1. pc[p] = "exit_up" /\ panic' = "use_after_free" /\ UNCHANGED <<pc, mem, parent>>
    BY <1>4, Zenon DEF ExitUp, Halt, At, wsVars
  <2>2. pc[p] # "none" /\ pc[p] \notin LeftLabels
    BY Zenon, <2>1 DEF LeftLabels
  <2>3. PICK v \in Threads : parent[p] = v
    BY <2>2, Zenon DEF CoreInv, Fresh
  <2>4. pc[v] \in {"exit_child", "dead"}
    BY <1>4, <2>2, <2>3, Zenon DEF OrphanOK, GoneLabels
  <2>5. pc'[p] = "exit_up" /\ mem'[p] = "freed" /\ pc'[parent'[p]] \in {"exit_child", "dead"}
    BY <1>4, <2>1, <2>3, <2>4, Zenon
  <2>6. panic' # "release_not_held"
    BY Zenon, <2>1
  <2> QED BY <2>5, <2>6, Zenon DEF PanicCauses
<1> QED BY <1>1, <1>2, <1>3, <1>4, PanicSteps, Zenon

LEMMA PanicInit == Init => PanicCauses
  BY Zenon DEF Init, PanicCauses

RefInv ==
  /\ CoreInv /\ StatusInv /\ LockOK /\ HeldInv /\ OrphanOK /\ PanicCauses
  /\ RestTypes /\ FaultTypes /\ LoadTypes /\ Loads

LEMMA RefAlways == Spec => []RefInv
<1>1. Init => RefInv
  BY CoreInit, StatusInit, LockInit, HeldInit, OrphanInit, PanicInit, RestInit, LoadsInit, Zenon DEF RefInv
<1>2. RefInv /\ [Next]_vars => RefInv'
  <2> SUFFICES ASSUME RefInv, [Next]_vars PROVE RefInv'
    BY Zenon
  <2>1. /\ CoreInv /\ StatusInv /\ LockOK /\ HeldInv /\ OrphanOK /\ PanicCauses /\ RestTypes
        /\ FaultTypes /\ LoadTypes /\ Loads /\ CoreTypes
    BY Zenon DEF RefInv, CoreInv
  <2>2. CoreInv' /\ StatusInv'
    BY <2>1, CoreStep, StatusStep, Zenon
  <2>3. LockOK' /\ HeldInv'
    BY <2>1, LockStep, HeldStep, Zenon
  <2>4. OrphanOK' /\ PanicCauses'
    BY <2>1, OrphanStep, PanicStep, Zenon
  <2>5. RestTypes' /\ FaultTypes' /\ LoadTypes' /\ Loads'
    BY <2>1, RestStep, FaultStep, LoadsStep, Zenon
  <2> QED BY <2>2, <2>3, <2>4, <2>5, Zenon DEF RefInv
<1> QED BY <1>1, <1>2, PTL DEF Spec

\* Every panic has one of two causes, in any interleaving of any number of
\* processes: a lock_init() of child_list_lock in use, and the sema_up() of a
\* child whose parent is past it in its exit loop or dead.
THEOREM PanicsExplained == Spec => []PanicCauses
<1>1. RefInv => PanicCauses
  BY Zenon DEF RefInv
<1> QED BY <1>1, RefAlways, PTL

\* Every variable of the process model has its type; until child_list_lock is
\* initialised in use, ref_count is the number of threads, of parent and child, that have
\* not yet given up the wait_status, and when both are dead it is freed.
THEOREM RefCounts == Spec => []RefCountExact
<1>1. RefInv => TypeOK
  <2> SUFFICES ASSUME RefInv PROVE TypeOK
    BY Zenon
  <2>1. CoreTypes /\ StatusInv /\ StatusTypes /\ HeldInv /\ RestTypes /\ FaultTypes /\ QueueTypes /\ LoadTypes
    BY Zenon DEF RefInv, CoreInv, StatusInv, RestTypes
  <2>2. ref_count \in [Procs -> -2 .. 2]
    <3>1. ASSUME NEW p \in Procs PROVE ref_count[p] \in -2 .. 2
      <4>1. CountOK(p) /\ ref_count[p] \in Int
        BY <2>1, Zenon DEF HeldInv, CoreTypes
      <4>2. Base(p) \in {-2, 0, 1}
        BY Zenon DEF Base
      <4>3. ref_count[p] = 0 \/ (Base(p) <= ref_count[p] /\ ref_count[p] <= Base(p) + 1)
        BY <4>1, Zenon DEF CountOK
      <4> QED BY <4>1, <4>2, <4>3
    <3> QED BY Zenon, <2>1, <3>1 DEF CoreTypes
  <2>3. sema \in [Procs -> 0 .. 1]
    <3>1. ASSUME NEW p \in Procs PROVE sema[p] \in 0 .. 1
      BY <2>1 DEF StatusInv, StatusOK
    <3> QED BY Zenon, <2>1, <3>1 DEF StatusTypes
  <2> QED BY <2>1, <2>2, <2>3, Zenon DEF TypeOK, CoreTypes, StatusTypes, RestTypes, FaultTypes, QueueTypes, LoadTypes
<1>2. ASSUME RefInv, ~reinit, NEW p \in Procs
      PROVE  /\ pc[p] # "none" /\ mem[p] = "live" =>
                  ref_count[p] = (IF ChildHolds(p) THEN 1 ELSE 0) + (IF ParentHolds(p) THEN 1 ELSE 0)
             /\ pc[p] = "dead" /\ pc[parent[p]] = "dead" => mem[p] = "freed"
  <2>1. CoreTypes /\ Fresh(p) /\ CountOK(p)
    BY <1>2, Zenon DEF RefInv, CoreInv, HeldInv
  <2>2. CASE pc[p] = "none"
    BY <2>2
  <2>3. CASE pc[p] # "none"
    <3>1. PICK v \in Threads : parent[p] = v
      BY <2>1, <2>3, Zenon DEF Fresh
    <3>2. ParentHolds(p) <=> Holds(p)
      <4>1. Holds(p) <=> Keeps(v, p)
        BY <3>1, Zenon DEF Holds
      <4> QED BY <3>1, <4>1, Zenon DEF ParentHolds, Keeps, Taking, Past, Before
    <3>3. ChildHolds(p) <=> pc[p] \notin OffLabels
      BY Zenon DEF ChildHolds, OffLabels
    <3>4. Base(p) = IF ChildHolds(p) THEN 1 ELSE 0
      BY <2>3, <3>3, Zenon DEF Base
    <3>5. mem[p] = "live" => mem[p] # "none"
      BY Zenon
    <3>6. mem[p] = "live" => ref_count[p] = Base(p) + (IF ParentHolds(p) THEN 1 ELSE 0)
      <4>1. CASE Holds(p)
        <5>1. mem[p] = "live" => ref_count[p] = Base(p) + 1
          BY <2>1, <3>5, <4>1, Zenon DEF CountOK
        <5> QED BY <3>2, <4>1, <5>1
      <4>2. CASE ~Holds(p)
        <5>1. mem[p] = "live" => ref_count[p] = Base(p)
          BY <1>2, <2>1, <2>3, <4>2, Zenon DEF CountOK
        <5>2. Base(p) \in Int
          BY DEF Base
        <5> QED BY <3>2, <4>2, <5>1, <5>2
      <4> QED BY <4>1, <4>2, Zenon
    <3>7. ASSUME pc[p] = "dead", pc[parent[p]] = "dead", mem[p] = "live" PROVE FALSE
      <4>1. ~Holds(p) /\ ~Taken(p)
        <5>1. pc[v] = "dead" /\ pc[v] \notin {"wait_lock2", "wait_free"}
          BY Zenon, <3>1, <3>7
        <5> QED BY <3>1, <5>1, Zenon DEF Holds, Taken, Keeps, Taking
      <4>2. pc[p] \in OffLabels /\ pc[p] \notin FreeingLabels
        BY <3>7 DEF OffLabels, ExitLabels, FreeingLabels
      <4>3. Base(p) = 0
        BY <2>3, <4>2, Zenon DEF Base
      <4>4. ref_count[p] = 0
        BY <1>2, <2>1, <2>3, <3>7, <4>1, <4>3, Zenon DEF CountOK
      <4> QED BY <2>1, <2>3, <3>7, <4>1, <4>2, <4>4, Zenon DEF CountOK
    <3>8. mem[p] = "live" \/ mem[p] = "freed"
      BY Zenon, <2>1, <2>3 DEF Fresh, CoreTypes
    <3> QED BY <3>4, <3>6, <3>7, <3>8, Zenon
  <2> QED BY <2>2, <2>3, Zenon
<1>3. RefInv => RefCountExact
  BY <1>1, <1>2, Zenon DEF RefCountExact
<1> QED BY <1>3, RefAlways, PTL
=============================================================================
