--------------------------- MODULE ProcessProofs ---------------------------
(***************************************************************************)
(* Starting, awaiting and ending processes, for any number of processes,   *)
(* statuses and waits, and whatever the programs do: whose command line a  *)
(* process loads, what process_wait() returns, and who holds a reference   *)
(* to a wait_status, with the steps that take one.                         *)
(***************************************************************************)
EXTENDS Processes, TLAPS


Once(s) == \A i, j \in 1..Len(s) : s[i] = s[j] => i = j
Before(s, a, b) == \E i, j \in 1..Len(s) : s[i] = a /\ s[j] = b /\ i < j

LEMMA RangeIs ==
  ASSUME NEW S, NEW s \in Seq(S)
  PROVE  Range(s) = {s[i] : i \in 1..Len(s)} /\ DOMAIN s = 1..Len(s) /\ Len(s) \in Nat
         /\ \A i \in 1..Len(s) : s[i] \in S
  BY DEF Range

LEMMA EmptyRange ==
  ASSUME NEW S, NEW s \in Seq(S), Range(s) = {}
  PROVE  s = <<>>
<1>1. ~(\E i \in 1..Len(s) : TRUE)
  BY SMTT(60), RangeIs
<1>2. Len(s) = 0
  BY <1>1
<1> QED BY <1>2

\* list_remove() takes out one element, and keeps the order of the others.
LEMMA RemoveIs ==
  ASSUME NEW S, NEW s \in Seq(S), NEW e \in Range(s)
  PROVE  \E n \in 1..Len(s) :
           /\ s[n] = e
           /\ ListRemove(s, e) \in Seq(S)
           /\ Len(ListRemove(s, e)) = Len(s) - 1
           /\ \A k \in 1..(n - 1) : ListRemove(s, e)[k] = s[k]
           /\ \A k \in n..(Len(s) - 1) : ListRemove(s, e)[k] = s[k + 1]
<1>1. \E i \in 1..Len(s) : s[i] = e
  BY Zenon, RangeIs
<1>2. PICK n : n = CHOOSE k \in 1..Len(s) : s[k] = e
  BY Zenon
<1>3. n \in 1..Len(s) /\ s[n] = e
  BY <1>1, <1>2, Zenon
<1>5. ListRemove(s, e) = SubSeq(s, 1, n - 1) \o SubSeq(s, n + 1, Len(s))
  BY <1>2, Zenon DEF ListRemove
<1>6. Len(s) \in Nat /\ n \in 1..Len(s)
  BY <1>3
<1>7. PICK a : a = SubSeq(s, 1, n - 1)
  BY Zenon
<1>8. PICK b : b = SubSeq(s, n + 1, Len(s))
  BY Zenon
<1>9. a \in Seq(S) /\ Len(a) = n - 1 /\ \A k \in 1..(n - 1) : a[k] = s[k]
  BY <1>6, <1>7
<1>10. b \in Seq(S) /\ Len(b) = Len(s) - n /\ \A k \in 1..(Len(s) - n) : b[k] = s[k + n]
  BY <1>6, <1>8
<1>11. /\ a \o b \in Seq(S) /\ Len(a \o b) = Len(s) - 1
       /\ \A k \in 1..(n - 1) : (a \o b)[k] = s[k]
       /\ \A k \in n..(Len(s) - 1) : (a \o b)[k] = s[k + 1]
  <2>1. a \o b \in Seq(S) /\ Len(a \o b) = Len(s) - 1
    <3>1. a \in Seq(S) /\ b \in Seq(S)
      BY <1>9, <1>10, Zenon
    <3>2. a \o b \in Seq(S) /\ Len(a \o b) = Len(a) + Len(b)
      BY <3>1
    <3> QED BY <1>6, <1>9, <1>10, <3>2
  <2>2. ASSUME NEW k \in 1..(n - 1) PROVE (a \o b)[k] = s[k]
    <3>1. k \in 1..(Len(a) + Len(b)) /\ k <= Len(a)
      BY <1>6, <1>9, <1>10
    <3>2. (a \o b)[k] = a[k]
      BY <1>9, <1>10, <3>1
    <3> QED BY <1>9, <3>2, Zenon
  <2>3. ASSUME NEW k \in n..(Len(s) - 1) PROVE (a \o b)[k] = s[k + 1]
    <3>1. k - (n - 1) \in 1..(Len(s) - n) /\ k - (n - 1) + n = k + 1 /\ k \in 1..(Len(a) + Len(b)) /\ ~(k <= Len(a))
      BY <1>6, <1>9, <1>10
    <3>2. (a \o b)[k] = b[k - (n - 1)]
      BY <1>9, <1>10, <3>1
    <3> QED BY <1>10, <3>1, <3>2, Zenon
  <2> QED BY <2>1, <2>2, <2>3, Zenon
<1> QED BY <1>3, <1>5, <1>7, <1>8, <1>11, Zenon

\* What list_remove() does to a list whose elements are all different.
LEMMA RemoveOnce ==
  ASSUME NEW S, NEW s \in Seq(S), NEW e, Once(s)
  PROVE  /\ ListRemove(s, e) \in Seq(S)
         /\ Once(ListRemove(s, e))
         /\ Range(ListRemove(s, e)) = Range(s) \ {e}
         /\ s # <<>> /\ Head(s) # e =>
              ListRemove(s, e) # <<>> /\ Head(ListRemove(s, e)) = Head(s)
         /\ \A a, b : a # e /\ b # e => (Before(ListRemove(s, e), a, b) <=> Before(s, a, b))
<1>0. Range(s) = {s[i] : i \in 1..Len(s)}
  BY Zenon, RangeIs
<1>1. CASE e \notin Range(s)
  <2>1. ListRemove(s, e) = s
    BY <1>1, Zenon DEF ListRemove
  <2> QED BY <1>1, <2>1, Zenon
<1>2. CASE e \in Range(s)
  <2>0. PICK n \in 1..Len(s) :
           /\ s[n] = e
           /\ ListRemove(s, e) \in Seq(S)
           /\ Len(ListRemove(s, e)) = Len(s) - 1
           /\ \A k \in 1..(n - 1) : ListRemove(s, e)[k] = s[k]
           /\ \A k \in n..(Len(s) - 1) : ListRemove(s, e)[k] = s[k + 1]
    BY <1>2, RemoveIs
  <2>1. PICK r \in Seq(S) : r = ListRemove(s, e)
    BY <2>0, Zenon
  <2>2. Len(s) \in Nat /\ Len(r) = Len(s) - 1 /\ n \in 1..Len(s) /\ Len(r) \in Nat
    BY <2>0, <2>1
  <2>3. /\ \A k \in 1..Len(r) : k < n => r[k] = s[k]
        /\ \A k \in 1..Len(r) : k >= n => r[k] = s[k + 1]
    <3>1. /\ \A k \in 1..(n - 1) : r[k] = s[k]
          /\ \A k \in n..(Len(s) - 1) : r[k] = s[k + 1]
      BY <2>0, <2>1, Zenon
    <3>2. /\ \A k \in 1..Len(r) : k < n => k \in 1..(n - 1)
          /\ \A k \in 1..Len(r) : k >= n => k \in n..(Len(s) - 1)
      BY <2>2
    <3> QED BY <3>1, <3>2, Zenon
  \* Where an element goes, and where it came from.
  <2>4. ASSUME NEW i \in 1..Len(s), s[i] # e
        PROVE  \E k \in 1..Len(r) : r[k] = s[i] /\ k = (IF i < n THEN i ELSE i - 1)
    <3>1. CASE i < n
      BY <2>2, <2>3, <3>1
    <3>2. CASE i > n
      <4>1. i - 1 \in 1..Len(r) /\ i - 1 >= n /\ (i - 1) + 1 = i /\ ~(i < n)
        BY <2>2, <3>2
      <4> QED BY Zenon, <2>3, <4>1
    <3> QED BY <2>0, <2>2, <2>4, <3>1, <3>2
  <2>5. ASSUME NEW k \in 1..Len(r)
        PROVE  \E i \in 1..Len(s) : r[k] = s[i] /\ i # n /\ i = (IF k < n THEN k ELSE k + 1)
    BY <2>2, <2>3
  <2>6. Once(r)
    <3>1. SUFFICES ASSUME NEW k \in 1..Len(r), NEW m \in 1..Len(r), r[k] = r[m] PROVE k = m
      BY Zenon DEF Once
    <3>2. PICK i \in 1..Len(s) : r[k] = s[i] /\ i # n /\ i = (IF k < n THEN k ELSE k + 1)
      BY <2>5, Zenon
    <3>3. PICK j \in 1..Len(s) : r[m] = s[j] /\ j # n /\ j = (IF m < n THEN m ELSE m + 1)
      BY <2>5, Zenon
    <3>4. i = j
      BY <3>1, <3>2, <3>3, Zenon DEF Once
    <3> QED BY <2>2, <3>2, <3>3, <3>4
  <2>7. Range(r) = Range(s) \ {e}
    <3>0. Range(r) = {r[i] : i \in 1..Len(r)}
      BY Zenon, RangeIs
    <3>1. \A x \in Range(r) : x \in Range(s) /\ x # e
      <4>1. SUFFICES ASSUME NEW k \in 1..Len(r) PROVE r[k] \in Range(s) /\ r[k] # e
        BY <1>0, <3>0, Zenon
      <4>2. PICK i \in 1..Len(s) : r[k] = s[i] /\ i # n /\ i = (IF k < n THEN k ELSE k + 1)
        BY <2>5, Zenon
      <4> QED BY <1>0, <2>0, <4>2, Zenon DEF Once
    <3>2. \A x \in Range(s) : x # e => x \in Range(r)
      <4>1. SUFFICES ASSUME NEW i \in 1..Len(s), s[i] # e PROVE s[i] \in Range(r)
        BY <1>0, <3>0, Zenon
      <4>2. PICK k \in 1..Len(r) : r[k] = s[i]
        BY <2>4, <4>1, Zenon
      <4> QED BY <3>0, <4>2, Zenon
    <3> QED BY <3>1, <3>2, Zenon
  <2>8. s # <<>> /\ Head(s) # e => r # <<>> /\ Head(r) = Head(s)
    <3>1. HAVE s # <<>> /\ Head(s) # e
    <3>2. Head(s) = s[1]
      BY <3>1
    <3>3. 1 < n
      BY <2>0, <2>2, <3>1, <3>2
    <3>4. 1 \in 1..Len(r) /\ r[1] = s[1]
      BY <2>2, <2>3, <3>3
    <3>5. r # <<>>
      BY <3>4
    <3> QED BY <3>2, <3>4, <3>5
  <2>9. ASSUME NEW a, NEW b, a # e, b # e PROVE Before(r, a, b) <=> Before(s, a, b)
    <3>1. ASSUME Before(r, a, b) PROVE Before(s, a, b)
      <4>1. PICK k \in 1..Len(r), m \in 1..Len(r) : r[k] = a /\ r[m] = b /\ k < m
        BY <3>1, Zenon DEF Before
      <4>2. PICK i \in 1..Len(s) : r[k] = s[i] /\ i # n /\ i = (IF k < n THEN k ELSE k + 1)
        BY <2>5, Zenon
      <4>3. PICK j \in 1..Len(s) : r[m] = s[j] /\ j # n /\ j = (IF m < n THEN m ELSE m + 1)
        BY <2>5, Zenon
      <4>4. i < j
        BY <2>2, <4>1, <4>2, <4>3
      <4> QED BY <4>1, <4>2, <4>3, <4>4, Zenon DEF Before
    <3>2. ASSUME Before(s, a, b) PROVE Before(r, a, b)
      <4>1. PICK i \in 1..Len(s), j \in 1..Len(s) : s[i] = a /\ s[j] = b /\ i < j
        BY <3>2, Zenon DEF Before
      <4>2. PICK k \in 1..Len(r) : r[k] = s[i] /\ k = (IF i < n THEN i ELSE i - 1)
        BY <2>4, <2>9, <4>1, Zenon
      <4>3. PICK m \in 1..Len(r) : r[m] = s[j] /\ m = (IF j < n THEN j ELSE j - 1)
        BY <2>4, <2>9, <4>1, Zenon
      <4>4. i # n /\ j # n
        BY <2>0, <2>9, <4>1, Zenon
      <4>5. k < m
        BY <2>2, <4>1, <4>2, <4>3, <4>4
      <4> QED BY <4>1, <4>2, <4>3, <4>5, Zenon DEF Before
    <3> QED BY <3>1, <3>2, Zenon
  <2> QED BY <2>1, <2>6, <2>7, <2>8, <2>9, Zenon
<1> QED BY <1>1, <1>2, Zenon

-----------------------------------------------------------------------------
(* Who is whose child. *)

FoundLabels == {"wait_down", "wait_ref", "wait_lock2", "wait_free"}
AimedLabels == ExecLabels \cup FoundLabels \cup {"exec_wait"}
IdleLabels == {"none", "run", "load", "load_stack", "load_done", "exit", "exit_lock", "exit_free",
               "exit_up", "exit_lock2", "dead"}

CoreTypes ==
  /\ use \in Uses
  /\ pc \in [Threads -> Label]
  /\ target \in [Threads -> Procs \cup {NoThread}]
  /\ children \in [Threads -> Seq(Procs)]
  /\ parent \in [Procs -> Threads \cup {NoThread}]
  /\ my_wait \in [Procs -> BOOLEAN]
  /\ mem \in [Procs -> {"none", "live", "freed"}]
  /\ ref_count \in [Procs -> Int]
  /\ ws_tid \in [Procs -> Procs \cup {NoThread}]

\* What target[t] is about: nothing, a process that does not run yet while t
\* is in process_execute(), a child of t once process_wait() has found it.
TargetOK(t) ==
  /\ pc[t] \in IdleLabels => target[t] = NoThread
  /\ pc[t] \in AimedLabels => target[t] \in Procs
  /\ pc[t] \in ExecLabels => pc[target[t]] = "none"
  /\ pc[t] = "exec_init" => mem[target[t]] = "none"
  /\ pc[t] \in {"exec_init", "exec_lock", "exec_push"} => parent[target[t]] = NoThread
  /\ pc[t] \in {"exec_lock", "exec_push", "exec_create"} =>
       mem[target[t]] = "live" /\ ref_count[target[t]] = -1
  /\ pc[t] = "exec_create" =>
       parent[target[t]] = t /\ children[t] # <<>> /\ Head(children[t]) = target[t]
  /\ pc[t] \in FoundLabels => parent[target[t]] = t

ExecsApart ==
  \A t, u \in Threads : pc[t] \in ExecLabels /\ pc[u] \in ExecLabels /\ target[t] = target[u] => t = u

\* A process has a wait_status of its own, from before it starts.
Fresh(p) ==
  /\ mem[p] = "none" => pc[p] = "none" /\ parent[p] = NoThread
  /\ pc[p] # "none" => parent[p] \in Threads /\ my_wait[p] /\ mem[p] # "none"
  /\ ws_tid[p] \in {NoThread, p}
  /\ ws_tid[p] = p => pc[p] # "none"
  /\ pc[p] = "none" => ref_count[p] <= 0
  /\ parent[p] # p

\* The wait_statuses on a list are those of the thread's own children, each
\* once, and none has been freed.
ListOK(t) ==
  /\ Once(children[t])
  /\ \A w \in Range(children[t]) : parent[w] = t /\ mem[w] = "live"
  /\ pc[t] \in {"none"} \cup LoadLabels => children[t] = <<>>

CoreInv ==
  /\ CoreTypes
  /\ \A t \in Threads : TargetOK(t)
  /\ ExecsApart
  /\ \A p \in Procs : Fresh(p)
  /\ \A t \in Threads : ListOK(t)

Step(t) ==
  /\ pc' = [pc EXCEPT ![t] = pc'[t]]
  /\ target' = [target EXCEPT ![t] = target'[t]]
  /\ pc'[t] \in Label /\ target'[t] \in Procs \cup {NoThread}
  /\ use' = use

coreVars == <<children, parent, my_wait, mem, ref_count, ws_tid>>

LEMMA StepAlone ==
  ASSUME CoreTypes, NEW t \in Threads, Step(t)
  PROVE  /\ pc' \in [Threads -> Label] /\ target' \in [Threads -> Procs \cup {NoThread}] /\ use' \in Uses
         /\ \A u \in Threads \ {t} : pc'[u] = pc[u] /\ target'[u] = target[u]
  BY Zenon DEF CoreTypes, Step

\* A thread that does not step keeps its target when nobody touches it.
LEMMA TargetKept ==
  ASSUME NEW u, TargetOK(u), pc'[u] = pc[u], target'[u] = target[u],
         pc[u] \in ExecLabels \/ pc[u] \in FoundLabels => parent'[target[u]] = parent[target[u]],
         pc[u] \in ExecLabels => /\ pc'[target[u]] = pc[target[u]]
                                 /\ mem'[target[u]] = mem[target[u]]
                                 /\ ref_count'[target[u]] = ref_count[target[u]],
         pc[u] = "exec_create" => children'[u] # <<>> /\ Head(children'[u]) = Head(children[u])
  PROVE  TargetOK(u)'
<1>1. /\ pc[u] \in {"exec_init", "exec_lock", "exec_push"} => pc[u] \in ExecLabels
      /\ pc[u] \in {"exec_lock", "exec_push", "exec_create"} => pc[u] \in ExecLabels
      /\ pc[u] = "exec_init" => pc[u] \in ExecLabels
      /\ pc[u] = "exec_create" => pc[u] \in ExecLabels
  BY Zenon DEF ExecLabels
<1> QED BY <1>1, Zenon DEF TargetOK

\* A step of t that gives nobody a new child.
LEMMA StepCore ==
  ASSUME CoreInv, NEW t \in Threads, Step(t), UNCHANGED <<parent, my_wait, ws_tid>>,
         pc[t] # "none", pc'[t] # "none", TargetOK(t)',
         pc'[t] \in LoadLabels => pc[t] \in LoadLabels,
         \A u \in Threads \ {t} : pc[u] \in ExecLabels =>
           /\ pc'[t] \in ExecLabels => target[u] # target'[t]
           /\ mem'[target[u]] = mem[target[u]]
           /\ ref_count'[target[u]] = ref_count[target[u]],
         mem' \in [Procs -> {"none", "live", "freed"}],
         \A p \in Procs : mem'[p] = "none" => mem[p] = "none",
         ref_count' \in [Procs -> Int],
         \A p \in Procs : ref_count[p] <= 0 => ref_count'[p] <= 0,
         children' \in [Threads -> Seq(Procs)],
         \A u \in Threads :
           /\ Once(children'[u])
           /\ \A w \in Range(children'[u]) : w \in Range(children[u]) /\ mem'[w] = "live"
           /\ children[u] = <<>> => children'[u] = <<>>
           /\ pc[u] = "exec_create" => children'[u] # <<>> /\ Head(children'[u]) = Head(children[u])
  PROVE  CoreInv'
<1>0. UNCHANGED <<parent, my_wait, ws_tid>>
  BY Zenon
<1>1. CoreTypes'
  BY <1>0, StepAlone, ZenonT(60) DEF CoreInv, CoreTypes
<1>s. CoreTypes /\ \A x \in Threads \ {t} : pc'[x] = pc[x] /\ target'[x] = target[x]
  BY StepAlone, Zenon DEF CoreInv
<1>2. ASSUME NEW u \in Threads PROVE TargetOK(u)'
  <2>1. CASE u = t
    BY Zenon, <2>1
  <2>2. CASE u # t
    <3>1. pc'[u] = pc[u] /\ target'[u] = target[u] /\ TargetOK(u)
      BY <2>2, <1>s, Zenon DEF CoreInv
    <3>2. pc[u] \in ExecLabels => target[u] \in Threads \ {t}
      <4>1. pc[u] \in ExecLabels => target[u] \in Procs /\ pc[target[u]] = "none"
        BY <3>1, Zenon DEF TargetOK, AimedLabels
      <4> QED BY <4>1, Zenon DEF Threads
    <3>3. pc[u] \in ExecLabels => pc'[target[u]] = pc[target[u]]
      BY <3>2, <1>s, Zenon
    <3>4. pc[u] \in ExecLabels => mem'[target[u]] = mem[target[u]] /\ ref_count'[target[u]] = ref_count[target[u]]
      BY <2>2, Zenon
    <3> QED BY <1>0, <3>1, <3>3, <3>4, TargetKept, Zenon
  <2> QED BY <2>1, <2>2, Zenon
<1>3. ExecsApart'
  <2>1. SUFFICES ASSUME NEW u \in Threads, NEW v \in Threads, pc'[u] \in ExecLabels, pc'[v] \in ExecLabels,
                        target'[u] = target'[v]
                 PROVE  u = v
    BY Zenon DEF ExecsApart
  <2>3. CASE u # t /\ v # t
    <3>1. pc[u] \in ExecLabels /\ pc[v] \in ExecLabels /\ target[u] = target[v]
      BY <2>1, <1>s, <2>3, Zenon
    <3> QED BY <3>1, Zenon DEF CoreInv, ExecsApart
  <2>4. CASE u # t /\ v = t
    <3>1. u \in Threads \ {t} /\ pc[u] \in ExecLabels /\ pc'[t] \in ExecLabels /\ target[u] = target'[t]
      BY <2>1, <1>s, <2>4, Zenon
    <3> QED BY Zenon, <3>1
  <2>5. CASE u = t /\ v # t
    <3>1. v \in Threads \ {t} /\ pc[v] \in ExecLabels /\ pc'[t] \in ExecLabels /\ target[v] = target'[t]
      BY <2>1, <1>s, <2>5, Zenon
    <3> QED BY <3>1
  <2> QED BY <2>3, <2>4, <2>5, Zenon
<1>4. ASSUME NEW p \in Procs PROVE Fresh(p)'
  <2>1. (pc'[p] = "none") <=> (pc[p] = "none")
    BY <1>s, Zenon DEF Threads
  <2>2. Fresh(p)
    BY Zenon DEF CoreInv
  <2>3. ref_count[p] <= 0 => ref_count'[p] <= 0
    BY Zenon
  <2>5. mem[p] # "none" => mem'[p] # "none"
    BY Zenon
  <2>6. parent'[p] = parent[p] /\ my_wait'[p] = my_wait[p] /\ ws_tid'[p] = ws_tid[p]
    BY <1>0, Zenon
  <2>7. mem'[p] = "none" => mem[p] = "none"
    BY Zenon
  <2>8. my_wait[p] => my_wait'[p]
    BY <2>6, Zenon
  <2>9. mem'[p] = "none" => pc'[p] = "none" /\ parent'[p] = NoThread
    BY <2>1, <2>2, <2>6, <2>7, Zenon DEF Fresh
  <2>10. pc'[p] # "none" => parent'[p] \in Threads /\ my_wait'[p] /\ mem'[p] # "none"
    BY <2>1, <2>2, <2>5, <2>6, <2>8, Zenon DEF Fresh
  <2>11. ws_tid'[p] \in {NoThread, p} /\ (ws_tid'[p] = p => pc'[p] # "none")
    BY <2>1, <2>2, <2>6, Zenon DEF Fresh
  <2>12. pc'[p] = "none" => ref_count'[p] <= 0
    BY <2>1, <2>2, <2>3, Zenon DEF Fresh
  <2>13. parent'[p] # p
    BY <2>2, <2>6, Zenon DEF Fresh
  <2> QED BY <2>9, <2>10, <2>11, <2>12, <2>13, Zenon DEF Fresh
<1>5. ASSUME NEW u \in Threads PROVE ListOK(u)'
  <2>1. pc'[u] \in {"none"} \cup LoadLabels => pc[u] \in {"none"} \cup LoadLabels
    BY <1>s, Zenon
  <2>2. ListOK(u)
    BY Zenon DEF CoreInv
  <2>3. pc'[u] \in {"none"} \cup LoadLabels => children'[u] = <<>>
    BY <2>1, <2>2, Zenon DEF ListOK
  <2>4. ASSUME NEW w \in Range(children'[u]) PROVE parent'[w] = u /\ mem'[w] = "live"
    BY <1>0, <2>2, Zenon DEF ListOK
  <2>5. Once(children'[u])
    BY Zenon
  <2> QED BY <2>3, <2>4, <2>5, Zenon DEF ListOK
<1> QED BY <1>1, <1>2, <1>3, <1>4, <1>5, Zenon DEF CoreInv

\* A step of t that leaves the lists and the wait_statuses alone.
LEMMA MoveCore ==
  ASSUME CoreInv, NEW t \in Threads, Step(t), UNCHANGED coreVars,
         pc[t] # "none", pc'[t] # "none", TargetOK(t)',
         pc'[t] \in LoadLabels => pc[t] \in LoadLabels,
         pc'[t] \in ExecLabels =>
           \A u \in Threads \ {t} : pc[u] \in ExecLabels => target[u] # target'[t]
  PROVE  CoreInv'
<1>0. UNCHANGED <<children, parent, my_wait, mem, ref_count, ws_tid>>
  BY Zenon DEF coreVars
<1>1. \A p \in Procs : ref_count[p] <= 0 => ref_count'[p] <= 0
  BY <1>0, Zenon
<1>2. \A u \in Threads :
           /\ Once(children'[u])
           /\ \A w \in Range(children'[u]) : w \in Range(children[u]) /\ mem'[w] = "live"
           /\ children[u] = <<>> => children'[u] = <<>>
           /\ pc[u] = "exec_create" => children'[u] # <<>> /\ Head(children'[u]) = Head(children[u])
  BY <1>0, ZenonT(60) DEF CoreInv, ListOK, TargetOK
<1>3. /\ mem' \in [Procs -> {"none", "live", "freed"}]
      /\ ref_count' \in [Procs -> Int]
      /\ children' \in [Threads -> Seq(Procs)]
  BY <1>0, Zenon DEF CoreInv, CoreTypes
<1> QED BY <1>0, <1>1, <1>2, <1>3, StepCore, Zenon

\* One reference less, of a wait_status that belongs to no new child.
LEMMA RefCore ==
  ASSUME CoreInv, NEW t \in Threads, Step(t), NEW e \in Procs,
         UNCHANGED <<children, parent, my_wait, mem, ws_tid>>,
         ref_count' = [ref_count EXCEPT ![e] = @ - 1],
         \A u \in Threads : pc[u] \in ExecLabels => target[u] # e,
         pc[t] # "none", pc'[t] \notin {"none"} \cup LoadLabels \cup ExecLabels, TargetOK(t)'
  PROVE  CoreInv'
<1>0. UNCHANGED <<children, parent, my_wait, mem, ws_tid>>
  BY Zenon
<1>1. ref_count' \in [Procs -> Int] /\ \A p \in Procs : ref_count[p] <= 0 => ref_count'[p] <= 0
  BY DEF CoreInv, CoreTypes
<1>2. \A u \in Threads :
           /\ Once(children'[u])
           /\ \A w \in Range(children'[u]) : w \in Range(children[u]) /\ mem'[w] = "live"
           /\ children[u] = <<>> => children'[u] = <<>>
           /\ pc[u] = "exec_create" => children'[u] # <<>> /\ Head(children'[u]) = Head(children[u])
  <2>1. (\A u \in Threads : ListOK(u)) /\ (\A u \in Threads : TargetOK(u))
    BY Zenon DEF CoreInv
  <2>2. \A u \in Threads : pc[u] = "exec_create" => children[u] # <<>>
    BY <2>1, Zenon DEF TargetOK
  <2>3. \A u \in Threads : Once(children[u]) /\ \A w \in Range(children[u]) : mem[w] = "live"
    BY <2>1, Zenon DEF ListOK
  <2> QED BY <1>0, <2>2, <2>3, Zenon
<1>3. /\ mem' \in [Procs -> {"none", "live", "freed"}]
      /\ children' \in [Threads -> Seq(Procs)]
  BY <1>0, Zenon DEF CoreInv, CoreTypes
<1>4. ASSUME NEW u \in Threads, pc[u] \in ExecLabels PROVE ref_count'[target[u]] = ref_count[target[u]]
  <2>1. target[u] \in Procs /\ target[u] # e
    BY <1>4, Zenon DEF CoreInv, TargetOK, AimedLabels
  <2> QED BY <2>1, Zenon DEF CoreInv, CoreTypes
<1> QED BY <1>0, <1>1, <1>2, <1>3, <1>4, StepCore, Zenon

\* A wait_status is taken off its list and freed.
LEMMA FreeCore ==
  ASSUME CoreInv, NEW t \in Threads, Step(t), NEW e \in Procs, NEW v \in Threads,
         parent[e] = v, UNCHANGED <<parent, my_wait, ws_tid>>,
         children' = [children EXCEPT ![v] = ListRemove(@, e)],
         mem' = [mem EXCEPT ![e] = "freed"],
         ref_count' \in [Procs -> Int], \A p \in Procs : ref_count[p] <= 0 => ref_count'[p] <= 0,
         \A p \in Procs \ {e} : ref_count'[p] = ref_count[p],
         \A u \in Threads : pc[u] \in ExecLabels => target[u] # e,
         pc[t] # "none", pc'[t] \notin {"none"} \cup LoadLabels \cup ExecLabels, TargetOK(t)'
  PROVE  CoreInv'
<1>0. UNCHANGED <<parent, my_wait, ws_tid>>
  BY Zenon
<1>1. CoreTypes /\ (\A u \in Threads : ListOK(u)) /\ (\A u \in Threads : TargetOK(u))
  BY Zenon DEF CoreInv
<1>2. PICK r : r = ListRemove(children[v], e)
  BY Zenon
<1>3. children[v] \in Seq(Procs) /\ Once(children[v])
  BY <1>1, ZenonT(60) DEF CoreTypes, ListOK
<1>4. /\ r \in Seq(Procs) /\ Once(r) /\ Range(r) = Range(children[v]) \ {e}
      /\ children[v] # <<>> /\ Head(children[v]) # e => r # <<>> /\ Head(r) = Head(children[v])
  BY <1>2, <1>3, RemoveOnce
<1>5. children' = [children EXCEPT ![v] = r]
  BY <1>2, Zenon
<1>6. children' \in [Threads -> Seq(Procs)] /\ children'[v] = r
      /\ \A u \in Threads \ {v} : children'[u] = children[u]
  <2>1. children \in [Threads -> Seq(Procs)] /\ r \in Seq(Procs)
    BY <1>1, <1>4, Zenon DEF CoreTypes
  <2> QED BY <1>5, <2>1, ZenonT(60)
<1>7. /\ mem' \in [Procs -> {"none", "live", "freed"}]
      /\ \A p \in Procs \ {e} : mem'[p] = mem[p]
      /\ mem'[e] = "freed"
  BY <1>1, Zenon DEF CoreTypes
<1>8. \A p \in Procs : mem'[p] = "none" => mem[p] = "none"
  <2>1. "freed" # "none"
    BY Zenon
  <2> QED BY <1>7, <2>1, Zenon
<1>9. ASSUME NEW u \in Threads, pc[u] \in ExecLabels
      PROVE  ref_count'[target[u]] = ref_count[target[u]] /\ mem'[target[u]] = mem[target[u]]
  <2>1. target[u] \in Procs /\ target[u] # e
    BY <1>1, <1>9, Zenon DEF TargetOK, AimedLabels
  <2> QED BY <1>7, <2>1, Zenon
<1>10. ASSUME NEW u \in Threads
       PROVE  /\ Once(children'[u])
              /\ \A w \in Range(children'[u]) : w \in Range(children[u]) /\ mem'[w] = "live"
              /\ children[u] = <<>> => children'[u] = <<>>
              /\ pc[u] = "exec_create" => children'[u] # <<>> /\ Head(children'[u]) = Head(children[u])
  <2>0. /\ Once(children[u]) /\ \A w \in Range(children[u]) : w \in Procs /\ parent[w] = u /\ mem[w] = "live"
        /\ pc[u] = "exec_create" => children[u] # <<>> /\ Head(children[u]) = target[u] /\ target[u] # e
    <3>1. children[u] \in Seq(Procs)
      BY <1>1, Zenon DEF CoreTypes
    <3>2. \A w \in Range(children[u]) : w \in Procs
      BY <3>1, RangeIs
    <3>3. pc[u] = "exec_create" => pc[u] \in ExecLabels
      BY Zenon DEF ExecLabels
    <3>4. pc[u] = "exec_create" => children[u] # <<>> /\ Head(children[u]) = target[u] /\ target[u] # e
      BY <1>1, <3>3, Zenon DEF TargetOK
    <3>5. Once(children[u]) /\ \A w \in Range(children[u]) : parent[w] = u /\ mem[w] = "live"
      BY <1>1, Zenon DEF ListOK
    <3> QED BY <3>2, <3>4, <3>5, Zenon
  <2>1. CASE u = v
    <3>1. children[v] = <<>> => r = <<>>
      <4>1. HAVE children[v] = <<>>
      <4>2. Range(children[v]) = {}
        BY <4>1 DEF Range
      <4>3. Range(r) = {}
        BY <1>4, <4>2, Zenon
      <4> QED BY <1>4, <4>3, EmptyRange, Zenon
    <3>2. \A w \in Range(r) : w \in Range(children[u]) /\ mem'[w] = "live"
      BY <1>4, <1>7, <2>0, <2>1, Zenon
    <3>3. children'[u] = r /\ children[u] = children[v]
      BY <1>6, <2>1, Zenon
    <3>4. pc[u] = "exec_create" => r # <<>> /\ Head(r) = Head(children[u])
      BY <1>4, <2>0, <2>1, Zenon
    <3> QED BY <1>4, <3>1, <3>2, <3>3, <3>4, Zenon
  <2>2. CASE u # v
    <3>1. \A w \in Range(children[u]) : w # e
      BY <2>0, <2>2, Zenon
    <3> QED BY <1>6, <1>7, <2>0, <2>2, <3>1, Zenon
  <2> QED BY <2>1, <2>2, Zenon
<1> QED BY <1>0, <1>6, <1>7, <1>8, <1>9, <1>10, StepCore, ZenonT(60)

-----------------------------------------------------------------------------
(* Where each action goes, with which target, and what it does to the lists *)
(* and the wait_statuses. *)

LEMMA Stepped ==
  ASSUME CoreTypes, NEW t \in Threads, NEW l \in Label, NEW x \in Procs \cup {NoThread},
         pc' = [pc EXCEPT ![t] = l], target' = [target EXCEPT ![t] = x], use' = use
  PROVE  Step(t) /\ pc'[t] = l /\ target'[t] = x
  BY Zenon DEF CoreTypes, Step

LEMMA SteppedAhead ==
  ASSUME CoreTypes, NEW t \in Threads, NEW l \in Label,
         pc' = [pc EXCEPT ![t] = l], target' = target, use' = use
  PROVE  Step(t) /\ pc'[t] = l /\ target'[t] = target[t]
  BY Zenon DEF CoreTypes, Step

LEMMA SteppedAside ==
  ASSUME CoreTypes, NEW t \in Threads, NEW x \in Procs \cup {NoThread},
         pc' = pc, target' = [target EXCEPT ![t] = x], use' = use
  PROVE  Step(t) /\ pc'[t] = pc[t] /\ target'[t] = x
  BY Zenon DEF CoreTypes, Step

LEMMA LabelsAre ==
  /\ "run" \in Label /\ "exec_init" \in Label /\ "exec_lock" \in Label /\ "exec_push" \in Label
  /\ "exec_create" \in Label /\ "exec_wait" \in Label
  /\ "load" \in Label /\ "load_stack" \in Label /\ "load_done" \in Label
  /\ "wait_lock" \in Label /\ "wait_find" \in Label /\ "wait_down" \in Label /\ "wait_ref" \in Label
  /\ "wait_lock2" \in Label /\ "wait_free" \in Label
  /\ "exit" \in Label /\ "exit_lock" \in Label /\ "exit_free" \in Label /\ "exit_up" \in Label
  /\ "exit_lock2" \in Label /\ "exit_child" \in Label /\ "dead" \in Label
  BY DEF Label

LEMMA ExecIs ==
  ASSUME CoreTypes, NEW t \in Threads, NEW p \in Procs, Exec(t, p)
  PROVE  /\ Step(t) /\ pc[t] = "run" /\ pc'[t] = "exec_init" /\ target'[t] = p
         /\ pc[p] = "none" /\ mem[p] = "none" /\ \A u \in Threads : pc[u] \in ExecLabels => target[u] # p
         /\ UNCHANGED coreVars
<1>1. \A u \in Threads : pc[u] \in ExecLabels => target[u] # p
  BY Zenon DEF Exec, Starting
<1> QED BY <1>1, LabelsAre, Stepped, Zenon DEF Exec, At, Goto, wsVars, coreVars

LEMMA ExecInitIs ==
  ASSUME CoreTypes, NEW t \in Threads, ExecInit(t)
  PROVE  /\ Step(t) /\ pc[t] = "exec_init" /\ pc'[t] = "exec_lock" /\ target'[t] = target[t]
         /\ mem' = [mem EXCEPT ![target[t]] = "live"]
         /\ ref_count' = [ref_count EXCEPT ![target[t]] = -1]
         /\ UNCHANGED <<children, parent, my_wait, ws_tid>>
  BY LabelsAre, SteppedAhead, Zenon DEF ExecInit, At, Goto

LEMMA ExecNoMemoryIs ==
  ASSUME CoreTypes, NEW t \in Threads, ExecNoMemory(t)
  PROVE  /\ Step(t) /\ pc[t] = "exec_init" /\ pc'[t] \in {"run", "wait_lock"} /\ target'[t] = NoThread
         /\ UNCHANGED coreVars
  BY LabelsAre, Stepped, Zenon DEF ExecNoMemory, At, ExecReturns, Goto, wsVars, coreVars

LEMMA ExecPushIs ==
  ASSUME CoreTypes, NEW t \in Threads, ExecPush(t)
  PROVE  /\ Step(t) /\ pc[t] = "exec_push" /\ pc'[t] = "exec_create" /\ target'[t] = target[t]
         /\ children' = [children EXCEPT ![t] = <<target[t]>> \o @]
         /\ parent' = [parent EXCEPT ![target[t]] = t]
         /\ UNCHANGED <<my_wait, mem, ref_count, ws_tid>>
  BY LabelsAre, SteppedAhead, Zenon DEF ExecPush, At, Goto, wsVars

LEMMA ExecFailIs ==
  ASSUME CoreTypes, NEW t \in Threads, ExecFail(t)
  PROVE  /\ Step(t) /\ pc[t] = "exec_create" /\ pc'[t] \in {"run", "wait_lock"} /\ target'[t] = NoThread
         /\ UNCHANGED coreVars
  BY LabelsAre, Stepped, Zenon DEF ExecFail, At, ExecReturns, Goto, wsVars, coreVars

LEMMA ExecDoneIs ==
  ASSUME CoreTypes, NEW t \in Threads, ExecDone(t)
  PROVE  /\ Step(t) /\ pc[t] = "exec_wait" /\ pc'[t] = "run" /\ target'[t] = NoThread
         /\ UNCHANGED coreVars
  BY LabelsAre, Stepped, Zenon DEF ExecDone, At, Goto, wsVars, coreVars

LEMMA LoadIs ==
  ASSUME CoreTypes, NEW t \in Threads, Load(t)
  PROVE  /\ Step(t) /\ pc[t] = "load" /\ pc'[t] = "load_stack" /\ target'[t] = target[t]
         /\ UNCHANGED coreVars
  BY LabelsAre, SteppedAhead, Zenon DEF Load, At, Goto, wsVars, coreVars

LEMMA LoadStackIs ==
  ASSUME CoreTypes, NEW t \in Threads, LoadStack(t)
  PROVE  /\ Step(t) /\ pc[t] = "load_stack" /\ pc'[t] = "load_done" /\ target'[t] = target[t]
         /\ UNCHANGED coreVars
  BY LabelsAre, SteppedAhead, Zenon DEF LoadStack, At, Goto, wsVars, coreVars

LEMMA LoadDoneIs ==
  ASSUME CoreTypes, NEW t \in Threads, LoadDone(t)
  PROVE  /\ Step(t) /\ pc[t] = "load_done" /\ pc'[t] = "run" /\ target'[t] = target[t]
         /\ UNCHANGED coreVars
  BY LabelsAre, SteppedAhead, Zenon DEF LoadDone, At, Goto, wsVars, coreVars

LEMMA LoadFailIs ==
  ASSUME CoreTypes, NEW t \in Threads, LoadFail(t)
  PROVE  /\ Step(t) /\ pc[t] \in {"load", "load_stack"} /\ pc'[t] = "exit" /\ target'[t] = target[t]
         /\ UNCHANGED coreVars
  BY LabelsAre, SteppedAhead, Zenon DEF LoadFail, At, Goto, wsVars, coreVars

LEMMA WaitIs ==
  ASSUME CoreTypes, NEW t \in Threads, NEW p \in Procs, Wait(t, p)
  PROVE  /\ Step(t) /\ pc[t] = "run" /\ pc'[t] = "wait_lock" /\ target'[t] = p
         /\ UNCHANGED coreVars
  BY LabelsAre, Stepped, Zenon DEF Wait, At, Goto, wsVars, coreVars

LEMMA WaitDownIs ==
  ASSUME CoreTypes, NEW t \in Threads, WaitDown(t)
  PROVE  /\ Step(t) /\ pc[t] = "wait_down" /\ pc'[t] = "wait_ref" /\ target'[t] = target[t]
         /\ UNCHANGED coreVars
  BY LabelsAre, SteppedAhead, Zenon DEF WaitDown, At, Goto, wsVars, coreVars

LEMMA WaitRefIs ==
  ASSUME CoreTypes, NEW t \in Threads, WaitRef(t)
  PROVE  /\ Step(t) /\ pc[t] = "wait_ref"
         /\ \/ pc'[t] = "wait_lock2" /\ target'[t] = target[t] /\ ref_count[target[t]] = 1
            \/ pc'[t] = "run" /\ target'[t] = NoThread /\ ref_count[target[t]] # 1
         /\ ref_count' = [ref_count EXCEPT ![target[t]] = @ - 1]
         /\ UNCHANGED <<children, parent, my_wait, mem, ws_tid>>
  BY SMTT(60), LabelsAre, Stepped, SteppedAhead DEF WaitRef, At, Goto

LEMMA WaitFreeIs ==
  ASSUME CoreTypes, NEW t \in Threads, WaitFree(t)
  PROVE  /\ Step(t) /\ pc[t] = "wait_free" /\ pc'[t] = "run" /\ target'[t] = NoThread
         /\ children' = [children EXCEPT ![t] = ListRemove(@, target[t])]
         /\ mem' = [mem EXCEPT ![target[t]] = "freed"]
         /\ UNCHANGED <<parent, my_wait, ref_count, ws_tid>>
  BY LabelsAre, Stepped, Zenon DEF WaitFree, At, Goto, Free

LEMMA ExitIs ==
  ASSUME CoreTypes, NEW t \in Threads, NEW c, Exit(t, c)
  PROVE  /\ Step(t) /\ pc[t] = "run" /\ pc'[t] = "exit" /\ target'[t] = target[t]
         /\ UNCHANGED coreVars
  BY LabelsAre, SteppedAhead, Zenon DEF Exit, At, Goto, coreVars

LEMMA ExitRefIs ==
  ASSUME CoreTypes, NEW t \in Threads, my_wait[t], ExitRef(t)
  PROVE  /\ Step(t) /\ pc[t] = "exit" /\ target'[t] = target[t]
         /\ \/ pc'[t] = "exit_lock" /\ ref_count[t] = 1
            \/ pc'[t] = "exit_up" /\ ref_count[t] # 1
         /\ ref_count' = [ref_count EXCEPT ![t] = @ - 1]
         /\ UNCHANGED <<children, parent, my_wait, mem, ws_tid>>
  BY LabelsAre, SteppedAhead, Zenon DEF ExitRef, At, Goto

LEMMA ExitFreeIs ==
  ASSUME CoreTypes, NEW t \in Threads, ExitFree(t)
  PROVE  /\ Step(t) /\ pc[t] = "exit_free" /\ pc'[t] = "exit_up" /\ target'[t] = target[t]
         /\ children' = [children EXCEPT ![parent[t]] = ListRemove(@, t)]
         /\ mem' = [mem EXCEPT ![t] = "freed"]
         /\ UNCHANGED <<parent, my_wait, ref_count, ws_tid>>
  BY LabelsAre, SteppedAhead, Zenon DEF ExitFree, At, Goto, Free

LEMMA ExitEndIs ==
  ASSUME CoreTypes, NEW t \in Threads, ExitEnd(t)
  PROVE  /\ Step(t) /\ pc[t] = "exit_child" /\ pc'[t] = "dead" /\ target'[t] = NoThread
         /\ UNCHANGED coreVars
  BY LabelsAre, Stepped, Zenon DEF ExitEnd, At, Goto, wsVars, coreVars

LEMMA AcquireListIs ==
  ASSUME CoreTypes, NEW t \in Threads, NEW from, NEW to \in Label, AcquireList(t, from, to)
  PROVE  /\ Step(t) /\ pc[t] = from /\ target'[t] = target[t]
         /\ (pc'[t] = to /\ list_lock = NoThread /\ list_lock' = t) \/ (pc'[t] = from /\ list_lock' = list_lock)
         /\ UNCHANGED coreVars
<1>1. CASE list_lock = NoThread /\ list_lock' = t /\ Goto(t, to)
  BY <1>1, SteppedAhead, Zenon DEF AcquireList, At, Goto, wsVars, coreVars
<1>2. CASE pc' = pc /\ list_lock' = list_lock
  <2>1. pc[t] \in Label /\ pc' = [pc EXCEPT ![t] = pc[t]]
    BY Zenon, <1>2 DEF CoreTypes
  <2>2. use' = use /\ target' = target /\ pc[t] = from /\ UNCHANGED coreVars
    BY Zenon DEF AcquireList, At, wsVars, coreVars
  <2> QED BY <1>2, <2>1, <2>2, SteppedAhead, Zenon
<1> QED BY <1>1, <1>2, Zenon DEF AcquireList

LEMMA WaitFindIs ==
  ASSUME CoreTypes, NEW t \in Threads, WaitFind(t)
  PROVE  /\ Step(t) /\ pc[t] = "wait_find"
         /\ \/ pc'[t] = "run" /\ target'[t] = NoThread
            \/ /\ pc'[t] = "wait_down" /\ target'[t] \in Range(children[t])
               /\ target[t] # NoThread /\ ws_tid[target'[t]] = target[t]
         /\ UNCHANGED coreVars
<1>0. pc[t] = "wait_find" /\ UNCHANGED coreVars /\ use' = use
  BY Zenon DEF WaitFind, At, wsVars, coreVars
<1>1. CASE target' = [target EXCEPT ![t] = NoThread] /\ Goto(t, "run")
  BY <1>0, <1>1, LabelsAre, Stepped, Zenon DEF Goto
<1>2. CASE Goto(t, "wait_down") /\ \E i \in Match(t, target[t]) : target' = [target EXCEPT ![t] = children[t][i]]
  <2>1. PICK i \in Match(t, target[t]) : target' = [target EXCEPT ![t] = children[t][i]]
    BY <1>2, Zenon
  <2>2. i \in 1..Len(children[t]) /\ target[t] # NoThread /\ ws_tid[children[t][i]] = target[t]
    BY <2>1, Zenon DEF Match
  <2>3. children[t] \in Seq(Procs)
    BY Zenon DEF CoreTypes
  <2>4. children[t][i] \in Procs /\ children[t][i] \in Range(children[t])
    BY <2>2, <2>3, RangeIs
  <2>5. Step(t) /\ pc'[t] = "wait_down" /\ target'[t] = children[t][i]
    BY <1>0, <1>2, <2>1, <2>4, LabelsAre, Stepped, ZenonT(60) DEF Goto
  <2> QED BY <1>0, <2>2, <2>4, <2>5, Zenon
<1> QED BY <1>1, <1>2, Zenon DEF WaitFind

LEMMA ExitUpIs ==
  ASSUME CoreTypes, NEW t \in Threads, ExitUp(t)
  PROVE  /\ pc[t] = "exit_up"
         /\ \/ UNCHANGED <<pc, target, use>> /\ mem[t] = "freed" /\ panic' = "use_after_free" /\ UNCHANGED <<sema, got, code, exit_code>>
            \/ Step(t) /\ pc'[t] = "exit_lock2" /\ target'[t] = target[t] /\ sema' = [sema EXCEPT ![t] = @ + 1]
               /\ UNCHANGED panic
         /\ UNCHANGED coreVars
<1>0. pc[t] = "exit_up"
  BY Zenon DEF ExitUp, At
<1>1. CASE mem[t] = "freed"
  BY <1>0, <1>1, Zenon DEF ExitUp, Halt, wsVars, coreVars, histVars
<1>2. CASE mem[t] # "freed"
  BY <1>0, <1>2, LabelsAre, SteppedAhead, Zenon DEF ExitUp, Goto, coreVars
<1> QED BY <1>1, <1>2, Zenon

LEMMA ExitChildIs ==
  ASSUME CoreTypes, NEW t \in Threads, NEW w \in Procs, ExitChild(t, w)
  PROVE  /\ Step(t) /\ pc[t] = "exit_child" /\ pc'[t] = "exit_child" /\ w \in Range(children[t])
         /\ ref_count' = [ref_count EXCEPT ![w] = @ - 1]
         /\ \/ /\ ref_count[w] = 1 /\ target'[t] = target[t]
               /\ mem' = [mem EXCEPT ![w] = "freed"]
               /\ children' = [children EXCEPT ![t] = ListRemove(@, w)]
            \/ ref_count[w] # 1 /\ target'[t] = w /\ UNCHANGED <<mem, children>>
         /\ UNCHANGED <<parent, my_wait, ws_tid>>
<1>0. /\ pc[t] = "exit_child" /\ pc' = pc /\ use' = use /\ UNCHANGED <<parent, my_wait, ws_tid>>
      /\ ref_count' = [ref_count EXCEPT ![w] = @ - 1]
  BY Zenon DEF ExitChild, At
<1>1. w \in Range(children[t])
  <2>1. PICK i \in 1..Len(children[t]) : children[t][i] = w
    BY Zenon DEF ExitChild
  <2>2. children[t] \in Seq(Procs)
    BY Zenon DEF CoreTypes
  <2> QED BY <2>1, <2>2, RangeIs
<1>2. CASE ref_count[w] = 1
  <2>1. target' = target /\ mem' = [mem EXCEPT ![w] = "freed"] /\ children' = [children EXCEPT ![t] = ListRemove(@, w)]
    BY <1>2, Zenon DEF ExitChild, Free
  <2>2. target[t] \in Procs \cup {NoThread} /\ target' = [target EXCEPT ![t] = target[t]]
    BY Zenon, <2>1 DEF CoreTypes
  <2> QED BY <1>0, <1>1, <1>2, <2>1, <2>2, SteppedAside, Zenon
<1>3. CASE ref_count[w] # 1
  <2>1. target' = [target EXCEPT ![t] = w] /\ UNCHANGED <<mem, children>>
    BY <1>3, Zenon DEF ExitChild
  <2> QED BY <1>0, <1>1, <1>3, <2>1, SteppedAside, Zenon
<1> QED BY <1>2, <1>3, Zenon

-----------------------------------------------------------------------------
(* Every step keeps CoreInv. *)

LEMMA NoThreadIsNone == NoThread \notin Threads /\ NoThread \notin Procs /\ Main \notin Procs
  BY ProcessesAssumption, Zenon DEF Threads

\* The wait_status of a process that has started, or whose parent is past
\* process_execute(), is no exec's.
LEMMA Settled ==
  ASSUME CoreInv, NEW e \in Procs,
         pc[e] # "none" \/ (parent[e] \in Threads /\ pc[parent[e]] \notin ExecLabels)
  PROVE  \A u \in Threads : pc[u] \in ExecLabels => target[u] # e
<1>1. SUFFICES ASSUME NEW u \in Threads, pc[u] \in ExecLabels, target[u] = e PROVE FALSE
  BY Zenon
<1>2. TargetOK(u) /\ CoreTypes
  BY Zenon DEF CoreInv
<1>3. pc[e] = "none"
  BY <1>1, <1>2, Zenon DEF TargetOK
<1>4. parent[e] = NoThread \/ parent[e] = u
  <2>1. pc[u] \in {"exec_init", "exec_lock", "exec_push"} \/ pc[u] = "exec_create"
    BY Zenon, <1>1 DEF ExecLabels
  <2> QED BY <1>1, <1>2, <2>1, Zenon DEF TargetOK
<1> QED BY <1>1, <1>3, <1>4, NoThreadIsNone, Zenon

LEMMA CalmMove ==
  ASSUME CoreInv, NEW t \in Threads, Step(t), UNCHANGED coreVars, pc[t] # "none",
         pc'[t] \notin {"none"} \cup LoadLabels \cup ExecLabels,
         pc'[t] \in IdleLabels => target'[t] = NoThread,
         pc'[t] \in AimedLabels => target'[t] \in Procs,
         pc'[t] \in FoundLabels => parent[target'[t]] = t
  PROVE  CoreInv'
<1>1. TargetOK(t)'
  <2>1. /\ ~(pc'[t] = "exec_init") /\ ~(pc'[t] = "exec_create") /\ ~(pc'[t] \in ExecLabels)
        /\ ~(pc'[t] \in {"exec_init", "exec_lock", "exec_push"})
        /\ ~(pc'[t] \in {"exec_lock", "exec_push", "exec_create"})
    BY DEF ExecLabels
  <2>2. parent' = parent
    BY Zenon DEF coreVars
  <2> QED BY <2>1, <2>2, Zenon DEF TargetOK
<1>2. pc'[t] # "none" /\ pc'[t] \notin LoadLabels /\ pc'[t] \notin ExecLabels
  BY Zenon
<1> QED BY <1>1, <1>2, MoveCore, Zenon

LEMMA CoreStutters ==
  ASSUME CoreInv, UNCHANGED <<use, pc, target, coreVars>>
  PROVE  CoreInv'
<1>0. UNCHANGED <<use, pc, target, children, parent, my_wait, mem, ref_count, ws_tid>>
  BY Zenon DEF coreVars
<1>1. CoreTypes'
  BY <1>0, Zenon DEF CoreInv, CoreTypes
<1>2. \A t \in Threads : TargetOK(t)'
  BY <1>0, ZenonT(60) DEF CoreInv, TargetOK
<1>3. ExecsApart'
  BY <1>0, Zenon DEF CoreInv, ExecsApart
<1>4. ASSUME NEW p \in Procs PROVE Fresh(p)'
  <2>1. Fresh(p)
    BY Zenon DEF CoreInv
  <2>2. pc'[p] = pc[p] /\ parent'[p] = parent[p] /\ my_wait' = my_wait /\ mem'[p] = mem[p]
        /\ ref_count'[p] = ref_count[p] /\ ws_tid'[p] = ws_tid[p]
    BY <1>0, Zenon
  <2> QED BY <2>1, <2>2, Zenon DEF Fresh
<1>5. \A t \in Threads : ListOK(t)'
  BY <1>0, Zenon DEF CoreInv, ListOK
<1> QED BY <1>1, <1>2, <1>3, <1>4, <1>5, Zenon DEF CoreInv

\* The actions of exec.
LEMMA CoreExec ==
  ASSUME CoreInv, NEW t \in Threads,
         \/ \E p \in Procs : Exec(t, p)
         \/ ExecInit(t) \/ ExecNoMemory(t) \/ AcquireList(t, "exec_lock", "exec_push")
         \/ ExecFail(t) \/ ExecDone(t)
  PROVE  CoreInv'
<1>0. CoreTypes /\ TargetOK(t) /\ (\A p \in Procs : Fresh(p)) /\ (\A u \in Threads : ListOK(u))
      /\ (\A u \in Threads : TargetOK(u))
  BY Zenon DEF CoreInv
<1>1. ASSUME NEW p \in Procs, Exec(t, p) PROVE CoreInv'
  <2>1. /\ Step(t) /\ pc[t] = "run" /\ pc'[t] = "exec_init" /\ target'[t] = p
        /\ pc[p] = "none" /\ mem[p] = "none" /\ \A u \in Threads : pc[u] \in ExecLabels => target[u] # p
        /\ UNCHANGED coreVars
    BY <1>0, <1>1, ExecIs, Zenon
  <2>2. parent[p] = NoThread
    BY <1>0, <2>1, Zenon DEF Fresh
  <2>3. pc'[p] = "none" /\ parent'[p] = NoThread /\ mem'[p] = "none"
    <3>1. p \in Threads \ {t} /\ UNCHANGED <<parent, mem>>
      BY <2>1, Zenon DEF Threads, coreVars
    <3> QED BY <1>0, <2>1, <2>2, <3>1, StepAlone, Zenon
  <2>4. TargetOK(t)'
    BY Zenon, <2>1, <2>3 DEF TargetOK, IdleLabels, FoundLabels
  <2>6. pc[t] # "none" /\ pc'[t] # "none" /\ pc'[t] \notin LoadLabels
    BY Zenon, <2>1 DEF LoadLabels
  <2> QED BY <2>1, <2>4, <2>6, MoveCore, Zenon
<1>2. CASE ExecInit(t)
  <2>1. /\ Step(t) /\ pc[t] = "exec_init" /\ pc'[t] = "exec_lock" /\ target'[t] = target[t]
        /\ mem' = [mem EXCEPT ![target[t]] = "live"]
        /\ ref_count' = [ref_count EXCEPT ![target[t]] = -1]
        /\ UNCHANGED <<children, parent, my_wait, ws_tid>>
    BY <1>0, <1>2, ExecInitIs, Zenon
  <2>2. PICK p \in Procs : target[t] = p /\ pc[p] = "none" /\ mem[p] = "none" /\ parent[p] = NoThread
    BY Zenon, <1>0, <2>1 DEF TargetOK, AimedLabels, ExecLabels
  <2>3. /\ mem' \in [Procs -> {"none", "live", "freed"}] /\ ref_count' \in [Procs -> Int]
        /\ mem'[p] = "live" /\ ref_count'[p] = -1
        /\ \A q \in Procs \ {p} : mem'[q] = mem[q] /\ ref_count'[q] = ref_count[q]
    BY <1>0, <2>1, <2>2 DEF CoreTypes
  <2>4. TargetOK(t)'
    <3>1. pc'[p] = "none"
      BY <1>0, <2>1, <2>2, StepAlone, Zenon DEF Threads
    <3> QED BY Zenon, <2>1, <2>2, <2>3, <3>1 DEF TargetOK, IdleLabels, FoundLabels
  <2>5. ASSUME NEW u \in Threads \ {t}, pc[u] \in ExecLabels
        PROVE  target[u] # target'[t] /\ mem'[target[u]] = mem[target[u]] /\ ref_count'[target[u]] = ref_count[target[u]]
    <3>1. pc[t] \in ExecLabels
      BY Zenon, <2>1 DEF ExecLabels
    <3>2. target[u] # p
      BY <2>2, <2>5, <3>1, Zenon DEF CoreInv, ExecsApart
    <3>3. target[u] \in Procs
      BY <1>0, <2>5, Zenon DEF TargetOK, AimedLabels
    <3> QED BY <2>1, <2>2, <2>3, <3>2, <3>3, Zenon
  <2>6. \A q \in Procs : mem'[q] = "none" => mem[q] = "none"
    BY <2>2, <2>3, Zenon
  <2>7. \A q \in Procs : ref_count[q] <= 0 => ref_count'[q] <= 0
    <3>1. ref_count'[p] <= 0
      BY <2>3
    <3> QED BY <2>3, <3>1, Zenon
  <2>8. ASSUME NEW u \in Threads
        PROVE  /\ Once(children'[u])
               /\ \A w \in Range(children'[u]) : w \in Range(children[u]) /\ mem'[w] = "live"
               /\ children[u] = <<>> => children'[u] = <<>>
               /\ pc[u] = "exec_create" => children'[u] # <<>> /\ Head(children'[u]) = Head(children[u])
    <3>1. children'[u] = children[u] /\ children[u] \in Seq(Procs)
      BY <1>0, <2>1, Zenon DEF CoreTypes
    <3>2. \A w \in Range(children[u]) : w \in Procs
      BY <3>1, RangeIs
    <3>3. \A w \in Range(children[u]) : mem'[w] = "live"
      BY <1>0, <2>3, <3>2, ZenonT(60) DEF ListOK
    <3>4. Once(children[u])
      BY <1>0, Zenon DEF ListOK
    <3>5. pc[u] = "exec_create" => children[u] # <<>>
      BY <1>0, Zenon DEF TargetOK
    <3> QED BY <3>1, <3>3, <3>4, <3>5, Zenon
  <2>9. pc[t] # "none" /\ pc'[t] # "none" /\ pc'[t] \notin LoadLabels
    BY Zenon, <2>1 DEF LoadLabels
  <2>10. children' \in [Threads -> Seq(Procs)]
    BY <1>0, <2>1, Zenon DEF CoreTypes
  <2> QED BY <2>1, <2>3, <2>4, <2>5, <2>6, <2>7, <2>8, <2>9, <2>10, StepCore, ZenonT(60)
<1>3. CASE ExecNoMemory(t) \/ ExecFail(t) \/ ExecDone(t)
  <2>1. /\ Step(t) /\ pc[t] \in {"exec_init", "exec_create", "exec_wait"}
        /\ pc'[t] \in {"run", "wait_lock"} /\ target'[t] = NoThread
        /\ UNCHANGED coreVars
    BY <1>0, <1>3, ExecNoMemoryIs, ExecFailIs, ExecDoneIs, Zenon
  <2>2. /\ pc[t] # "none" /\ pc'[t] \notin {"none"} \cup LoadLabels \cup ExecLabels
        /\ pc'[t] \notin AimedLabels /\ pc'[t] \notin FoundLabels
    BY Zenon, <2>1 DEF LoadLabels, ExecLabels, AimedLabels, FoundLabels
  <2> QED BY <2>1, <2>2, CalmMove, Zenon
<1>4. CASE AcquireList(t, "exec_lock", "exec_push")
  <2>1. /\ Step(t) /\ pc[t] = "exec_lock" /\ target'[t] = target[t] /\ pc'[t] \in {"exec_lock", "exec_push"}
        /\ UNCHANGED coreVars
    BY Zenon, <1>0, <1>4, LabelsAre, AcquireListIs
  <2>2. PICK p \in Procs : target[t] = p /\ pc[p] = "none" /\ mem[p] = "live" /\ parent[p] = NoThread /\ ref_count[p] = -1
    BY Zenon, <1>0, <2>1 DEF TargetOK, AimedLabels, ExecLabels
  <2>3. TargetOK(t)'
    <3>1. pc'[p] = "none"
      BY <1>0, <2>1, <2>2, StepAlone, Zenon DEF Threads
    <3>2. mem'[p] = "live" /\ parent'[p] = NoThread /\ ref_count'[p] = -1
      BY <2>1, <2>2, Zenon DEF coreVars
    <3> QED BY Zenon, <2>1, <2>2, <3>1, <3>2 DEF TargetOK, IdleLabels, FoundLabels
  <2>4. pc[t] \in ExecLabels /\ pc[t] # "none" /\ pc'[t] # "none" /\ pc'[t] \notin LoadLabels
    BY Zenon, <2>1 DEF ExecLabels, LoadLabels
  <2>5. \A u \in Threads \ {t} : pc[u] \in ExecLabels => target[u] # target'[t]
    BY <2>1, <2>4, Zenon DEF CoreInv, ExecsApart
  <2> QED BY <2>1, <2>3, <2>4, <2>5, MoveCore, Zenon
<1> QED BY <1>1, <1>2, <1>3, <1>4, Zenon

LEMMA CorePush ==
  ASSUME CoreInv, NEW t \in Threads, ExecPush(t)
  PROVE  CoreInv'
<1>0. CoreTypes /\ (\A u \in Threads : TargetOK(u)) /\ ExecsApart /\ (\A p \in Procs : Fresh(p))
      /\ (\A u \in Threads : ListOK(u))
  BY Zenon DEF CoreInv
<1>1. /\ Step(t) /\ pc[t] = "exec_push" /\ pc'[t] = "exec_create" /\ target'[t] = target[t]
      /\ children' = [children EXCEPT ![t] = <<target[t]>> \o @]
      /\ parent' = [parent EXCEPT ![target[t]] = t]
      /\ UNCHANGED <<my_wait, mem, ref_count, ws_tid>>
  BY <1>0, ExecPushIs, Zenon
<1>2. PICK p \in Procs : target[t] = p /\ pc[p] = "none" /\ mem[p] = "live" /\ parent[p] = NoThread /\ ref_count[p] = -1
  BY Zenon, <1>0, <1>1 DEF TargetOK, AimedLabels, ExecLabels
<1>3. PICK c : c = <<p>> \o children[t]
  BY Zenon
<1>4. /\ children[t] \in Seq(Procs) /\ c \in Seq(Procs) /\ c # <<>> /\ Head(c) = p
      /\ Len(c) = Len(children[t]) + 1 /\ c[1] = p
      /\ \A i \in 2..Len(c) : c[i] = children[t][i - 1] /\ i - 1 \in 1..Len(children[t])
  BY <1>0, <1>3 DEF CoreTypes
<1>5. \A u \in Threads : p \notin Range(children[u])
  BY <1>0, <1>2, NoThreadIsNone, Zenon DEF ListOK
<1>6. Range(c) = Range(children[t]) \cup {p} /\ Once(c)
  <2>1. Range(c) = {c[i] : i \in 1..Len(c)} /\ Range(children[t]) = {children[t][i] : i \in 1..Len(children[t])}
    <3>1. c \in Seq(Procs) /\ children[t] \in Seq(Procs)
      BY <1>4, Zenon
    <3>2. Range(c) = {c[i] : i \in 1..Len(c)}
      BY <3>1, RangeIs, Zenon
    <3>3. Range(children[t]) = {children[t][i] : i \in 1..Len(children[t])}
      BY <3>1, RangeIs, Zenon
    <3> QED BY <3>2, <3>3, Zenon
  <2>2. \A i \in 1..Len(c) : i # 1 => c[i] = children[t][i - 1] /\ i - 1 \in 1..Len(children[t]) /\ c[i] # p
    <3>1. SUFFICES ASSUME NEW i \in 1..Len(c), i # 1
                   PROVE  c[i] = children[t][i - 1] /\ i - 1 \in 1..Len(children[t]) /\ c[i] # p
      BY Zenon
    <3>2. i \in 2..Len(c)
      BY <1>4, <3>1
    <3> QED BY <1>4, <1>5, <2>1, <3>2, ZenonT(60)
  <2>3. Once(c)
    <3>1. SUFFICES ASSUME NEW i \in 1..Len(c), NEW j \in 1..Len(c), c[i] = c[j] PROVE i = j
      BY Zenon DEF Once
    <3>2. CASE i = 1 \/ j = 1
      BY <1>4, <2>2, <3>1, <3>2, Zenon
    <3>3. CASE i # 1 /\ j # 1
      <4>1. PICK k \in 1..Len(children[t]) : k = i - 1 /\ c[i] = children[t][k]
        BY <2>2, <3>3, Zenon
      <4>2. PICK m \in 1..Len(children[t]) : m = j - 1 /\ c[j] = children[t][m]
        BY <2>2, <3>3, Zenon
      <4>3. Once(children[t])
        BY <1>0, Zenon DEF ListOK
      <4>4. k = m
        BY <3>1, <4>1, <4>2, <4>3, Zenon DEF Once
      <4> QED BY <4>1, <4>2, <4>4
    <3> QED BY <3>2, <3>3, Zenon
  <2>4. ASSUME NEW k \in 1..Len(children[t]) PROVE \E i \in 1..Len(c) : c[i] = children[t][k]
    <3>1. k + 1 \in 2..Len(c) /\ (k + 1) - 1 = k /\ k + 1 \in 1..Len(c)
      BY <1>4
    <3> QED BY Zenon, <1>4, <3>1
  <2>5. 1 \in 1..Len(c)
    BY <1>4
  <2>6. ASSUME NEW i \in 1..Len(c) PROVE c[i] \in Range(children[t]) \cup {p}
    <3>1. CASE i = 1
      BY <1>4, <3>1, Zenon
    <3>2. CASE i # 1
      BY <2>1, <2>2, <3>2, Zenon
    <3> QED BY <3>1, <3>2, Zenon
  <2>7. \A x \in Range(children[t]) \cup {p} : x \in Range(c)
    BY <1>4, <2>1, <2>4, <2>5, ZenonT(60)
  <2> QED BY <2>1, <2>3, <2>6, <2>7, ZenonT(60)
<1>7. /\ children' \in [Threads -> Seq(Procs)] /\ children'[t] = c
      /\ \A u \in Threads \ {t} : children'[u] = children[u]
  <2>1. children \in [Threads -> Seq(Procs)] /\ children' = [children EXCEPT ![t] = c]
    BY <1>0, <1>1, <1>2, <1>3, Zenon DEF CoreTypes
  <2> QED BY <1>4, <2>1, Zenon
<1>8. /\ parent' \in [Procs -> Threads \cup {NoThread}] /\ parent'[p] = t
      /\ \A q \in Procs \ {p} : parent'[q] = parent[q]
  BY <1>0, <1>1, <1>2, Zenon DEF CoreTypes
<1>9. CoreTypes'
  BY <1>0, <1>1, <1>7, <1>8, StepAlone, Zenon DEF CoreTypes
<1>s. \A u \in Threads \ {t} : pc'[u] = pc[u] /\ target'[u] = target[u]
  BY <1>0, <1>1, StepAlone, Zenon
<1>e. pc[t] \in ExecLabels /\ pc'[t] \in ExecLabels /\ "exec_create" \in ExecLabels
  BY Zenon, <1>1 DEF ExecLabels
<1>p. p \in Threads \ {t} /\ pc'[p] = "none"
  BY Zenon, <1>1, <1>2, <1>s DEF Threads
<1>10. ASSUME NEW u \in Threads PROVE TargetOK(u)'
  <2>1. CASE u = t
    BY <1>1, <1>2, <1>4, <1>7, <1>8, <1>p, <2>1 DEF TargetOK, IdleLabels, FoundLabels
  <2>2. CASE u # t
    <3>0. TargetOK(u) /\ pc'[u] = pc[u] /\ target'[u] = target[u] /\ children'[u] = children[u]
      BY <1>0, <1>7, <1>s, <2>2, Zenon
    <3>1. pc[u] \in ExecLabels => target[u] # p
      BY <1>0, <1>2, <1>e, <2>2, Zenon DEF ExecsApart
    <3>2. pc[u] \in FoundLabels => target[u] # p
      BY <1>2, <3>0, NoThreadIsNone, Zenon DEF TargetOK
    <3>3. pc[u] \in ExecLabels \/ pc[u] \in FoundLabels => target[u] \in Procs \ {p}
      BY <3>0, <3>1, <3>2, Zenon DEF AimedLabels, TargetOK
    <3>4. pc[u] \in ExecLabels \/ pc[u] \in FoundLabels => parent'[target[u]] = parent[target[u]]
      BY <1>8, <3>3, Zenon
    <3>5. pc[u] \in ExecLabels => pc'[target[u]] = pc[target[u]]
      <4>1. pc[u] \in ExecLabels => target[u] \in Procs /\ pc[target[u]] = "none"
        BY <3>0, <3>3, Zenon DEF TargetOK
      <4>2. pc[t] # "none"
        BY <1>1
      <4> QED BY <1>s, <4>1, <4>2, Zenon DEF Threads
    <3>6. pc[u] = "exec_create" => children'[u] # <<>> /\ Head(children'[u]) = Head(children[u])
      BY <3>0, Zenon DEF TargetOK
    <3>7. mem' = mem /\ ref_count' = ref_count
      BY <1>1, Zenon
    <3> QED BY <3>0, <3>4, <3>5, <3>6, <3>7, TargetKept, Zenon
  <2> QED BY <2>1, <2>2, Zenon
<1>11. ExecsApart'
  <2>1. \A u \in Threads : target'[u] = target[u] /\ (pc'[u] \in ExecLabels => pc[u] \in ExecLabels)
    BY <1>1, <1>s, <1>e, Zenon
  <2> QED BY <1>0, <2>1, Zenon DEF ExecsApart
<1>12. ASSUME NEW q \in Procs PROVE Fresh(q)'
  <2>1. (pc'[q] = "none") <=> (pc[q] = "none")
    <3>1. pc[t] # "none" /\ pc'[t] # "none"
      BY Zenon, <1>1
    <3> QED BY <1>s, <3>1, Zenon DEF Threads
  <2>2. Fresh(q) /\ UNCHANGED <<my_wait, mem, ref_count, ws_tid>>
    BY <1>0, <1>1, Zenon
  <2>3. CASE q # p
    <3>1. parent'[q] = parent[q]
      BY <1>8, <2>3, Zenon
    <3> QED BY <2>1, <2>2, <3>1, Zenon DEF Fresh
  <2>4. CASE q = p
    <3>1. mem'[q] # "none" /\ pc'[q] = "none" /\ pc[q] = "none" /\ parent'[q] # q
      BY <1>2, <1>8, <1>p, <2>2, <2>4
    <3> QED BY <2>2, <3>1, Zenon DEF Fresh
  <2> QED BY <2>3, <2>4, Zenon
<1>13. ASSUME NEW u \in Threads PROVE ListOK(u)'
  <2>0. /\ ListOK(u) /\ mem' = mem
        /\ \A w \in Range(children[u]) : w \in Procs \ {p}
    <3>1. children[u] \in Seq(Procs)
      BY <1>0, Zenon DEF CoreTypes
    <3>2. \A w \in Range(children[u]) : w \in Procs
      BY <3>1, RangeIs
    <3> QED BY <1>0, <1>1, <1>5, <3>2, Zenon
  <2>1. CASE u = t
    <3>1. pc'[u] \notin {"none"} \cup LoadLabels
      BY Zenon, <1>1, <2>1 DEF LoadLabels
    <3>2. \A w \in Range(c) : parent'[w] = u /\ mem'[w] = "live"
      BY <1>2, <1>6, <1>8, <2>0, <2>1, Zenon DEF ListOK
    <3> QED BY <1>6, <1>7, <2>1, <3>1, <3>2, Zenon DEF ListOK
  <2>2. CASE u # t
    <3>1. children'[u] = children[u] /\ pc'[u] = pc[u]
      BY <1>7, <1>s, <2>2, Zenon
    <3>2. \A w \in Range(children[u]) : parent'[w] = u /\ mem'[w] = "live"
      BY <1>8, <2>0, Zenon DEF ListOK
    <3> QED BY <2>0, <3>1, <3>2, Zenon DEF ListOK
  <2> QED BY <2>1, <2>2, Zenon
<1> QED BY <1>9, <1>10, <1>11, <1>12, <1>13, Zenon DEF CoreInv

LEMMA CreateIs ==
  ASSUME CoreInv, NEW t \in Threads, ExecCreate(t)
  PROVE  \E p \in Procs :
           /\ pc[t] = "exec_create" /\ target[t] = p /\ pc[p] = "none" /\ p \in Range(children[t])
           /\ parent[p] = t /\ mem[p] = "live" /\ ref_count[p] = -1
           /\ my_wait' = [my_wait EXCEPT ![p] = TRUE]
           /\ ref_count' = [ref_count EXCEPT ![p] = 2]
           /\ ws_tid' = [ws_tid EXCEPT ![p] = p]
           /\ exit_code' = [exit_code EXCEPT ![p] = -1]
           /\ pc' = [pc EXCEPT ![p] = "load", ![t] = IF t = Main THEN "wait_lock" ELSE "exec_wait"]
           /\ UNCHANGED <<use, target, children, parent, mem, sema, got, code>>
<1>0. CoreTypes /\ TargetOK(t) /\ pc[t] = "exec_create"
  BY Zenon DEF CoreInv, ExecCreate, At
<1>1. PICK p \in Procs : /\ target[t] = p /\ pc[p] = "none" /\ Head(children[t]) = p /\ children[t] # <<>>
                         /\ parent[p] = t /\ mem[p] = "live" /\ ref_count[p] = -1
  BY Zenon, <1>0 DEF TargetOK, AimedLabels, ExecLabels
<1>2. p \in Range(children[t])
  <2>1. children[t] \in Seq(Procs)
    BY <1>0, Zenon DEF CoreTypes
  <2>2. 1 \in 1..Len(children[t]) /\ children[t][1] = p
    BY <1>1, <2>1
  <2> QED BY <2>1, <2>2, RangeIs
<1>3. /\ my_wait' = [my_wait EXCEPT ![p] = TRUE]
      /\ ref_count' = [ref_count EXCEPT ![p] = 2]
      /\ ws_tid' = [ws_tid EXCEPT ![p] = p]
      /\ exit_code' = [exit_code EXCEPT ![p] = -1]
      /\ pc' = [pc EXCEPT ![p] = "load", ![t] = IF t = Main THEN "wait_lock" ELSE "exec_wait"]
      /\ UNCHANGED <<use, target, children, parent, mem, sema, got, code>>
  BY Zenon, <1>1 DEF ExecCreate, histVars
<1> QED BY <1>0, <1>1, <1>2, <1>3, Zenon

\* thread_create(): the child has its wait_status and begins to load.
LEMMA CoreCreate ==
  ASSUME CoreInv, NEW t \in Threads, ExecCreate(t)
  PROVE  CoreInv'
<1>0. CoreTypes /\ (\A u \in Threads : TargetOK(u)) /\ ExecsApart /\ (\A q \in Procs : Fresh(q))
      /\ (\A u \in Threads : ListOK(u))
  BY Zenon DEF CoreInv
<1>1. PICK p \in Procs :
           /\ pc[t] = "exec_create" /\ target[t] = p /\ pc[p] = "none" /\ p \in Range(children[t])
           /\ parent[p] = t /\ mem[p] = "live" /\ ref_count[p] = -1
           /\ my_wait' = [my_wait EXCEPT ![p] = TRUE]
           /\ ref_count' = [ref_count EXCEPT ![p] = 2]
           /\ ws_tid' = [ws_tid EXCEPT ![p] = p]
           /\ exit_code' = [exit_code EXCEPT ![p] = -1]
           /\ pc' = [pc EXCEPT ![p] = "load", ![t] = IF t = Main THEN "wait_lock" ELSE "exec_wait"]
           /\ UNCHANGED <<use, target, children, parent, mem, sema, got, code>>
  BY CreateIs, Zenon
<1>2. p \in Threads /\ p # t
  BY <1>1, Zenon DEF Threads
<1>3. /\ pc' \in [Threads -> Label] /\ pc'[p] = "load" /\ pc'[t] \in {"wait_lock", "exec_wait"}
      /\ \A u \in Threads \ {p, t} : pc'[u] = pc[u]
  BY Zenon, <1>0, <1>1, <1>2 DEF CoreTypes, Label
<1>4. /\ my_wait' \in [Procs -> BOOLEAN] /\ my_wait'[p] /\ \A q \in Procs \ {p} : my_wait'[q] = my_wait[q]
      /\ ws_tid' \in [Procs -> Procs \cup {NoThread}] /\ ws_tid'[p] = p
      /\ \A q \in Procs \ {p} : ws_tid'[q] = ws_tid[q]
  BY <1>0, <1>1, Zenon DEF CoreTypes
<1>5. /\ ref_count' \in [Procs -> Int]
      /\ \A q \in Procs \ {p} : ref_count'[q] = ref_count[q]
  BY <1>0, <1>1 DEF CoreTypes
<1>6. CoreTypes'
  BY <1>0, <1>1, <1>3, <1>4, <1>5, Zenon DEF CoreTypes
<1>7. ASSUME NEW u \in Threads PROVE TargetOK(u)'
  <2>1. CASE u = t
    <3>1. target'[u] \in Procs /\ pc'[u] \in {"wait_lock", "exec_wait"}
      BY <1>1, <1>3, <2>1, Zenon
    <3> QED BY Zenon, <3>1 DEF TargetOK, IdleLabels, FoundLabels, ExecLabels
  <2>2. CASE u = p
    <3>1. target'[u] = NoThread /\ pc'[u] = "load"
      <4>1. TargetOK(u) /\ pc[u] \in IdleLabels
        BY Zenon, <1>0, <1>1, <2>2 DEF IdleLabels
      <4> QED BY <1>1, <1>3, <2>2, <4>1, Zenon DEF TargetOK
    <3> QED BY Zenon, <3>1 DEF TargetOK, IdleLabels, FoundLabels, ExecLabels, AimedLabels
  <2>3. CASE u # t /\ u # p
    <3>0. pc'[u] = pc[u] /\ target'[u] = target[u] /\ TargetOK(u) /\ UNCHANGED <<children, parent, mem>>
      BY <1>0, <1>1, <1>3, <2>3, Zenon
    <3>1. pc[u] \in ExecLabels => target[u] \in Procs /\ target[u] # p /\ pc[target[u]] = "none"
      <4>1. pc[t] \in ExecLabels
        BY Zenon, <1>1 DEF ExecLabels
      <4> QED BY <1>0, <1>1, <2>3, <3>0, <4>1, Zenon DEF ExecsApart, TargetOK, AimedLabels
    <3>2. pc[u] \in ExecLabels => target[u] \in Threads \ {p, t}
      <4>1. pc[t] # "none"
        BY Zenon, <1>1
      <4> QED BY <3>1, <4>1, Zenon DEF Threads
    <3>3. pc[u] \in ExecLabels => pc'[target[u]] = pc[target[u]] /\ ref_count'[target[u]] = ref_count[target[u]]
      BY <1>3, <1>5, <3>1, <3>2, Zenon
    <3>4. pc[u] = "exec_create" => children'[u] # <<>> /\ Head(children'[u]) = Head(children[u])
      BY <3>0, Zenon DEF TargetOK
    <3> QED BY <3>0, <3>3, <3>4, TargetKept, Zenon
  <2> QED BY <2>1, <2>2, <2>3, Zenon
<1>8. ExecsApart'
  <2>1. \A u \in Threads : target'[u] = target[u] /\ (pc'[u] \in ExecLabels => pc[u] \in ExecLabels)
    <3>1. pc'[p] \notin ExecLabels /\ pc'[t] \notin ExecLabels
      BY Zenon, <1>3 DEF ExecLabels
    <3> QED BY <1>1, <1>3, <3>1, Zenon
  <2> QED BY <1>0, <2>1, Zenon DEF ExecsApart
<1>9. ASSUME NEW q \in Procs PROVE Fresh(q)'
  <2>1. CASE q = p
    <3>1. /\ pc'[q] # "none" /\ mem'[q] # "none" /\ parent'[q] \in Threads /\ my_wait'[q] /\ ws_tid'[q] = q
          /\ parent'[q] # q
      BY Zenon, <1>1, <1>2, <1>3, <1>4, <2>1
    <3> QED BY <3>1, Zenon DEF Fresh
  <2>2. CASE q # p
    <3>1. (pc'[q] = "none") <=> (pc[q] = "none")
      <4>1. pc[t] # "none" /\ pc'[t] # "none"
        BY <1>1, <1>3
      <4> QED BY <1>3, <2>2, <4>1, Zenon DEF Threads
    <3>2. /\ Fresh(q) /\ parent'[q] = parent[q] /\ mem'[q] = mem[q] /\ (my_wait[q] => my_wait'[q])
          /\ ws_tid'[q] = ws_tid[q] /\ ref_count'[q] = ref_count[q]
      BY <1>0, <1>1, <1>4, <1>5, <2>2, ZenonT(60)
    <3> QED BY <3>1, <3>2, Zenon DEF Fresh
  <2> QED BY <2>1, <2>2, Zenon
<1>10. ASSUME NEW u \in Threads PROVE ListOK(u)'
  <2>0. ListOK(u) /\ UNCHANGED <<children, parent, mem>>
    BY <1>0, <1>1, Zenon
  <2>1. CASE u = p
    <3>1. children[u] = <<>>
      BY <1>1, <2>0, <2>1, Zenon DEF ListOK
    <3> QED BY <2>0, <3>1, Zenon DEF ListOK
  <2>2. CASE u = t
    <3>1. pc'[u] \notin {"none"} \cup LoadLabels
      BY Zenon, <1>3, <2>2 DEF LoadLabels
    <3> QED BY <2>0, <3>1, Zenon DEF ListOK
  <2>3. CASE u # p /\ u # t
    <3>1. pc'[u] = pc[u]
      BY <1>3, <2>3, Zenon
    <3> QED BY <2>0, <3>1, Zenon DEF ListOK
  <2> QED BY <2>1, <2>2, <2>3, Zenon
<1> QED BY <1>6, <1>7, <1>8, <1>9, <1>10, Zenon DEF CoreInv

\* start_process() and load().
LEMMA CoreLoad ==
  ASSUME CoreInv, NEW t \in Threads, Load(t) \/ LoadStack(t) \/ LoadDone(t) \/ LoadFail(t)
  PROVE  CoreInv'
<1>0. CoreTypes /\ TargetOK(t)
  BY Zenon DEF CoreInv
<1>1. /\ Step(t) /\ pc[t] \in LoadLabels /\ pc'[t] \in {"load_stack", "load_done", "run", "exit"}
      /\ target'[t] = target[t] /\ UNCHANGED coreVars
  BY Zenon, <1>0, LoadIs, LoadStackIs, LoadDoneIs, LoadFailIs DEF LoadLabels
<1>2. target[t] = NoThread
  <2>1. pc[t] \in IdleLabels
    BY Zenon, <1>1 DEF LoadLabels, IdleLabels
  <2> QED BY <1>0, <2>1, Zenon DEF TargetOK
<1>3. TargetOK(t)'
  BY Zenon, <1>1, <1>2 DEF TargetOK, IdleLabels, FoundLabels, ExecLabels, AimedLabels
<1>4. pc[t] # "none" /\ pc'[t] # "none" /\ pc'[t] \notin ExecLabels
  BY Zenon, <1>1 DEF LoadLabels, ExecLabels
<1> QED BY <1>1, <1>3, <1>4, MoveCore, Zenon

\* process_wait().
LEMMA CoreWait ==
  ASSUME CoreInv, NEW t \in Threads,
         \/ \E p \in Procs : Wait(t, p)
         \/ AcquireList(t, "wait_lock", "wait_find") \/ WaitFind(t) \/ WaitDown(t) \/ WaitRef(t)
         \/ AcquireList(t, "wait_lock2", "wait_free") \/ WaitFree(t)
  PROVE  CoreInv'
<1>0. CoreTypes /\ TargetOK(t) /\ ListOK(t)
  BY Zenon DEF CoreInv
<1>1. CASE \/ \E p \in Procs : Wait(t, p)
           \/ AcquireList(t, "wait_lock", "wait_find")
  <2>1. Step(t) /\ pc[t] \in {"run", "wait_lock"} /\ pc'[t] \in {"wait_lock", "wait_find"} /\ UNCHANGED coreVars
    <3>1. ASSUME NEW p \in Procs, Wait(t, p)
          PROVE  Step(t) /\ pc[t] \in {"run", "wait_lock"} /\ pc'[t] \in {"wait_lock", "wait_find"} /\ UNCHANGED coreVars
      BY <1>0, <3>1, WaitIs, Zenon
    <3>2. CASE AcquireList(t, "wait_lock", "wait_find")
      BY Zenon, <1>0, <3>2, LabelsAre, AcquireListIs
    <3> QED BY <1>1, <3>1, <3>2, Zenon
  <2>2. /\ pc[t] # "none" /\ pc'[t] \notin {"none"} \cup LoadLabels \cup ExecLabels
        /\ pc'[t] \notin IdleLabels /\ pc'[t] \notin AimedLabels /\ pc'[t] \notin FoundLabels
    BY Zenon, <2>1 DEF LoadLabels, ExecLabels, IdleLabels, AimedLabels, FoundLabels
  <2> QED BY <2>1, <2>2, CalmMove, Zenon
<1>2. CASE WaitDown(t) \/ AcquireList(t, "wait_lock2", "wait_free")
  <2>1. /\ Step(t) /\ pc[t] \in {"wait_down", "wait_lock2"} /\ pc'[t] \in FoundLabels
        /\ target'[t] = target[t] /\ UNCHANGED coreVars
    <3>1. CASE WaitDown(t)
      BY Zenon, <1>0, <3>1, WaitDownIs DEF FoundLabels
    <3>2. CASE AcquireList(t, "wait_lock2", "wait_free")
      BY Zenon, <1>0, <3>2, LabelsAre, AcquireListIs DEF FoundLabels
    <3> QED BY <1>2, <3>1, <3>2, Zenon
  <2>2. /\ pc[t] # "none" /\ pc'[t] \notin {"none"} \cup LoadLabels \cup ExecLabels
        /\ pc'[t] \notin IdleLabels /\ pc[t] \in AimedLabels /\ pc[t] \in FoundLabels
    BY Zenon, <2>1 DEF LoadLabels, ExecLabels, IdleLabels, AimedLabels, FoundLabels
  <2>3. target[t] \in Procs /\ parent[target[t]] = t
    BY <1>0, <2>2, Zenon DEF TargetOK
  <2> QED BY <2>1, <2>2, <2>3, CalmMove, Zenon
<1>3. CASE WaitFind(t)
  <2>1. /\ Step(t) /\ pc[t] = "wait_find"
        /\ \/ pc'[t] = "run" /\ target'[t] = NoThread
           \/ /\ pc'[t] = "wait_down" /\ target'[t] \in Range(children[t])
              /\ target[t] # NoThread /\ ws_tid[target'[t]] = target[t]
        /\ UNCHANGED coreVars
    BY <1>0, <1>3, WaitFindIs, Zenon
  <2>2. /\ pc[t] # "none" /\ pc'[t] \notin {"none"} \cup LoadLabels \cup ExecLabels
        /\ (pc'[t] \in IdleLabels => pc'[t] # "wait_down")
        /\ (pc'[t] \in AimedLabels => pc'[t] # "run") /\ (pc'[t] \in FoundLabels => pc'[t] # "run")
    BY Zenon, <2>1 DEF LoadLabels, ExecLabels, IdleLabels, AimedLabels, FoundLabels
  <2>3. target'[t] \in Range(children[t]) => target'[t] \in Procs /\ parent[target'[t]] = t
    <3>1. children[t] \in Seq(Procs)
      BY <1>0, Zenon DEF CoreTypes
    <3>2. \A w \in Range(children[t]) : w \in Procs
      BY <3>1, RangeIs
    <3> QED BY <1>0, <3>2, Zenon DEF ListOK
  <2> QED BY <2>1, <2>2, <2>3, CalmMove, Zenon
<1>4. CASE WaitRef(t)
  <2>1. /\ Step(t) /\ pc[t] = "wait_ref"
        /\ \/ pc'[t] = "wait_lock2" /\ target'[t] = target[t] /\ ref_count[target[t]] = 1
           \/ pc'[t] = "run" /\ target'[t] = NoThread /\ ref_count[target[t]] # 1
        /\ ref_count' = [ref_count EXCEPT ![target[t]] = @ - 1]
        /\ UNCHANGED <<children, parent, my_wait, mem, ws_tid>>
    BY <1>0, <1>4, WaitRefIs, ZenonT(60)
  <2>2. PICK w \in Procs : target[t] = w /\ parent[w] = t
    BY Zenon, <1>0, <2>1 DEF TargetOK, AimedLabels, FoundLabels
  <2>3. pc[t] # "none" /\ pc[t] \notin ExecLabels /\ pc'[t] \notin {"none"} \cup LoadLabels \cup ExecLabels
    BY Zenon, <2>1 DEF LoadLabels, ExecLabels
  <2>4. \A u \in Threads : pc[u] \in ExecLabels => target[u] # w
    BY <2>2, <2>3, Settled, ZenonT(60)
  <2>5. TargetOK(t)'
    BY Zenon, <2>1, <2>2 DEF TargetOK, AimedLabels, FoundLabels, ExecLabels, IdleLabels
  <2> QED BY <2>1, <2>2, <2>3, <2>4, <2>5, RefCore, Zenon
<1>5. CASE WaitFree(t)
  <2>1. /\ Step(t) /\ pc[t] = "wait_free" /\ pc'[t] = "run" /\ target'[t] = NoThread
        /\ children' = [children EXCEPT ![t] = ListRemove(@, target[t])]
        /\ mem' = [mem EXCEPT ![target[t]] = "freed"]
        /\ UNCHANGED <<parent, my_wait, ref_count, ws_tid>>
    BY <1>0, <1>5, WaitFreeIs, ZenonT(60)
  <2>2. PICK w \in Procs : target[t] = w /\ parent[w] = t
    BY Zenon, <1>0, <2>1 DEF TargetOK, AimedLabels, FoundLabels
  <2>3. pc[t] # "none" /\ pc[t] \notin ExecLabels /\ pc'[t] \notin {"none"} \cup LoadLabels \cup ExecLabels
    BY Zenon, <2>1 DEF LoadLabels, ExecLabels
  <2>4. \A u \in Threads : pc[u] \in ExecLabels => target[u] # w
    BY <2>2, <2>3, Settled, Zenon
  <2>5. TargetOK(t)'
    BY Zenon, <2>1 DEF TargetOK, AimedLabels, FoundLabels, ExecLabels
  <2>6. ref_count' \in [Procs -> Int]
    BY <1>0, <2>1, Zenon DEF CoreTypes
  <2> QED BY <2>1, <2>2, <2>3, <2>4, <2>5, <2>6, FreeCore, Zenon
<1> QED BY <1>1, <1>2, <1>3, <1>4, <1>5, Zenon

\* process_exit().
LEMMA CoreExit ==
  ASSUME CoreInv, NEW p \in Procs,
         \/ \E c \in Codes \cup {-1} : Exit(p, c)
         \/ ExitRef(p) \/ AcquireList(p, "exit_lock", "exit_free") \/ ExitFree(p) \/ ExitUp(p)
         \/ AcquireList(p, "exit_lock2", "exit_child") \/ (\E w \in Procs : ExitChild(p, w)) \/ ExitEnd(p)
  PROVE  CoreInv'
<1>0. CoreTypes /\ TargetOK(p) /\ ListOK(p) /\ Fresh(p) /\ p \in Threads
  BY ZenonT(60) DEF CoreInv, Threads
<1>i. pc[p] \in {"run", "exit", "exit_lock", "exit_free", "exit_up", "exit_lock2"} => target[p] = NoThread
  BY Zenon, <1>0 DEF TargetOK, IdleLabels
<1>1. CASE \/ \E c \in Codes \cup {-1} : Exit(p, c)
           \/ AcquireList(p, "exit_lock", "exit_free")
           \/ AcquireList(p, "exit_lock2", "exit_child")
  <2>1. /\ Step(p) /\ pc[p] \in {"run", "exit_lock", "exit_lock2"} /\ target'[p] = target[p]
        /\ pc'[p] \in {"exit", "exit_lock", "exit_free", "exit_lock2", "exit_child"}
        /\ UNCHANGED coreVars
    <3>1. ASSUME NEW c, Exit(p, c)
          PROVE  /\ Step(p) /\ pc[p] \in {"run", "exit_lock", "exit_lock2"} /\ target'[p] = target[p]
                 /\ pc'[p] \in {"exit", "exit_lock", "exit_free", "exit_lock2", "exit_child"}
                 /\ UNCHANGED coreVars
      BY Zenon, <1>0, <3>1, ExitIs
    <3>2. CASE AcquireList(p, "exit_lock", "exit_free")
      BY Zenon, <1>0, <3>2, LabelsAre, AcquireListIs
    <3>3. CASE AcquireList(p, "exit_lock2", "exit_child")
      BY Zenon, <1>0, <3>3, LabelsAre, AcquireListIs
    <3> QED BY <1>1, <3>1, <3>2, <3>3, ZenonT(60)
  <2>2. /\ pc[p] # "none" /\ pc'[p] \notin {"none"} \cup LoadLabels \cup ExecLabels
        /\ target'[p] = NoThread /\ pc'[p] \notin AimedLabels /\ pc'[p] \notin FoundLabels
    BY Zenon, <1>i, <2>1 DEF LoadLabels, ExecLabels, AimedLabels, FoundLabels
  <2> QED BY <1>0, <2>1, <2>2, CalmMove, Zenon
<1>2. CASE ExitRef(p)
  <2>1. my_wait[p]
    <3>1. pc[p] # "none"
      BY Zenon, <1>2 DEF ExitRef, At
    <3> QED BY <1>0, <3>1, ZenonT(60) DEF Fresh
  <2>2. /\ Step(p) /\ pc[p] = "exit" /\ target'[p] = target[p]
        /\ \/ pc'[p] = "exit_lock" /\ ref_count[p] = 1
           \/ pc'[p] = "exit_up" /\ ref_count[p] # 1
        /\ ref_count' = [ref_count EXCEPT ![p] = @ - 1]
        /\ UNCHANGED <<children, parent, my_wait, mem, ws_tid>>
    BY <1>0, <1>2, <2>1, ExitRefIs, ZenonT(60)
  <2>3. pc[p] # "none" /\ pc'[p] \notin {"none"} \cup LoadLabels \cup ExecLabels
    BY <2>2 DEF LoadLabels, ExecLabels
  <2>4. \A u \in Threads : pc[u] \in ExecLabels => target[u] # p
    BY <2>3, Settled, ZenonT(60)
  <2>5. TargetOK(p)'
    BY Zenon, <1>i, <2>2 DEF TargetOK, AimedLabels, FoundLabels, ExecLabels, IdleLabels
  <2> QED BY <1>0, <2>2, <2>3, <2>4, <2>5, RefCore, Zenon
<1>3. CASE ExitFree(p)
  <2>1. /\ Step(p) /\ pc[p] = "exit_free" /\ pc'[p] = "exit_up" /\ target'[p] = target[p]
        /\ children' = [children EXCEPT ![parent[p]] = ListRemove(@, p)]
        /\ mem' = [mem EXCEPT ![p] = "freed"]
        /\ UNCHANGED <<parent, my_wait, ref_count, ws_tid>>
    BY <1>0, <1>3, ExitFreeIs, Zenon
  <2>2. pc[p] # "none" /\ pc'[p] \notin {"none"} \cup LoadLabels \cup ExecLabels
    BY Zenon, <2>1 DEF LoadLabels, ExecLabels
  <2>3. PICK v \in Threads : parent[p] = v
    BY <1>0, <2>2, Zenon DEF Fresh
  <2>4. \A u \in Threads : pc[u] \in ExecLabels => target[u] # p
    BY <2>2, Settled, Zenon
  <2>5. TargetOK(p)'
    BY <1>i, <2>1 DEF TargetOK, AimedLabels, FoundLabels, ExecLabels, IdleLabels
  <2>6. ref_count' \in [Procs -> Int]
    BY <1>0, <2>1, Zenon DEF CoreTypes
  <2> QED BY <1>0, <2>1, <2>2, <2>3, <2>4, <2>5, <2>6, FreeCore, Zenon
<1>4. CASE ExitUp(p)
  <2>1. /\ pc[p] = "exit_up" /\ UNCHANGED coreVars
        /\ \/ UNCHANGED <<pc, target, use>>
           \/ Step(p) /\ pc'[p] = "exit_lock2" /\ target'[p] = target[p]
    BY <1>0, <1>4, ExitUpIs, Zenon
  <2>2. CASE UNCHANGED <<pc, target, use>>
    BY <2>1, <2>2, CoreStutters, Zenon
  <2>3. CASE Step(p) /\ pc'[p] = "exit_lock2" /\ target'[p] = target[p]
    <3>1. /\ pc[p] # "none" /\ pc'[p] \notin {"none"} \cup LoadLabels \cup ExecLabels
          /\ target'[p] = NoThread /\ pc'[p] \notin AimedLabels /\ pc'[p] \notin FoundLabels
      BY <1>i, <2>1, <2>3 DEF LoadLabels, ExecLabels, AimedLabels, FoundLabels
    <3> QED BY <1>0, <2>1, <2>3, <3>1, CalmMove, ZenonT(60)
  <2> QED BY <2>1, <2>2, <2>3, Zenon
<1>5. ASSUME NEW w \in Procs, ExitChild(p, w) PROVE CoreInv'
  <2>1. /\ Step(p) /\ pc[p] = "exit_child" /\ pc'[p] = "exit_child" /\ w \in Range(children[p])
        /\ ref_count' = [ref_count EXCEPT ![w] = @ - 1]
        /\ \/ /\ ref_count[w] = 1 /\ target'[p] = target[p]
              /\ mem' = [mem EXCEPT ![w] = "freed"]
              /\ children' = [children EXCEPT ![p] = ListRemove(@, w)]
           \/ ref_count[w] # 1 /\ target'[p] = w /\ UNCHANGED <<mem, children>>
        /\ UNCHANGED <<parent, my_wait, ws_tid>>
    BY <1>0, <1>5, ExitChildIs, Zenon
  <2>2. parent[w] = p
    BY <1>0, <2>1, Zenon DEF ListOK
  <2>3. pc[p] # "none" /\ pc[p] \notin ExecLabels /\ pc'[p] \notin {"none"} \cup LoadLabels \cup ExecLabels
    BY Zenon, <2>1 DEF LoadLabels, ExecLabels
  <2>4. \A u \in Threads : pc[u] \in ExecLabels => target[u] # w
    BY <1>0, <2>2, <2>3, Settled, ZenonT(60)
  <2>5. TargetOK(p)'
    BY Zenon, <2>1 DEF TargetOK, AimedLabels, FoundLabels, ExecLabels, IdleLabels
  <2>6. /\ ref_count' \in [Procs -> Int] /\ \A q \in Procs : ref_count[q] <= 0 => ref_count'[q] <= 0
        /\ \A q \in Procs \ {w} : ref_count'[q] = ref_count[q]
    <3>1. ref_count \in [Procs -> Int]
      BY <1>0, Zenon DEF CoreTypes
    <3> QED BY <2>1, <3>1
  <2>7. CASE UNCHANGED <<mem, children>>
    BY <1>0, <2>1, <2>3, <2>4, <2>5, <2>7, RefCore, Zenon
  <2>8. CASE /\ mem' = [mem EXCEPT ![w] = "freed"]
             /\ children' = [children EXCEPT ![p] = ListRemove(@, w)]
    BY <1>0, <2>1, <2>2, <2>3, <2>4, <2>5, <2>6, <2>8, FreeCore, Zenon
  <2> QED BY <2>1, <2>7, <2>8, Zenon
<1>6. CASE ExitEnd(p)
  <2>1. /\ Step(p) /\ pc[p] = "exit_child" /\ pc'[p] = "dead" /\ target'[p] = NoThread
        /\ UNCHANGED coreVars
    BY <1>0, <1>6, ExitEndIs, ZenonT(60)
  <2>2. /\ pc[p] # "none" /\ pc'[p] \notin {"none"} \cup LoadLabels \cup ExecLabels
        /\ pc'[p] \notin AimedLabels /\ pc'[p] \notin FoundLabels
    BY Zenon, <2>1 DEF LoadLabels, ExecLabels, AimedLabels, FoundLabels
  <2> QED BY <1>0, <2>1, <2>2, CalmMove, Zenon
<1> QED BY <1>1, <1>2, <1>3, <1>4, <1>5, <1>6, Zenon

LEMMA CoreInit == Init => CoreInv
<1> SUFFICES ASSUME Init PROVE CoreInv
  BY Zenon
<1>0. /\ \A t \in Threads : pc[t] \in {"run", "none"} /\ target[t] = NoThread /\ children[t] = <<>>
      /\ \A p \in Procs : /\ pc[p] = "none" /\ parent[p] = NoThread /\ mem[p] = "none"
                          /\ ref_count[p] = 0 /\ ws_tid[p] = NoThread
  BY Zenon, NoThreadIsNone DEF Init, Threads
<1>1. CoreTypes
  <2>1. pc \in [Threads -> Label]
    BY Zenon DEF Init, Label
  <2>2. <<>> \in Seq(Procs) /\ 0 \in Int /\ FALSE \in BOOLEAN /\ "none" \in {"none", "live", "freed"}
    OBVIOUS
  <2> QED BY <2>1, <2>2, Zenon DEF Init, CoreTypes
<1>2. ASSUME NEW t \in Threads PROVE TargetOK(t)
  BY Zenon, <1>0 DEF TargetOK, IdleLabels, AimedLabels, ExecLabels, FoundLabels
<1>3. ExecsApart
  <2>1. \A t \in Threads : pc[t] \notin ExecLabels
    BY Zenon, <1>0 DEF ExecLabels
  <2> QED BY <2>1, Zenon DEF ExecsApart
<1>4. ASSUME NEW p \in Procs PROVE Fresh(p)
  BY SMTT(60), <1>0, NoThreadIsNone DEF Fresh
<1>5. ASSUME NEW t \in Threads PROVE ListOK(t)
  BY <1>0 DEF ListOK, Once, Range
<1> QED BY <1>1, <1>2, <1>3, <1>4, <1>5, Zenon DEF CoreInv

LEMMA CoreStep == CoreInv /\ [Next]_vars => CoreInv'
<1> SUFFICES ASSUME CoreInv, [Next]_vars PROVE CoreInv'
  BY Zenon
<1>1. ASSUME NEW t \in Threads, NEW p \in Procs, Exec(t, p) \/ Wait(t, p) PROVE CoreInv'
  BY <1>1, CoreExec, CoreWait, Zenon
<1>2. ASSUME NEW t \in Threads, Continue(t) PROVE CoreInv'
  <2>1. CASE ReleaseAsserts(t)
    <3>1. UNCHANGED <<use, pc, target, coreVars>>
      BY <2>1, Zenon DEF ReleaseAsserts, Halt, wsVars, coreVars
    <3> QED BY <3>1, CoreStutters, Zenon
  <2> QED BY <1>2, <2>1, CoreExec, CorePush, CoreCreate, CoreWait, Zenon DEF Continue
<1>3. ASSUME NEW p \in Procs, NEW c \in Codes \cup {-1}, Exit(p, c) PROVE CoreInv'
  BY <1>3, CoreExit, Zenon
<1>4. ASSUME NEW p \in Procs, Leave(p) PROVE CoreInv'
  <2>1. p \in Threads
    BY Zenon DEF Threads
  <2> QED BY <1>4, <2>1, CoreLoad, CoreExit, Zenon DEF Leave
<1>5. CASE UNCHANGED vars
  <2>1. UNCHANGED <<use, pc, target, coreVars>>
    BY <1>5, Zenon DEF vars, wsVars, coreVars
  <2> QED BY <2>1, CoreStutters, Zenon
<1> QED BY <1>1, <1>2, <1>3, <1>4, <1>5, Zenon DEF Next, Stopped

-----------------------------------------------------------------------------
(* Most steps neither load a program nor hand over an exit status. *)

LeftLabels == {"exit_lock2", "exit_child", "dead"}
Calm ==
  /\ argv' = argv /\ load_file' = load_file /\ exe' = exe /\ args' = args /\ mixed' = mixed
  /\ sema' = sema /\ got' = got /\ code' = code /\ exit_code' = exit_code

Ordinary(t) ==
  /\ Step(t) /\ pc[t] # "none" /\ pc'[t] # "none" /\ Calm
  /\ pc'[t] \notin LoadLabels
  /\ pc'[t] \in ExecLabels => pc[t] \in ExecLabels /\ target'[t] = target[t]
  /\ pc'[t] \in LeftLabels <=> pc[t] \in LeftLabels
  /\ pc'[t] \in ExitLabels <=> pc[t] \in ExitLabels \/ pc[t] \in {"load", "load_stack"}

LEMMA OrdinarySteps ==
  ASSUME CoreInv, NEW t \in Threads,
         \/ ExecInit(t) \/ ExecNoMemory(t) \/ AcquireList(t, "exec_lock", "exec_push") \/ ExecPush(t)
         \/ ExecFail(t) \/ ExecDone(t)
         \/ LoadDone(t) \/ LoadFail(t)
         \/ \E p \in Procs : Wait(t, p)
         \/ AcquireList(t, "wait_lock", "wait_find") \/ WaitFind(t) \/ WaitRef(t)
         \/ AcquireList(t, "wait_lock2", "wait_free") \/ WaitFree(t)
         \/ (t \in Procs /\ ExitRef(t)) \/ AcquireList(t, "exit_lock", "exit_free") \/ ExitFree(t)
         \/ AcquireList(t, "exit_lock2", "exit_child") \/ (\E w \in Procs : ExitChild(t, w)) \/ ExitEnd(t)
  PROVE  Ordinary(t)
<1>0. CoreTypes /\ \A p \in Procs : Fresh(p)
  BY ZenonT(60) DEF CoreInv
<1>1. CASE ExecInit(t)
  <2>1. Calm
    BY <1>1, ZenonT(60) DEF ExecInit, InitList, Calm, wsVars, loadVars, histVars, faultVars
  <2> QED BY <1>0, <1>1, <2>1, ExecInitIs DEF Ordinary, LoadLabels, ExecLabels, LeftLabels, ExitLabels
<1>2. CASE ExecNoMemory(t)
  <2>1. Calm
    BY <1>2, ZenonT(60) DEF ExecNoMemory, InitList, Calm, wsVars, loadVars, histVars, faultVars
  <2> QED BY Zenon, <1>0, <1>2, <2>1, ExecNoMemoryIs DEF Ordinary, LoadLabels, ExecLabels, LeftLabels, ExitLabels
<1>3. CASE ExecPush(t)
  <2>1. Calm
    BY <1>3, Zenon DEF ExecPush, Calm, wsVars, loadVars, histVars, faultVars
  <2> QED BY Zenon, <1>0, <1>3, <2>1, ExecPushIs DEF Ordinary, LoadLabels, ExecLabels, LeftLabels, ExitLabels
<1>4. CASE ExecFail(t)
  <2>1. Calm
    BY <1>4, ZenonT(60) DEF ExecFail, Calm, wsVars, loadVars, histVars, faultVars
  <2> QED BY Zenon, <1>0, <1>4, <2>1, ExecFailIs DEF Ordinary, LoadLabels, ExecLabels, LeftLabels, ExitLabels
<1>5. CASE ExecDone(t)
  <2>1. Calm
    BY <1>5, ZenonT(60) DEF ExecDone, Calm, wsVars, loadVars, histVars, faultVars
  <2> QED BY Zenon, <1>0, <1>5, <2>1, ExecDoneIs DEF Ordinary, LoadLabels, ExecLabels, LeftLabels, ExitLabels
<1>6. CASE LoadDone(t)
  <2>1. Calm
    BY <1>6, ZenonT(60) DEF LoadDone, Calm, wsVars, loadVars, histVars, faultVars
  <2> QED BY <1>0, <1>6, <2>1, LoadDoneIs DEF Ordinary, LoadLabels, ExecLabels, LeftLabels, ExitLabels
<1>7. CASE LoadFail(t)
  <2>1. Calm
    BY <1>7, ZenonT(60) DEF LoadFail, Calm, wsVars, loadVars, histVars, faultVars
  <2> QED BY Zenon, <1>0, <1>7, <2>1, LoadFailIs DEF Ordinary, LoadLabels, ExecLabels, LeftLabels, ExitLabels
<1>8. CASE WaitFind(t)
  <2>1. Calm
    BY <1>8, ZenonT(60) DEF WaitFind, Calm, wsVars, loadVars, histVars, faultVars
  <2> QED BY Zenon, <1>0, <1>8, <2>1, WaitFindIs DEF Ordinary, LoadLabels, ExecLabels, LeftLabels, ExitLabels
<1>9. CASE WaitRef(t)
  <2>1. Calm
    BY <1>9, ZenonT(60) DEF WaitRef, Calm, wsVars, loadVars, histVars, faultVars
  <2> QED BY Zenon, <1>0, <1>9, <2>1, WaitRefIs DEF Ordinary, LoadLabels, ExecLabels, LeftLabels, ExitLabels
<1>10. CASE WaitFree(t)
  <2>1. Calm
    BY <1>10, ZenonT(60) DEF WaitFree, Calm, wsVars, loadVars, histVars, faultVars
  <2> QED BY Zenon, <1>0, <1>10, <2>1, WaitFreeIs DEF Ordinary, LoadLabels, ExecLabels, LeftLabels, ExitLabels
<1>11. CASE ExitFree(t)
  <2>1. Calm
    BY <1>11, ZenonT(60) DEF ExitFree, Calm, wsVars, loadVars, histVars, faultVars
  <2> QED BY Zenon, <1>0, <1>11, <2>1, ExitFreeIs DEF Ordinary, LoadLabels, ExecLabels, LeftLabels, ExitLabels
<1>12. CASE ExitEnd(t)
  <2>1. Calm
    BY <1>12, ZenonT(60) DEF ExitEnd, Calm, wsVars, loadVars, histVars, faultVars
  <2> QED BY Zenon, <1>0, <1>12, <2>1, ExitEndIs DEF Ordinary, LoadLabels, ExecLabels, LeftLabels, ExitLabels
<1>13. CASE AcquireList(t, "exec_lock", "exec_push")
  <2>1. Calm
    BY <1>13, ZenonT(60) DEF AcquireList, Calm, wsVars, loadVars, histVars, faultVars
  <2>2. Step(t) /\ pc[t] = "exec_lock" /\ target'[t] = target[t] /\ pc'[t] \in {"exec_lock", "exec_push"}
    BY ZenonT(60), <1>0, <1>13, LabelsAre, AcquireListIs
  <2> QED BY <2>1, <2>2 DEF Ordinary, LoadLabels, ExecLabels, LeftLabels, ExitLabels
<1>14. CASE AcquireList(t, "wait_lock", "wait_find")
  <2>1. Calm
    BY <1>14, ZenonT(60) DEF AcquireList, Calm, wsVars, loadVars, histVars, faultVars
  <2>2. Step(t) /\ pc[t] = "wait_lock" /\ target'[t] = target[t] /\ pc'[t] \in {"wait_lock", "wait_find"}
    BY ZenonT(60), <1>0, <1>14, LabelsAre, AcquireListIs
  <2> QED BY Zenon, <2>1, <2>2 DEF Ordinary, LoadLabels, ExecLabels, LeftLabels, ExitLabels
<1>15. CASE AcquireList(t, "wait_lock2", "wait_free")
  <2>1. Calm
    BY <1>15, ZenonT(60) DEF AcquireList, Calm, wsVars, loadVars, histVars, faultVars
  <2>2. Step(t) /\ pc[t] = "wait_lock2" /\ target'[t] = target[t] /\ pc'[t] \in {"wait_lock2", "wait_free"}
    BY ZenonT(60), <1>0, <1>15, LabelsAre, AcquireListIs
  <2> QED BY Zenon, <2>1, <2>2 DEF Ordinary, LoadLabels, ExecLabels, LeftLabels, ExitLabels
<1>16. CASE AcquireList(t, "exit_lock", "exit_free")
  <2>1. Calm
    BY <1>16, ZenonT(60) DEF AcquireList, Calm, wsVars, loadVars, histVars, faultVars
  <2>2. Step(t) /\ pc[t] = "exit_lock" /\ target'[t] = target[t] /\ pc'[t] \in {"exit_lock", "exit_free"}
    BY ZenonT(60), <1>0, <1>16, LabelsAre, AcquireListIs
  <2> QED BY Zenon, <2>1, <2>2 DEF Ordinary, LoadLabels, ExecLabels, LeftLabels, ExitLabels
<1>17. CASE AcquireList(t, "exit_lock2", "exit_child")
  <2>1. Calm
    BY <1>17, ZenonT(60) DEF AcquireList, Calm, wsVars, loadVars, histVars, faultVars
  <2>2. Step(t) /\ pc[t] = "exit_lock2" /\ target'[t] = target[t] /\ pc'[t] \in {"exit_lock2", "exit_child"}
    BY ZenonT(60), <1>0, <1>17, LabelsAre, AcquireListIs
  <2> QED BY <2>1, <2>2 DEF Ordinary, LoadLabels, ExecLabels, LeftLabels, ExitLabels
<1>18. ASSUME NEW p \in Procs, Wait(t, p) PROVE Ordinary(t)
  <2>1. Calm
    BY <1>18, ZenonT(60) DEF Wait, Calm, wsVars, loadVars, faultVars
  <2> QED BY Zenon, <1>0, <1>18, <2>1, WaitIs DEF Ordinary, LoadLabels, ExecLabels, LeftLabels, ExitLabels
<1>19. ASSUME t \in Procs, ExitRef(t) PROVE Ordinary(t)
  <2>1. Calm /\ pc[t] = "exit"
    BY <1>19, Zenon DEF ExitRef, At, Calm, loadVars, histVars, faultVars
  <2>2. my_wait[t]
    <3>1. pc[t] # "none"
      BY Zenon, <2>1
    <3> QED BY <1>0, <1>19, <3>1, Zenon DEF Fresh
  <2> QED BY Zenon, <1>0, <1>19, <2>1, <2>2, ExitRefIs DEF Ordinary, LoadLabels, ExecLabels, LeftLabels, ExitLabels
<1>20. ASSUME NEW w \in Procs, ExitChild(t, w) PROVE Ordinary(t)
  <2>1. Calm
    BY <1>20, Zenon DEF ExitChild, Calm, loadVars, histVars, faultVars
  <2> QED BY Zenon, <1>0, <1>20, <2>1, ExitChildIs DEF Ordinary, LoadLabels, ExecLabels, LeftLabels, ExitLabels
<1> QED BY <1>1, <1>2, <1>3, <1>4, <1>5, <1>6, <1>7, <1>8, <1>9, <1>10, <1>11, <1>12, <1>13, <1>14, <1>15, <1>16, <1>17, <1>18, <1>19, <1>20, ZenonT(60)

LEMMA StepKinds ==
  ASSUME CoreInv, [Next]_vars
  PROVE  \/ \E t \in Threads, p \in Procs : Exec(t, p)
         \/ \E t \in Threads : ExecCreate(t)
         \/ \E p \in Procs : Load(p) \/ LoadStack(p)
         \/ \E t \in Threads : WaitDown(t)
         \/ \E p \in Procs, c \in Codes \cup {-1} : Exit(p, c)
         \/ \E p \in Procs : ExitUp(p)
         \/ \E t \in Threads : Ordinary(t)
         \/ (UNCHANGED <<use, pc, target>> /\ Calm)
<1> DEFINE G == \/ \E t \in Threads, p \in Procs : Exec(t, p)
                \/ \E t \in Threads : ExecCreate(t)
                \/ \E p \in Procs : Load(p) \/ LoadStack(p)
                \/ \E t \in Threads : WaitDown(t)
                \/ \E p \in Procs, c \in Codes \cup {-1} : Exit(p, c)
                \/ \E p \in Procs : ExitUp(p)
                \/ \E t \in Threads : Ordinary(t)
                \/ (UNCHANGED <<use, pc, target>> /\ Calm)
<1>1. ASSUME NEW t \in Threads, NEW p \in Procs, Exec(t, p) \/ Wait(t, p) PROVE G
  BY <1>1, OrdinarySteps, Zenon
<1>2. ASSUME NEW t \in Threads, Continue(t) PROVE G
  <2>1. CASE ReleaseAsserts(t)
    <3>1. (UNCHANGED <<use, pc, target>> /\ Calm)
      BY <2>1, Zenon DEF ReleaseAsserts, Halt, wsVars, loadVars, histVars, faultVars, Calm
    <3> QED BY <3>1, Zenon
  <2> QED BY <1>2, <2>1, OrdinarySteps, Zenon DEF Continue
<1>3. ASSUME NEW p \in Procs, Leave(p) PROVE G
  <2>1. p \in Threads
    BY Zenon DEF Threads
  <2> QED BY <1>3, <2>1, OrdinarySteps, Zenon DEF Leave
<1>4. CASE UNCHANGED vars
  BY <1>4, Zenon DEF vars, wsVars, loadVars, histVars, faultVars, Calm
<1>5. G
  BY <1>1, <1>2, <1>3, <1>4, Zenon DEF Next, Stopped
<1> QED BY <1>5, Zenon

-----------------------------------------------------------------------------
(* The globals that a command line passes through. *)

\* x is p's, or p and x are of commands that were started together.
Own(p, x) == IF p \in mixed THEN x \in mixed ELSE x = p

\* One command is being started, or all of those that are, are mixed; and argv
\* is of one of them, up to the end of the child's load().
Loads ==
  /\ \A p, q \in Starting : p = q \/ (p \in mixed /\ q \in mixed)
  /\ \A p \in Starting : Own(p, argv)
  /\ \A p \in Procs :
       /\ pc[p] = "load_stack" => Own(p, load_file)
       /\ pc[p] \notin {"none", "load", "load_stack"} \cup ExitLabels => Own(p, exe[p]) /\ Own(p, args[p])

LoadTypes ==
  /\ argv \in Procs \cup {NoThread} /\ load_file \in Procs \cup {NoThread}
  /\ exe \in [Procs -> Procs \cup {NoThread}] /\ args \in [Procs -> Procs \cup {NoThread}]

\* More commands may become mixed, none ceases to be.
LEMMA OwnGrows ==
  ASSUME NEW p, NEW x, Own(p, x), mixed \subseteq mixed'
  PROVE  Own(p, x)'
  BY Zenon DEF Own

\* A step of t after which no other command is being started.
LEMMA StartingShrinks ==
  ASSUME CoreTypes, NEW t \in Threads, Step(t),
         pc'[t] \in LoadLabels => pc[t] \in LoadLabels,
         pc'[t] \in ExecLabels => pc[t] \in ExecLabels /\ target'[t] = target[t]
  PROVE  Starting' \subseteq Starting
<1>1. \A u \in Threads \ {t} : pc'[u] = pc[u] /\ target'[u] = target[u]
  BY StepAlone, Zenon
<1>2. ASSUME NEW x \in Starting' PROVE x \in Starting
  <2>1. CASE \E u \in Threads : pc'[u] \in ExecLabels /\ x = target'[u]
    <3>1. PICK u \in Threads : pc'[u] \in ExecLabels /\ x = target'[u]
      BY <2>1, Zenon
    <3>2. pc[u] \in ExecLabels /\ x = target[u]
      BY <1>1, <3>1, Zenon
    <3> QED BY <3>2, Zenon DEF Starting
  <2>2. CASE x \in Procs /\ pc'[x] \in LoadLabels
    <3>1. pc[x] \in LoadLabels
      BY <1>1, <2>2, Zenon DEF Threads
    <3> QED BY <2>2, <3>1, Zenon DEF Starting
  <2> QED BY <1>2, <2>1, <2>2, Zenon DEF Starting
<1> QED BY <1>2, Zenon

LEMMA LoadsKept ==
  ASSUME Loads, Starting' \subseteq Starting, mixed' = mixed, argv' = argv,
         \A p \in Procs :
           /\ pc'[p] = "load_stack" => Own(p, load_file')
           /\ pc'[p] \notin {"none", "load", "load_stack"} \cup ExitLabels => Own(p, exe'[p]) /\ Own(p, args'[p])
  PROVE  Loads'
<1>1. \A p, x : Own(p, x) => IF p \in mixed' THEN x \in mixed' ELSE x = p
  BY Zenon DEF Own
<1>2. \A p, q \in Starting' : p = q \/ (p \in mixed' /\ q \in mixed')
  BY Zenon DEF Loads
<1>3. ASSUME NEW p \in Starting' PROVE Own(p, argv)'
  <2>1. Own(p, argv)
    BY Zenon DEF Loads
  <2> QED BY <2>1, Zenon DEF Own
<1>4. ASSUME NEW p \in Procs
      PROVE  /\ pc'[p] = "load_stack" => Own(p, load_file)'
             /\ pc'[p] \notin {"none", "load", "load_stack"} \cup ExitLabels => Own(p, exe[p])' /\ Own(p, args[p])'
  BY <1>1, Zenon DEF Own
<1> QED BY <1>2, <1>3, <1>4, Zenon DEF Loads, Own

LEMMA LoadsStep == CoreInv /\ LoadTypes /\ Loads /\ [Next]_vars => LoadTypes' /\ Loads'
<1> SUFFICES ASSUME CoreInv, LoadTypes, Loads, [Next]_vars PROVE LoadTypes' /\ Loads'
  BY Zenon
<1>0. CoreTypes /\ (\A t \in Threads : TargetOK(t)) /\ (\A p \in Procs : p \in Threads)
  BY Zenon DEF CoreInv, Threads
<1>l. \A p \in Procs :
        /\ pc[p] = "load_stack" => Own(p, load_file)
        /\ pc[p] \notin {"none", "load", "load_stack"} \cup ExitLabels => Own(p, exe[p]) /\ Own(p, args[p])
  BY Zenon DEF Loads
<1>a. \A p \in Procs : pc[p] \in LoadLabels => Own(p, argv)
  BY Zenon DEF Loads, Starting
<1>1. ASSUME NEW t \in Threads, NEW p \in Procs, Exec(t, p) PROVE LoadTypes' /\ Loads'
  <2>1. Step(t) /\ pc[t] = "run" /\ pc'[t] = "exec_init" /\ target'[t] = p
    BY <1>0, <1>1, ExecIs, Zenon
  <2>2. /\ argv' = p /\ UNCHANGED <<load_file, exe, args>>
        /\ mixed' = IF Starting = {} THEN mixed ELSE mixed \cup Starting \cup {p}
    BY <1>1, Zenon DEF Exec
  <2>3. LoadTypes'
    BY <2>2, Zenon DEF LoadTypes
  <2>4. \A u \in Threads \ {t} : pc'[u] = pc[u] /\ target'[u] = target[u]
    BY <1>0, <2>1, StepAlone, Zenon
  <2>5. ASSUME NEW x \in Starting' PROVE x = p \/ x \in Starting
    <3>1. CASE \E u \in Threads : pc'[u] \in ExecLabels /\ x = target'[u]
      BY <2>1, <2>4, <3>1, Zenon DEF Starting
    <3>2. CASE x \in Procs /\ pc'[x] \in LoadLabels
      <4>1. x # t
        BY Zenon, <2>1, <3>2 DEF LoadLabels
      <4> QED BY <1>0, <2>4, <3>2, <4>1, Zenon DEF Starting
    <3> QED BY <2>5, <3>1, <3>2, Zenon DEF Starting
  <2>6. mixed \subseteq mixed'
    BY <2>2, Zenon
  <2>7. /\ \A x, y \in Starting' : x = y \/ (x \in mixed' /\ y \in mixed')
        /\ \A x \in Starting' : Own(x, argv)'
    <3>1. CASE Starting = {}
      <4>1. \A x \in Starting' : x = p
        BY <2>5, <3>1, Zenon
      <4> QED BY <2>2, <4>1, Zenon DEF Own
    <3>2. CASE Starting # {}
      <4>1. p \in mixed' /\ \A x \in Starting' : x \in mixed'
        BY <2>2, <2>5, <3>2, Zenon
      <4> QED BY <2>2, <4>1, Zenon DEF Own
    <3> QED BY <3>1, <3>2, Zenon
  <2>8. ASSUME NEW q \in Procs
        PROVE  /\ pc'[q] = "load_stack" => Own(q, load_file)'
               /\ pc'[q] \notin {"none", "load", "load_stack"} \cup ExitLabels => Own(q, exe[q])' /\ Own(q, args[q])'
    <3>1. /\ pc'[q] = "load_stack" => pc[q] = "load_stack"
          /\ pc'[q] \notin {"none", "load", "load_stack"} \cup ExitLabels =>
               pc[q] \notin {"none", "load", "load_stack"} \cup ExitLabels
      <4>1. /\ ~(pc'[t] = "load_stack")
            /\ pc[t] \notin {"none", "load", "load_stack"} \cup ExitLabels
        BY Zenon, <2>1 DEF ExitLabels
      <4> QED BY <1>0, <2>4, <4>1, Zenon
    <3>2. \A x : Own(q, x) => IF q \in mixed' THEN x \in mixed' ELSE x = q
      BY <2>6, Zenon DEF Own
    <3> QED BY <1>l, <2>2, <3>1, <3>2, Zenon DEF Own
  <2> QED BY <2>3, <2>7, <2>8, Zenon DEF Loads
<1>2. ASSUME NEW t \in Threads, ExecCreate(t) PROVE LoadTypes' /\ Loads'
  <2>1. PICK p \in Procs :
           /\ pc[t] = "exec_create" /\ target[t] = p /\ pc[p] = "none" /\ p \in Range(children[t])
           /\ parent[p] = t /\ mem[p] = "live" /\ ref_count[p] = -1
           /\ my_wait' = [my_wait EXCEPT ![p] = TRUE]
           /\ ref_count' = [ref_count EXCEPT ![p] = 2]
           /\ ws_tid' = [ws_tid EXCEPT ![p] = p]
           /\ exit_code' = [exit_code EXCEPT ![p] = -1]
           /\ pc' = [pc EXCEPT ![p] = "load", ![t] = IF t = Main THEN "wait_lock" ELSE "exec_wait"]
           /\ UNCHANGED <<use, target, children, parent, mem, sema, got, code>>
    BY <1>2, CreateIs, Zenon
  <2>2. UNCHANGED <<argv, load_file, exe, args, mixed>>
    BY <1>2, Zenon DEF ExecCreate, loadVars, faultVars
  <2>3. LoadTypes'
    BY <2>2, Zenon DEF LoadTypes
  <2>4. p # t /\ p \in Threads
    BY <1>0, <2>1, Zenon
  <2>5. /\ \A u \in Threads \ {p, t} : pc'[u] = pc[u]
        /\ pc'[p] = "load" /\ pc'[t] \in {"wait_lock", "exec_wait"} /\ target' = target
    BY Zenon, <1>0, <2>1, <2>4 DEF CoreTypes
  <2>6. /\ pc[t] \in ExecLabels /\ pc'[t] \notin ExecLabels /\ pc'[t] \notin LoadLabels /\ pc'[p] \notin ExecLabels
        /\ pc[t] \notin {"none", "load", "load_stack"} \cup ExitLabels
        /\ pc'[p] \in {"none", "load", "load_stack"} \cup ExitLabels
        /\ ~(pc'[p] = "load_stack") /\ ~(pc'[t] = "load_stack")
    BY Zenon, <2>1, <2>5 DEF LoadLabels, ExitLabels, ExecLabels
  <2>7. ASSUME NEW x \in Starting' PROVE x \in Starting
    <3>1. CASE \E u \in Threads : pc'[u] \in ExecLabels /\ x = target'[u]
      <4>1. PICK u \in Threads : pc'[u] \in ExecLabels /\ x = target'[u]
        BY <3>1, Zenon
      <4>2. u \notin {p, t}
        BY Zenon, <2>6, <4>1
      <4>3. pc[u] \in ExecLabels /\ x = target[u]
        BY <2>5, <4>1, <4>2, Zenon
      <4> QED BY <4>3, Zenon DEF Starting
    <3>2. CASE x \in Procs /\ pc'[x] \in LoadLabels
      <4>1. x = p \/ x \notin {p, t}
        BY Zenon, <2>6, <3>2
      <4>2. p \in Starting
        BY <2>1, <2>6, Zenon DEF Starting
      <4>3. x \notin {p, t} => pc[x] \in LoadLabels
        BY <1>0, <2>5, <3>2, Zenon
      <4> QED BY <3>2, <4>1, <4>2, <4>3, Zenon DEF Starting
    <3> QED BY <2>7, <3>1, <3>2, Zenon DEF Starting
  <2>8. ASSUME NEW q \in Procs
        PROVE  /\ pc'[q] = "load_stack" => pc[q] = "load_stack"
               /\ pc'[q] \notin {"none", "load", "load_stack"} \cup ExitLabels =>
                    pc[q] \notin {"none", "load", "load_stack"} \cup ExitLabels
    <3>1. CASE q \in {p, t}
      BY Zenon, <2>6, <3>1
    <3>2. CASE q \notin {p, t}
      BY <1>0, <2>5, <3>2, Zenon
    <3> QED BY <3>1, <3>2, Zenon
  <2>9. Starting' \subseteq Starting
    BY <2>7, Zenon
  <2>10. \A q \in Procs :
           /\ pc'[q] = "load_stack" => Own(q, load_file')
           /\ pc'[q] \notin {"none", "load", "load_stack"} \cup ExitLabels => Own(q, exe'[q]) /\ Own(q, args'[q])
    BY <1>l, <2>2, <2>8, Zenon
  <2> QED BY <2>2, <2>3, <2>9, <2>10, LoadsKept, Zenon
<1>3. ASSUME NEW t \in Procs, Load(t) PROVE LoadTypes' /\ Loads'
  <2>1. Step(t) /\ pc[t] = "load" /\ pc'[t] = "load_stack" /\ target'[t] = target[t] /\ t \in Threads
    BY <1>0, <1>3, LoadIs, Zenon
  <2>2. load_file' = argv /\ UNCHANGED <<argv, exe, args, mixed>>
    BY <1>3, Zenon DEF Load, faultVars
  <2>3. LoadTypes'
    BY <2>2, Zenon DEF LoadTypes
  <2>4. /\ pc[t] \in LoadLabels /\ pc'[t] \notin ExecLabels
        /\ pc'[t] \in {"none", "load", "load_stack"} \cup ExitLabels
    BY Zenon, <2>1 DEF LoadLabels, ExecLabels
  <2>5. Starting' \subseteq Starting
    BY <1>0, <2>1, <2>4, StartingShrinks, Zenon
  <2>6. Own(t, argv)
    BY <1>a, <2>4, Zenon
  <2>7. \A u \in Threads \ {t} : pc'[u] = pc[u]
    BY <1>0, <2>1, StepAlone, Zenon
  <2>8. ASSUME NEW q \in Procs
        PROVE  /\ pc'[q] = "load_stack" => Own(q, load_file')
               /\ pc'[q] \notin {"none", "load", "load_stack"} \cup ExitLabels => Own(q, exe'[q]) /\ Own(q, args'[q])
    <3>1. CASE q = t
      BY <2>2, <2>4, <2>6, <3>1, Zenon
    <3>2. CASE q # t
      <4>1. pc'[q] = pc[q]
        BY <1>0, <2>7, <3>2, Zenon
      <4>2. pc[q] = "load_stack" => Own(q, argv)
        <5>1. pc[q] = "load_stack" => pc[q] \in LoadLabels
          BY Zenon DEF LoadLabels
        <5> QED BY <1>a, <5>1, Zenon
      <4> QED BY <1>l, <2>2, <4>1, <4>2, Zenon
    <3> QED BY <3>1, <3>2, Zenon
  <2> QED BY <2>2, <2>3, <2>5, <2>8, LoadsKept, Zenon
<1>4. ASSUME NEW t \in Procs, LoadStack(t) PROVE LoadTypes' /\ Loads'
  <2>1. Step(t) /\ pc[t] = "load_stack" /\ pc'[t] = "load_done" /\ target'[t] = target[t] /\ t \in Threads
    BY <1>0, <1>4, LoadStackIs, Zenon
  <2>2. /\ args' = [args EXCEPT ![t] = argv] /\ exe' = [exe EXCEPT ![t] = load_file]
        /\ UNCHANGED <<argv, load_file, mixed>>
    BY <1>4, Zenon DEF LoadStack, faultVars
  <2>3. LoadTypes' /\ args'[t] = argv /\ exe'[t] = load_file
        /\ \A q \in Procs \ {t} : args'[q] = args[q] /\ exe'[q] = exe[q]
    BY <2>2, Zenon DEF LoadTypes
  <2>4. pc[t] \in LoadLabels /\ pc'[t] \notin ExecLabels /\ ~(pc'[t] = "load_stack")
    BY Zenon, <2>1 DEF LoadLabels, ExecLabels
  <2>5. Starting' \subseteq Starting
    BY <1>0, <2>1, <2>4, StartingShrinks, Zenon
  <2>6. Own(t, argv) /\ Own(t, load_file)
    BY <1>a, <1>l, <2>1, <2>4, Zenon
  <2>7. \A u \in Threads \ {t} : pc'[u] = pc[u]
    BY <1>0, <2>1, StepAlone, Zenon
  <2>8. ASSUME NEW q \in Procs
        PROVE  /\ pc'[q] = "load_stack" => Own(q, load_file')
               /\ pc'[q] \notin {"none", "load", "load_stack"} \cup ExitLabels => Own(q, exe'[q]) /\ Own(q, args'[q])
    <3>1. CASE q = t
      BY <2>3, <2>4, <2>6, <3>1, Zenon
    <3>2. CASE q # t
      <4>1. pc'[q] = pc[q] /\ exe'[q] = exe[q] /\ args'[q] = args[q]
        BY <1>0, <2>3, <2>7, <3>2, Zenon
      <4> QED BY <1>l, <2>2, <4>1, Zenon
    <3> QED BY <3>1, <3>2, Zenon
  <2> QED BY <2>2, <2>3, <2>5, <2>8, LoadsKept, Zenon
<1>5. ASSUME NEW t \in Threads, Step(t), pc[t] # "none", pc'[t] # "none",
             UNCHANGED <<argv, load_file, exe, args, mixed>>,
             pc'[t] \notin LoadLabels,
             pc'[t] \in ExecLabels => pc[t] \in ExecLabels /\ target'[t] = target[t],
             pc[t] \in ExitLabels \cup {"load", "load_stack"} => pc'[t] \in ExitLabels
      PROVE  LoadTypes' /\ Loads'
  <2>0. UNCHANGED <<argv, load_file, exe, args, mixed>>
    BY <1>5, Zenon
  <2>1. LoadTypes'
    BY <2>0, Zenon DEF LoadTypes
  <2>2. Starting' \subseteq Starting
    BY <1>0, <1>5, StartingShrinks, Zenon
  <2>3. \A u \in Threads \ {t} : pc'[u] = pc[u]
    BY <1>0, <1>5, StepAlone, Zenon
  <2>4. "load_stack" \in LoadLabels
    BY Zenon DEF LoadLabels
  <2>5. ASSUME NEW q \in Procs
        PROVE  /\ pc'[q] = "load_stack" => Own(q, load_file')
               /\ pc'[q] \notin {"none", "load", "load_stack"} \cup ExitLabels => Own(q, exe'[q]) /\ Own(q, args'[q])
    <3>1. CASE q = t
      BY <1>l, <1>5, <2>0, <2>4, <3>1, Zenon
    <3>2. CASE q # t
      <4>1. pc'[q] = pc[q]
        BY <1>0, <2>3, <3>2, Zenon
      <4> QED BY <1>l, <2>0, <4>1, Zenon
    <3> QED BY <3>1, <3>2, Zenon
  <2> QED BY <2>0, <2>1, <2>2, <2>5, LoadsKept, Zenon
<1>6. ASSUME NEW t \in Threads, Ordinary(t) PROVE LoadTypes' /\ Loads'
  BY <1>5, <1>6, Zenon DEF Ordinary, Calm
<1>7. ASSUME NEW t \in Threads, WaitDown(t) PROVE LoadTypes' /\ Loads'
  <2>1. Step(t) /\ pc[t] = "wait_down" /\ pc'[t] = "wait_ref" /\ UNCHANGED <<argv, load_file, exe, args, mixed>>
    BY <1>0, <1>7, WaitDownIs, Zenon DEF WaitDown, loadVars, faultVars
  <2>2. /\ pc[t] # "none" /\ pc'[t] # "none" /\ pc'[t] \notin LoadLabels /\ pc'[t] \notin ExecLabels
        /\ pc[t] \notin ExitLabels \cup {"load", "load_stack"}
    BY <2>1 DEF LoadLabels, ExecLabels, ExitLabels
  <2> QED BY <1>5, <2>1, <2>2, Zenon
<1>8. ASSUME NEW t \in Procs, NEW c, Exit(t, c) PROVE LoadTypes' /\ Loads'
  <2>1. Step(t) /\ pc[t] = "run" /\ pc'[t] = "exit" /\ UNCHANGED <<argv, load_file, exe, args, mixed>>
    BY <1>0, <1>8, ExitIs, Zenon DEF Exit, loadVars, faultVars
  <2>2. /\ pc[t] # "none" /\ pc'[t] # "none" /\ pc'[t] \notin LoadLabels /\ pc'[t] \notin ExecLabels
        /\ pc[t] \notin ExitLabels \cup {"load", "load_stack"}
    BY <2>1 DEF LoadLabels, ExecLabels, ExitLabels
  <2> QED BY <1>0, <1>5, <2>1, <2>2, Zenon
<1>9. CASE UNCHANGED <<use, pc, target>> /\ UNCHANGED <<argv, load_file, exe, args, mixed>>
  <2>1. Starting' = Starting
    BY <1>9, Zenon DEF Starting
  <2> QED BY <1>9, <2>1, Zenon DEF LoadTypes, Loads, Own
<1>10. ASSUME NEW t \in Procs, ExitUp(t) PROVE LoadTypes' /\ Loads'
  <2>1. UNCHANGED <<argv, load_file, exe, args, mixed>>
    BY <1>10, Zenon DEF ExitUp, Halt, loadVars, faultVars
  <2>2. \/ UNCHANGED <<use, pc, target>>
        \/ Step(t) /\ pc[t] = "exit_up" /\ pc'[t] = "exit_lock2" /\ target'[t] = target[t]
    BY <1>0, <1>10, ExitUpIs, Zenon
  <2>3. CASE Step(t) /\ pc[t] = "exit_up" /\ pc'[t] = "exit_lock2"
    <3>1. pc[t] # "none" /\ pc'[t] # "none" /\ pc'[t] \notin LoadLabels /\ pc'[t] \notin ExecLabels /\ pc'[t] \in ExitLabels
      BY Zenon, <2>3 DEF LoadLabels, ExecLabels, ExitLabels
    <3> QED BY <1>0, <1>5, <2>1, <2>3, <3>1, Zenon
  <2> QED BY <1>9, <2>1, <2>2, <2>3, Zenon
<1>11. (UNCHANGED <<use, pc, target>> /\ Calm) => LoadTypes' /\ Loads'
  BY <1>9, Zenon DEF Calm
<1> QED BY <1>1, <1>2, <1>3, <1>4, <1>6, <1>7, <1>8, <1>10, <1>11, StepKinds, Zenon

LEMMA LoadsInit == Init => LoadTypes /\ Loads
<1> SUFFICES ASSUME Init PROVE LoadTypes /\ Loads
  BY Zenon
<1>1. /\ \A t \in Threads : pc[t] \in {"run", "none"}
      /\ \A p \in Procs : pc[p] = "none" /\ p \in Threads
  BY Zenon, NoThreadIsNone DEF Init, Threads
<1>2. \A t \in Threads : pc[t] \notin ExecLabels /\ pc[t] \notin LoadLabels /\ ~(pc[t] = "load_stack")
  BY Zenon, <1>1 DEF ExecLabels, LoadLabels
<1>3. LoadTypes
  BY Zenon DEF Init, LoadTypes
<1>4. \A p : p \notin Starting
  BY <1>1, <1>2, Zenon DEF Starting
<1> QED BY <1>1, <1>2, <1>3, <1>4, Zenon DEF Loads

\* A process runs the executable and the arguments of its own command line,
\* although both pass through process.c's globals and load()'s static variable.
\* Execs that overlap can mix up their command lines, with each other's only.
THEOREM LoadsOwn == Spec => []LoadsOwnCommand
<1>1. Init => CoreInv /\ LoadTypes /\ Loads
  BY CoreInit, LoadsInit, Zenon
<1>2. CoreInv /\ LoadTypes /\ Loads /\ [Next]_vars => (CoreInv /\ LoadTypes /\ Loads)'
  BY CoreStep, LoadsStep, Zenon
<1>3. Loads => LoadsOwnCommand
  <2>1. "run" \notin {"none", "load", "load_stack"} \cup ExitLabels
    BY Zenon DEF ExitLabels
  <2>2. ASSUME Loads, NEW p \in Procs, pc[p] = "run" PROVE Own(p, exe[p]) /\ Own(p, args[p])
    BY <2>1, <2>2, Zenon DEF Loads
  <2>3. ASSUME Loads, NEW p \in Procs, pc[p] = "run"
        PROVE  IF p \in mixed THEN exe[p] \in mixed /\ args[p] \in mixed ELSE exe[p] = p /\ args[p] = p
    BY <2>2, <2>3 DEF Own
  <2> QED BY <2>3, Zenon DEF LoadsOwnCommand
<1> QED BY <1>1, <1>2, <1>3, PTL DEF Spec

-----------------------------------------------------------------------------
(* The semaphore of a wait_status and the exit code. *)

StatusTypes ==
  /\ sema \in [Procs -> Nat]
  /\ exit_code \in [Procs -> Codes \cup {-1}]
  /\ code \in [Procs -> Codes \cup {-1}]
  /\ got \in [Procs -> Seq(Codes \cup {-1})]

\* The semaphore goes up once, when the child has left, and down at most once;
\* the exit code is the status the child ended with before that.
StatusOK(p) ==
  /\ pc[p] \notin LeftLabels => sema[p] = 0 /\ got[p] = <<>>
  /\ pc[p] \in LeftLabels => \/ sema[p] = 1 /\ got[p] = <<>>
                             \/ sema[p] = 0 /\ got[p] = <<code[p]>>
  /\ pc[p] \notin ExitLabels => code[p] = -1 /\ exit_code[p] = -1
  /\ pc[p] \in ExitLabels => exit_code[p] = code[p]

StatusInv == StatusTypes /\ \A p \in Procs : StatusOK(p)

LEMMA StatusKept ==
  ASSUME StatusInv, UNCHANGED <<sema, got, code, exit_code>>,
         \A p \in Procs : /\ pc'[p] \in LeftLabels <=> pc[p] \in LeftLabels
                          /\ pc[p] \in ExitLabels => pc'[p] \in ExitLabels
  PROVE  StatusInv'
<1>0. UNCHANGED <<sema, got, code, exit_code>>
  OBVIOUS
<1>1. StatusTypes'
  BY <1>0, Zenon DEF StatusInv, StatusTypes
<1>2. ASSUME NEW p \in Procs PROVE StatusOK(p)'
  <2>1. StatusOK(p)
    BY Zenon DEF StatusInv
  <2> QED BY <1>0, <2>1, Zenon DEF StatusOK
<1> QED BY <1>1, <1>2, Zenon DEF StatusInv

\* A step of t that keeps the statuses.
LEMMA StatusMove ==
  ASSUME CoreTypes, StatusInv, NEW t \in Threads, Step(t), UNCHANGED <<sema, got, code, exit_code>>,
         pc'[t] \in LeftLabels <=> pc[t] \in LeftLabels,
         pc[t] \in ExitLabels => pc'[t] \in ExitLabels
  PROVE  StatusInv'
<1>1. \A p \in Procs : p # t => pc'[p] = pc[p]
  BY StepAlone, Zenon DEF Threads
<1>2. \A p \in Procs : /\ pc'[p] \in LeftLabels <=> pc[p] \in LeftLabels
                       /\ pc[p] \in ExitLabels => pc'[p] \in ExitLabels
  BY <1>1, Zenon
<1> QED BY <1>2, StatusKept, Zenon

LEMMA StatusStep == CoreInv /\ StatusInv /\ [Next]_vars => StatusInv'
<1> SUFFICES ASSUME CoreInv, StatusInv, [Next]_vars PROVE StatusInv'
  BY Zenon
<1>0. CoreTypes /\ (\A p \in Procs : p \in Threads) /\ (\A p \in Procs : Fresh(p)) /\ StatusTypes
      /\ (\A p \in Procs : StatusOK(p))
  BY Zenon DEF CoreInv, Threads, StatusInv
<1>c. -1 \in Codes \cup {-1} /\ 0 \in Nat /\ 1 \in Nat
  BY Zenon
<1>1. ASSUME NEW t \in Threads, NEW p \in Procs, Exec(t, p) PROVE StatusInv'
  <2>1. Step(t) /\ pc[t] = "run" /\ pc'[t] = "exec_init" /\ UNCHANGED <<sema, got, code, exit_code>>
    BY <1>0, <1>1, ExecIs, Zenon DEF Exec, wsVars, histVars
  <2>2. pc[t] \notin LeftLabels /\ pc'[t] \notin LeftLabels /\ pc[t] \notin ExitLabels
    BY <2>1 DEF LeftLabels, ExitLabels
  <2> QED BY <1>0, <2>1, <2>2, StatusMove, Zenon
<1>2. ASSUME NEW p \in Procs, Load(p) \/ LoadStack(p) PROVE StatusInv'
  <2>1. Step(p) /\ pc[p] \in {"load", "load_stack"} /\ pc'[p] \in {"load_stack", "load_done"}
    BY <1>0, <1>2, LoadIs, LoadStackIs, Zenon
  <2>2. UNCHANGED <<sema, got, code, exit_code>>
    BY <1>2, Zenon DEF Load, LoadStack, wsVars, histVars
  <2>3. pc[p] \notin LeftLabels /\ pc'[p] \notin LeftLabels /\ pc[p] \notin ExitLabels
    BY Zenon, <2>1 DEF LeftLabels, ExitLabels
  <2> QED BY <1>0, <2>1, <2>2, <2>3, StatusMove, Zenon
<1>3. ASSUME NEW t \in Threads, Ordinary(t) PROVE StatusInv'
  BY <1>0, <1>3, StatusMove, Zenon DEF Ordinary, Calm
<1>4. CASE UNCHANGED <<use, pc, target>> /\ UNCHANGED <<sema, got, code, exit_code>>
  BY <1>4, StatusKept, Zenon
<1>5. ASSUME NEW t \in Threads, ExecCreate(t) PROVE StatusInv'
  <2>1. PICK p \in Procs :
           /\ pc[t] = "exec_create" /\ target[t] = p /\ pc[p] = "none" /\ p \in Range(children[t])
           /\ parent[p] = t /\ mem[p] = "live" /\ ref_count[p] = -1
           /\ my_wait' = [my_wait EXCEPT ![p] = TRUE]
           /\ ref_count' = [ref_count EXCEPT ![p] = 2]
           /\ ws_tid' = [ws_tid EXCEPT ![p] = p]
           /\ exit_code' = [exit_code EXCEPT ![p] = -1]
           /\ pc' = [pc EXCEPT ![p] = "load", ![t] = IF t = Main THEN "wait_lock" ELSE "exec_wait"]
           /\ UNCHANGED <<use, target, children, parent, mem, sema, got, code>>
    BY <1>5, CreateIs, Zenon
  <2>2. /\ \A q \in Procs \ {p, t} : pc'[q] = pc[q]
        /\ pc'[p] = "load" /\ (t \in Procs => pc'[t] \in {"wait_lock", "exec_wait"})
    <3>1. p # t /\ p \in Threads
      BY <1>0, <2>1, ZenonT(60)
    <3> QED BY Zenon, <1>0, <2>1, <3>1 DEF CoreTypes
  <2>3. exit_code' = exit_code
    <3>1. exit_code[p] = -1
      <4>1. pc[p] \notin ExitLabels
        BY SMTT(60), <2>1 DEF ExitLabels
      <4> QED BY <1>0, <4>1, ZenonT(60) DEF StatusOK
    <3> QED BY Zenon, <1>0, <2>1, <3>1 DEF StatusTypes
  <2>4. /\ pc[t] \notin LeftLabels /\ pc[t] \notin ExitLabels /\ pc[p] \notin LeftLabels /\ pc[p] \notin ExitLabels
        /\ pc'[p] \notin LeftLabels /\ (t \in Procs => pc'[t] \notin LeftLabels)
    BY Zenon, <2>1, <2>2 DEF LeftLabels, ExitLabels
  <2>5. \A q \in Procs : /\ pc'[q] \in LeftLabels <=> pc[q] \in LeftLabels
                         /\ pc[q] \in ExitLabels => pc'[q] \in ExitLabels
    BY <2>2, <2>4, Zenon
  <2> QED BY <2>1, <2>3, <2>5, StatusKept, Zenon
<1>6. ASSUME NEW t \in Threads, WaitDown(t) PROVE StatusInv'
  <2>1. Step(t) /\ pc[t] = "wait_down" /\ pc'[t] = "wait_ref"
    BY <1>0, <1>6, WaitDownIs, ZenonT(60)
  <2>2. PICK w \in Procs : target[t] = w
    BY Zenon, <2>1 DEF CoreInv, TargetOK, AimedLabels, FoundLabels
  <2>3. /\ sema[w] > 0 /\ sema' = [sema EXCEPT ![w] = @ - 1]
        /\ got' = [got EXCEPT ![w] = Append(@, exit_code[w])]
        /\ UNCHANGED <<code, exit_code>>
    BY <1>6, <2>2, Zenon DEF WaitDown
  <2>4. pc[w] \in LeftLabels /\ sema[w] = 1 /\ got[w] = <<>> /\ exit_code[w] = code[w]
    <3>1. StatusOK(w) /\ sema[w] # 0
      BY <1>0, <2>3
    <3>2. pc[w] \in LeftLabels => pc[w] \in ExitLabels
      BY Zenon DEF LeftLabels, ExitLabels
    <3> QED BY <3>1, <3>2, Zenon DEF StatusOK
  <2>5. /\ sema' \in [Procs -> Nat] /\ sema'[w] = 0 /\ \A q \in Procs \ {w} : sema'[q] = sema[q]
    BY SMTT(60), <1>0, <2>3, <2>4 DEF StatusTypes
  <2>6. Append(got[w], exit_code[w]) = <<code[w]>> /\ <<code[w]>> \in Seq(Codes \cup {-1})
    BY <1>0, <2>4 DEF StatusTypes
  <2>7. /\ got' \in [Procs -> Seq(Codes \cup {-1})] /\ got'[w] = <<code[w]>>
        /\ \A q \in Procs \ {w} : got'[q] = got[q]
    BY <1>0, <2>3, <2>6, Zenon DEF StatusTypes
  <2>8. StatusTypes'
    BY <1>0, <2>3, <2>5, <2>7, Zenon DEF StatusTypes
  <2>9. \A q \in Procs : /\ pc'[q] \in LeftLabels <=> pc[q] \in LeftLabels
                         /\ pc'[q] \in ExitLabels <=> pc[q] \in ExitLabels
    <3>1. pc[t] \notin LeftLabels /\ pc[t] \notin ExitLabels /\ pc'[t] \notin LeftLabels /\ pc'[t] \notin ExitLabels
      BY Zenon, <2>1 DEF LeftLabels, ExitLabels
    <3> QED BY <1>0, <2>1, <3>1, StepAlone, Zenon
  <2>10. ASSUME NEW q \in Procs PROVE StatusOK(q)'
    <3>1. CASE q = w
      BY <1>0, <2>3, <2>4, <2>5, <2>7, <2>9, <3>1, Zenon DEF StatusOK
    <3>2. CASE q # w
      BY <1>0, <2>3, <2>5, <2>7, <2>9, <3>2, Zenon DEF StatusOK
    <3> QED BY <3>1, <3>2, Zenon
  <2> QED BY <2>8, <2>10, Zenon DEF StatusInv
<1>7. ASSUME NEW p \in Procs, NEW c \in Codes \cup {-1}, Exit(p, c) PROVE StatusInv'
  <2>1. Step(p) /\ pc[p] = "run" /\ pc'[p] = "exit"
    BY <1>0, <1>7, ExitIs, Zenon
  <2>2. /\ code' = [code EXCEPT ![p] = c] /\ UNCHANGED <<sema, got>>
        /\ exit_code' = IF my_wait[p] /\ c # -1 THEN [exit_code EXCEPT ![p] = c] ELSE exit_code
    BY <1>7, Zenon DEF Exit
  <2>3. my_wait[p]
    <3>1. pc[p] # "none"
      BY Zenon, <2>1
    <3> QED BY <1>0, <3>1, Zenon DEF Fresh
  <2>4. pc[p] \notin LeftLabels /\ pc[p] \notin ExitLabels /\ pc'[p] \notin LeftLabels /\ pc'[p] \in ExitLabels
    BY Zenon, <2>1 DEF LeftLabels, ExitLabels
  <2>5. exit_code[p] = -1 /\ sema[p] = 0 /\ got[p] = <<>>
    BY <1>0, <2>4, Zenon DEF StatusOK
  <2>6. exit_code' = [exit_code EXCEPT ![p] = c]
    <3>1. CASE c = -1
      <4>1. exit_code' = exit_code
        BY <2>2, <3>1, Zenon
      <4> QED BY SMTT(60), <1>0, <2>5, <3>1, <4>1 DEF StatusTypes
    <3>2. CASE c # -1
      BY <2>2, <2>3, <3>2, Zenon
    <3> QED BY <3>1, <3>2, Zenon
  <2>7. /\ StatusTypes' /\ code'[p] = c /\ exit_code'[p] = c
        /\ \A q \in Procs \ {p} : code'[q] = code[q] /\ exit_code'[q] = exit_code[q]
    BY <1>0, <2>2, <2>6, Zenon DEF StatusTypes
  <2>8. ASSUME NEW q \in Procs PROVE StatusOK(q)'
    <3>1. CASE q = p
      BY <2>2, <2>4, <2>5, <2>7, <3>1, Zenon DEF StatusOK
    <3>2. CASE q # p
      <4>1. pc'[q] = pc[q]
        BY <1>0, <2>1, <3>2, StepAlone, Zenon
      <4> QED BY <1>0, <2>2, <2>7, <3>2, <4>1, ZenonT(60) DEF StatusOK
    <3> QED BY <3>1, <3>2, Zenon
  <2> QED BY <2>7, <2>8, Zenon DEF StatusInv
<1>8. ASSUME NEW p \in Procs, ExitUp(p) PROVE StatusInv'
  <2>0. pc[p] = "exit_up"
    BY <1>8, Zenon DEF ExitUp, At
  <2>1. CASE mem[p] = "freed"
    <3>1. UNCHANGED <<use, pc, target>> /\ UNCHANGED <<sema, got, code, exit_code>>
      BY <1>8, <2>1, Zenon DEF ExitUp, Halt, wsVars, histVars
    <3> QED BY <1>4, <3>1, Zenon
  <2>2. CASE mem[p] # "freed"
    <3>1. /\ Step(p) /\ pc'[p] = "exit_lock2" /\ sema' = [sema EXCEPT ![p] = @ + 1]
          /\ UNCHANGED <<got, code, exit_code>>
      <4>1. /\ pc' = [pc EXCEPT ![p] = "exit_lock2"] /\ target' = target /\ use' = use
            /\ sema' = [sema EXCEPT ![p] = @ + 1] /\ UNCHANGED <<got, code, exit_code>>
        BY <1>8, <2>2, Zenon DEF ExitUp, Goto, histVars
      <4> QED BY <1>0, <4>1, LabelsAre, SteppedAhead, Zenon
    <3>2. /\ pc[p] \notin LeftLabels /\ pc[p] \in ExitLabels /\ pc'[p] \in LeftLabels /\ pc'[p] \in ExitLabels
      BY Zenon, <2>0, <3>1 DEF LeftLabels, ExitLabels
    <3>3. sema[p] = 0 /\ got[p] = <<>> /\ exit_code[p] = code[p]
      BY <1>0, <3>2, Zenon DEF StatusOK
    <3>4. /\ sema' \in [Procs -> Nat] /\ sema'[p] = 1 /\ \A q \in Procs \ {p} : sema'[q] = sema[q]
      BY <1>0, <3>1, <3>3 DEF StatusTypes
    <3>5. StatusTypes'
      BY <1>0, <3>1, <3>4, Zenon DEF StatusTypes
    <3>6. ASSUME NEW q \in Procs PROVE StatusOK(q)'
      <4>1. CASE q = p
        BY <3>1, <3>2, <3>3, <3>4, <4>1, Zenon DEF StatusOK
      <4>2. CASE q # p
        <5>1. pc'[q] = pc[q]
          BY <1>0, <3>1, <4>2, StepAlone, Zenon
        <5> QED BY <1>0, <3>1, <3>4, <4>2, <5>1, Zenon DEF StatusOK
      <4> QED BY <4>1, <4>2, Zenon
    <3> QED BY <3>5, <3>6, Zenon DEF StatusInv
  <2> QED BY <2>1, <2>2, Zenon
<1>9. (UNCHANGED <<use, pc, target>> /\ Calm) => StatusInv'
  BY <1>4, Zenon DEF Calm
<1> QED BY <1>1, <1>2, <1>3, <1>5, <1>6, <1>7, <1>8, <1>9, StepKinds, Zenon

LEMMA StatusInit == Init => StatusInv
<1> SUFFICES ASSUME Init PROVE StatusInv
  BY Zenon
<1>1. StatusTypes
  <2>1. <<>> \in Seq(Codes \cup {-1}) /\ 0 \in Nat /\ -1 \in Codes \cup {-1}
    OBVIOUS
  <2> QED BY <2>1, Zenon DEF Init, StatusTypes
<1>2. ASSUME NEW p \in Procs PROVE StatusOK(p)
  <2>1. pc[p] = "none" /\ sema[p] = 0 /\ got[p] = <<>> /\ code[p] = -1 /\ exit_code[p] = -1
    BY Zenon, NoThreadIsNone DEF Init, Threads
  <2>2. pc[p] \notin LeftLabels /\ pc[p] \notin ExitLabels
    BY <2>1 DEF LeftLabels, ExitLabels
  <2> QED BY <2>1, <2>2, Zenon DEF StatusOK
<1> QED BY <1>1, <1>2, Zenon DEF StatusInv

LEMMA StatusAlways == Spec => [](CoreInv /\ StatusInv)
<1>1. Init => CoreInv /\ StatusInv
  BY CoreInit, StatusInit, Zenon
<1>2. CoreInv /\ StatusInv /\ [Next]_vars => (CoreInv /\ StatusInv)'
  BY CoreStep, StatusStep, Zenon
<1> QED BY <1>1, <1>2, PTL DEF Spec

\* process_wait() returns the status its child ended with, -1 if it was killed,
\* and only once for each child, however often it is called: the semaphore of
\* the wait_status goes up once, after the exit code is final.
THEOREM WaitsReturn == Spec => []WaitReturnsStatus
<1>1. CoreInv /\ StatusInv => WaitReturnsStatus
  <2>1. SUFFICES ASSUME StatusInv, NEW p \in Procs, got[p] # <<>>
                 PROVE  got[p] = <<code[p]>> /\ pc[p] \in ExitLabels
    BY Zenon DEF WaitReturnsStatus
  <2>2. StatusOK(p)
    BY <2>1, Zenon DEF StatusInv
  <2>3. pc[p] \in LeftLabels => pc[p] \in ExitLabels
    BY Zenon DEF LeftLabels, ExitLabels
  <2> QED BY <2>1, <2>2, <2>3, Zenon DEF StatusOK
<1> QED BY <1>1, StatusAlways, PTL

-----------------------------------------------------------------------------
(* The references to a wait_status. *)

\* list_push_front() adds one element.
LEMMA PushRange ==
  ASSUME NEW S, NEW s \in Seq(S), NEW e \in S
  PROVE  Range(<<e>> \o s) = Range(s) \cup {e}
<1> DEFINE r == <<e>> \o s
<1>1. /\ r \in Seq(S) /\ Len(r) = Len(s) + 1 /\ Len(s) \in Nat /\ r[1] = e
      /\ \A i \in 1..Len(s) : r[i + 1] = s[i]
  OBVIOUS
<1> HIDE DEF r
<1>2. Range(r) = {r[i] : i \in 1..Len(r)} /\ Range(s) = {s[i] : i \in 1..Len(s)}
  BY Zenon, <1>1, RangeIs
<1>3. ASSUME NEW i \in 1..Len(r) PROVE r[i] = e \/ \E j \in 1..Len(s) : r[i] = s[j]
  <2>1. i = 1 \/ (i - 1 \in 1..Len(s) /\ (i - 1) + 1 = i)
    BY <1>1
  <2> QED BY Zenon, <1>1, <2>1
<1>4. 1 \in 1..Len(r) /\ \A i \in 1..Len(s) : i + 1 \in 1..Len(r)
  BY <1>1
<1>5. ASSUME NEW x \in Range(r) PROVE x \in Range(s) \cup {e}
  BY <1>2, <1>3, Zenon
<1>6. e \in Range(r)
  BY <1>1, <1>2, <1>4, Zenon
<1>7. ASSUME NEW x \in Range(s) PROVE x \in Range(r)
  BY <1>1, <1>2, <1>4, Zenon
<1> QED BY <1>5, <1>6, <1>7, Zenon DEF r

-----------------------------------------------------------------------------
(* child_list_lock. *)

HoldLabels == {"exec_push", "wait_find", "wait_free", "exit_free", "exit_child"}

\* A child_list_lock that was initialised in use stays suspect.
Steady == ~reinit' => ~reinit

LEMMA Steadily == [Next]_vars => Steady
<1> SUFFICES ASSUME [Next]_vars PROVE Steady
  BY Zenon
<1>1. ASSUME NEW t \in Threads, NEW p \in Procs, Exec(t, p) \/ Wait(t, p) PROVE Steady
  BY <1>1, Zenon DEF Exec, Wait, faultVars, Steady
<1>2. ASSUME NEW t, NEW from, NEW to, AcquireList(t, from, to) PROVE Steady
  BY <1>2, Zenon DEF AcquireList, faultVars, Steady
<1>3. ASSUME NEW t, ExecInit(t) \/ ExecNoMemory(t) PROVE Steady
  BY <1>3 DEF ExecInit, ExecNoMemory, InitList, Steady
<1>4. ASSUME NEW t, ReleaseAsserts(t) \/ ExitUp(t) PROVE Steady
  BY <1>4, Zenon DEF ReleaseAsserts, ExitUp, Halt, faultVars, Steady
<1>5. ASSUME UNCHANGED faultVars PROVE Steady
  BY <1>5, Zenon DEF faultVars, Steady
<1>6. ASSUME NEW t, Continue(t) PROVE Steady
  <2>1. \/ ExecInit(t) \/ ExecNoMemory(t) \/ ReleaseAsserts(t) \/ (\E from, to : AcquireList(t, from, to))
        \/ UNCHANGED faultVars
    BY <1>6, Zenon DEF Continue, ExecPush, ExecCreate, ExecFail, ExecDone, WaitFind, WaitDown, WaitRef, WaitFree
  <2> QED BY <1>2, <1>3, <1>4, <1>5, <2>1, Zenon
<1>7. ASSUME NEW p, Leave(p) PROVE Steady
  <2>1. \/ ExitUp(p) \/ (\E from, to : AcquireList(p, from, to)) \/ UNCHANGED faultVars
    BY <1>7, Zenon DEF Leave, Load, LoadStack, LoadDone, LoadFail, ExitRef, ExitFree, ExitChild, ExitEnd
  <2> QED BY <1>2, <1>4, <1>5, <2>1, Zenon
<1>8. ASSUME NEW p, NEW c, Exit(p, c) PROVE Steady
  BY <1>5, <1>8, Zenon DEF Exit
<1>9. CASE UNCHANGED vars
  BY <1>9, Zenon DEF vars, faultVars, Steady
<1> QED BY <1>1, <1>6, <1>7, <1>8, <1>9, Zenon DEF Next, Stopped

\* Until child_list_lock is initialised while it is in use, whoever is between
\* lock_acquire() and lock_release() of it is its holder.
LockOK == ~reinit => \A t \in Threads : pc[t] \in HoldLabels => list_lock = t

LEMMA LockMove ==
  ASSUME CoreTypes, LockOK, Steady, NEW t \in Threads, Step(t),
         \/ list_lock' = list_lock /\ (pc'[t] \in HoldLabels => pc[t] \in HoldLabels)
         \/ list_lock = NoThread /\ list_lock' = t
         \/ (~reinit' => list_lock \in {t, NoThread}) /\ pc'[t] \notin HoldLabels
  PROVE  LockOK'
<1>1. SUFFICES ASSUME ~reinit', ~reinit, NEW u \in Threads, pc'[u] \in HoldLabels PROVE list_lock' = u
  BY Zenon DEF LockOK, Steady
<1>2. u # t => pc'[u] = pc[u]
  BY StepAlone, Zenon
<1>3. pc[u] \in HoldLabels => list_lock = u /\ list_lock # NoThread
  BY <1>1, NoThreadIsNone, Zenon DEF LockOK
<1>4. CASE list_lock' = list_lock /\ (pc'[t] \in HoldLabels => pc[t] \in HoldLabels)
  BY <1>1, <1>2, <1>3, <1>4, Zenon
<1>5. CASE list_lock = NoThread /\ list_lock' = t
  BY <1>1, <1>2, <1>3, <1>5, Zenon
<1>6. CASE (~reinit' => list_lock \in {t, NoThread}) /\ pc'[t] \notin HoldLabels
  BY Zenon, <1>1, <1>2, <1>3, <1>6
<1> QED BY <1>4, <1>5, <1>6, Zenon

\* The actions that neither take nor give back the lock.
LEMMA LockCalm ==
  ASSUME CoreInv, LockOK, Steady, NEW t \in Threads,
         \/ \E p \in Procs : Exec(t, p) \/ Wait(t, p)
         \/ ExecFail(t) \/ ExecDone(t)
         \/ Load(t) \/ LoadStack(t) \/ LoadDone(t) \/ LoadFail(t)
         \/ WaitDown(t) \/ WaitRef(t)
         \/ \E c \in Codes \cup {-1} : Exit(t, c)
         \/ (t \in Procs /\ ExitRef(t)) \/ (\E w \in Procs : ExitChild(t, w))
  PROVE  LockOK'
<1>0. CoreTypes /\ \A p \in Procs : Fresh(p)
  BY Zenon DEF CoreInv
<1>l. list_lock' = list_lock
  BY Zenon DEF Exec, Wait, ExecFail, ExecDone, Load, LoadStack, LoadDone, LoadFail, WaitDown, WaitRef,
               Exit, ExitRef, ExitChild, lockVars
<1>1. Step(t) /\ (pc'[t] \in HoldLabels => pc[t] \in HoldLabels)
  <2>1. ASSUME NEW p \in Procs, Exec(t, p) \/ Wait(t, p) PROVE Step(t) /\ (pc'[t] \in HoldLabels => pc[t] \in HoldLabels)
    BY Zenon, <1>0, <2>1, ExecIs, WaitIs DEF HoldLabels
  <2>2. CASE ExecFail(t) \/ ExecDone(t)
    BY Zenon, <1>0, <2>2, ExecFailIs, ExecDoneIs DEF HoldLabels
  <2>3. CASE Load(t) \/ LoadStack(t) \/ LoadDone(t) \/ LoadFail(t)
    BY ZenonT(60), <1>0, <2>3, LoadIs, LoadStackIs, LoadDoneIs, LoadFailIs DEF HoldLabels
  <2>4. CASE WaitDown(t) \/ WaitRef(t)
    BY Zenon, <1>0, <2>4, WaitDownIs, WaitRefIs DEF HoldLabels
  <2>5. ASSUME NEW c, Exit(t, c) PROVE Step(t) /\ (pc'[t] \in HoldLabels => pc[t] \in HoldLabels)
    BY Zenon, <1>0, <2>5, ExitIs DEF HoldLabels
  <2>6. ASSUME t \in Procs, ExitRef(t) PROVE Step(t) /\ (pc'[t] \in HoldLabels => pc[t] \in HoldLabels)
    <3>1. my_wait[t]
      BY Zenon, <1>0, <2>6 DEF ExitRef, At, Fresh
    <3> QED BY Zenon, <1>0, <2>6, <3>1, ExitRefIs DEF HoldLabels
  <2>7. ASSUME NEW w \in Procs, ExitChild(t, w) PROVE Step(t) /\ (pc'[t] \in HoldLabels => pc[t] \in HoldLabels)
    BY <1>0, <2>7, ExitChildIs, Zenon
  <2> QED BY <2>1, <2>2, <2>3, <2>4, <2>5, <2>6, <2>7, Zenon
<1> QED BY <1>0, <1>l, <1>1, LockMove, Zenon

\* The actions that take it, give it back or initialise it.
LEMMA LockHanded ==
  ASSUME CoreInv, LockOK, Steady, NEW t \in Threads,
         \/ ExecInit(t) \/ ExecNoMemory(t) \/ ExecPush(t) \/ WaitFind(t) \/ WaitFree(t) \/ ExitFree(t) \/ ExitEnd(t)
         \/ AcquireList(t, "exec_lock", "exec_push") \/ AcquireList(t, "wait_lock", "wait_find")
         \/ AcquireList(t, "wait_lock2", "wait_free") \/ AcquireList(t, "exit_lock", "exit_free")
         \/ AcquireList(t, "exit_lock2", "exit_child")
  PROVE  LockOK'
<1>0. CoreTypes
  BY Zenon DEF CoreInv
<1>1. CASE ExecInit(t) \/ ExecNoMemory(t)
  <2>1. Step(t) /\ pc'[t] \in {"exec_lock", "run", "wait_lock"}
    BY Zenon, <1>0, <1>1, ExecInitIs, ExecNoMemoryIs
  <2>2. ~reinit' => list_lock = NoThread
    BY <1>1, Zenon DEF ExecInit, ExecNoMemory, InitList
  <2>3. pc'[t] \notin HoldLabels
    BY Zenon, <2>1 DEF HoldLabels
  <2> QED BY <1>0, <2>1, <2>2, <2>3, LockMove, Zenon
<1>2. CASE ExecPush(t) \/ WaitFind(t) \/ WaitFree(t) \/ ExitFree(t) \/ ExitEnd(t)
  <2>1. Step(t) /\ pc'[t] \in {"exec_create", "run", "wait_down", "exit_up", "dead"}
    BY Zenon, <1>0, <1>2, ExecPushIs, WaitFindIs, WaitFreeIs, ExitFreeIs, ExitEndIs
  <2>2. list_lock = t
    BY <1>2, Zenon DEF ExecPush, WaitFind, WaitFree, ExitFree, ExitEnd
  <2>3. pc'[t] \notin HoldLabels
    BY Zenon, <2>1 DEF HoldLabels
  <2> QED BY <1>0, <2>1, <2>2, <2>3, LockMove, Zenon
<1>3. ASSUME NEW from, NEW to \in Label, AcquireList(t, from, to) PROVE LockOK'
  <2>1. /\ Step(t) /\ pc[t] = from
        /\ (pc'[t] = to /\ list_lock = NoThread /\ list_lock' = t) \/ (pc'[t] = from /\ list_lock' = list_lock)
    BY <1>0, <1>3, AcquireListIs, Zenon
  <2> QED BY <1>0, <2>1, LockMove, Zenon
<1> QED BY Zenon, <1>1, <1>2, <1>3, LabelsAre

LEMMA LockStep == CoreInv /\ LockOK /\ [Next]_vars => LockOK'
<1> SUFFICES ASSUME CoreInv, LockOK, Steady, [Next]_vars PROVE LockOK'
  BY Steadily, Zenon
<1>1. ASSUME NEW t \in Threads, NEW p \in Procs, Exec(t, p) \/ Wait(t, p) PROVE LockOK'
  BY <1>1, LockCalm, Zenon
<1>s. UNCHANGED <<pc, list_lock>> => LockOK'
  BY Zenon DEF LockOK, Steady
<1>2. ASSUME NEW t \in Threads, Continue(t) PROVE LockOK'
  <2>1. CASE ReleaseAsserts(t)
    BY <1>s, <2>1, Zenon DEF ReleaseAsserts, Halt, lockVars
  <2>2. CASE ExecCreate(t)
    <3>1. PICK p \in Procs :
           /\ pc[t] = "exec_create" /\ target[t] = p /\ pc[p] = "none" /\ p \in Range(children[t])
           /\ parent[p] = t /\ mem[p] = "live" /\ ref_count[p] = -1
           /\ my_wait' = [my_wait EXCEPT ![p] = TRUE]
           /\ ref_count' = [ref_count EXCEPT ![p] = 2]
           /\ ws_tid' = [ws_tid EXCEPT ![p] = p]
           /\ exit_code' = [exit_code EXCEPT ![p] = -1]
           /\ pc' = [pc EXCEPT ![p] = "load", ![t] = IF t = Main THEN "wait_lock" ELSE "exec_wait"]
           /\ UNCHANGED <<use, target, children, parent, mem, sema, got, code>>
      BY <2>2, CreateIs, Zenon
    <3>2. list_lock' = list_lock
      BY <2>2, Zenon DEF ExecCreate, lockVars
    <3>3. \A u \in Threads : pc'[u] \in HoldLabels => pc[u] \in HoldLabels
      BY Zenon, <3>1 DEF CoreInv, CoreTypes, HoldLabels
    <3> QED BY <3>2, <3>3, Zenon DEF LockOK, Steady
  <2> QED BY <1>2, <2>1, <2>2, LockCalm, LockHanded, Zenon DEF Continue
<1>3. ASSUME NEW p \in Procs, NEW c \in Codes \cup {-1}, Exit(p, c) PROVE LockOK'
  <2>1. p \in Threads
    BY Zenon DEF Threads
  <2> QED BY <1>3, <2>1, LockCalm, Zenon
<1>4. ASSUME NEW p \in Procs, Leave(p) PROVE LockOK'
  <2>1. p \in Threads
    BY Zenon DEF Threads
  <2>2. CASE ExitUp(p)
    <3>1. list_lock' = list_lock
      BY <2>2, Zenon DEF ExitUp, Halt, lockVars
    <3>2. UNCHANGED <<use, pc>> \/ (Step(p) /\ pc'[p] = "exit_lock2")
      BY <2>1, <2>2, ExitUpIs, Zenon DEF CoreInv
    <3>3. pc'[p] = "exit_lock2" => pc'[p] \notin HoldLabels
      BY Zenon DEF HoldLabels
    <3>4. CASE Step(p) /\ pc'[p] = "exit_lock2"
      BY <2>1, <3>1, <3>3, <3>4, LockMove, Zenon DEF CoreInv
    <3> QED BY <1>s, <3>1, <3>2, <3>4, Zenon
  <2> QED BY <1>4, <2>1, <2>2, LockCalm, LockHanded, Zenon DEF Leave
<1>5. CASE UNCHANGED vars
  BY <1>s, <1>5, Zenon DEF vars, lockVars
<1> QED BY <1>1, <1>2, <1>3, <1>4, <1>5, Zenon DEF Next, Stopped

LEMMA LockInit == Init => LockOK
<1> SUFFICES ASSUME Init PROVE LockOK
  BY Zenon
<1>1. \A t \in Threads : pc[t] \notin HoldLabels
  BY Zenon DEF Init, HoldLabels
<1> QED BY <1>1, Zenon DEF LockOK

-----------------------------------------------------------------------------
(* Who still holds a reference. *)

OffLabels == ExitLabels \ {"exit"}
FreeingLabels == {"exit_lock", "exit_free"}
GripLabels == {"wait_lock2", "wait_free", "exit_child", "dead"}

\* Thread t has given up its reference to w's wait_status and has yet to free
\* it, in process_wait(); the loop of process_exit() is past w.
Taking(t, w) == pc[t] \in {"wait_lock2", "wait_free"} /\ target[t] = w
Past(t, w) == pc[t] = "exit_child" /\ target[t] # NoThread /\ ~Before(children[t], target[t], w)

Keeps(t, w) == pc[t] # "dead" /\ w \in Range(children[t]) /\ ~Taking(t, w) /\ ~Past(t, w)

Holds(p) == \E t \in Threads : parent[p] = t /\ Keeps(t, p)
Taken(p) == \E t \in Threads : parent[p] = t /\ Taking(t, p)

\* What a wait_status counts without its parent: nothing, in the state that
\* malloc() and process_execute() leave it in, before the child starts.
Base(p) == IF pc[p] = "none" THEN -2 ELSE IF pc[p] \notin OffLabels THEN 1 ELSE 0

\* ref_count counts the child, and the parent for as long as it holds on.  An
\* exec that initialises child_list_lock in use may leave it one too high.
\* Nobody frees a wait_status under the child, and whoever brings the count to
\* 0 is on the way to free it.
CountOK(p) ==
  /\ mem[p] = "none" => ref_count[p] = 0
  /\ mem[p] # "none" => Base(p) <= ref_count[p] /\ ref_count[p] <= Base(p) + 1
  /\ mem[p] # "none" /\ Holds(p) => ref_count[p] = Base(p) + 1
  /\ ~reinit /\ pc[p] # "none" /\ mem[p] = "live" /\ ~Holds(p) => ref_count[p] = Base(p)
  /\ mem[p] = "freed" => pc[p] # "none" /\ pc[p] \in OffLabels
  /\ pc[p] # "none" /\ mem[p] = "live" /\ ref_count[p] = 0 => pc[p] \in FreeingLabels \/ Taken(p)
  /\ pc[p] \in FreeingLabels => ref_count[p] = 0

\* What process_wait() has found stays on the list, and after sema_down() the
\* child has left it.
FoundOK(t) ==
  /\ pc[t] \in FoundLabels => target[t] \in Range(children[t])
  /\ pc[t] \in FoundLabels \ {"wait_down"} => pc[target[t]] \in LeftLabels

HeldInv == (\A p \in Procs : CountOK(p)) /\ (\A t \in Threads : FoundOK(t))

LEMMA KeepsSame ==
  ASSUME NEW u, NEW p, pc'[u] = pc[u], target'[u] = target[u], children'[u] = children[u]
  PROVE  (Keeps(u, p)' <=> Keeps(u, p)) /\ (Taking(u, p)' <=> Taking(u, p))
  BY Zenon DEF Keeps, Taking, Past

LEMMA KeepsPlain ==
  ASSUME NEW u, NEW p, pc[u] \notin GripLabels
  PROVE  (Keeps(u, p) <=> p \in Range(children[u])) /\ ~Taking(u, p)
  BY Zenon DEF Keeps, Taking, Past, GripLabels

LEMMA KeepsPlainNext ==
  ASSUME NEW u, NEW p, pc'[u] \notin GripLabels
  PROVE  (Keeps(u, p)' <=> p \in Range(children'[u])) /\ ~Taking(u, p)'
  BY Zenon DEF Keeps, Taking, Past, GripLabels

LEMMA HoldsSame ==
  ASSUME NEW p, parent'[p] = parent[p],
         \A u \in Threads : (Keeps(u, p)' <=> Keeps(u, p)) /\ (Taking(u, p) => Taking(u, p)')
  PROVE  (Holds(p)' <=> Holds(p)) /\ (Taken(p) => Taken(p)')
  BY Zenon DEF Holds, Taken

LEMMA CountKept ==
  ASSUME NEW p, CountOK(p), Steady, mem'[p] = mem[p], ref_count'[p] = ref_count[p],
         pc'[p] = "none" <=> pc[p] = "none", pc'[p] \in OffLabels <=> pc[p] \in OffLabels,
         pc'[p] \in FreeingLabels <=> pc[p] \in FreeingLabels,
         Holds(p)' => Holds(p), ~reinit => (Holds(p) => Holds(p)'), Taken(p) => Taken(p)'
  PROVE  CountOK(p)'
<1>1. Base(p)' = Base(p)
  BY Zenon DEF Base
<1> QED BY <1>1, Zenon DEF CountOK, Steady

LEMMA FoundKept ==
  ASSUME NEW u, FoundOK(u), pc'[u] = pc[u], target'[u] = target[u],
         pc[u] \in FoundLabels /\ target[u] \in Range(children[u]) => target[u] \in Range(children'[u]),
         pc[target[u]] \in LeftLabels => pc'[target[u]] \in LeftLabels
  PROVE  FoundOK(u)'
<1>1. pc[u] \in FoundLabels \ {"wait_down"} => pc[u] \in FoundLabels
  BY Zenon
<1> QED BY <1>1, Zenon DEF FoundOK

\* A step of t that touches no wait_status and changes no hold.
LEMMA PlainMove ==
  ASSUME CoreInv, HeldInv, Steady, NEW t \in Threads, Step(t), UNCHANGED <<children, parent, mem, ref_count>>,
         pc[t] # "none", pc'[t] # "none", pc'[t] \in OffLabels <=> pc[t] \in OffLabels,
         pc'[t] \in FreeingLabels <=> pc[t] \in FreeingLabels,
         pc[t] \in LeftLabels => pc'[t] \in LeftLabels,
         \A p \in Procs : (Keeps(t, p)' <=> Keeps(t, p)) /\ (Taking(t, p) => Taking(t, p)'),
         FoundOK(t)'
  PROVE  HeldInv'
<1>0. /\ \A u \in Threads \ {t} : pc'[u] = pc[u] /\ target'[u] = target[u]
      /\ use' = use /\ CoreTypes
  BY StepAlone, Zenon DEF CoreInv, Step
<1>1. \A p \in Procs : (pc'[p] = "none" <=> pc[p] = "none") /\ (pc'[p] \in OffLabels <=> pc[p] \in OffLabels)
                       /\ (pc'[p] \in FreeingLabels <=> pc[p] \in FreeingLabels)
                       /\ (pc[p] \in LeftLabels => pc'[p] \in LeftLabels)
  BY <1>0, Zenon DEF Threads
<1>2. ASSUME NEW p \in Procs PROVE CountOK(p)'
  <2>1. \A u \in Threads : (Keeps(u, p)' <=> Keeps(u, p)) /\ (Taking(u, p) => Taking(u, p)')
    BY <1>0, KeepsSame, Zenon
  <2>2. (Holds(p)' <=> Holds(p)) /\ (Taken(p) => Taken(p)')
    BY <2>1, HoldsSame, Zenon
  <2>3. CountOK(p)
    BY Zenon DEF HeldInv
  <2> QED BY <1>0, <1>1, <2>2, <2>3, CountKept, ZenonT(60)
<1>3. ASSUME NEW u \in Threads \ {t} PROVE FoundOK(u)'
  <2>1. FoundOK(u)
    BY Zenon DEF HeldInv
  <2>2. target[u] \in Procs \/ target[u] = NoThread
    BY <1>0, Zenon DEF CoreTypes
  <2>3. CASE target[u] \in Procs
    BY <1>0, <1>1, <2>1, <2>3, FoundKept, ZenonT(60)
  <2>4. CASE target[u] = NoThread
    <3>1. pc[u] \notin FoundLabels
      <4>1. pc[u] \in FoundLabels => pc[u] \in AimedLabels
        BY Zenon DEF AimedLabels
      <4> QED BY <2>4, <4>1, NoThreadIsNone, Zenon DEF CoreInv, TargetOK
    <3>2. pc'[u] \notin FoundLabels /\ pc'[u] \notin FoundLabels \ {"wait_down"}
      BY Zenon, <1>0, <3>1
    <3> QED BY <3>2, Zenon DEF FoundOK
  <2> QED BY <2>2, <2>3, <2>4, Zenon
<1> QED BY <1>2, <1>3, Zenon DEF HeldInv

LEMMA NotFound ==
  ASSUME NEW t, pc'[t] \notin FoundLabels
  PROVE  FoundOK(t)'
<1>1. pc'[t] \notin FoundLabels \ {"wait_down"}
  BY Zenon
<1> QED BY <1>1, Zenon DEF FoundOK

\* Such a step outside the labels where a parent gives up its reference.
LEMMA PlainHop ==
  ASSUME CoreInv, HeldInv, Steady, NEW t \in Threads, Step(t), UNCHANGED coreVars,
         pc[t] \notin {"none"} \cup GripLabels, pc'[t] \notin {"none"} \cup GripLabels \cup FoundLabels,
         pc'[t] \in OffLabels <=> pc[t] \in OffLabels,
         pc'[t] \in FreeingLabels <=> pc[t] \in FreeingLabels,
         pc[t] \in LeftLabels => pc'[t] \in LeftLabels
  PROVE  HeldInv'
<1>1. UNCHANGED <<children, parent, mem, ref_count>>
  BY Zenon DEF coreVars
<1>2. pc[t] # "none" /\ pc[t] \notin GripLabels /\ pc'[t] # "none" /\ pc'[t] \notin GripLabels /\ pc'[t] \notin FoundLabels
  BY Zenon
<1>3. \A p \in Procs : (Keeps(t, p)' <=> Keeps(t, p)) /\ (Taking(t, p) => Taking(t, p)')
  BY <1>1, <1>2, KeepsPlain, KeepsPlainNext, Zenon
<1>4. FoundOK(t)'
  BY <1>2, NotFound, Zenon
<1> QED BY <1>1, <1>2, <1>3, <1>4, PlainMove, Zenon

Hop(t) ==
  /\ Step(t) /\ UNCHANGED coreVars
  /\ pc[t] \notin {"none"} \cup GripLabels /\ pc'[t] \notin {"none"} \cup GripLabels \cup FoundLabels
  /\ pc'[t] \in OffLabels <=> pc[t] \in OffLabels
  /\ pc'[t] \in FreeingLabels <=> pc[t] \in FreeingLabels
  /\ pc[t] \in LeftLabels => pc'[t] \in LeftLabels

LEMMA Hops ==
  ASSUME NEW t, Step(t), UNCHANGED coreVars,
         \/ /\ pc[t] \in {"run", "exec_init", "exec_lock", "exec_create", "exec_wait",
                          "load", "load_stack", "load_done", "wait_lock", "wait_find"}
            /\ pc'[t] \in {"run", "exec_init", "exec_lock", "exec_push", "load_stack", "load_done",
                           "wait_lock", "wait_find", "exit"}
         \/ pc[t] = "exit_lock" /\ pc'[t] \in {"exit_lock", "exit_free"}
         \/ pc[t] \in {"exit_up", "exit_lock2"} /\ pc'[t] = "exit_lock2"
  PROVE  Hop(t)
<1>1. CASE /\ pc[t] \in {"run", "exec_init", "exec_lock", "exec_create", "exec_wait",
                         "load", "load_stack", "load_done", "wait_lock", "wait_find"}
           /\ pc'[t] \in {"run", "exec_init", "exec_lock", "exec_push", "load_stack", "load_done",
                          "wait_lock", "wait_find", "exit"}
  BY Zenon, <1>1 DEF Hop, GripLabels, FoundLabels, OffLabels, ExitLabels, FreeingLabels, LeftLabels
<1>2. CASE pc[t] = "exit_lock" /\ pc'[t] \in {"exit_lock", "exit_free"}
  BY Zenon, <1>2 DEF Hop, GripLabels, FoundLabels, OffLabels, ExitLabels, FreeingLabels, LeftLabels
<1>3. CASE pc[t] \in {"exit_up", "exit_lock2"} /\ pc'[t] = "exit_lock2"
  BY Zenon, <1>3 DEF Hop, GripLabels, FoundLabels, OffLabels, ExitLabels, FreeingLabels, LeftLabels
<1> QED BY <1>1, <1>2, <1>3, Zenon

LEMMA HeldHop ==
  ASSUME CoreInv, HeldInv, Steady, NEW t \in Threads, Hop(t)
  PROVE  HeldInv'
  BY PlainHop, Zenon DEF Hop

LEMMA HeldCalm ==
  ASSUME CoreInv, HeldInv, Steady, NEW t \in Threads,
         \/ \E p \in Procs : Exec(t, p) \/ Wait(t, p)
         \/ ExecNoMemory(t) \/ AcquireList(t, "exec_lock", "exec_push") \/ ExecFail(t) \/ ExecDone(t)
         \/ Load(t) \/ LoadStack(t) \/ LoadDone(t) \/ LoadFail(t)
         \/ AcquireList(t, "wait_lock", "wait_find")
         \/ \E c \in Codes \cup {-1} : Exit(t, c)
         \/ AcquireList(t, "exit_lock", "exit_free")
  PROVE  HeldInv'
<1>0. CoreTypes
  BY Zenon DEF CoreInv
<1>1. ASSUME NEW p \in Procs, Exec(t, p) \/ Wait(t, p) PROVE Hop(t)
  BY ZenonT(60), <1>0, <1>1, ExecIs, WaitIs, Hops
<1>2. CASE ExecNoMemory(t) \/ ExecFail(t) \/ ExecDone(t)
  BY SMTT(60), <1>0, <1>2, ExecNoMemoryIs, ExecFailIs, ExecDoneIs, Hops, HeldHop
<1>3. CASE Load(t) \/ LoadStack(t) \/ LoadDone(t) \/ LoadFail(t)
  BY ZenonT(60), <1>0, <1>3, LoadIs, LoadStackIs, LoadDoneIs, LoadFailIs, Hops, HeldHop
<1>4. ASSUME NEW c, Exit(t, c) PROVE Hop(t)
  BY Zenon, <1>0, <1>4, ExitIs, Hops
<1>5. CASE AcquireList(t, "exec_lock", "exec_push")
  BY ZenonT(60), <1>0, <1>5, LabelsAre, AcquireListIs, Hops, HeldHop
<1>6. CASE AcquireList(t, "wait_lock", "wait_find")
  BY ZenonT(60), <1>0, <1>6, LabelsAre, AcquireListIs, Hops, HeldHop
<1>7. CASE AcquireList(t, "exit_lock", "exit_free")
  BY SMTT(60), <1>0, <1>7, LabelsAre, AcquireListIs, Hops, HeldHop
<1> QED BY <1>1, <1>2, <1>3, <1>4, <1>5, <1>6, <1>7, HeldHop, ZenonT(60)

LEMMA HeldStutters ==
  ASSUME HeldInv, Steady, UNCHANGED <<children, parent, mem, ref_count, pc, target>>
  PROVE  HeldInv'
<1>1. ASSUME NEW p \in Procs PROVE CountOK(p)'
  <2>1. (Holds(p)' <=> Holds(p)) /\ (Taken(p) => Taken(p)')
    BY KeepsSame, HoldsSame, Zenon
  <2>2. CountOK(p)
    BY Zenon DEF HeldInv
  <2> QED BY <2>1, <2>2, CountKept, Zenon
<1>2. ASSUME NEW t \in Threads PROVE FoundOK(t)'
  BY FoundKept, Zenon DEF HeldInv
<1> QED BY <1>1, <1>2, Zenon DEF HeldInv

LEMMA HeldUp ==
  ASSUME CoreInv, HeldInv, Steady, NEW t \in Threads, ExitUp(t)
  PROVE  HeldInv'
<1>0. CoreTypes
  BY Zenon DEF CoreInv
<1>1. \/ UNCHANGED <<pc, target, use>> /\ UNCHANGED coreVars
      \/ Step(t) /\ pc[t] = "exit_up" /\ pc'[t] = "exit_lock2" /\ UNCHANGED coreVars
  BY <1>0, ExitUpIs, Zenon
<1>2. CASE Step(t) /\ pc[t] = "exit_up" /\ pc'[t] = "exit_lock2" /\ UNCHANGED coreVars
  BY Zenon, <1>2, Hops, HeldHop
<1>3. CASE UNCHANGED <<pc, target, use>> /\ UNCHANGED coreVars
  <2>1. UNCHANGED <<children, parent, mem, ref_count, pc, target, use>>
    BY <1>3, Zenon DEF coreVars
  <2> QED BY <2>1, HeldStutters, Zenon
<1> QED BY <1>1, <1>2, <1>3, Zenon

LEMMA HeldWait ==
  ASSUME CoreInv, StatusInv, HeldInv, Steady, NEW t \in Threads,
         WaitFind(t) \/ WaitDown(t) \/ AcquireList(t, "wait_lock2", "wait_free")
  PROVE  HeldInv'
<1>0. CoreTypes /\ TargetOK(t) /\ FoundOK(t) /\ (\A p \in Procs : StatusOK(p)) /\ StatusTypes
  BY Zenon DEF CoreInv, HeldInv, StatusInv
<1>1. CASE WaitFind(t)
  <2>1. /\ Step(t) /\ pc[t] = "wait_find" /\ UNCHANGED coreVars
        /\ \/ pc'[t] = "run"
           \/ pc'[t] = "wait_down" /\ target'[t] \in Range(children[t])
    BY <1>0, <1>1, WaitFindIs, Zenon
  <2>2. CASE pc'[t] = "run"
    BY Zenon, <2>1, <2>2, Hops, HeldHop
  <2>3. CASE pc'[t] = "wait_down" /\ target'[t] \in Range(children[t])
    <3>1. UNCHANGED <<children, parent, mem, ref_count>>
      BY <2>1, Zenon DEF coreVars
    <3>2. pc[t] # "none" /\ pc'[t] # "none" /\ pc[t] \notin OffLabels /\ pc'[t] \notin OffLabels
          /\ pc[t] \notin FreeingLabels /\ pc'[t] \notin FreeingLabels
          /\ pc[t] \notin GripLabels /\ pc'[t] \notin GripLabels /\ pc[t] \notin LeftLabels
          /\ pc'[t] \notin FoundLabels \ {"wait_down"}
      BY Zenon, <2>1, <2>3 DEF OffLabels, ExitLabels, FreeingLabels, GripLabels, LeftLabels
    <3>3. \A p \in Procs : (Keeps(t, p)' <=> Keeps(t, p)) /\ (Taking(t, p) => Taking(t, p)')
      BY <3>1, <3>2, KeepsPlain, KeepsPlainNext, Zenon
    <3>4. FoundOK(t)'
      BY <2>3, <3>1, <3>2, Zenon DEF FoundOK
    <3> QED BY <2>1, <3>1, <3>2, <3>3, <3>4, PlainMove, ZenonT(60)
  <2> QED BY <2>1, <2>2, <2>3, Zenon
<1>2. CASE WaitDown(t)
  <2>1. Step(t) /\ pc[t] = "wait_down" /\ pc'[t] = "wait_ref" /\ target'[t] = target[t] /\ UNCHANGED coreVars
    BY <1>0, <1>2, WaitDownIs, Zenon
  <2>2. UNCHANGED <<children, parent, mem, ref_count>>
    BY <2>1, Zenon DEF coreVars
  <2>3. pc[t] # "none" /\ pc'[t] # "none" /\ pc[t] \notin OffLabels /\ pc'[t] \notin OffLabels
        /\ pc[t] \notin FreeingLabels /\ pc'[t] \notin FreeingLabels
        /\ pc[t] \notin GripLabels /\ pc'[t] \notin GripLabels /\ pc[t] \notin LeftLabels
        /\ pc[t] \in FoundLabels /\ pc[t] \in AimedLabels
    BY Zenon, <2>1 DEF OffLabels, ExitLabels, FreeingLabels, GripLabels, LeftLabels, FoundLabels, AimedLabels
  <2>4. PICK w \in Procs : target[t] = w /\ w \in Range(children[t])
    BY <1>0, <2>3, Zenon DEF FoundOK, TargetOK
  <2>5. pc[w] \in LeftLabels
    <3>1. sema[w] # 0
      BY SMTT(60), <1>0, <1>2, <2>4 DEF WaitDown, StatusTypes
    <3> QED BY <1>0, <3>1, ZenonT(60) DEF StatusOK
  <2>6. w # t /\ pc'[w] \in LeftLabels
    <3>1. w # t
      BY <2>3, <2>5, Zenon
    <3>2. pc'[w] = pc[w]
      BY <1>0, <2>1, <3>1, StepAlone, ZenonT(60) DEF Threads
    <3> QED BY <2>5, <3>1, <3>2, Zenon
  <2>7. FoundOK(t)'
    BY <2>1, <2>2, <2>4, <2>6, Zenon DEF FoundOK
  <2>8. \A p \in Procs : (Keeps(t, p)' <=> Keeps(t, p)) /\ (Taking(t, p) => Taking(t, p)')
    BY <2>2, <2>3, KeepsPlain, KeepsPlainNext, ZenonT(60)
  <2> QED BY <2>1, <2>2, <2>3, <2>7, <2>8, PlainMove, ZenonT(60)
<1>3. CASE AcquireList(t, "wait_lock2", "wait_free")
  <2>1. Step(t) /\ pc[t] = "wait_lock2" /\ pc'[t] \in {"wait_lock2", "wait_free"} /\ target'[t] = target[t] /\ UNCHANGED coreVars
    BY Zenon, <1>0, <1>3, LabelsAre, AcquireListIs
  <2>2. UNCHANGED <<children, parent, mem, ref_count>>
    BY <2>1, Zenon DEF coreVars
  <2>3. pc[t] # "none" /\ pc'[t] # "none" /\ pc[t] \notin OffLabels /\ pc'[t] \notin OffLabels
        /\ pc[t] \notin FreeingLabels /\ pc'[t] \notin FreeingLabels /\ pc[t] \notin LeftLabels
        /\ pc[t] \in FoundLabels \ {"wait_down"} /\ pc[t] \in FoundLabels /\ pc[t] \in AimedLabels
        /\ pc[t] # "dead" /\ pc'[t] # "dead" /\ pc[t] # "exit_child" /\ pc'[t] # "exit_child"
        /\ pc[t] \in {"wait_lock2", "wait_free"}
    BY Zenon, <2>1 DEF OffLabels, ExitLabels, FreeingLabels, LeftLabels, FoundLabels, AimedLabels
  <2>4. PICK w \in Procs : target[t] = w /\ w \in Range(children[t]) /\ pc[w] \in LeftLabels
    BY <1>0, <2>3, Zenon DEF FoundOK, TargetOK
  <2>5. pc'[w] \in LeftLabels
    <3>1. w # t
      BY <2>3, <2>4, Zenon
    <3>2. pc'[w] = pc[w]
      BY <1>0, <2>1, <3>1, StepAlone, ZenonT(60) DEF Threads
    <3> QED BY <2>4, <3>2, Zenon
  <2>6. FoundOK(t)'
    BY <2>1, <2>2, <2>4, <2>5, Zenon DEF FoundOK
  <2>7. \A p \in Procs : (Keeps(t, p)' <=> Keeps(t, p)) /\ (Taking(t, p) => Taking(t, p)')
    BY <2>1, <2>2, <2>3, Zenon DEF Keeps, Taking, Past
  <2> QED BY <2>1, <2>2, <2>3, <2>6, <2>7, PlainMove, ZenonT(60)
<1> QED BY <1>1, <1>2, <1>3, Zenon

\* process_exit() begins its loop over the children, and ends it after the
\* last one.
LEMMA HeldLoop ==
  ASSUME CoreInv, HeldInv, Steady, NEW t \in Threads,
         AcquireList(t, "exit_lock2", "exit_child") \/ ExitEnd(t)
  PROVE  HeldInv'
<1>0. CoreTypes /\ TargetOK(t) /\ ListOK(t)
  BY Zenon DEF CoreInv
<1>1. CASE AcquireList(t, "exit_lock2", "exit_child")
  <2>1. Step(t) /\ pc[t] = "exit_lock2" /\ pc'[t] \in {"exit_lock2", "exit_child"} /\ target'[t] = target[t] /\ UNCHANGED coreVars
    BY ZenonT(60), <1>0, <1>1, LabelsAre, AcquireListIs
  <2>2. UNCHANGED <<children, parent, mem, ref_count>>
    BY <2>1, Zenon DEF coreVars
  <2>3. pc[t] # "none" /\ pc'[t] # "none" /\ pc[t] \in OffLabels /\ pc'[t] \in OffLabels
        /\ pc[t] \notin FreeingLabels /\ pc'[t] \notin FreeingLabels /\ pc'[t] \in LeftLabels
        /\ pc'[t] \notin FoundLabels /\ pc[t] # "dead" /\ pc'[t] # "dead"
        /\ pc[t] \notin {"wait_lock2", "wait_free"} /\ pc'[t] \notin {"wait_lock2", "wait_free"}
        /\ pc[t] \in IdleLabels
    BY Zenon, <2>1 DEF OffLabels, ExitLabels, FreeingLabels, LeftLabels, FoundLabels, IdleLabels
  <2>4. target[t] = NoThread
    BY <1>0, <2>3, Zenon DEF TargetOK
  <2>5. FoundOK(t)'
    BY <2>3, NotFound, Zenon
  <2>6. \A p \in Procs : (Keeps(t, p)' <=> Keeps(t, p)) /\ (Taking(t, p) => Taking(t, p)')
    BY <2>1, <2>2, <2>3, <2>4, Zenon DEF Keeps, Taking, Past
  <2> QED BY <2>1, <2>2, <2>3, <2>5, <2>6, PlainMove, ZenonT(60)
<1>2. CASE ExitEnd(t)
  <2>1. Step(t) /\ pc[t] = "exit_child" /\ pc'[t] = "dead" /\ target'[t] = NoThread /\ UNCHANGED coreVars
    BY <1>0, <1>2, ExitEndIs, Zenon
  <2>2. UNCHANGED <<children, parent, mem, ref_count>>
    BY <2>1, Zenon DEF coreVars
  <2>3. pc[t] # "none" /\ pc'[t] # "none" /\ pc[t] \in OffLabels /\ pc'[t] \in OffLabels
        /\ pc[t] \notin FreeingLabels /\ pc'[t] \notin FreeingLabels /\ pc'[t] \in LeftLabels
        /\ pc'[t] \notin FoundLabels
        /\ pc[t] \notin {"wait_lock2", "wait_free"}
    BY Zenon, <2>1 DEF OffLabels, ExitLabels, FreeingLabels, LeftLabels, FoundLabels
  <2>4. FoundOK(t)'
    BY <2>3, NotFound, Zenon
  <2>5. ASSUME NEW p \in Procs, Keeps(t, p) PROVE FALSE
    <3> DEFINE s == children[t]
    <3>1. s \in Seq(Procs) /\ Once(s)
      BY <1>0, Zenon DEF CoreTypes, ListOK
    <3>2. p \in Range(s) /\ ~Past(t, p)
      BY <2>5, ZenonT(60) DEF Keeps
    <3>3. PICK k \in 1..Len(s) : s[k] = p
      BY SMTT(60), <3>1, <3>2, RangeIs
    <3>4. s # <<>> /\ Len(s) \in 1..Len(s) /\ s[Len(s)] \in Procs
      BY SMTT(60), <3>1, <3>3
    <3>5. target[t] = s[Len(s)]
      BY <1>2, <3>4, Zenon DEF ExitEnd, LoopDone
    <3>6. target[t] # NoThread
      BY <3>4, <3>5, NoThreadIsNone, Zenon
    <3>7. Before(s, target[t], p)
      BY <2>1, <3>2, <3>6, Zenon DEF Past
    <3>8. PICK i \in 1..Len(s), j \in 1..Len(s) : s[i] = target[t] /\ i < j
      BY <3>7, Zenon DEF Before
    <3>9. i = Len(s)
      BY <3>1, <3>4, <3>5, <3>8, ZenonT(60) DEF Once
    <3> QED BY SMTT(60), <3>8, <3>9
  <2>6. \A p \in Procs : ~Keeps(t, p)' /\ ~Taking(t, p)
    BY <2>1, <2>3, Zenon DEF Keeps, Taking
  <2>7. \A p \in Procs : (Keeps(t, p)' <=> Keeps(t, p)) /\ (Taking(t, p) => Taking(t, p)')
    BY <2>5, <2>6, Zenon
  <2> QED BY <2>1, <2>2, <2>3, <2>4, <2>7, PlainMove, Zenon
<1> QED BY <1>1, <1>2, Zenon

\* A step of t about one wait_status, e.
LEMMA OneMove ==
  ASSUME CoreInv, HeldInv, Steady, NEW t \in Threads, Step(t), NEW e \in Procs,
         pc[t] # "none", pc'[t] # "none", t # e => (pc'[t] \in OffLabels <=> pc[t] \in OffLabels),
         t # e => (pc'[t] \in FreeingLabels <=> pc[t] \in FreeingLabels),
         pc[t] \in LeftLabels => pc'[t] \in LeftLabels,
         \A p \in Procs \ {e} : mem'[p] = mem[p] /\ ref_count'[p] = ref_count[p],
         \A p \in Procs \ {e} : /\ Holds(p)' => Holds(p)
                                /\ ~reinit => (Holds(p) => Holds(p)')
                                /\ Taken(p) => Taken(p)',
         CountOK(e)',
         \A u \in Threads \ {t} : pc[u] \in FoundLabels /\ target[u] \in Range(children[u]) =>
           target[u] \in Range(children'[u]),
         FoundOK(t)'
  PROVE  HeldInv'
<1>0. /\ \A u \in Threads \ {t} : pc'[u] = pc[u] /\ target'[u] = target[u]
      /\ use' = use /\ CoreTypes
  BY StepAlone, Zenon DEF CoreInv, Step
<1>1. \A p \in Procs \ {e} : (pc'[p] = "none" <=> pc[p] = "none") /\ (pc'[p] \in OffLabels <=> pc[p] \in OffLabels)
                       /\ (pc'[p] \in FreeingLabels <=> pc[p] \in FreeingLabels)
  BY <1>0, Zenon DEF Threads
<1>2. \A p \in Procs : pc[p] \in LeftLabels => pc'[p] \in LeftLabels
  BY <1>0, Zenon DEF Threads
<1>3. ASSUME NEW p \in Procs \ {e} PROVE CountOK(p)'
  <2>1. CountOK(p)
    BY Zenon DEF HeldInv
  <2>2. /\ mem'[p] = mem[p] /\ ref_count'[p] = ref_count[p]
        /\ (Holds(p)' => Holds(p)) /\ (~reinit => (Holds(p) => Holds(p)')) /\ (Taken(p) => Taken(p)')
    BY Zenon
  <2>3. (pc'[p] = "none" <=> pc[p] = "none") /\ (pc'[p] \in OffLabels <=> pc[p] \in OffLabels)
                       /\ (pc'[p] \in FreeingLabels <=> pc[p] \in FreeingLabels)
    BY <1>1, Zenon
  <2> QED BY <1>0, <2>1, <2>2, <2>3, CountKept, ZenonT(60)
<1>4. ASSUME NEW u \in Threads \ {t} PROVE FoundOK(u)'
  <2>1. FoundOK(u)
    BY Zenon DEF HeldInv
  <2>2. target[u] \in Procs \/ target[u] = NoThread
    BY <1>0, Zenon DEF CoreTypes
  <2>3. CASE target[u] \in Procs
    BY <1>0, <1>2, <2>1, <2>3, FoundKept, ZenonT(60)
  <2>4. CASE target[u] = NoThread
    <3>1. pc[u] \notin FoundLabels
      <4>1. pc[u] \in FoundLabels => pc[u] \in AimedLabels
        BY Zenon DEF AimedLabels
      <4> QED BY <2>4, <4>1, NoThreadIsNone, Zenon DEF CoreInv, TargetOK
    <3>2. pc'[u] \notin FoundLabels
      BY <1>0, <3>1, Zenon
    <3> QED BY <3>2, NotFound, Zenon
  <2> QED BY <2>2, <2>3, <2>4, Zenon
<1> QED BY <1>3, <1>4, Zenon DEF HeldInv

\* process_execute() makes the wait_status.
LEMMA HeldExecInit ==
  ASSUME CoreInv, HeldInv, Steady, NEW t \in Threads, ExecInit(t)
  PROVE  HeldInv'
<1>0. CoreTypes /\ TargetOK(t)
  BY Zenon DEF CoreInv
<1>1. /\ Step(t) /\ pc[t] = "exec_init" /\ pc'[t] = "exec_lock"
      /\ mem' = [mem EXCEPT ![target[t]] = "live"] /\ ref_count' = [ref_count EXCEPT ![target[t]] = -1]
      /\ UNCHANGED <<children, parent>>
  BY <1>0, ExecInitIs, Zenon
<1>2. pc[t] \in ExecLabels /\ pc[t] \in AimedLabels /\ pc[t] \in {"exec_init", "exec_lock", "exec_push"}
  BY Zenon, <1>1 DEF ExecLabels, AimedLabels
<1>3. PICK e \in Procs : target[t] = e /\ pc[e] = "none" /\ parent[e] = NoThread
  BY <1>0, <1>2, Zenon DEF TargetOK
<1>4. /\ pc[t] # "none" /\ pc'[t] # "none" /\ pc[t] \notin OffLabels /\ pc'[t] \notin OffLabels
      /\ pc[t] \notin FreeingLabels /\ pc'[t] \notin FreeingLabels /\ pc[t] \notin LeftLabels
      /\ pc[t] \notin GripLabels /\ pc'[t] \notin GripLabels /\ pc'[t] \notin FoundLabels
  BY Zenon, <1>1 DEF OffLabels, ExitLabels, FreeingLabels, LeftLabels, GripLabels, FoundLabels
<1>5. ASSUME NEW p \in Procs PROVE (Holds(p)' <=> Holds(p)) /\ (Taken(p) => Taken(p)')
  <2>1. \A u \in Threads \ {t} : pc'[u] = pc[u] /\ target'[u] = target[u]
    BY <1>0, <1>1, StepAlone, Zenon
  <2>2. (Keeps(t, p)' <=> Keeps(t, p)) /\ (Taking(t, p) => Taking(t, p)')
    BY <1>1, <1>4, KeepsPlain, KeepsPlainNext, ZenonT(60)
  <2>3. \A u \in Threads : (Keeps(u, p)' <=> Keeps(u, p)) /\ (Taking(u, p) => Taking(u, p)')
    BY <1>1, <2>1, <2>2, KeepsSame, ZenonT(60)
  <2> QED BY <1>1, <2>3, HoldsSame, Zenon
<1>6. CountOK(e)'
  <2>1. mem'[e] = "live" /\ ref_count'[e] = -1 /\ parent'[e] = NoThread
    BY <1>0, <1>1, <1>3, ZenonT(60) DEF CoreTypes
  <2>2. pc'[e] = "none"
    BY <1>0, <1>1, <1>3, <1>4, StepAlone, ZenonT(60) DEF Threads
  <2>3. ~Holds(e)'
    BY <2>1, NoThreadIsNone, Zenon DEF Holds
  <2>4. Base(e)' = -2
    BY <2>2, Zenon DEF Base
  <2>5. pc'[e] \notin FreeingLabels
    BY Zenon, <2>2 DEF FreeingLabels
  <2> QED BY SMTT(60), <2>1, <2>2, <2>3, <2>4, <2>5 DEF CountOK
<1>7. \A p \in Procs \ {e} : mem'[p] = mem[p] /\ ref_count'[p] = ref_count[p]
  BY <1>0, <1>1, <1>3, ZenonT(60) DEF CoreTypes
<1>8. FoundOK(t)'
  BY <1>4, NotFound, Zenon
<1> QED BY <1>1, <1>4, <1>5, <1>6, <1>7, <1>8, OneMove, ZenonT(60)

\* ... and puts it on the list.
LEMMA HeldPush ==
  ASSUME CoreInv, HeldInv, Steady, NEW t \in Threads, ExecPush(t)
  PROVE  HeldInv'
<1>0. CoreTypes /\ TargetOK(t)
  BY Zenon DEF CoreInv
<1>1. /\ Step(t) /\ pc[t] = "exec_push" /\ pc'[t] = "exec_create"
      /\ children' = [children EXCEPT ![t] = <<target[t]>> \o @] /\ parent' = [parent EXCEPT ![target[t]] = t]
      /\ UNCHANGED <<mem, ref_count>>
  BY <1>0, ExecPushIs, Zenon
<1>2. /\ pc[t] \in ExecLabels /\ pc[t] \in AimedLabels /\ pc[t] \in {"exec_lock", "exec_push", "exec_create"}
  BY Zenon, <1>1 DEF ExecLabels, AimedLabels
<1>3. PICK e \in Procs : target[t] = e /\ pc[e] = "none" /\ mem[e] = "live" /\ ref_count[e] = -1
  BY <1>0, <1>2, Zenon DEF TargetOK
<1>4. /\ pc[t] # "none" /\ pc'[t] # "none" /\ pc[t] \notin OffLabels /\ pc'[t] \notin OffLabels
      /\ pc[t] \notin FreeingLabels /\ pc'[t] \notin FreeingLabels /\ pc[t] \notin LeftLabels
      /\ pc[t] \notin GripLabels /\ pc'[t] \notin GripLabels /\ pc'[t] \notin FoundLabels
  BY ZenonT(60), <1>1 DEF OffLabels, ExitLabels, FreeingLabels, LeftLabels, GripLabels, FoundLabels
<1>5. Range(children'[t]) = Range(children[t]) \cup {e} /\ \A u \in Threads \ {t} : children'[u] = children[u]
  <2>1. children[t] \in Seq(Procs)
    BY <1>0, Zenon DEF CoreTypes
  <2>2. children'[t] = <<e>> \o children[t] /\ \A u \in Threads \ {t} : children'[u] = children[u]
    BY Zenon, <1>0, <1>1, <1>3 DEF CoreTypes
  <2> QED BY SMTT(60), <2>1, <2>2, PushRange
<1>6. ASSUME NEW p \in Procs \ {e} PROVE (Holds(p)' <=> Holds(p)) /\ (Taken(p) => Taken(p)')
  <2>1. \A u \in Threads \ {t} : pc'[u] = pc[u] /\ target'[u] = target[u]
    BY <1>0, <1>1, StepAlone, Zenon
  <2>2. p \in Range(children'[t]) <=> p \in Range(children[t])
    BY Zenon, <1>5
  <2>3. (Keeps(t, p)' <=> Keeps(t, p)) /\ (Taking(t, p) => Taking(t, p)')
    BY <1>4, <2>2, KeepsPlain, KeepsPlainNext, ZenonT(60)
  <2>4. \A u \in Threads : (Keeps(u, p)' <=> Keeps(u, p)) /\ (Taking(u, p) => Taking(u, p)')
    BY <1>5, <2>1, <2>3, KeepsSame, ZenonT(60)
  <2>5. parent'[p] = parent[p]
    BY <1>0, <1>1, <1>3, ZenonT(60) DEF CoreTypes
  <2> QED BY <2>4, <2>5, HoldsSame, Zenon
<1>7. CountOK(e)'
  <2>1. mem'[e] = "live" /\ ref_count'[e] = -1
    BY <1>1, <1>3, Zenon
  <2>2. pc'[e] = "none"
    BY <1>0, <1>1, <1>3, <1>4, StepAlone, ZenonT(60) DEF Threads
  <2>4. Base(e)' = -2
    BY <2>2, Zenon DEF Base
  <2>5. pc'[e] \notin FreeingLabels
    BY Zenon, <2>2 DEF FreeingLabels
  <2> QED BY SMTT(60), <2>1, <2>2, <2>4, <2>5 DEF CountOK
<1>8. \A u \in Threads \ {t} : pc[u] \in FoundLabels /\ target[u] \in Range(children[u]) =>
           target[u] \in Range(children'[u])
  BY <1>5, Zenon
<1>9. FoundOK(t)'
  BY <1>4, NotFound, Zenon
<1> QED BY <1>1, <1>4, <1>6, <1>7, <1>8, <1>9, OneMove, ZenonT(60)

\* thread_create() takes two references, the child's and the parent's.
LEMMA HeldCreate ==
  ASSUME CoreInv, HeldInv, Steady, NEW t \in Threads, ExecCreate(t)
  PROVE  HeldInv'
<1>0. CoreTypes /\ TargetOK(t)
  BY Zenon DEF CoreInv
<1>1. PICK e \in Procs :
       /\ pc[t] = "exec_create" /\ target[t] = e /\ pc[e] = "none" /\ e \in Range(children[t])
       /\ parent[e] = t /\ mem[e] = "live" /\ ref_count[e] = -1
       /\ my_wait' = [my_wait EXCEPT ![e] = TRUE]
       /\ ref_count' = [ref_count EXCEPT ![e] = 2]
       /\ ws_tid' = [ws_tid EXCEPT ![e] = e]
       /\ exit_code' = [exit_code EXCEPT ![e] = -1]
       /\ pc' = [pc EXCEPT ![e] = "load", ![t] = IF t = Main THEN "wait_lock" ELSE "exec_wait"]
       /\ UNCHANGED <<use, target, children, parent, mem, sema, got, code>>
  BY CreateIs, Zenon
<1>2. /\ e # t /\ pc'[e] = "load" /\ pc'[t] \in {"wait_lock", "exec_wait"}
      /\ \A u \in Threads \ {t, e} : pc'[u] = pc[u]
  BY Zenon, <1>0, <1>1 DEF CoreTypes, Threads
<1>3. /\ pc[t] # "none" /\ pc'[t] # "none" /\ pc[t] \notin OffLabels /\ pc'[t] \notin OffLabels
      /\ pc[t] \notin FreeingLabels /\ pc'[t] \notin FreeingLabels /\ pc[t] \notin LeftLabels
      /\ pc[t] \notin GripLabels /\ pc'[t] \notin GripLabels /\ pc'[t] \notin FoundLabels
      /\ pc'[e] # "none" /\ pc'[e] \notin OffLabels /\ pc[e] \notin LeftLabels /\ pc'[e] \notin FreeingLabels
      /\ pc[e] \notin GripLabels /\ pc'[e] \notin GripLabels /\ pc'[e] \notin FoundLabels
  BY Zenon, <1>1, <1>2 DEF OffLabels, ExitLabels, FreeingLabels, LeftLabels, GripLabels, FoundLabels
<1>4. ASSUME NEW p \in Procs \ {e} PROVE CountOK(p)'
  <2>1. ASSUME NEW u \in Threads PROVE (Keeps(u, p)' <=> Keeps(u, p)) /\ (Taking(u, p) => Taking(u, p)')
    <3>1. CASE u \in {t, e}
      <4>1. pc[u] \notin GripLabels /\ pc'[u] \notin GripLabels
        BY Zenon, <1>3, <3>1
      <4> QED BY <1>1, <4>1, KeepsPlain, KeepsPlainNext, ZenonT(60)
    <3>2. CASE u \notin {t, e}
      <4>1. pc'[u] = pc[u]
        BY Zenon, <1>2, <3>2
      <4> QED BY <1>1, <4>1, KeepsSame, ZenonT(60)
    <3> QED BY <3>1, <3>2, ZenonT(60)
  <2>2. (Holds(p)' <=> Holds(p)) /\ (Taken(p) => Taken(p)')
    BY <1>1, <2>1, HoldsSame, ZenonT(60)
  <2>3. CountOK(p) /\ ref_count'[p] = ref_count[p] /\ mem'[p] = mem[p] /\ use' = use
    BY <1>0, <1>1, Zenon DEF HeldInv, CoreTypes
  <2>4. (pc'[p] = "none" <=> pc[p] = "none") /\ (pc'[p] \in OffLabels <=> pc[p] \in OffLabels)
        /\ (pc'[p] \in FreeingLabels <=> pc[p] \in FreeingLabels)
    BY <1>2, <1>3, ZenonT(60) DEF Threads
  <2> QED BY <2>2, <2>3, <2>4, CountKept, ZenonT(60)
<1>5. CountOK(e)'
  <2>1. mem'[e] = "live" /\ ref_count'[e] = 2
    BY <1>0, <1>1, Zenon DEF CoreTypes
  <2>2. Keeps(t, e)'
    BY <1>1, <1>3, KeepsPlainNext, Zenon
  <2>3. Holds(e)'
    BY <1>1, <2>2, Zenon DEF Holds
  <2>4. Base(e)' = 1
    BY <1>3, Zenon DEF Base
  <2> QED BY SMTT(60), <1>3, <2>1, <2>3, <2>4 DEF CountOK
<1>6. ASSUME NEW u \in Threads PROVE FoundOK(u)'
  <2>1. CASE u \in {t, e}
    <3>1. pc'[u] \notin FoundLabels
      BY Zenon, <1>3, <2>1
    <3> QED BY <3>1, NotFound, Zenon
  <2>2. CASE u \notin {t, e}
    <3>1. pc'[u] = pc[u]
      BY Zenon, <1>2, <2>2
    <3>2. FoundOK(u)
      BY Zenon DEF HeldInv
    <3>3. CASE pc[u] \notin FoundLabels
      BY <3>1, <3>3, NotFound, Zenon
    <3>4. CASE pc[u] \in FoundLabels
      <4>1. target[u] \in Procs
        <5>1. pc[u] \in AimedLabels
          BY Zenon, <3>4 DEF AimedLabels
        <5> QED BY <5>1, Zenon DEF CoreInv, TargetOK
      <4>2. pc[target[u]] \in LeftLabels => pc'[target[u]] \in LeftLabels
        BY <1>2, <1>3, <4>1, Zenon DEF Threads
      <4> QED BY <1>1, <3>1, <3>2, <4>2, FoundKept, ZenonT(60)
    <3> QED BY <3>3, <3>4, Zenon
  <2> QED BY <2>1, <2>2, Zenon
<1> QED BY <1>4, <1>5, <1>6, ZenonT(60) DEF HeldInv
=============================================================================
