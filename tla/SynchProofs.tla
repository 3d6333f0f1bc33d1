---------------------------- MODULE SynchProofs ----------------------------
(***************************************************************************)
(* Proofs about Synch, for any number of threads, semaphores, locks and    *)
(* condition variables and any time slice: type correctness, with the      *)
(* lemmas about queues and the scheduler; the locks; every thread is in    *)
(* one place and has its own tid; and no signal of a condition variable    *)
(* and no wakeup of a semaphore is lost.                                   *)
(***************************************************************************)
EXTENDS Synch, TLAPS

(* Queues: list_push_back() and list_pop_front() on lists of threads. *)

\* Pushing at the back adds one member and keeps a list free of repetitions.
LEMMA PushBack ==
  ASSUME NEW q \in Seq(Thread), NEW x \in Thread
  PROVE  /\ Append(q, x) \in Seq(Thread)
         /\ Append(q, x) # <<>>
         /\ Range(Append(q, x)) = Range(q) \cup {x}
         /\ Distinct(q) /\ x \notin Range(q) => Distinct(Append(q, x))
<1> DEFINE r == Append(q, x)
<1>1. r \in Seq(Thread) /\ Len(r) = Len(q) + 1
  OBVIOUS
<1>2. r[Len(q) + 1] = x /\ \A i \in 1 .. Len(q) : r[i] = q[i]
  OBVIOUS
<1>3. DOMAIN q = 1 .. Len(q) /\ DOMAIN r = 1 .. Len(q) + 1 /\ Len(q) \in Nat
  BY <1>1
<1>4. r # <<>>
  BY <1>1, <1>3
<1> HIDE DEF r
<1>5. Range(r) = Range(q) \cup {x}
  BY <1>2, <1>3 DEF Range
<1>6. Distinct(q) /\ x \notin Range(q) => Distinct(r)
  BY <1>1, <1>2, <1>3 DEF Distinct, Range
<1> QED BY <1>1, <1>4, <1>5, <1>6, Zenon DEF r

\* Popping the front removes one member; without repetitions it is gone.
LEMMA PopFront ==
  ASSUME NEW q \in Seq(Thread), q # <<>>
  PROVE  /\ Head(q) \in Thread
         /\ Tail(q) \in Seq(Thread)
         /\ Range(q) = {Head(q)} \cup Range(Tail(q))
         /\ Distinct(q) => Distinct(Tail(q)) /\ Head(q) \notin Range(Tail(q))
<1> DEFINE r == Tail(q)
<1>1. r \in Seq(Thread) /\ Head(q) = q[1] /\ Head(q) \in Thread
  OBVIOUS
<1>2. Len(q) \in Nat \ {0} /\ Len(r) = Len(q) - 1
  OBVIOUS
<1>3. \A i \in 1 .. Len(r) : r[i] = q[i + 1]
  OBVIOUS
<1>4. DOMAIN q = 1 .. Len(q) /\ DOMAIN r = 1 .. Len(r)
  BY <1>1
<1> HIDE DEF r
<1>5. \A i \in 2 .. Len(q) : i - 1 \in 1 .. Len(r) /\ r[i - 1] = q[i]
  BY <1>2, <1>3
<1>6. Range(q) \subseteq {Head(q)} \cup Range(r)
  BY SMTT(60), <1>1, <1>2, <1>4, <1>5 DEF Range
<1>7. {Head(q)} \cup Range(r) \subseteq Range(q)
  <2>1. Head(q) \in Range(q)
    BY <1>1, <1>2, <1>4 DEF Range
  <2>2. ASSUME NEW i \in 1 .. Len(r) PROVE r[i] \in Range(q)
    <3>1. i + 1 \in DOMAIN q /\ r[i] = q[i + 1]
      BY <1>1, <1>2, <1>3, <1>4
    <3> QED BY <3>1, Zenon DEF Range
  <2> QED BY <2>1, <2>2, <1>4, Zenon DEF Range
<1>8. Distinct(q) => Distinct(r)
  BY <1>2, <1>3 DEF Distinct
<1>9. Distinct(q) => Head(q) \notin Range(r)
  BY <1>1, <1>2, <1>3, <1>4 DEF Distinct, Range
<1> QED BY <1>1, <1>6, <1>7, <1>8, <1>9, Zenon DEF r

LEMMA EmptyQueue == Range(<<>>) = {} /\ Distinct(<<>>) /\ <<>> \in Seq(Thread)
  BY DEF Range, Distinct
-----------------------------------------------------------------------------
(* Types, control and boot *)

\* The induction: types, the control of each thread, and the presence of the
\* idle thread while the system boots.
TypeInv == TypeOK /\ ControlOK /\ BootOK

\* What schedule() does to the scheduler's state, when it finds a thread.
LEMMA Schedule ==
  ASSUME SchedTypeOK,
         NEW queue \in Seq(Thread), NEW st \in [Thread -> Status],
         idle_thread = NoThread => Idle \in Range(queue),
         schedule(queue, st)
  PROVE  /\ cur' \in Thread
         /\ ready_list' \in Seq(Thread)
         /\ status' \in [Thread -> Status]
         /\ thread_ticks' \in 0 .. TIME_SLICE - 1
         /\ idle_thread = NoThread => cur' = Idle \/ Idle \in Range(ready_list')
<1>1. idle_thread = NoThread => queue # <<>>
  BY Zenon, EmptyQueue
<1>2. next_thread_to_run(queue) \in Thread
  BY <1>1, PopFront, Zenon DEF next_thread_to_run, SchedTypeOK, Thread
<1>3. Reap(st) \in [Thread -> Status]
  BY Zenon DEF Reap, Status
<1>4. ready_list' \in Seq(Thread)
  BY PopFront, Zenon DEF schedule
<1>5. thread_ticks' \in 0 .. TIME_SLICE - 1
  BY ThreadsAssumption DEF schedule
<1>6. cur' \in Thread /\ status' \in [Thread -> Status]
  BY <1>2, <1>3, Zenon DEF schedule, Status
<1>7. idle_thread = NoThread => cur' = Idle \/ Idle \in Range(ready_list')
  BY <1>1, PopFront DEF schedule, next_thread_to_run
<1> QED
  BY Zenon, <1>4, <1>5, <1>6, <1>7

\* thread_block() by a thread other than an idle thread that is not known yet.
LEMMA BlockType ==
  ASSUME TypeInv, pc[Main] # "start", cur # Idle \/ idle_thread # NoThread, thread_block
  PROVE  /\ cur' \in Thread
         /\ ready_list' \in Seq(Thread)
         /\ status' \in [Thread -> Status]
         /\ thread_ticks' \in 0 .. TIME_SLICE - 1
         /\ idle_thread = NoThread => cur' = Idle \/ Idle \in Range(ready_list')
<1>1. [status EXCEPT ![cur] = "BLOCKED"] \in [Thread -> Status]
  BY Zenon DEF TypeInv, TypeOK, SchedTypeOK, Status
<1> QED
  BY <1>1, Schedule, Zenon DEF thread_block, TypeInv, TypeOK, SchedTypeOK, BootOK

LEMMA DieType ==
  ASSUME TypeInv, pc[Main] # "start", cur # Idle, thread_die
  PROVE  /\ cur' \in Thread
         /\ ready_list' \in Seq(Thread)
         /\ status' \in [Thread -> Status]
         /\ thread_ticks' \in 0 .. TIME_SLICE - 1
         /\ idle_thread = NoThread => cur' = Idle \/ Idle \in Range(ready_list')
<1>1. [status EXCEPT ![cur] = "DYING"] \in [Thread -> Status]
  BY Zenon DEF TypeInv, TypeOK, SchedTypeOK, Status
<1> QED
  BY <1>1, Schedule, Zenon DEF thread_die, TypeInv, TypeOK, SchedTypeOK, BootOK

LEMMA YieldType ==
  ASSUME TypeInv, pc[Main] # "start", thread_yield
  PROVE  /\ cur' \in Thread
         /\ ready_list' \in Seq(Thread)
         /\ status' \in [Thread -> Status]
         /\ thread_ticks' \in 0 .. TIME_SLICE - 1
         /\ idle_thread = NoThread => cur' = Idle \/ Idle \in Range(ready_list')
<1> DEFINE queue == IF cur # idle_thread THEN Append(ready_list, cur) ELSE ready_list
<1>1. SchedTypeOK /\ [status EXCEPT ![cur] = "READY"] \in [Thread -> Status]
  BY Zenon DEF TypeInv, TypeOK, SchedTypeOK, Status
<1>2. /\ queue \in Seq(Thread)
      /\ Range(ready_list) \subseteq Range(queue)
      /\ cur # idle_thread => cur \in Range(queue)
  BY <1>1, PushBack, Zenon DEF SchedTypeOK
<1>3. schedule(queue, [status EXCEPT ![cur] = "READY"])
  BY Zenon DEF thread_yield
<1> HIDE DEF queue
<1>4. idle_thread = NoThread => Idle \in Range(queue)
  BY <1>1, <1>2, ThreadsAssumption, Zenon DEF TypeInv, BootOK, SchedTypeOK, Thread
<1> QED
  BY Zenon, <1>1, <1>2, <1>3, <1>4, Schedule

\* sema_up() and the thread_unblock() in it only add to the run queue.
LEMMA SemaUpType ==
  ASSUME TypeOK, NEW s \in Sema, sema_up(s)
  PROVE  /\ value' \in [Sema -> Nat]
         /\ waiters' \in [Sema -> Seq(Thread)]
         /\ ready_list' \in Seq(Thread)
         /\ status' \in [Thread -> Status]
         /\ Range(ready_list) \subseteq Range(ready_list')
<1>1. value' \in [Sema -> Nat]
  BY DEF sema_up, TypeOK
<1>2. CASE waiters[s] = <<>>
  BY <1>1, <1>2, Zenon DEF sema_up, TypeOK, SchedTypeOK
<1>3. CASE waiters[s] # <<>>
  <2>1. Head(waiters[s]) \in Thread /\ Tail(waiters[s]) \in Seq(Thread)
    BY <1>3, PopFront, Zenon DEF TypeOK
  <2>2. waiters' \in [Sema -> Seq(Thread)]
    BY <1>3, <2>1, Zenon DEF sema_up, TypeOK
  <2>3. /\ ready_list' = Append(ready_list, Head(waiters[s]))
        /\ status' \in [Thread -> Status]
    BY <1>3, <2>1, Zenon DEF sema_up, thread_unblock, TypeOK, SchedTypeOK, Status
  <2> QED BY <1>1, <2>1, <2>2, <2>3, PushBack, Zenon DEF TypeOK, SchedTypeOK
<1> QED BY Zenon, <1>2, <1>3

\* Where thread t goes.
LEMMA GotoMoves ==
  ASSUME TypeOK, NEW t \in Thread, NEW label, NEW obj, NEW next, Goto(t, label, obj, next)
  PROVE  /\ pc'[t] = label /\ on'[t] = obj /\ ret'[t] = next
         /\ \A u \in Thread \ {t} : pc'[u] = pc[u] /\ on'[u] = on[u] /\ ret'[u] = ret[u]
  BY Zenon DEF Goto, TypeOK

\* A turn of sema_down() by a thread other than idle.
LEMMA SemaDownType ==
  ASSUME TypeInv, NEW t \in Thread \ {Idle}, cur = t, pc[t] # "start",
         NEW s \in Sema, NEW label \in Label,
         NEW obj \in Sema \cup Conds \cup {NoThread}, NEW next \in Label,
         label # "start", sema_down(t, s, label, obj, next)
  PROVE  /\ cur' \in Thread
         /\ ready_list' \in Seq(Thread)
         /\ status' \in [Thread -> Status]
         /\ thread_ticks' \in 0 .. TIME_SLICE - 1
         /\ value' \in [Sema -> Nat]
         /\ waiters' \in [Sema -> Seq(Thread)]
         /\ pc' \in [Thread -> Label]
         /\ on' \in [Thread -> Sema \cup Conds \cup {NoThread}]
         /\ ret' \in [Thread -> Label]
         /\ idle_thread = NoThread => cur' = Idle \/ Idle \in Range(ready_list')
<1>0. pc[Main] # "start"
  BY Zenon DEF TypeInv, ControlOK, Thread
<1>1. CASE value[s] = 0
  <2>1. thread_block /\ UNCHANGED <<value, pc, on, ret>>
    BY <1>1 DEF sema_down, ctlVars
  <2>2. waiters' \in [Sema -> Seq(Thread)]
    <3>1. waiters \in [Sema -> Seq(Thread)] /\ Append(waiters[s], t) \in Seq(Thread)
      BY PushBack, Zenon DEF TypeInv, TypeOK
    <3>2. waiters' = [waiters EXCEPT ![s] = Append(@, t)]
      BY <1>1 DEF sema_down
    <3> QED BY Zenon, <3>1, <3>2
  <2> QED BY <1>0, <2>1, <2>2, BlockType, Zenon DEF TypeInv, TypeOK
<1>2. CASE value[s] > 0
  <2>1. /\ value' = [value EXCEPT ![s] = @ - 1]
        /\ Goto(t, label, obj, next)
        /\ UNCHANGED <<waiters, status, ready_list, cur, thread_ticks>>
    BY <1>2 DEF sema_down
  <2>2. value' \in [Sema -> Nat]
    BY <1>2, <2>1 DEF TypeInv, TypeOK
  <2>3. /\ pc' \in [Thread -> Label]
        /\ on' \in [Thread -> Sema \cup Conds \cup {NoThread}]
        /\ ret' \in [Thread -> Label]
    BY <2>1, Zenon DEF Goto, TypeInv, TypeOK
  <2> QED BY <1>0, <2>1, <2>2, <2>3, Zenon DEF TypeInv, TypeOK, SchedTypeOK, BootOK
<1> QED BY <1>1, <1>2, Zenon DEF sema_down

\* A turn of sema_down() moves only the thread that takes it.
LEMMA SemaDownControl ==
  ASSUME TypeOK, NEW t \in Thread, NEW s, NEW label, NEW obj, NEW next,
         sema_down(t, s, label, obj, next)
  PROVE  /\ \A u \in Thread \ {t} : pc'[u] = pc[u] /\ on'[u] = on[u] /\ ret'[u] = ret[u]
         /\ pc'[t] \in {pc[t], label}
  BY Zenon DEF sema_down, Goto, TypeOK, ctlVars

LEMMA TypeInvInit == Init => TypeInv
<1> SUFFICES ASSUME Init PROVE TypeInv
  BY Zenon
<1>1. SchedTypeOK
  BY ThreadsAssumption DEF Init, SchedInit, SchedTypeOK, Thread, Status
<1>2. TypeOK
  BY <1>1 DEF Init, TypeOK, Label, Sema, Thread
<1>3. ControlOK
  BY ThreadsAssumption, Zenon DEF Init, SchedInit, ControlOK, Thread
<1>4. BootOK
  BY ThreadsAssumption, Zenon DEF Init, SchedInit, BootOK, Thread
<1> QED BY <1>2, <1>3, <1>4, Zenon DEF TypeInv

LEMMA TypeInvStep == TypeInv /\ [Next]_vars => TypeInv'
<1> SUFFICES ASSUME TypeInv, [Next]_vars PROVE TypeInv'
  BY Zenon
<1> USE DEF TypeInv
<1>1. CASE ThreadStart
  <2>1. /\ ready_list' \in Seq(Thread) /\ status' \in [Thread -> Status]
        /\ Idle \in Range(ready_list')
    BY <1>1, PushBack, ZenonT(30)
       DEF ThreadStart, thread_unblock, TypeOK, SchedTypeOK, Thread, Status
  <2>2. TypeOK'
    <3>1. tid' \in [Thread -> Nat] /\ next_tid' \in Nat
      <4>1. tid \in [Thread -> Nat] /\ next_tid \in Nat
        BY Zenon DEF TypeOK
      <4>2. tid' = [tid EXCEPT ![Idle] = next_tid] /\ next_tid' = next_tid + 1
        BY <1>1, Zenon DEF ThreadStart
      <4>3. tid' \in [Thread -> Nat]
        BY Zenon, <4>1, <4>2
      <4> QED BY <4>1, <4>2, <4>3
    <3>2. /\ pc' \in [Thread -> Label]
          /\ on' \in [Thread -> Sema \cup Conds \cup {NoThread}]
          /\ ret' \in [Thread -> Label]
      BY <1>1, Zenon DEF ThreadStart, Goto, TypeOK, Label, Sema
    <3> QED BY <1>1, <2>1, <3>1, <3>2, Zenon DEF ThreadStart, TypeOK, SchedTypeOK, objVars
  <2>3. ControlOK'
    BY <1>1, ThreadsAssumption, SynchAssumption, ZenonT(30)
       DEF ThreadStart, At, Goto, TypeOK, ControlOK, Thread, objVars
  <2>4. BootOK'
    BY <1>1, <2>1, ThreadsAssumption, Zenon DEF ThreadStart, Goto, BootOK, TypeOK, Thread
  <2> QED BY Zenon, <2>2, <2>3, <2>4
<1>2. ASSUME NEW t \in Thread \ {Idle}, NEW s \in Semas, SemaDown(t, s)
      PROVE  TypeInv'
  <2>1. TypeOK'
    BY <1>2, ThreadsAssumption, SynchAssumption, Zenon
       DEF SemaDown, At, Goto, Resume, TypeOK, SchedTypeOK, ControlOK, Label, Sema, Thread, Status,
       schedVars, objVars, ctlVars, tidVars
  <2>2. ControlOK'
    BY <1>2, ThreadsAssumption, SynchAssumption
       DEF SemaDown, At, Goto, Resume, TypeOK, SchedTypeOK, ControlOK, Thread,
       schedVars, objVars, ctlVars, tidVars
  <2>3. BootOK'
    BY <1>2, ThreadsAssumption, SynchAssumption, Zenon
       DEF SemaDown, At, Goto, Resume, TypeOK, ControlOK, BootOK, Thread,
       schedVars, objVars, ctlVars, tidVars
  <2> QED BY Zenon, <2>1, <2>2, <2>3
<1>3. ASSUME NEW t \in Thread \ {Idle}, NEW s \in Semas, SemaTryDown(t, s)
      PROVE  TypeInv'
  <2>1. TypeOK'
    BY SMTT(60), <1>3, ThreadsAssumption, SynchAssumption
       DEF SemaTryDown, At, Goto, Resume, TypeOK, SchedTypeOK, ControlOK, Label, Sema, Thread, Status,
       schedVars, objVars, ctlVars, tidVars
  <2>2. ControlOK'
    BY <1>3, ThreadsAssumption, SynchAssumption
       DEF SemaTryDown, At, Goto, Resume, TypeOK, SchedTypeOK, ControlOK, Thread,
       schedVars, objVars, ctlVars, tidVars
  <2>3. BootOK'
    BY <1>3, ThreadsAssumption, SynchAssumption, Zenon
       DEF SemaTryDown, At, Goto, Resume, TypeOK, ControlOK, BootOK, Thread,
       schedVars, objVars, ctlVars, tidVars
  <2> QED BY Zenon, <2>1, <2>2, <2>3
<1>4. ASSUME NEW t \in Thread \ {Idle}, NEW s \in Semas, SemaUp(t, s)
      PROVE  TypeInv'
  <2>1. s \in Sema /\ sema_up(s)
    BY <1>4, ThreadsAssumption, SynchAssumption, Zenon DEF SemaUp, At, Goto, Resume, ControlOK, Sema
  <2>2. TypeOK'
    BY <1>4, <2>1, SemaUpType, ThreadsAssumption, SynchAssumption, Zenon
       DEF SemaUp, At, Goto, Resume, WakeCPU, TypeOK, SchedTypeOK, ControlOK, Label, Sema,
       Thread, schedVars, objVars, ctlVars, tidVars
  <2>3. ControlOK'
    BY ZenonT(60), <1>4, ThreadsAssumption, SynchAssumption
       DEF SemaUp, At, Goto, Resume, WakeCPU, TypeOK, SchedTypeOK, ControlOK, Thread, ctlVars, tidVars
  <2>4. BootOK'
    BY <1>4, <2>1, SemaUpType, ThreadsAssumption, SynchAssumption, Zenon
       DEF SemaUp, At, Goto, Resume, WakeCPU, TypeOK, ControlOK, BootOK, Thread, ctlVars
  <2> QED BY Zenon, <2>2, <2>3, <2>4
<1>5. ASSUME NEW t \in Thread \ {Idle}, NEW l \in Locks \ {TidLock}, LockAcquire(t, l)
      PROVE  TypeInv'
  <2>1. TypeOK'
    BY <1>5, ThreadsAssumption, SynchAssumption, Zenon
       DEF LockAcquire, At, Goto, Resume, TypeOK, SchedTypeOK, ControlOK, Label, Sema, Thread, Status,
       schedVars, objVars, ctlVars, tidVars
  <2>2. ControlOK'
    BY <1>5, ThreadsAssumption, SynchAssumption
       DEF LockAcquire, At, Goto, Resume, TypeOK, SchedTypeOK, ControlOK, Thread,
       schedVars, objVars, ctlVars, tidVars
  <2>3. BootOK'
    BY <1>5, ThreadsAssumption, SynchAssumption, Zenon
       DEF LockAcquire, At, Goto, Resume, TypeOK, ControlOK, BootOK, Thread,
       schedVars, objVars, ctlVars, tidVars
  <2> QED BY Zenon, <2>1, <2>2, <2>3
<1>6. ASSUME NEW t \in Thread \ {Idle}, NEW l \in Locks \ {TidLock}, LockTryAcquire(t, l)
      PROVE  TypeInv'
  <2>1. TypeOK'
    BY SMTT(60), <1>6, ThreadsAssumption, SynchAssumption
       DEF LockTryAcquire, At, Goto, Resume, TypeOK, SchedTypeOK, ControlOK, Label, Sema, Thread, Status,
       schedVars, objVars, ctlVars, tidVars
  <2>2. ControlOK'
    BY <1>6, ThreadsAssumption, SynchAssumption
       DEF LockTryAcquire, At, Goto, Resume, TypeOK, SchedTypeOK, ControlOK, Thread,
       schedVars, objVars, ctlVars, tidVars
  <2>3. BootOK'
    BY <1>6, ThreadsAssumption, SynchAssumption, Zenon
       DEF LockTryAcquire, At, Goto, Resume, TypeOK, ControlOK, BootOK, Thread,
       schedVars, objVars, ctlVars, tidVars
  <2> QED BY Zenon, <2>1, <2>2, <2>3
<1>7. ASSUME NEW t \in Thread \ {Idle}, NEW l \in Locks \ {TidLock}, LockRelease(t, l)
      PROVE  TypeInv'
  <2>1. TypeOK'
    BY <1>7, ThreadsAssumption, SynchAssumption, Zenon
       DEF LockRelease, At, Goto, Resume, TypeOK, SchedTypeOK, ControlOK, Label, Sema, Thread, Status,
       schedVars, objVars, ctlVars, tidVars
  <2>2. ControlOK'
    BY <1>7, ThreadsAssumption, SynchAssumption
       DEF LockRelease, At, Goto, Resume, TypeOK, SchedTypeOK, ControlOK, Thread,
       schedVars, objVars, ctlVars, tidVars
  <2>3. BootOK'
    BY <1>7, ThreadsAssumption, SynchAssumption, Zenon
       DEF LockRelease, At, Goto, Resume, TypeOK, ControlOK, BootOK, Thread,
       schedVars, objVars, ctlVars, tidVars
  <2> QED BY Zenon, <2>1, <2>2, <2>3
<1>8. ASSUME NEW t \in Thread \ {Idle}, NEW c \in Conds, CondWait(t, c)
      PROVE  TypeInv'
  <2>1. TypeOK'
    <3>1. cond_waiters' \in [Conds -> Seq(Thread)]
      <4>1. cond_waiters \in [Conds -> Seq(Thread)] /\ Append(cond_waiters[c], t) \in Seq(Thread)
        BY PushBack, Zenon DEF TypeOK
      <4> QED BY <1>8, <4>1, Zenon DEF CondWait
    <3>2. value' \in [Sema -> Nat] /\ holder' \in [Locks -> Thread \cup {NoThread}]
      BY <1>8, Zenon DEF CondWait, TypeOK
    <3>3. /\ pc' \in [Thread -> Label]
          /\ on' \in [Thread -> Sema \cup Conds \cup {NoThread}]
          /\ ret' \in [Thread -> Label]
      BY <1>8, Zenon DEF CondWait, Goto, TypeOK, Label
    <3> QED BY <1>8, <3>1, <3>2, <3>3, Zenon DEF CondWait, TypeOK, SchedTypeOK, schedVars, tidVars
  <2>2. ControlOK'
    BY <1>8, ThreadsAssumption, SynchAssumption, ZenonT(60)
       DEF CondWait, At, Goto, Resume, TypeOK, SchedTypeOK, ControlOK, Thread,
       schedVars, objVars, ctlVars, tidVars
  <2>3. BootOK'
    BY <1>8, ThreadsAssumption, SynchAssumption, Zenon
       DEF CondWait, At, Goto, Resume, TypeOK, ControlOK, BootOK, Thread,
       schedVars, objVars, ctlVars, tidVars
  <2> QED BY Zenon, <2>1, <2>2, <2>3
<1>9. ASSUME NEW t \in Thread \ {Idle}, NEW c \in Conds, CondSignal(t, c)
      PROVE  TypeInv'
  <2>1. Head(cond_waiters[c]) \in Sema /\ sema_up(Head(cond_waiters[c]))
    BY <1>9, PopFront, Zenon DEF CondSignal, signal_first, TypeOK, Sema
  <2>2. cond_waiters' \in [Conds -> Seq(Thread)]
    BY <1>9, PopFront, Zenon DEF CondSignal, signal_first, TypeOK
  <2>3. TypeOK'
    BY <1>9, <2>1, <2>2, SemaUpType, Zenon DEF CondSignal, TypeOK, SchedTypeOK, ctlVars, tidVars
  <2>4. ControlOK'
    BY <1>9, ZenonT(60) DEF CondSignal, ControlOK, ctlVars, tidVars
  <2>5. BootOK'
    BY <1>9, <2>1, SemaUpType, Zenon DEF CondSignal, BootOK, ctlVars
  <2> QED BY Zenon, <2>3, <2>4, <2>5
<1>10. ASSUME NEW t \in Thread \ {Idle}, NEW c \in Conds, CondBroadcast(t, c)
      PROVE  TypeInv'
  <2>1. TypeOK'
    BY <1>10, ThreadsAssumption, SynchAssumption, Zenon
       DEF CondBroadcast, At, Goto, Resume, TypeOK, SchedTypeOK, ControlOK, Label, Sema, Thread, Status,
       schedVars, objVars, ctlVars, tidVars
  <2>2. ControlOK'
    BY <1>10, ThreadsAssumption, SynchAssumption
       DEF CondBroadcast, At, Goto, Resume, TypeOK, SchedTypeOK, ControlOK, Thread,
       schedVars, objVars, ctlVars, tidVars
  <2>3. BootOK'
    BY <1>10, ThreadsAssumption, SynchAssumption, Zenon
       DEF CondBroadcast, At, Goto, Resume, TypeOK, ControlOK, BootOK, Thread,
       schedVars, objVars, ctlVars, tidVars
  <2> QED BY Zenon, <2>1, <2>2, <2>3
<1>11. ASSUME NEW t \in Thread \ {Idle}, NEW page \in Pages, ThreadCreate(t, page)
      PROVE  TypeInv'
  <2>1. TypeOK'
    BY <1>11, ThreadsAssumption, SynchAssumption, Zenon
       DEF ThreadCreate, At, Goto, Resume, TypeOK, SchedTypeOK, ControlOK, Label, Sema, Thread, Status,
       schedVars, objVars, ctlVars, tidVars
  <2>2. ControlOK'
    BY <1>11, ThreadsAssumption, SynchAssumption, ZenonT(60)
       DEF ThreadCreate, At, Goto, Resume, TypeOK, SchedTypeOK, ControlOK, Thread,
       schedVars, objVars, ctlVars, tidVars
  <2>3. BootOK'
    BY <1>11, ThreadsAssumption, SynchAssumption, Zenon
       DEF ThreadCreate, At, Goto, Resume, TypeOK, ControlOK, BootOK, Thread,
       schedVars, objVars, ctlVars, tidVars
  <2> QED BY Zenon, <2>1, <2>2, <2>3
<1>12. ASSUME NEW t \in Thread \ {Idle}, ThreadYield(t)
      PROVE  TypeInv'
  <2>1. pc[Main] # "start" /\ cur # Idle
    BY <1>12, Zenon DEF ThreadYield, At, ControlOK, Thread
  <2>2. TypeOK'
    BY <1>12, <2>1, YieldType, Zenon DEF ThreadYield, TypeOK, SchedTypeOK, objVars, ctlVars, tidVars
  <2>3. ControlOK'
    BY <1>12, <2>1, Zenon DEF ThreadYield, ControlOK, Thread, ctlVars, tidVars
  <2>4. BootOK'
    BY <1>12, <2>1, YieldType, Zenon DEF ThreadYield, BootOK, ctlVars
  <2> QED BY Zenon, <2>2, <2>3, <2>4
<1>13. ASSUME NEW t \in Thread \ {Idle}, ThreadExit(t)
      PROVE  TypeInv'
  <2>1. pc[Main] # "start" /\ cur # Idle
    BY <1>13, Zenon DEF ThreadExit, At, ControlOK, Thread
  <2>2. TypeOK'
    BY <1>13, <2>1, DieType, Zenon DEF ThreadExit, TypeOK, SchedTypeOK, objVars, ctlVars, tidVars
  <2>3. ControlOK'
    BY <1>13, <2>1, Zenon DEF ThreadExit, ControlOK, Thread, ctlVars, tidVars
  <2>4. BootOK'
    BY <1>13, <2>1, DieType, Zenon DEF ThreadExit, BootOK, ctlVars
  <2> QED BY Zenon, <2>2, <2>3, <2>4
<1>14. ASSUME NEW t \in Thread \ {Idle}, SemaDownLoop(t)
      PROVE  TypeInv'
  <2>1. /\ on[t] \in Sema /\ ret[t] \in Label /\ "run" \in Label /\ ret[t] # "start"
        /\ NoThread \in Sema \cup Conds \cup {NoThread}
        /\ cur = t /\ pc[t] # "start" /\ sema_down(t, on[t], ret[t], NoThread, "run")
    BY <1>14, ThreadsAssumption, SynchAssumption, Zenon
       DEF SemaDownLoop, At, Goto, Resume, TypeOK, ControlOK, Sema, Label
  <2>2. TypeOK'
    BY <1>14, <2>1, SemaDownType, ZenonT(60) DEF SemaDownLoop, TypeOK, SchedTypeOK, tidVars
  <2>3. ControlOK'
    <3>1. new' = new /\ pc[t] = "down" /\ ret[t] = "run" /\ \A u \in Thread : pc[u] # "start"
      BY <1>14, <2>1, Zenon DEF SemaDownLoop, At, ControlOK, tidVars
    <3>2. CASE UNCHANGED <<pc, on, ret>>
      BY <3>1, <3>2, ZenonT(60) DEF ControlOK
    <3>3. CASE Goto(t, "run", NoThread, "run")
      <4>1. /\ pc'[t] = "run" /\ ret'[t] = "run"
            /\ \A u \in Thread \ {t} : pc'[u] = pc[u] /\ on'[u] = on[u] /\ ret'[u] = ret[u]
        BY <3>3, GotoMoves, ZenonT(60)
      <4>2. new'[t] = NoThread /\ t # Idle
        BY <3>1, Zenon DEF ControlOK
      <4>3. ASSUME NEW u \in Thread PROVE pc'[u] # "start"
        BY <3>1, <4>1, Zenon
      <4> QED BY <3>1, <4>1, <4>2, <4>3, ZenonT(60) DEF ControlOK
    <3> QED BY <2>1, <3>1, <3>2, <3>3, Zenon DEF sema_down, ctlVars
  <2>4. BootOK'
    <3>1. pc'[Idle] = pc[Idle] /\ pc[Main] # "start"
      BY <1>14, <2>1, SemaDownControl DEF ControlOK, Thread
    <3> QED BY <1>14, <2>1, <3>1, SemaDownType, Zenon DEF SemaDownLoop, BootOK
  <2> QED BY Zenon, <2>2, <2>3, <2>4
<1>15. ASSUME NEW t \in Thread \ {Idle}, LockAcquireLoop(t)
      PROVE  TypeInv'
  <2>1. /\ on[t] \in Sema /\ "own" \in Label /\ ret[t] \in Label /\ "own" # "start"
        /\ on[t] \in Sema \cup Conds \cup {NoThread}
        /\ cur = t /\ pc[t] # "start" /\ sema_down(t, on[t], "own", on[t], ret[t])
    BY <1>15, ThreadsAssumption, SynchAssumption, Zenon
       DEF LockAcquireLoop, At, Goto, Resume, TypeOK, ControlOK, Sema, Label
  <2>2. TypeOK'
    BY <1>15, <2>1, SemaDownType, ZenonT(60) DEF LockAcquireLoop, TypeOK, SchedTypeOK, tidVars
  <2>3. ControlOK'
    BY SMTT(60), <1>15, <2>1, ThreadsAssumption, SynchAssumption
       DEF LockAcquireLoop, At, Goto, Resume, sema_down, TypeOK, ControlOK, Thread, ctlVars, tidVars
  <2>4. BootOK'
    <3>1. pc'[Idle] = pc[Idle] /\ pc[Main] # "start"
      BY ZenonT(60), <1>15, <2>1, SemaDownControl DEF ControlOK, Thread
    <3> QED BY <1>15, <2>1, <3>1, SemaDownType, Zenon DEF LockAcquireLoop, BootOK
  <2> QED BY Zenon, <2>2, <2>3, <2>4
<1>16. ASSUME NEW t \in Thread \ {Idle}, LockOwn(t)
      PROVE  TypeInv'
  <2>1. TypeOK'
    BY <1>16, ThreadsAssumption, SynchAssumption, ZenonT(60)
       DEF LockOwn, At, Goto, Resume, TypeOK, SchedTypeOK, ControlOK, Label, Sema, Thread, Status,
       schedVars, objVars, ctlVars, tidVars
  <2>2. ControlOK'
    BY <1>16, ThreadsAssumption, SynchAssumption
       DEF LockOwn, At, Goto, Resume, TypeOK, SchedTypeOK, ControlOK, Thread,
       schedVars, objVars, ctlVars, tidVars
  <2>3. BootOK'
    BY <1>16, ThreadsAssumption, SynchAssumption, Zenon
       DEF LockOwn, At, Goto, Resume, TypeOK, ControlOK, BootOK, Thread,
       schedVars, objVars, ctlVars, tidVars
  <2> QED BY Zenon, <2>1, <2>2, <2>3
<1>17. ASSUME NEW t \in Thread \ {Idle}, LockReleaseUp(t)
      PROVE  TypeInv'
  <2>1. on[t] \in Sema /\ sema_up(on[t])
    BY <1>17, ThreadsAssumption, SynchAssumption, Zenon
       DEF LockReleaseUp, At, Goto, Resume, ControlOK, Sema
  <2>2. TypeOK'
    BY <1>17, <2>1, SemaUpType, ThreadsAssumption, SynchAssumption, Zenon
       DEF LockReleaseUp, At, Goto, Resume, WakeCPU, TypeOK, SchedTypeOK, ControlOK, Label, Sema,
       Thread, schedVars, objVars, ctlVars, tidVars
  <2>3. ControlOK'
    BY <1>17, ThreadsAssumption, SynchAssumption, ZenonT(60)
       DEF LockReleaseUp, At, Goto, Resume, WakeCPU, TypeOK, SchedTypeOK, ControlOK, Thread, ctlVars, tidVars
  <2>4. BootOK'
    BY <1>17, <2>1, SemaUpType, ThreadsAssumption, SynchAssumption, Zenon
       DEF LockReleaseUp, At, Goto, Resume, WakeCPU, TypeOK, ControlOK, BootOK, Thread, ctlVars
  <2> QED BY Zenon, <2>2, <2>3, <2>4
<1>18. ASSUME NEW t \in Thread \ {Idle}, CondWaitUp(t)
      PROVE  TypeInv'
  <2>1. LockOf[on[t]] \in Sema /\ sema_up(LockOf[on[t]])
    BY <1>18, ThreadsAssumption, SynchAssumption, Zenon
       DEF CondWaitUp, At, Goto, Resume, ControlOK, Sema
  <2>2. TypeOK'
    BY <1>18, <2>1, SemaUpType, ThreadsAssumption, SynchAssumption, ZenonT(60)
       DEF CondWaitUp, At, Goto, Resume, WakeCPU, TypeOK, SchedTypeOK, ControlOK, Label, Sema,
       Thread, schedVars, objVars, ctlVars, tidVars
  <2>3. ControlOK'
    BY <1>18, ThreadsAssumption, SynchAssumption, ZenonT(60)
       DEF CondWaitUp, At, Goto, Resume, WakeCPU, TypeOK, SchedTypeOK, ControlOK, Thread, ctlVars, tidVars
  <2>4. BootOK'
    BY <1>18, <2>1, SemaUpType, ThreadsAssumption, SynchAssumption, Zenon
       DEF CondWaitUp, At, Goto, Resume, WakeCPU, TypeOK, ControlOK, BootOK, Thread, ctlVars
  <2> QED BY Zenon, <2>2, <2>3, <2>4
<1>19. ASSUME NEW t \in Thread \ {Idle}, CondWaitDown(t)
      PROVE  TypeInv'
  <2>1. /\ t \in Sema /\ "acquire" \in Label /\ "run" \in Label /\ "acquire" # "start"
        /\ LockOf[on[t]] \in Sema \cup Conds \cup {NoThread}
        /\ cur = t /\ pc[t] # "start" /\ sema_down(t, t, "acquire", LockOf[on[t]], "run")
    BY ZenonT(60), <1>19, ThreadsAssumption, SynchAssumption
       DEF CondWaitDown, At, Goto, Resume, TypeOK, ControlOK, Sema, Label
  <2>2. TypeOK'
    BY <1>19, <2>1, SemaDownType, Zenon DEF CondWaitDown, TypeOK, SchedTypeOK, tidVars
  <2>3. ControlOK'
    <3> DEFINE o == LockOf[on[t]]
    <3>1. new' = new /\ pc[t] = "cond_down" /\ ret[t] = "run" /\ \A u \in Thread : pc[u] # "start"
      BY <1>19, <2>1, ZenonT(60) DEF CondWaitDown, At, ControlOK, tidVars
    <3>2. o \in Locks \ {TidLock}
      BY <3>1, SynchAssumption, Zenon DEF ControlOK
    <3> HIDE DEF o
    <3>3. CASE UNCHANGED <<pc, on, ret>>
      BY <3>1, <3>3, ZenonT(60) DEF ControlOK
    <3>4. CASE Goto(t, "acquire", o, "run")
      <4>1. /\ pc'[t] = "acquire" /\ on'[t] = o /\ ret'[t] = "run"
            /\ \A u \in Thread \ {t} : pc'[u] = pc[u] /\ on'[u] = on[u] /\ ret'[u] = ret[u]
        BY <3>4, GotoMoves, Zenon
      <4> QED BY <3>1, <3>2, <4>1 DEF ControlOK
    <3> QED BY <2>1, <3>3, <3>4, Zenon DEF sema_down, ctlVars, o
  <2>4. BootOK'
    <3>1. pc'[Idle] = pc[Idle] /\ pc[Main] # "start"
      BY <1>19, <2>1, SemaDownControl DEF ControlOK, Thread
    <3> QED BY <1>19, <2>1, <3>1, SemaDownType, Zenon DEF CondWaitDown, BootOK
  <2> QED BY Zenon, <2>2, <2>3, <2>4
<1>20. ASSUME NEW t \in Thread \ {Idle}, CondBroadcastLoop(t)
      PROVE  TypeInv'
  <2> DEFINE c == on[t]
  <2>0. c \in Conds /\ cur = t /\ pc[t] = "broadcast"
    BY <1>20, Zenon DEF CondBroadcastLoop, At, ControlOK
  <2>1. CASE cond_waiters[c] # <<>>
    <3>1. /\ Head(cond_waiters[c]) \in Sema /\ sema_up(Head(cond_waiters[c]))
          /\ cond_waiters' = [cond_waiters EXCEPT ![c] = Tail(@)]
          /\ UNCHANGED <<cur, idle_thread, thread_ticks, holder, ctlVars, tidVars>>
      BY <1>20, <2>0, <2>1, PopFront, Zenon DEF CondBroadcastLoop, signal_first, TypeOK, Sema
    <3>2. cond_waiters' \in [Conds -> Seq(Thread)]
      BY <2>0, <2>1, <3>1, PopFront, Zenon DEF TypeOK
    <3>3. TypeOK'
      BY <3>1, <3>2, SemaUpType, Zenon DEF TypeOK, SchedTypeOK, ctlVars, tidVars
    <3>4. ControlOK'
      BY <3>1, ZenonT(60) DEF ControlOK, ctlVars, tidVars
    <3>5. BootOK'
      BY <3>1, SemaUpType, Zenon DEF BootOK, ctlVars
    <3> QED BY Zenon, <3>3, <3>4, <3>5
  <2>2. CASE cond_waiters[c] = <<>>
    <3>1. Resume(t, "run") /\ UNCHANGED <<schedVars, objVars, tidVars>>
      BY <1>20, <2>2, Zenon DEF CondBroadcastLoop
    <3>2. TypeOK'
      BY <3>1, Zenon DEF Resume, Goto, TypeOK, SchedTypeOK, Label, schedVars, objVars, tidVars
    <3>3. ControlOK'
      BY <2>0, <3>1, ThreadsAssumption
         DEF Resume, Goto, TypeOK, ControlOK, Thread, schedVars, tidVars
    <3>4. BootOK'
      BY Zenon, <2>0, <3>1, ThreadsAssumption
         DEF Resume, Goto, TypeOK, ControlOK, BootOK, Thread, schedVars
    <3> QED BY Zenon, <3>2, <3>3, <3>4
  <2> QED BY Zenon, <2>1, <2>2
<1>21. ASSUME NEW t \in Thread \ {Idle}, TidRead(t)
      PROVE  TypeInv'
  <2>1. TypeOK'
    BY <1>21, ThreadsAssumption, SynchAssumption, Zenon
       DEF TidRead, At, Goto, Resume, TypeOK, SchedTypeOK, ControlOK, Label, Sema, Thread, Status,
       schedVars, objVars, ctlVars, tidVars
  <2>2. ControlOK'
    BY <1>21, ThreadsAssumption, SynchAssumption, ZenonT(60)
       DEF TidRead, At, Goto, Resume, TypeOK, SchedTypeOK, ControlOK, Thread,
       schedVars, objVars, ctlVars, tidVars
  <2>3. BootOK'
    BY <1>21, ThreadsAssumption, SynchAssumption, Zenon
       DEF TidRead, At, Goto, Resume, TypeOK, ControlOK, BootOK, Thread,
       schedVars, objVars, ctlVars, tidVars
  <2> QED BY Zenon, <2>1, <2>2, <2>3
<1>22. ASSUME NEW t \in Thread \ {Idle}, TidWrite(t)
      PROVE  TypeInv'
  <2>0. t \in Thread /\ pc[t] = "tid_write"
    BY <1>22, Zenon DEF TidWrite, At
  <2>a. next_tid' \in Nat
    <3>1. new[t] \in Pages
      BY <2>0, Zenon DEF TypeOK, ControlOK
    <3>2. tid[new[t]] \in Nat
      BY <3>1, Zenon DEF TypeOK, Thread
    <3> QED BY <1>22, <3>2 DEF TidWrite
  <2>b. holder' \in [Locks -> Thread \cup {NoThread}]
    BY <1>22, Zenon DEF TidWrite, TypeOK
  <2>c. pc' \in [Thread -> Label] /\ ret' \in [Thread -> Label]
    <3>1. "release" \in Label /\ "unblock" \in Label
      BY Zenon DEF Label
    <3> QED BY <1>22, <2>0, <3>1, Zenon DEF TidWrite, Goto, TypeOK
  <2>d. on' \in [Thread -> Sema \cup Conds \cup {NoThread}]
    <3>1. TidLock \in Sema
      BY SynchAssumption, Zenon DEF Sema
    <3> QED BY <1>22, <2>0, <3>1, Zenon DEF TidWrite, Goto, TypeOK
  <2>1. TypeOK'
    BY <1>22, <2>a, <2>b, <2>c, <2>d, ZenonT(60) DEF TidWrite, TypeOK, SchedTypeOK, schedVars
  <2>2. ControlOK'
    BY <1>22, ThreadsAssumption, SynchAssumption
       DEF TidWrite, At, Goto, Resume, TypeOK, SchedTypeOK, ControlOK, Thread,
       schedVars, objVars, ctlVars, tidVars
  <2>3. BootOK'
    BY <1>22, ThreadsAssumption, SynchAssumption, Zenon
       DEF TidWrite, At, Goto, Resume, TypeOK, ControlOK, BootOK, Thread,
       schedVars, objVars, ctlVars, tidVars
  <2> QED BY Zenon, <2>1, <2>2, <2>3
<1>23. ASSUME NEW t \in Thread \ {Idle}, ThreadCreated(t)
      PROVE  TypeInv'
  <2>0. new[t] \in Pages /\ cur = t /\ pc[t] = "unblock"
    BY <1>23, Zenon DEF ThreadCreated, At, TypeOK, ControlOK
  <2>1. /\ ready_list' \in Seq(Thread) /\ status' \in [Thread -> Status]
        /\ Range(ready_list) \subseteq Range(ready_list')
    BY SMTT(60), <1>23, <2>0, PushBack DEF ThreadCreated, thread_unblock, TypeOK, SchedTypeOK, Thread, Status
  <2>2. TypeOK'
    BY <1>23, <2>1, Zenon DEF ThreadCreated, Resume, Goto, TypeOK, SchedTypeOK, objVars, Label
  <2>3. ControlOK'
    BY <1>23, <2>0, ThreadsAssumption
       DEF ThreadCreated, Resume, Goto, TypeOK, ControlOK, Thread
  <2>4. BootOK'
    BY Zenon, <1>23, <2>0, <2>1, ThreadsAssumption
       DEF ThreadCreated, Resume, Goto, TypeOK, ControlOK, BootOK, Thread
  <2> QED BY Zenon, <2>2, <2>3, <2>4
<1>24. CASE IdleInit
  <2>1. TypeOK'
    BY <1>24, ThreadsAssumption, SynchAssumption, ZenonT(60)
       DEF IdleInit, At, Goto, Resume, TypeOK, SchedTypeOK, ControlOK, Label, Sema, Thread, Status,
       schedVars, objVars, ctlVars, tidVars
  <2>2. ControlOK'
    BY SMTT(60), <1>24, ThreadsAssumption, SynchAssumption
       DEF IdleInit, At, Goto, Resume, TypeOK, SchedTypeOK, ControlOK, Thread,
       schedVars, objVars, ctlVars, tidVars
  <2>3. BootOK'
    BY <1>24, ThreadsAssumption, SynchAssumption, Zenon
       DEF IdleInit, At, Goto, Resume, TypeOK, ControlOK, BootOK, Thread,
       schedVars, objVars, ctlVars, tidVars
  <2> QED BY Zenon, <2>1, <2>2, <2>3
<1>25. CASE IdleUp
  <2>1. IdleStarted \in Sema /\ sema_up(IdleStarted)
    BY <1>25, ThreadsAssumption, SynchAssumption, Zenon
       DEF IdleUp, At, Goto, Resume, ControlOK, Sema
  <2>2. TypeOK'
    BY <1>25, <2>1, SemaUpType, ThreadsAssumption, SynchAssumption, Zenon
       DEF IdleUp, At, Goto, Resume, WakeCPU, TypeOK, SchedTypeOK, ControlOK, Label, Sema,
       Thread, schedVars, objVars, ctlVars, tidVars
  <2>3. ControlOK'
    BY <1>25, ThreadsAssumption, SynchAssumption, ZenonT(60)
       DEF IdleUp, At, Goto, Resume, WakeCPU, TypeOK, SchedTypeOK, ControlOK, Thread, ctlVars, tidVars
  <2>4. BootOK'
    BY <1>25, <2>1, SemaUpType, ThreadsAssumption, SynchAssumption, Zenon
       DEF IdleUp, At, Goto, Resume, WakeCPU, TypeOK, ControlOK, BootOK, Thread, ctlVars
  <2> QED BY Zenon, <2>2, <2>3, <2>4
<1>26. CASE IdleBlock
  <2>1. cur = Idle /\ pc[Idle] = "idle_block" /\ pc[Main] # "start" /\ idle_thread # NoThread
    BY <1>26, ThreadsAssumption, Zenon DEF IdleBlock, At, ControlOK, BootOK, Thread
  <2>2. TypeOK'
    BY <1>26, <2>1, BlockType, Zenon
       DEF IdleBlock, Resume, Goto, TypeOK, SchedTypeOK, objVars, tidVars, Label
  <2>3. ControlOK'
    BY ZenonT(60), <1>26, <2>1, ThreadsAssumption
       DEF IdleBlock, Resume, Goto, TypeOK, ControlOK, Thread, tidVars
  <2>4. BootOK'
    BY <1>26, <2>1, Zenon DEF IdleBlock, BootOK
  <2> QED BY Zenon, <2>2, <2>3, <2>4
<1>27. CASE TimerInterrupt
  <2>1. pc[Main] # "start"
    BY <1>27, Zenon DEF TimerInterrupt
  <2>2. /\ cur' \in Thread /\ ready_list' \in Seq(Thread) /\ status' \in [Thread -> Status]
        /\ thread_ticks' \in 0 .. TIME_SLICE - 1
        /\ idle_thread = NoThread => cur' = Idle \/ Idle \in Range(ready_list')
    <3>1. CASE thread_ticks + 1 >= TIME_SLICE
      BY <1>27, <2>1, <3>1, YieldType, Zenon DEF TimerInterrupt, thread_tick
    <3>2. CASE ~(thread_ticks + 1 >= TIME_SLICE)
      BY <1>27, <2>1, <3>2, ThreadsAssumption
         DEF TimerInterrupt, thread_tick, TypeOK, SchedTypeOK, BootOK
    <3> QED BY Zenon, <3>1, <3>2
  <2>3. TypeOK'
    BY <1>27, <2>2, ZenonT(60)
       DEF TimerInterrupt, WakeCPU, At, TypeOK, SchedTypeOK, objVars, tidVars, Label
  <2>4. ControlOK'
    BY <1>27, <2>1, ThreadsAssumption
       DEF TimerInterrupt, WakeCPU, At, TypeOK, ControlOK, Thread, tidVars
  <2>5. BootOK'
    BY Zenon, <1>27, <2>1, <2>2, ThreadsAssumption
       DEF TimerInterrupt, WakeCPU, At, TypeOK, BootOK, Thread
  <2> QED BY Zenon, <2>3, <2>4, <2>5
<1>28. ASSUME NEW s \in Semas, DeviceInterrupt(s)
      PROVE  TypeInv'
  <2>1. s \in Sema /\ sema_up(s)
    BY <1>28, ThreadsAssumption, SynchAssumption, Zenon
       DEF DeviceInterrupt, At, Goto, Resume, ControlOK, Sema
  <2>2. TypeOK'
    BY <1>28, <2>1, SemaUpType, ThreadsAssumption, SynchAssumption, ZenonT(60)
       DEF DeviceInterrupt, At, Goto, Resume, WakeCPU, TypeOK, SchedTypeOK, ControlOK, Label, Sema,
       Thread, schedVars, objVars, ctlVars, tidVars
  <2>3. ControlOK'
    BY SMTT(60), <1>28, ThreadsAssumption, SynchAssumption
       DEF DeviceInterrupt, At, Goto, Resume, WakeCPU, TypeOK, SchedTypeOK, ControlOK, Thread, ctlVars, tidVars
  <2>4. BootOK'
    BY <1>28, <2>1, SemaUpType, ThreadsAssumption, SynchAssumption, ZenonT(60)
       DEF DeviceInterrupt, At, Goto, Resume, WakeCPU, TypeOK, ControlOK, BootOK, Thread, ctlVars
  <2> QED BY Zenon, <2>2, <2>3, <2>4
<1>29. CASE UNCHANGED vars
  BY ZenonT(60), <1>29 DEF vars, schedVars, objVars, ctlVars, tidVars, TypeOK, SchedTypeOK, ControlOK, BootOK
<1> QED
  BY ZenonT(60), <1>1, <1>2, <1>3, <1>4, <1>5, <1>6, <1>7, <1>8, <1>9, <1>10, <1>11, <1>12, <1>13,
     <1>14, <1>15, <1>16, <1>17, <1>18, <1>19, <1>20, <1>21, <1>22, <1>23, <1>24, <1>25, <1>26,
     <1>27, <1>28, <1>29
     DEF Next, Call, Continue, IdleStep

\* Type correctness: in particular cur is always a thread, so schedule()'s
\* ASSERT (is_thread (next)) never fails, also while the idle thread is not
\* yet known to next_thread_to_run().
THEOREM TypeCorrect == Spec => [](TypeOK /\ ControlOK /\ BootOK)
<1>1. TypeInv <=> TypeOK /\ ControlOK /\ BootOK
  BY Zenon DEF TypeInv
<1> QED BY <1>1, TypeInvInit, TypeInvStep, PTL DEF Spec

-----------------------------------------------------------------------------
(* Locks *)

\* What a step does to the ownership of the locks: nothing, or thread t takes
\* l, or thread t gives l back.
SameOwners ==
  /\ \A u \in Thread, k \in Locks : Holds(u, k)' <=> Holds(u, k)
  /\ \A k \in Locks : value'[k] = value[k]

Takes(t, l) ==
  /\ value[l] > 0
  /\ \A k \in Locks : value'[k] = IF k = l THEN value[k] - 1 ELSE value[k]
  /\ \A u \in Thread, k \in Locks : Holds(u, k)' <=> Holds(u, k) \/ (u = t /\ k = l)

Gives(t, l) ==
  /\ Holds(t, l)
  /\ \A k \in Locks : value'[k] = IF k = l THEN value[k] + 1 ELSE value[k]
  /\ \A u \in Thread, k \in Locks : Holds(u, k)' <=> Holds(u, k) /\ ~(u = t /\ k = l)

OwnersStep ==
  \/ SameOwners
  \/ \E t \in Thread, l \in Locks : Takes(t, l) \/ Gives(t, l)

\* Only thread t moves: no other thread's control or holdings change.
OnlyMoves(t) ==
  \A u \in Thread \ {t} :
    /\ pc'[u] = pc[u] /\ on'[u] = on[u]
    /\ \A k \in Locks : holder'[k] = u <=> holder[k] = u

\* A move that changes no holder, or only that of a lock of which t is, or
\* becomes, the holder.
LEMMA GotoOnly ==
  ASSUME TypeOK, NEW t \in Thread, NEW label, NEW obj, NEW next, Goto(t, label, obj, next),
         UNCHANGED holder
  PROVE  OnlyMoves(t)
  BY GotoMoves, Zenon DEF OnlyMoves

LEMMA HandOnly ==
  ASSUME TypeOK, NEW t \in Thread, NEW label, NEW obj, NEW next, Goto(t, label, obj, next),
         NEW l \in Locks, NEW h \in {t, NoThread}, holder' = [holder EXCEPT ![l] = h],
         \A u \in Thread \ {t} : holder[l] # u
  PROVE  OnlyMoves(t)
<1>1. holder'[l] = h /\ \A k \in Locks \ {l} : holder'[k] = holder[k]
  BY Zenon DEF TypeOK
<1>2. \A u \in Thread \ {t} : h # u
  BY ThreadsAssumption, Zenon DEF Thread
<1> QED BY <1>1, <1>2, GotoMoves, ZenonT(60) DEF OnlyMoves

LEMMA HolderFrame ==
  ASSUME HolderOK, NEW t \in Thread, OnlyMoves(t), HolderOKFor(t)', TypeOK, ControlOK
  PROVE  /\ HolderOK'
         /\ \A u \in Thread \ {t}, k \in Locks : Holds(u, k)' <=> Holds(u, k)
<1>1. ASSUME NEW u \in Thread \ {t} PROVE HolderOKFor(u)'
  BY SynchAssumption DEF OnlyMoves, HolderOK, HolderOKFor, ControlOK
<1>2. ASSUME NEW u \in Thread \ {t}, NEW k \in Locks PROVE Holds(u, k)' <=> Holds(u, k)
  BY Zenon DEF OnlyMoves, Holds
<1> QED BY <1>1, <1>2, Zenon DEF HolderOK

\* A semaphore that is not a lock's does not change a lock's value.
LEMMA SemaUpLocks ==
  ASSUME TypeOK, NEW s \in Sema, sema_up(s)
  PROVE  \A k \in Locks : value'[k] = IF k = s THEN value[k] + 1 ELSE value[k]
  BY Zenon DEF sema_up, TypeOK, Sema

LEMMA LockStep ==
  TypeInv /\ HolderOK /\ MutualExclusion /\ [Next]_vars => OwnersStep /\ HolderOK'
<1> SUFFICES ASSUME TypeInv, HolderOK, MutualExclusion, [Next]_vars PROVE OwnersStep /\ HolderOK'
  BY Zenon
<1>0. TypeOK /\ ControlOK
  BY Zenon DEF TypeInv
<1> DEFINE G == OwnersStep /\ HolderOK'
<1>1. CASE ThreadStart
  <2>1. Main \in Thread /\ pc[Main] = "start"
    BY <1>1, <1>0, ThreadsAssumption, SynchAssumption, Zenon DEF ThreadStart, At, ControlOK, Thread
  <2>2. pc'[Main] = "down" /\ on'[Main] = IdleStarted /\ UNCHANGED holder
    BY <1>1, <1>0, <2>1, GotoMoves, Zenon DEF ThreadStart, Resume, objVars
  <2>3. OnlyMoves(Main)
    BY <1>1, <1>0, <2>1, <2>2, GotoOnly, Zenon DEF ThreadStart, Resume
  <2>4. HolderOKFor(Main)'
    BY <1>1, <1>0, <2>1, <2>2, ThreadsAssumption, SynchAssumption, Zenon
       DEF HolderOK, HolderOKFor, ControlOK, TypeOK, Thread
  <2>5. \A k \in Locks : Holds(Main, k)' <=> Holds(Main, k)
    BY <1>0, <2>1, <2>2, ThreadsAssumption, SynchAssumption, Zenon
       DEF Holds, HolderOK, HolderOKFor, ControlOK, TypeOK, Thread
  <2>6. \A k \in Locks : value'[k] = value[k]
    BY <1>1, <1>0, ThreadsAssumption, SynchAssumption, Zenon
       DEF ThreadStart, TypeOK, Sema, Thread, objVars
  <2> QED BY <1>0, <2>1, <2>3, <2>4, <2>5, <2>6, HolderFrame, Zenon DEF OwnersStep, SameOwners
<1>2. ASSUME NEW t \in Thread \ {Idle}, NEW s \in Semas, SemaDown(t, s)
      PROVE  G
  <2>1. t \in Thread /\ pc[t] = "run"
    BY <1>2, <1>0, ThreadsAssumption, SynchAssumption, Zenon DEF SemaDown, At, ControlOK, Thread
  <2>2. pc'[t] = "down" /\ on'[t] = s /\ UNCHANGED holder
    BY <1>2, <1>0, <2>1, GotoMoves, Zenon DEF SemaDown, Resume, objVars
  <2>3. OnlyMoves(t)
    BY <1>2, <1>0, <2>1, <2>2, GotoOnly, Zenon DEF SemaDown, Resume
  <2>4. HolderOKFor(t)'
    BY <1>2, <1>0, <2>1, <2>2, ThreadsAssumption, SynchAssumption, Zenon
       DEF HolderOK, HolderOKFor, ControlOK, TypeOK, Thread
  <2>5. \A k \in Locks : Holds(t, k)' <=> Holds(t, k)
    BY <1>0, <2>1, <2>2, ThreadsAssumption, SynchAssumption, Zenon
       DEF Holds, HolderOK, HolderOKFor, ControlOK, TypeOK, Thread
  <2>6. \A k \in Locks : value'[k] = value[k]
    BY <1>2, <1>0, ThreadsAssumption, SynchAssumption, Zenon
       DEF SemaDown, TypeOK, Sema, Thread, objVars
  <2> QED BY <1>0, <2>1, <2>3, <2>4, <2>5, <2>6, HolderFrame, Zenon DEF OwnersStep, SameOwners
<1>3. ASSUME NEW t \in Thread \ {Idle}, NEW s \in Semas, SemaTryDown(t, s)
      PROVE  G
  <2>1. \A k \in Locks : value'[k] = value[k]
    <3>1. s \notin Locks
      BY SynchAssumption, Zenon
    <3>2. value \in [Sema -> Nat] /\ value' = [value EXCEPT ![s] = @ - 1]
      BY <1>3, <1>0, Zenon DEF SemaTryDown, TypeOK
    <3> QED BY <3>1, <3>2, ZenonT(60) DEF Sema
  <2> QED BY <1>3, <2>1, Zenon
     DEF SemaTryDown, OwnersStep, SameOwners, HolderOK, HolderOKFor, Holds, ctlVars
<1>4. ASSUME NEW t \in Thread \ {Idle}, NEW s \in Semas, SemaUp(t, s)
      PROVE  G
  <2>1. \A k \in Locks : value'[k] = value[k]
    <3>1. s \in Sema /\ s \notin Locks /\ sema_up(s)
      BY <1>4, <1>0, PopFront, ThreadsAssumption, SynchAssumption, Zenon
         DEF SemaUp, signal_first, TypeOK, Sema, Thread
    <3> QED BY Zenon, <1>0, <3>1, SemaUpLocks
  <2> QED BY <1>4, <2>1, Zenon
     DEF SemaUp, OwnersStep, SameOwners, HolderOK, HolderOKFor, Holds, ctlVars
<1>5. ASSUME NEW t \in Thread \ {Idle}, NEW l \in Locks \ {TidLock}, LockAcquire(t, l)
      PROVE  G
  <2>1. t \in Thread /\ pc[t] = "run" /\ holder[l] # t
    BY <1>5, <1>0, ThreadsAssumption, SynchAssumption, Zenon DEF LockAcquire, At, ControlOK, Thread
  <2>2. pc'[t] = "acquire" /\ on'[t] = l /\ UNCHANGED holder
    BY <1>5, <1>0, <2>1, GotoMoves, Zenon DEF LockAcquire, Resume, objVars
  <2>3. OnlyMoves(t)
    BY <1>5, <1>0, <2>1, <2>2, GotoOnly, Zenon DEF LockAcquire, Resume
  <2>4. HolderOKFor(t)'
    BY <1>5, <1>0, <2>1, <2>2, ThreadsAssumption, SynchAssumption, Zenon
       DEF HolderOK, HolderOKFor, ControlOK, TypeOK, Thread
  <2>5. \A k \in Locks : Holds(t, k)' <=> Holds(t, k)
    BY <1>0, <2>1, <2>2, ThreadsAssumption, SynchAssumption, Zenon
       DEF Holds, HolderOK, HolderOKFor, ControlOK, TypeOK, Thread
  <2>6. \A k \in Locks : value'[k] = value[k]
    BY <1>5, <1>0, ThreadsAssumption, SynchAssumption, Zenon
       DEF LockAcquire, TypeOK, Sema, Thread, objVars
  <2> QED BY <1>0, <2>1, <2>3, <2>4, <2>5, <2>6, HolderFrame, Zenon DEF OwnersStep, SameOwners
<1>6. ASSUME NEW t \in Thread \ {Idle}, NEW l \in Locks \ {TidLock}, LockTryAcquire(t, l)
      PROVE  G
  <2>1. t \in Thread /\ pc[t] = "run" /\ holder[l] # t
    BY <1>6, <1>0, ThreadsAssumption, SynchAssumption, Zenon
       DEF LockTryAcquire, At, ControlOK, Thread
  <2>2. pc'[t] = "own" /\ on'[t] = l /\ UNCHANGED holder
    BY <1>6, <1>0, <2>1, GotoMoves, Zenon DEF LockTryAcquire, Resume, objVars
  <2>3. OnlyMoves(t)
    BY <1>6, <1>0, <2>1, <2>2, GotoOnly, Zenon DEF LockTryAcquire, Resume
  <2>4. HolderOKFor(t)'
    BY <1>6, <1>0, <2>1, <2>2, ThreadsAssumption, SynchAssumption, Zenon
       DEF HolderOK, HolderOKFor, ControlOK, TypeOK, Thread
  <2>5. \A k \in Locks : Holds(t, k)' <=> Holds(t, k) \/ k = l
    BY <1>0, <2>1, <2>2, Zenon DEF Holds
  <2>6. value[l] > 0 /\ value' = [value EXCEPT ![l] = @ - 1]
    BY <1>6, Zenon DEF LockTryAcquire
  <2>7. Takes(t, l)
    BY <1>0, <2>3, <2>4, <2>5, <2>6, HolderFrame, Zenon DEF Takes, TypeOK, Sema
  <2> QED BY <1>0, <2>3, <2>4, <2>7, HolderFrame, Zenon DEF OwnersStep
<1>7. ASSUME NEW t \in Thread \ {Idle}, NEW l \in Locks \ {TidLock}, LockRelease(t, l)
      PROVE  G
  <2>1. t \in Thread /\ pc[t] = "run" /\ holder[l] = t
    BY <1>7, <1>0, ThreadsAssumption, SynchAssumption, Zenon DEF LockRelease, At, ControlOK, Thread
  <2>2. pc'[t] = "release" /\ on'[t] = l /\ holder' = [holder EXCEPT ![l] = NoThread]
    BY ZenonT(60), <1>7, <1>0, <2>1, GotoMoves DEF LockRelease, Resume, objVars
  <2>3. OnlyMoves(t)
    <3>1. Goto(t, "release", l, "run") /\ \A u \in Thread \ {t} : holder[l] # u
      BY <1>7, <2>1, Zenon DEF LockRelease
    <3> QED BY <1>0, <2>1, <2>2, <3>1, HandOnly, Zenon
  <2>4. HolderOKFor(t)'
    <3>1. l # TidLock /\ holder'[l] = NoThread /\ NoThread # t
      BY <1>7, <1>0, <2>1, <2>2, ThreadsAssumption, SynchAssumption, Zenon DEF TypeOK, Thread
    <3>2. holder'[TidLock] = holder[TidLock]
      BY <1>0, <2>2, <3>1, SynchAssumption, ZenonT(60) DEF TypeOK
    <3> QED BY <1>0, <2>1, <2>2, <3>1, <3>2 DEF HolderOK, HolderOKFor
  <2>5. \A k \in Locks : Holds(t, k)' <=> Holds(t, k)
    BY <1>0, <2>1, <2>2, ThreadsAssumption, SynchAssumption
       DEF Holds, HolderOK, HolderOKFor, ControlOK, TypeOK, Thread
  <2>6. \A k \in Locks : value'[k] = value[k]
    BY <1>7, <1>0, ThreadsAssumption, SynchAssumption, Zenon
       DEF LockRelease, TypeOK, Sema, Thread, objVars
  <2> QED BY <1>0, <2>1, <2>3, <2>4, <2>5, <2>6, HolderFrame, Zenon DEF OwnersStep, SameOwners
<1>8. ASSUME NEW t \in Thread \ {Idle}, NEW c \in Conds, CondWait(t, c)
      PROVE  G
  <2>1. t \in Thread /\ pc[t] = "run" /\ LockOf[c] \in Locks /\ holder[LockOf[c]] = t
    BY <1>8, <1>0, ThreadsAssumption, SynchAssumption, Zenon DEF CondWait, At, ControlOK, Thread
  <2>2. pc'[t] = "cond_up" /\ on'[t] = c /\ holder' = [holder EXCEPT ![LockOf[c]] = NoThread]
    <3>1. Goto(t, "cond_up", c, "run") /\ holder' = [holder EXCEPT ![LockOf[c]] = NoThread]
      BY <1>8, Zenon DEF CondWait
    <3>2. pc'[t] = "cond_up" /\ on'[t] = c
      BY <1>0, <3>1, Zenon DEF Goto, TypeOK
    <3> QED BY <3>1, <3>2, Zenon
  <2>3. OnlyMoves(t)
    <3>1. Goto(t, "cond_up", c, "run") /\ \A u \in Thread \ {t} : holder[LockOf[c]] # u
      BY <1>8, <2>1, Zenon DEF CondWait
    <3>2. PICK l \in Locks : l = LockOf[c]
      BY <2>1, Zenon
    <3>3. holder' = [holder EXCEPT ![l] = NoThread] /\ \A u \in Thread \ {t} : holder[l] # u
      BY <2>2, <3>1, <3>2, Zenon
    <3> QED BY <1>0, <2>1, <3>1, <3>3, HandOnly, Zenon
  <2>4. HolderOKFor(t)'
    <3>1. LockOf[c] # TidLock /\ holder'[LockOf[c]] = NoThread /\ NoThread # t
      BY <1>8, <1>0, <2>1, <2>2, ThreadsAssumption, SynchAssumption, Zenon DEF TypeOK, Thread
    <3>2. holder'[TidLock] = holder[TidLock]
      BY <1>0, <2>2, <3>1, SynchAssumption, Zenon DEF TypeOK
    <3> QED BY <1>0, <2>1, <2>2, <3>1, <3>2 DEF HolderOK, HolderOKFor
  <2>5. \A k \in Locks : Holds(t, k)' <=> Holds(t, k)
    <3>1. \A k \in Locks : holder'[k] = t <=> holder[k] = t /\ k # LockOf[c]
      BY <1>0, <2>1, <2>2, ThreadsAssumption, Zenon DEF TypeOK, Thread
    <3>2. \A k \in Locks : Holds(t, k)' <=> holder'[k] = t \/ LockOf[c] = k
      BY <2>2, Zenon DEF Holds
    <3>3. \A k \in Locks : Holds(t, k) <=> holder[k] = t
      BY <2>1, Zenon DEF Holds
    <3> QED BY <2>1, <3>1, <3>2, <3>3, Zenon
  <2>6. \A k \in Locks : value'[k] = value[k]
    BY <1>8, <1>0, ThreadsAssumption, SynchAssumption DEF CondWait, TypeOK, Sema, Thread, objVars
  <2> QED BY <1>0, <2>1, <2>3, <2>4, <2>5, <2>6, HolderFrame, Zenon DEF OwnersStep, SameOwners
<1>9. ASSUME NEW t \in Thread \ {Idle}, NEW c \in Conds, CondSignal(t, c)
      PROVE  G
  <2>1. \A k \in Locks : value'[k] = value[k]
    <3>1. Head(cond_waiters[c]) \in Sema /\ Head(cond_waiters[c]) \notin Locks /\ sema_up(Head(cond_waiters[c]))
      BY <1>9, <1>0, PopFront, ThreadsAssumption, SynchAssumption, Zenon
         DEF CondSignal, signal_first, TypeOK, Sema, Thread
    <3> QED BY Zenon, <1>0, <3>1, SemaUpLocks
  <2> QED BY <1>9, <2>1, Zenon
     DEF CondSignal, OwnersStep, SameOwners, HolderOK, HolderOKFor, Holds, ctlVars
<1>10. ASSUME NEW t \in Thread \ {Idle}, NEW c \in Conds, CondBroadcast(t, c)
      PROVE  G
  <2>1. t \in Thread /\ pc[t] = "run"
    BY <1>10, <1>0, ThreadsAssumption, SynchAssumption, Zenon
       DEF CondBroadcast, At, ControlOK, Thread
  <2>2. pc'[t] = "broadcast" /\ on'[t] = c /\ UNCHANGED holder
    BY SMTT(60), <1>10, <1>0, <2>1, GotoMoves DEF CondBroadcast, Resume, objVars
  <2>3. OnlyMoves(t)
    BY <1>10, <1>0, <2>1, <2>2, GotoOnly, Zenon DEF CondBroadcast, Resume
  <2>4. HolderOKFor(t)'
    BY <1>10, <1>0, <2>1, <2>2, ThreadsAssumption, SynchAssumption, Zenon
       DEF HolderOK, HolderOKFor, ControlOK, TypeOK, Thread
  <2>5. \A k \in Locks : Holds(t, k)' <=> Holds(t, k)
    BY <1>0, <2>1, <2>2, ThreadsAssumption, SynchAssumption, Zenon
       DEF Holds, HolderOK, HolderOKFor, ControlOK, TypeOK, Thread
  <2>6. \A k \in Locks : value'[k] = value[k]
    BY <1>10, <1>0, ThreadsAssumption, SynchAssumption, Zenon
       DEF CondBroadcast, TypeOK, Sema, Thread, objVars
  <2> QED BY <1>0, <2>1, <2>3, <2>4, <2>5, <2>6, HolderFrame, Zenon DEF OwnersStep, SameOwners
<1>11. ASSUME NEW t \in Thread \ {Idle}, NEW page \in Pages, ThreadCreate(t, page)
      PROVE  G
  <2>1. t \in Thread /\ pc[t] = "run"
    BY <1>11, <1>0, ThreadsAssumption, SynchAssumption, Zenon
       DEF ThreadCreate, At, ControlOK, Thread
  <2>2. pc'[t] = "acquire" /\ on'[t] = TidLock /\ UNCHANGED holder
    BY <1>11, <1>0, <2>1, GotoMoves DEF ThreadCreate, Resume, objVars
  <2>3. OnlyMoves(t)
    BY <1>11, <1>0, <2>1, <2>2, GotoOnly, Zenon DEF ThreadCreate, Resume
  <2>4. HolderOKFor(t)'
    BY <1>11, <1>0, <2>1, <2>2, ThreadsAssumption, SynchAssumption, Zenon
       DEF HolderOK, HolderOKFor, ControlOK, TypeOK, Thread
  <2>5. \A k \in Locks : Holds(t, k)' <=> Holds(t, k)
    BY <1>0, <2>1, <2>2, ThreadsAssumption, SynchAssumption, Zenon
       DEF Holds, HolderOK, HolderOKFor, ControlOK, TypeOK, Thread
  <2>6. \A k \in Locks : value'[k] = value[k]
    BY <1>11, <1>0, ThreadsAssumption, SynchAssumption, Zenon
       DEF ThreadCreate, TypeOK, Sema, Thread, objVars
  <2> QED BY <1>0, <2>1, <2>3, <2>4, <2>5, <2>6, HolderFrame, Zenon DEF OwnersStep, SameOwners
<1>12. ASSUME NEW t \in Thread \ {Idle}, ThreadYield(t)
      PROVE  G
  BY <1>12, Zenon
     DEF ThreadYield, OwnersStep, SameOwners, HolderOK, HolderOKFor, Holds, objVars, ctlVars
<1>13. ASSUME NEW t \in Thread \ {Idle}, ThreadExit(t)
      PROVE  G
  BY <1>13, Zenon
     DEF ThreadExit, OwnersStep, SameOwners, HolderOK, HolderOKFor, Holds, objVars, ctlVars
<1>14. ASSUME NEW t \in Thread \ {Idle}, SemaDownLoop(t)
      PROVE  G
  <2>1. /\ on[t] \in Sema /\ on[t] \notin Locks /\ pc[t] = "down" /\ ret[t] = "run"
        /\ sema_down(t, on[t], ret[t], NoThread, "run") /\ UNCHANGED holder
    BY <1>14, <1>0, ThreadsAssumption, SynchAssumption, Zenon
       DEF SemaDownLoop, At, ControlOK, Sema, Thread
  <2>2. CASE value[on[t]] = 0
    <3>1. UNCHANGED <<value, holder, pc, on>>
      BY <2>1, <2>2 DEF sema_down, ctlVars
    <3> QED BY <3>1, Zenon DEF OwnersStep, SameOwners, HolderOK, HolderOKFor, Holds
  <2>3. CASE value[on[t]] > 0
    <3>1. value' = [value EXCEPT ![on[t]] = @ - 1] /\ Goto(t, ret[t], NoThread, "run")
      BY <2>1, <2>3 DEF sema_down
    <3>2. pc'[t] = ret[t] /\ on'[t] = NoThread /\ OnlyMoves(t)
      <4>1. pc'[t] = ret[t] /\ on'[t] = NoThread
        BY <1>0, <2>1, <3>1, Zenon DEF Goto, TypeOK
      <4>2. OnlyMoves(t)
        BY <1>0, <2>1, <3>1, GotoOnly, Zenon
      <4> QED BY <4>1, <4>2, Zenon
    <3>3. HolderOKFor(t)'
      BY <1>0, <2>1, <3>2, Zenon DEF HolderOK, HolderOKFor, ControlOK
    <3>4. \A k \in Locks : (Holds(t, k)' <=> Holds(t, k)) /\ value'[k] = value[k]
      BY <1>0, <2>1, <3>1, <3>2, Zenon DEF Holds, TypeOK, Sema
    <3> QED BY <1>0, <2>1, <3>2, <3>3, <3>4, HolderFrame, Zenon DEF OwnersStep, SameOwners
  <2> QED BY <2>1, <2>2, <2>3, Zenon DEF sema_down
<1>15. ASSUME NEW t \in Thread \ {Idle}, LockAcquireLoop(t)
      PROVE  G
  <2>1. /\ on[t] \in Sema /\ on[t] \in Locks /\ pc[t] = "acquire"
        /\ sema_down(t, on[t], "own", on[t], ret[t]) /\ UNCHANGED holder
    BY <1>15, <1>0, ThreadsAssumption, SynchAssumption, Zenon
       DEF LockAcquireLoop, At, ControlOK, Sema, Thread
  <2>2. CASE value[on[t]] = 0
    <3>1. UNCHANGED <<value, holder, pc, on>>
      BY <2>1, <2>2 DEF sema_down, ctlVars
    <3> QED BY <3>1, Zenon DEF OwnersStep, SameOwners, HolderOK, HolderOKFor, Holds
  <2>3. CASE value[on[t]] > 0
    <3>1. value' = [value EXCEPT ![on[t]] = @ - 1] /\ Goto(t, "own", on[t], ret[t])
      BY <2>1, <2>3 DEF sema_down
    <3>2. pc'[t] = "own" /\ on'[t] = on[t] /\ OnlyMoves(t)
      BY <1>0, <2>1, <3>1, GotoMoves, ZenonT(60) DEF OnlyMoves
    <3>3. HolderOKFor(t)'
      BY <1>0, <2>1, <3>2 DEF HolderOK, HolderOKFor, ControlOK
    <3>4. \A k \in Locks : Holds(t, k)' <=> Holds(t, k) \/ k = on[t]
      BY <2>1, <3>2, Zenon DEF Holds
    <3>5. Takes(t, on[t])
      BY <1>0, <2>1, <2>3, <3>1, <3>2, <3>3, <3>4, HolderFrame, Zenon DEF Takes, TypeOK, Sema
    <3> QED BY <1>0, <2>1, <3>2, <3>3, <3>5, HolderFrame, Zenon DEF OwnersStep
  <2> QED BY <2>1, <2>2, <2>3, Zenon DEF sema_down
<1>16. ASSUME NEW t \in Thread \ {Idle}, LockOwn(t)
      PROVE  G
  <2>1. t \in Thread /\ pc[t] = "own" /\ on[t] \in Locks /\ ret[t] \in {"run", "tid_read"}
    BY <1>16, <1>0, ThreadsAssumption, SynchAssumption, Zenon DEF LockOwn, At, ControlOK, Thread
  <2>2. pc'[t] = ret[t] /\ on'[t] = NoThread /\ holder' = [holder EXCEPT ![on[t]] = t]
    BY ZenonT(60), <1>16, <1>0, <2>1, GotoMoves DEF LockOwn, Resume, objVars
  <2>3. OnlyMoves(t)
    <3>1. \A u \in Thread \ {t} : holder[on[t]] # u
      BY Zenon, <1>0, <2>1 DEF MutualExclusion, Holds
    <3>2. Goto(t, ret[t], NoThread, "run")
      BY <1>16, Zenon DEF LockOwn, Resume
    <3> QED BY <1>0, <2>1, <2>2, <3>1, <3>2, HandOnly, Zenon
  <2>4. HolderOKFor(t)'
    <3>1. HolderOKFor(t) /\ (ret[t] # "run" <=> on[t] = TidLock)
      BY <1>0, <2>1, Zenon DEF HolderOK, ControlOK
    <3>2. holder'[on[t]] = t /\ \A k \in Locks \ {on[t]} : holder'[k] = holder[k]
      BY <1>0, <2>1, <2>2, Zenon DEF TypeOK
    <3>3. holder'[TidLock] = t <=> on[t] = TidLock
      BY <2>1, <3>1, <3>2, SynchAssumption, Zenon DEF HolderOKFor
    <3>4. pc'[t] \in {"run", "tid_read"} /\ (pc'[t] = "tid_read" <=> on[t] = TidLock)
      BY <2>1, <2>2, <3>1, Zenon
    <3> QED BY <3>3, <3>4, Zenon DEF HolderOKFor
  <2>5. \A k \in Locks : Holds(t, k)' <=> Holds(t, k)
    BY <1>0, <2>1, <2>2, ThreadsAssumption, SynchAssumption
       DEF Holds, HolderOK, HolderOKFor, ControlOK, TypeOK, Thread
  <2>6. \A k \in Locks : value'[k] = value[k]
    BY <1>16, <1>0, ThreadsAssumption, SynchAssumption, Zenon
       DEF LockOwn, TypeOK, Sema, Thread, objVars
  <2> QED BY <1>0, <2>1, <2>3, <2>4, <2>5, <2>6, HolderFrame, Zenon DEF OwnersStep, SameOwners
<1>17. ASSUME NEW t \in Thread \ {Idle}, LockReleaseUp(t)
      PROVE  G
  <2>1. t \in Thread /\ pc[t] = "release" /\ on[t] \in Locks /\ ret[t] \in {"run", "unblock"}
    BY <1>17, <1>0, ThreadsAssumption, SynchAssumption, ZenonT(60)
       DEF LockReleaseUp, At, ControlOK, Thread
  <2>2. pc'[t] = ret[t] /\ on'[t] = NoThread /\ UNCHANGED holder
    BY <1>17, <1>0, <2>1, GotoMoves DEF LockReleaseUp, Resume, objVars
  <2>3. OnlyMoves(t)
    BY <1>17, <1>0, <2>1, <2>2, GotoOnly, Zenon DEF LockReleaseUp, Resume
  <2>4. HolderOKFor(t)'
    BY <1>17, <1>0, <2>1, <2>2, ThreadsAssumption, SynchAssumption, Zenon
       DEF HolderOK, HolderOKFor, ControlOK, TypeOK, Thread
  <2>5. on[t] \in Locks /\ on[t] \in Sema /\ sema_up(on[t]) /\ Holds(t, on[t])
    BY <1>17, <2>1, ThreadsAssumption, SynchAssumption, Zenon DEF LockReleaseUp, Holds, Sema
  <2>6. \A k \in Locks : Holds(t, k)' <=> Holds(t, k) /\ k # on[t]
    BY <1>0, <2>1, <2>2, ThreadsAssumption, SynchAssumption, Zenon DEF Holds, HolderOK, HolderOKFor
  <2>7. Gives(t, on[t])
    BY <1>0, <2>3, <2>4, <2>5, <2>6, SemaUpLocks, HolderFrame, ZenonT(60) DEF Gives
  <2> QED BY <1>0, <2>3, <2>4, <2>5, <2>7, HolderFrame, Zenon DEF OwnersStep
<1>18. ASSUME NEW t \in Thread \ {Idle}, CondWaitUp(t)
      PROVE  G
  <2>1. t \in Thread /\ pc[t] = "cond_up" /\ on[t] \in Conds
    BY <1>18, <1>0, ThreadsAssumption, SynchAssumption, Zenon DEF CondWaitUp, At, ControlOK, Thread
  <2>2. pc'[t] = "cond_down" /\ on'[t] = on[t] /\ UNCHANGED holder
    BY <1>18, <1>0, <2>1, GotoMoves, ZenonT(60) DEF CondWaitUp, Resume, objVars
  <2>3. OnlyMoves(t)
    BY <1>18, <1>0, <2>1, <2>2, GotoOnly, Zenon DEF CondWaitUp, Resume
  <2>4. HolderOKFor(t)'
    <3>1. HolderOKFor(t)
      BY <2>1, Zenon DEF HolderOK
    <3> QED BY <2>1, <2>2, <3>1, Zenon DEF HolderOKFor
  <2>5. LockOf[on[t]] \in Locks /\ LockOf[on[t]] \in Sema /\ sema_up(LockOf[on[t]]) /\ Holds(t, LockOf[on[t]])
    BY <1>18, <2>1, ThreadsAssumption, SynchAssumption, Zenon DEF CondWaitUp, Holds, Sema
  <2>6. \A k \in Locks : Holds(t, k)' <=> Holds(t, k) /\ k # LockOf[on[t]]
    BY <1>0, <2>1, <2>2, ThreadsAssumption, SynchAssumption, Zenon DEF Holds, HolderOK, HolderOKFor
  <2>7. Gives(t, LockOf[on[t]])
    BY <1>0, <2>3, <2>4, <2>5, <2>6, SemaUpLocks, HolderFrame DEF Gives
  <2> QED BY <1>0, <2>3, <2>4, <2>5, <2>7, HolderFrame, Zenon DEF OwnersStep
<1>19. ASSUME NEW t \in Thread \ {Idle}, CondWaitDown(t)
      PROVE  G
  <2>1. /\ t \in Sema /\ t \notin Locks /\ pc[t] = "cond_down" /\ on[t] \in Conds
        /\ sema_down(t, t, "acquire", LockOf[on[t]], "run") /\ UNCHANGED holder
    BY <1>19, <1>0, ThreadsAssumption, SynchAssumption, Zenon
       DEF CondWaitDown, At, ControlOK, Sema, Thread
  <2>2. CASE value[t] = 0
    <3>1. UNCHANGED <<value, holder, pc, on>>
      BY <2>1, <2>2 DEF sema_down, ctlVars
    <3> QED BY <3>1, Zenon DEF OwnersStep, SameOwners, HolderOK, HolderOKFor, Holds
  <2>3. CASE value[t] > 0
    <3>1. value' = [value EXCEPT ![t] = @ - 1] /\ Goto(t, "acquire", LockOf[on[t]], "run")
      BY <2>1, <2>3 DEF sema_down
    <3>2. pc'[t] = "acquire" /\ on'[t] = LockOf[on[t]] /\ OnlyMoves(t)
      <4>1. PICK o : o = LockOf[on[t]]
        BY Zenon
      <4>2. Goto(t, "acquire", o, "run")
        BY <3>1, <4>1, Zenon
      <4>3. pc'[t] = "acquire" /\ on'[t] = o
        BY <1>0, <2>1, <4>2, GotoMoves, Zenon
      <4>4. OnlyMoves(t)
        BY <1>0, <2>1, <4>2, GotoOnly, Zenon
      <4> QED BY <4>1, <4>3, <4>4, Zenon
    <3>3. HolderOKFor(t)'
      BY <1>0, <2>1, <3>2 DEF HolderOK, HolderOKFor, ControlOK
    <3>4. \A k \in Locks : (Holds(t, k)' <=> Holds(t, k)) /\ value'[k] = value[k]
      BY <1>0, <2>1, <3>1, <3>2, Zenon DEF Holds, TypeOK, Sema
    <3> QED BY <1>0, <2>1, <3>2, <3>3, <3>4, HolderFrame, Zenon DEF OwnersStep, SameOwners
  <2> QED BY <2>1, <2>2, <2>3, Zenon DEF sema_down
<1>20. ASSUME NEW t \in Thread \ {Idle}, CondBroadcastLoop(t)
      PROVE  G
  <2>0. on[t] \in Conds /\ pc[t] = "broadcast"
    BY <1>20, <1>0, Zenon DEF CondBroadcastLoop, At, ControlOK
  <2>1. CASE cond_waiters[on[t]] # <<>>
    <3> DEFINE s == Head(cond_waiters[on[t]])
    <3>1. s \in Sema /\ s \notin Locks /\ sema_up(s) /\ UNCHANGED <<holder, pc, on>>
      BY Zenon, <1>20, <1>0, <2>0, <2>1, PopFront, ThreadsAssumption, SynchAssumption
         DEF CondBroadcastLoop, signal_first, TypeOK, Sema, Thread, ctlVars
    <3>2. \A k \in Locks : value'[k] = value[k]
      BY Zenon, <1>0, <3>1, SemaUpLocks
    <3> QED BY <3>1, <3>2, Zenon DEF OwnersStep, SameOwners, HolderOK, HolderOKFor, Holds
  <2>2. CASE cond_waiters[on[t]] = <<>>
    <3>1. Goto(t, "run", NoThread, "run") /\ UNCHANGED <<value, holder>>
      BY <1>20, <2>2, Zenon DEF CondBroadcastLoop, Resume, objVars
    <3>2. pc'[t] = "run" /\ OnlyMoves(t)
      BY <1>0, <3>1, GotoMoves, Zenon DEF OnlyMoves
    <3>3. HolderOKFor(t)' /\ \A k \in Locks : Holds(t, k)' <=> Holds(t, k)
      BY <1>0, <2>0, <3>1, <3>2, Zenon DEF HolderOK, HolderOKFor, Holds
    <3> QED BY <1>0, <3>1, <3>2, <3>3, HolderFrame, Zenon DEF OwnersStep, SameOwners
  <2> QED BY Zenon, <2>1, <2>2
<1>21. ASSUME NEW t \in Thread \ {Idle}, TidRead(t)
      PROVE  G
  <2>1. t \in Thread /\ pc[t] = "tid_read"
    BY <1>21, <1>0, ThreadsAssumption, SynchAssumption, Zenon DEF TidRead, At, ControlOK, Thread
  <2>2. pc'[t] = "tid_write" /\ on'[t] = NoThread /\ UNCHANGED holder
    BY <1>21, <1>0, <2>1, GotoMoves, ZenonT(60) DEF TidRead, Resume, objVars
  <2>3. OnlyMoves(t)
    BY <1>21, <1>0, <2>1, <2>2, GotoOnly, Zenon DEF TidRead, Resume
  <2>4. HolderOKFor(t)'
    BY <1>21, <1>0, <2>1, <2>2, ThreadsAssumption, SynchAssumption, Zenon
       DEF HolderOK, HolderOKFor, ControlOK, TypeOK, Thread
  <2>5. \A k \in Locks : Holds(t, k)' <=> Holds(t, k)
    BY <1>0, <2>1, <2>2, ThreadsAssumption, SynchAssumption, Zenon
       DEF Holds, HolderOK, HolderOKFor, ControlOK, TypeOK, Thread
  <2>6. \A k \in Locks : value'[k] = value[k]
    BY <1>21, <1>0, ThreadsAssumption, SynchAssumption, Zenon
       DEF TidRead, TypeOK, Sema, Thread, objVars
  <2> QED BY <1>0, <2>1, <2>3, <2>4, <2>5, <2>6, HolderFrame, Zenon DEF OwnersStep, SameOwners
<1>22. ASSUME NEW t \in Thread \ {Idle}, TidWrite(t)
      PROVE  G
  <2>1. t \in Thread /\ pc[t] = "tid_write"
    BY <1>22, <1>0, ThreadsAssumption, SynchAssumption, Zenon DEF TidWrite, At, ControlOK, Thread
  <2>2. pc'[t] = "release" /\ on'[t] = TidLock /\ holder' = [holder EXCEPT ![TidLock] = NoThread]
    BY <1>22, <1>0, <2>1, GotoMoves, ZenonT(60) DEF TidWrite, Resume, objVars
  <2>3. OnlyMoves(t)
    <3>1. holder[TidLock] = t /\ NoThread \notin Thread
      BY <1>0, <2>1, ThreadsAssumption, ZenonT(60) DEF HolderOK, HolderOKFor, Thread
    <3>2. Goto(t, "release", TidLock, "unblock") /\ \A u \in Thread \ {t} : holder[TidLock] # u
      BY <1>22, <3>1, Zenon DEF TidWrite
    <3> QED BY <1>0, <2>1, <2>2, <3>2, HandOnly, SynchAssumption, Zenon
  <2>4. HolderOKFor(t)'
    <3>1. holder'[TidLock] = NoThread /\ NoThread # t
      BY <1>0, <2>1, <2>2, ThreadsAssumption, SynchAssumption, ZenonT(60) DEF TypeOK, Thread
    <3> QED BY <2>2, <3>1, Zenon DEF HolderOKFor
  <2>5. \A k \in Locks : Holds(t, k)' <=> Holds(t, k)
    BY SMTT(60), <1>0, <2>1, <2>2, ThreadsAssumption, SynchAssumption
       DEF Holds, HolderOK, HolderOKFor, ControlOK, TypeOK, Thread
  <2>6. \A k \in Locks : value'[k] = value[k]
    BY <1>22, <1>0, ThreadsAssumption, SynchAssumption, Zenon
       DEF TidWrite, TypeOK, Sema, Thread, objVars
  <2> QED BY <1>0, <2>1, <2>3, <2>4, <2>5, <2>6, HolderFrame, Zenon DEF OwnersStep, SameOwners
<1>23. ASSUME NEW t \in Thread \ {Idle}, ThreadCreated(t)
      PROVE  G
  <2>1. t \in Thread /\ pc[t] = "unblock"
    BY <1>23, <1>0, ThreadsAssumption, SynchAssumption, Zenon
       DEF ThreadCreated, At, ControlOK, Thread
  <2>2. pc'[t] = "run" /\ on'[t] = NoThread /\ UNCHANGED holder
    BY <1>23, <1>0, <2>1, GotoMoves, ZenonT(60) DEF ThreadCreated, Resume, objVars
  <2>3. OnlyMoves(t)
    BY <1>23, <1>0, <2>1, <2>2, GotoOnly, Zenon DEF ThreadCreated, Resume
  <2>4. HolderOKFor(t)'
    BY <1>23, <1>0, <2>1, <2>2, ThreadsAssumption, SynchAssumption, Zenon
       DEF HolderOK, HolderOKFor, ControlOK, TypeOK, Thread
  <2>5. \A k \in Locks : Holds(t, k)' <=> Holds(t, k)
    BY <1>0, <2>1, <2>2, ThreadsAssumption, SynchAssumption, Zenon
       DEF Holds, HolderOK, HolderOKFor, ControlOK, TypeOK, Thread
  <2>6. \A k \in Locks : value'[k] = value[k]
    BY <1>23, <1>0, ThreadsAssumption, SynchAssumption, Zenon
       DEF ThreadCreated, TypeOK, Sema, Thread, objVars
  <2> QED BY <1>0, <2>1, <2>3, <2>4, <2>5, <2>6, HolderFrame, Zenon DEF OwnersStep, SameOwners
<1>24. CASE IdleInit
  <2>1. Idle \in Thread /\ pc[Idle] = "idle_init"
    BY <1>24, <1>0, ThreadsAssumption, SynchAssumption, Zenon DEF IdleInit, At, ControlOK, Thread
  <2>2. pc'[Idle] = "idle_up" /\ on'[Idle] = NoThread /\ UNCHANGED holder
    BY <1>24, <1>0, <2>1, GotoMoves, ZenonT(60) DEF IdleInit, Resume, objVars
  <2>3. OnlyMoves(Idle)
    BY <1>24, <1>0, <2>1, <2>2, GotoOnly, Zenon DEF IdleInit, Resume
  <2>4. HolderOKFor(Idle)'
    BY <1>24, <1>0, <2>1, <2>2, ThreadsAssumption, SynchAssumption, Zenon
       DEF HolderOK, HolderOKFor, ControlOK, TypeOK, Thread
  <2>5. \A k \in Locks : Holds(Idle, k)' <=> Holds(Idle, k)
    BY <1>0, <2>1, <2>2, ThreadsAssumption, SynchAssumption, Zenon
       DEF Holds, HolderOK, HolderOKFor, ControlOK, TypeOK, Thread
  <2>6. \A k \in Locks : value'[k] = value[k]
    BY <1>24, <1>0, ThreadsAssumption, SynchAssumption, Zenon
       DEF IdleInit, TypeOK, Sema, Thread, objVars
  <2> QED BY <1>0, <2>1, <2>3, <2>4, <2>5, <2>6, HolderFrame, Zenon DEF OwnersStep, SameOwners
<1>25. CASE IdleUp
  <2>1. Idle \in Thread /\ pc[Idle] = "idle_up"
    BY <1>25, <1>0, ThreadsAssumption, SynchAssumption, Zenon DEF IdleUp, At, ControlOK, Thread
  <2>2. pc'[Idle] = "idle_block" /\ on'[Idle] = NoThread /\ UNCHANGED holder
    BY <1>25, <1>0, <2>1, GotoMoves, Zenon DEF IdleUp, Resume, objVars
  <2>3. OnlyMoves(Idle)
    BY <1>25, <1>0, <2>1, <2>2, GotoOnly, Zenon DEF IdleUp, Resume
  <2>4. HolderOKFor(Idle)'
    BY <1>25, <1>0, <2>1, <2>2, ThreadsAssumption, SynchAssumption, Zenon
       DEF HolderOK, HolderOKFor, ControlOK, TypeOK, Thread
  <2>5. \A k \in Locks : Holds(Idle, k)' <=> Holds(Idle, k)
    BY <1>0, <2>1, <2>2, ThreadsAssumption, SynchAssumption, Zenon
       DEF Holds, HolderOK, HolderOKFor, ControlOK, TypeOK, Thread
  <2>6. \A k \in Locks : value'[k] = value[k]
    <3>1. IdleStarted \in Sema /\ IdleStarted \notin Locks /\ sema_up(IdleStarted)
      BY <1>25, ThreadsAssumption, SynchAssumption, Zenon DEF IdleUp, Sema
    <3> QED BY Zenon, <1>0, <3>1, SemaUpLocks
  <2> QED BY <1>0, <2>1, <2>3, <2>4, <2>5, <2>6, HolderFrame, Zenon DEF OwnersStep, SameOwners
<1>26. CASE IdleBlock
  <2>1. Idle \in Thread /\ pc[Idle] = "idle_block"
    BY <1>26, <1>0, ThreadsAssumption, SynchAssumption, Zenon DEF IdleBlock, At, ControlOK, Thread
  <2>2. pc'[Idle] = "idle_halt" /\ on'[Idle] = NoThread /\ UNCHANGED holder
    BY <1>26, <1>0, <2>1, GotoMoves, Zenon DEF IdleBlock, Resume, objVars
  <2>3. OnlyMoves(Idle)
    BY <1>26, <1>0, <2>1, <2>2, GotoOnly, Zenon DEF IdleBlock, Resume
  <2>4. HolderOKFor(Idle)'
    BY <1>26, <1>0, <2>1, <2>2, ThreadsAssumption, SynchAssumption, Zenon
       DEF HolderOK, HolderOKFor, ControlOK, TypeOK, Thread
  <2>5. \A k \in Locks : Holds(Idle, k)' <=> Holds(Idle, k)
    BY <1>0, <2>1, <2>2, ThreadsAssumption, SynchAssumption, Zenon
       DEF Holds, HolderOK, HolderOKFor, ControlOK, TypeOK, Thread
  <2>6. \A k \in Locks : value'[k] = value[k]
    BY <1>26, <1>0, ThreadsAssumption, SynchAssumption, Zenon
       DEF IdleBlock, TypeOK, Sema, Thread, objVars
  <2> QED BY <1>0, <2>1, <2>3, <2>4, <2>5, <2>6, HolderFrame, Zenon DEF OwnersStep, SameOwners
<1>27. CASE TimerInterrupt
  <2>1. UNCHANGED <<value, holder>>
    BY <1>27, Zenon DEF TimerInterrupt, objVars
  <2>2. UNCHANGED on /\ (pc' = pc \/ (pc[Idle] = "idle_halt" /\ pc' = [pc EXCEPT ![Idle] = "idle_block"]))
    BY <1>27, Zenon DEF TimerInterrupt, WakeCPU, At
  <2>3. Idle \in Thread /\ OnlyMoves(Idle)
    BY <1>0, <2>1, <2>2, ZenonT(60) DEF OnlyMoves, TypeOK, Thread
  <2>4. HolderOKFor(Idle)' /\ \A k \in Locks : Holds(Idle, k)' <=> Holds(Idle, k)
    BY <1>0, <2>1, <2>2, <2>3 DEF HolderOK, HolderOKFor, Holds, TypeOK
  <2> QED BY <1>0, <2>1, <2>3, <2>4, HolderFrame, Zenon DEF OwnersStep, SameOwners
<1>28. ASSUME NEW s \in Semas, DeviceInterrupt(s)
      PROVE  G
  <2>1. (\A k \in Locks : value'[k] = value[k]) /\ UNCHANGED holder
    <3>1. s \in Sema /\ s \notin Locks /\ sema_up(s)
      BY <1>28, ThreadsAssumption, SynchAssumption, Zenon DEF DeviceInterrupt, Sema
    <3> QED BY <1>28, <1>0, <3>1, SemaUpLocks, Zenon DEF DeviceInterrupt
  <2>2. UNCHANGED on /\ (pc' = pc \/ (pc[Idle] = "idle_halt" /\ pc' = [pc EXCEPT ![Idle] = "idle_block"]))
    BY <1>28, Zenon DEF DeviceInterrupt, WakeCPU, At
  <2>3. Idle \in Thread /\ OnlyMoves(Idle)
    BY <1>0, <2>1, <2>2, Zenon DEF OnlyMoves, TypeOK, Thread
  <2>4. HolderOKFor(Idle)' /\ \A k \in Locks : Holds(Idle, k)' <=> Holds(Idle, k)
    BY <1>0, <2>1, <2>2, <2>3 DEF HolderOK, HolderOKFor, Holds, TypeOK
  <2> QED BY <1>0, <2>1, <2>3, <2>4, HolderFrame, Zenon DEF OwnersStep, SameOwners
<1>29. CASE UNCHANGED vars
  BY <1>29, Zenon DEF vars, objVars, ctlVars, OwnersStep, SameOwners, HolderOK, HolderOKFor, Holds
<1> QED
  BY Zenon, <1>1, <1>2, <1>3, <1>4, <1>5, <1>6, <1>7, <1>8, <1>9, <1>10, <1>11, <1>12, <1>13,
     <1>14, <1>15, <1>16, <1>17, <1>18, <1>19, <1>20, <1>21, <1>22, <1>23, <1>24, <1>25, <1>26,
     <1>27, <1>28, <1>29
     DEF Next, Call, Continue, IdleStep

LEMMA MutexStep == ASSUME TypeOK, MutualExclusion, OwnersStep PROVE MutualExclusion'
<1>0. \A k \in Locks : value[k] \in {0, 1}
  BY Zenon DEF MutualExclusion
<1>1. CASE SameOwners
  BY <1>1, Zenon DEF SameOwners, MutualExclusion
<1>2. ASSUME NEW t \in Thread, NEW l \in Locks, Takes(t, l)
      PROVE  MutualExclusion'
  BY <1>0, <1>2 DEF Takes, MutualExclusion
<1>3. ASSUME NEW t \in Thread, NEW l \in Locks, Gives(t, l)
      PROVE  MutualExclusion'
  BY <1>0, <1>3 DEF Gives, MutualExclusion
<1> QED BY <1>1, <1>2, <1>3, Zenon DEF OwnersStep

LEMMA LockInit == Init => HolderOK /\ MutualExclusion
<1> SUFFICES ASSUME Init PROVE HolderOK /\ MutualExclusion
  BY Zenon
<1>1. \A t \in Thread, l \in Locks : ~Holds(t, l)
  BY ThreadsAssumption, Zenon DEF Init, Holds, Thread
<1>2. MutualExclusion
  BY <1>1, Zenon DEF Init, MutualExclusion, Sema
<1>3. HolderOK
  BY ThreadsAssumption, SynchAssumption, Zenon DEF Init, HolderOK, HolderOKFor, Thread
<1> QED BY Zenon, <1>2, <1>3

\* synch.c's locks exclude: at most one thread is between the sema_down() of
\* its lock_acquire() and the sema_up() of its lock_release() or cond_wait(),
\* for any number of threads, locks and conditions.
THEOREM LocksExclude == Spec => []MutualExclusion
<1> DEFINE I == TypeInv /\ HolderOK /\ MutualExclusion
<1>1. Init => I
  BY Zenon, TypeInvInit, LockInit
<1>2. I /\ [Next]_vars => I'
  BY TypeInvStep, LockStep, MutexStep, Zenon DEF TypeInv
<1>3. I => MutualExclusion
  BY Zenon
<1> QED BY <1>1, <1>2, <1>3, PTL DEF Spec

\* Under mutual exclusion LockOwner is the thread that holds the lock.
LEMMA OwnerHolds ==
  ASSUME MutualExclusion, NEW l \in Locks
  PROVE  /\ \A t \in Thread : Holds(t, l) => LockOwner[l] = t
         /\ (\A t \in Thread : ~Holds(t, l)) => LockOwner[l] = NoThread
  BY Zenon DEF MutualExclusion, LockOwner

LEMMA OwnerHoldsNext ==
  ASSUME MutualExclusion', NEW l \in Locks
  PROVE  /\ \A t \in Thread : Holds(t, l)' => LockOwner'[l] = t
         /\ (\A t \in Thread : ~Holds(t, l)') => LockOwner'[l] = NoThread
  BY Zenon DEF MutualExclusion, LockOwner

LEMMA OwnerStep ==
  ASSUME MutualExclusion, MutualExclusion', OwnersStep
  PROVE  [Abstract!Next]_LockOwner
<1>0. LockOwner = [l \in Locks |-> LockOwner[l]] /\ LockOwner' = [l \in Locks |-> LockOwner'[l]]
  BY Zenon DEF LockOwner
<1>1. CASE SameOwners
  <2>1. ASSUME NEW l \in Locks PROVE LockOwner'[l] = LockOwner[l]
    BY <1>1, OwnerHolds, OwnerHoldsNext, Zenon DEF SameOwners
  <2> QED BY Zenon, <1>0, <2>1
<1>2. ASSUME NEW t \in Thread, NEW l \in Locks, Takes(t, l)
      PROVE  Abstract!Next
  <2>1. ASSUME NEW k \in Locks, k # l PROVE LockOwner'[k] = LockOwner[k]
    BY ZenonT(60), <1>2, <2>1, OwnerHolds, OwnerHoldsNext DEF Takes
  <2>2. LockOwner[l] = NoThread
    BY <1>2, OwnerHolds DEF Takes, MutualExclusion
  <2>3. LockOwner'[l] = t
    BY <1>2, OwnerHoldsNext, Zenon DEF Takes
  <2>4. Abstract!Acquire(t, l)
    BY <1>0, <2>1, <2>2, <2>3, Zenon DEF Abstract!Acquire
  <2> QED BY <2>4, Zenon DEF Abstract!Next
<1>3. ASSUME NEW t \in Thread, NEW l \in Locks, Gives(t, l)
      PROVE  Abstract!Next
  <2>1. ASSUME NEW k \in Locks, k # l PROVE LockOwner'[k] = LockOwner[k]
    BY <1>3, <2>1, OwnerHolds, OwnerHoldsNext, Zenon DEF Gives
  <2>2. LockOwner[l] = t
    BY <1>3, OwnerHolds, Zenon DEF Gives
  <2>3. LockOwner'[l] = NoThread
    BY <1>3, OwnerHolds, OwnerHoldsNext, Zenon DEF Gives, MutualExclusion
  <2>4. Abstract!Release(t, l)
    BY <1>0, <2>1, <2>2, <2>3, Zenon DEF Abstract!Release
  <2> QED BY <2>4, Zenon DEF Abstract!Next
<1> QED BY <1>1, <1>2, <1>3, Zenon DEF OwnersStep

\* lock_acquire(), lock_try_acquire(), lock_release(), cond_wait() and
\* allocate_tid() implement LockSpec, for any number of threads and locks.
THEOREM LocksRefine == Spec => LocksImplementLockSpec
<1> DEFINE I == TypeInv /\ HolderOK /\ MutualExclusion
<1>1. Init => I
  BY Zenon, TypeInvInit, LockInit
<1>2. I /\ [Next]_vars => I'
  BY TypeInvStep, LockStep, MutexStep, Zenon DEF TypeInv
<1>3. Init => Abstract!Init
  <2> SUFFICES ASSUME Init PROVE Abstract!Init
    BY Zenon
  <2>1. \A t \in Thread, l \in Locks : ~Holds(t, l)
    BY ThreadsAssumption, Zenon DEF Init, Holds, Thread
  <2> QED BY <2>1, Zenon DEF LockOwner, Abstract!Init
<1>4. I /\ I' /\ [Next]_vars => [Abstract!Next]_LockOwner
  BY Zenon, LockStep, OwnerStep
<1> QED BY <1>1, <1>2, <1>3, <1>4, PTL DEF Spec, LocksImplementLockSpec, Abstract!Spec
-----------------------------------------------------------------------------
(* Where the threads are, their tids, signals and wakeups *)


\* The strengthening: a page without a thread, or whose thread is still being
\* created, is outside every primitive and on no list, and each thread_create()
\* makes a thread of its own.
Births ==
  /\ \A t \in Pages : status[t] = "FREE" \/ Newborn(t) => pc[t] = "run"
  /\ \A t \in Pages : status[t] # "DYING" /\ (Newborn(t) => status[t] = "BLOCKED")
  /\ \A t, u \in Thread : new[t] # NoThread /\ new[t] = new[u] => t = u

Places == QueuesMatchStatus /\ Births

\* Only the running thread and idle move.
Stays == \A t \in Thread : t # cur /\ t # Idle => pc'[t] = pc[t] /\ on'[t] = on[t]

\* Idle, and a thread outside every primitive, wait on no semaphore.
LEMMA WaitsOnNothing ==
  ASSUME ControlOK, NEW t \in Thread, t = Idle \/ pc[t] = "run"
  PROVE  WaitsOn(t) \notin Sema
<1>1. pc[t] \notin {"down", "acquire", "cond_down"}
  BY Zenon DEF ControlOK
<1>2. WaitsOn(t) = NoThread
  BY Zenon, <1>1 DEF WaitsOn
<1> QED BY <1>2, ThreadsAssumption, SynchAssumption, Zenon DEF Sema, Thread

\* What a thread that moved not waits on.
LEMMA WaitsOnKept ==
  ASSUME NEW t \in Thread, pc'[t] = pc[t], on'[t] = on[t]
  PROVE  WaitsOn(t)' = WaitsOn(t)
  BY Zenon DEF WaitsOn

\* The run queue and the statuses after a switch from a thread whose status
\* became z.
Switched(z) ==
  /\ Distinct(ready_list')
  /\ \A t \in Thread : t \in Range(ready_list') <=> status'[t] = "READY" /\ t # idle_thread
  /\ \A t \in Thread : status'[t] = "RUNNING" <=> t = cur'
  /\ \A t \in Thread \ {Idle} :
       /\ status'[t] = "BLOCKED" <=> (IF t = cur THEN z = "BLOCKED" ELSE status[t] = "BLOCKED")
       /\ status'[t] = "DYING" => t = Main
       /\ status'[t] = "FREE" => status[t] \in {"FREE", "DYING"} \/ (t = cur /\ z = "DYING")

\* schedule() by a running thread whose status becomes z, with the run queue
\* that goes with the new statuses.
LEMMA SchedPlaces ==
  ASSUME SchedTypeOK, NEW z \in {"BLOCKED", "READY", "DYING"}, NEW queue \in Seq(Thread), Distinct(queue),
         \A t \in Thread : status[t] = "RUNNING" <=> t = cur,
         \A t \in Thread : t \in Range(queue) <=>
           (IF t = cur THEN z = "READY" ELSE status[t] = "READY") /\ t # idle_thread,
         idle_thread = NoThread => queue # <<>>,
         schedule(queue, [status EXCEPT ![cur] = z])
  PROVE  Switched(z)
<1> DEFINE st == [status EXCEPT ![cur] = z]
           n == next_thread_to_run(queue)
<1>0. status \in [Thread -> Status] /\ cur \in Thread /\ idle_thread \in {NoThread, Idle}
      /\ Idle \in Thread /\ NoThread \notin Thread
  BY ThreadsAssumption, Zenon DEF SchedTypeOK, Thread
<1>1. cur' = n /\ ready_list' = (IF queue = <<>> THEN queue ELSE Tail(queue))
      /\ status' = [Reap(st) EXCEPT ![n] = "RUNNING"]
  BY Zenon DEF schedule
<1>2. st \in [Thread -> Status] /\ st[cur] = z /\ \A t \in Thread \ {cur} : st[t] = status[t]
  BY Zenon, <1>0 DEF Status
<1> HIDE DEF st
<1>3. /\ Distinct(ready_list') /\ n \in Thread /\ n \notin Range(ready_list')
      /\ Range(ready_list') = Range(queue) \ {n}
      /\ n = idle_thread \/ n \in Range(queue)
  <2>1. CASE queue = <<>>
    <3>1. ready_list' = <<>> /\ n = idle_thread /\ n \in Thread
      BY <1>0, <1>1, <2>1, Zenon DEF next_thread_to_run
    <3> HIDE DEF n
    <3> QED BY Zenon, <2>1, <3>1, EmptyQueue
  <2>2. CASE queue # <<>>
    <3>1. ready_list' = Tail(queue) /\ n = Head(queue)
      BY <1>1, <2>2, Zenon DEF next_thread_to_run
    <3>2. /\ Head(queue) \in Thread /\ Range(queue) = {Head(queue)} \cup Range(Tail(queue))
          /\ Distinct(Tail(queue)) /\ Head(queue) \notin Range(Tail(queue))
      BY <2>2, PopFront, Zenon
    <3> HIDE DEF n
    <3> QED BY Zenon, <3>1, <3>2
  <2> QED BY Zenon, <2>1, <2>2
<1> HIDE DEF n
<1>4. ASSUME NEW t \in Thread
      PROVE  status'[t] = IF t = n THEN "RUNNING"
                          ELSE IF st[t] = "DYING" /\ t # Main THEN "FREE" ELSE st[t]
  BY <1>1, <1>3, Zenon DEF Reap
<1>5. ASSUME NEW t \in Thread PROVE st[t] # "RUNNING"
  BY Zenon, <1>2
<1>6. ASSUME NEW t \in Thread PROVE t \in Range(queue) <=> st[t] = "READY" /\ t # idle_thread
  BY <1>2, Zenon
<1>7. ASSUME NEW t \in Thread
      PROVE  t \in Range(ready_list') <=> status'[t] = "READY" /\ t # idle_thread
  <2>1. CASE t = n
    BY Zenon, <1>3, <1>4, <2>1
  <2>2. CASE t # n
    BY Zenon, <1>3, <1>4, <1>6, <2>2
  <2> QED BY Zenon, <2>1, <2>2
<1>8. ASSUME NEW t \in Thread PROVE status'[t] = "RUNNING" <=> t = cur'
  BY <1>1, <1>4, <1>5
<1>9. ASSUME NEW t \in Thread \ {Idle}
      PROVE  /\ status'[t] = "BLOCKED" <=> (IF t = cur THEN z = "BLOCKED" ELSE status[t] = "BLOCKED")
             /\ status'[t] = "DYING" => t = Main
             /\ status'[t] = "FREE" => status[t] \in {"FREE", "DYING"} \/ (t = cur /\ z = "DYING")
  <2>1. t = n => st[t] = "READY"
    BY Zenon, <1>0, <1>3, <1>6
  <2> QED BY Zenon, <1>2, <1>4, <2>1
<1> QED BY <1>3, <1>7, <1>8, <1>9, Zenon DEF Switched

\* What Places says of the lists, taken apart.
LEMMA PlacesParts ==
  ASSUME Places
  PROVE  /\ TypeOK /\ SchedTypeOK /\ Births
         /\ Distinct(ready_list) /\ \A s \in Sema : Distinct(waiters[s])
         /\ \A t \in Thread : t \in Range(ready_list) <=> status[t] = "READY" /\ t # idle_thread
         /\ \A t \in Thread, s \in Sema :
              t \in Range(waiters[s]) => status[t] = "BLOCKED" /\ WaitsOn(t) = s
         /\ \A t \in Thread : status[t] = "BLOCKED" /\ t # Idle /\ ~Newborn(t) =>
              WaitsOn(t) \in Sema /\ t \in Range(waiters[WaitsOn(t)])
         /\ \A t \in Thread : status[t] = "RUNNING" <=> t = cur
  BY Zenon DEF Places, QueuesMatchStatus, TypeOK

\* A step that leaves the lists and statuses alone: the running thread goes on.
LEMMA SteadyPlaces ==
  ASSUME Places, TypeInv, TypeOK', ControlOK', Stays,
         UNCHANGED <<status, ready_list, cur, waiters, new>>,
         idle_thread' = idle_thread \/ (idle_thread = NoThread /\ idle_thread' = cur)
  PROVE  Places'
<1>0. TypeOK /\ ControlOK /\ cur \in Thread /\ NoThread \notin Thread /\ Idle \in Thread
  BY ThreadsAssumption, Zenon DEF TypeInv, TypeOK, SchedTypeOK, Thread
<1>1. ASSUME NEW t \in Thread
      PROVE  t \in Range(ready_list') <=> status'[t] = "READY" /\ t # idle_thread'
  <2>1. t \in Range(ready_list) <=> status[t] = "READY" /\ t # idle_thread
    BY PlacesParts, Zenon
  <2>2. t = cur => status[t] # "READY"
    <3>1. t = cur => status[t] = "RUNNING"
      BY PlacesParts, Zenon
    <3> QED BY Zenon, <3>1
  <2> QED BY <1>0, <2>1, <2>2, Zenon
<1>2. ASSUME NEW t \in Thread, status[t] = "BLOCKED", t # Idle PROVE WaitsOn(t)' = WaitsOn(t)
  <2>1. t # cur
    <3>1. t = cur => status[t] = "RUNNING"
      BY PlacesParts, Zenon
    <3> QED BY Zenon, <1>2, <3>1
  <2> QED BY <1>2, <2>1, WaitsOnKept, Zenon DEF Stays
<1>3. ASSUME NEW t \in Thread, NEW s \in Sema, t \in Range(waiters'[s])
      PROVE  status'[t] = "BLOCKED" /\ WaitsOn(t)' = s
  <2>1. status[t] = "BLOCKED" /\ WaitsOn(t) = s
    BY <1>3, PlacesParts, Zenon
  <2>2. t # Idle
    BY <1>0, <2>1, WaitsOnNothing, Zenon
  <2> QED BY <1>2, <2>1, <2>2, Zenon
<1>4. ASSUME NEW t \in Thread, status'[t] = "BLOCKED", t # Idle, ~Newborn(t)'
      PROVE  WaitsOn(t)' \in Sema /\ t \in Range(waiters'[WaitsOn(t)'])
  <2>1. ~Newborn(t)
    BY <1>4, Zenon DEF Newborn
  <2>2. WaitsOn(t) \in Sema /\ t \in Range(waiters[WaitsOn(t)]) /\ status[t] = "BLOCKED"
    BY <1>4, <2>1, PlacesParts, Zenon
  <2> QED BY <1>2, <1>4, <2>2
<1>5. Births'
  <2>1. ASSUME NEW t \in Pages, status'[t] = "FREE" \/ Newborn(t)' PROVE pc'[t] = "run"
    <3>1. t \in Thread /\ t # Idle
      BY ThreadsAssumption, Zenon DEF Thread
    <3>2. status[t] = "FREE" \/ (Newborn(t) /\ status[t] = "BLOCKED")
      BY <2>1, PlacesParts, Zenon DEF Births, Newborn
    <3>3. t = cur => status[t] = "RUNNING"
      BY <3>1, PlacesParts, Zenon
    <3>4. t # cur
      BY <3>2, <3>3
    <3> QED BY <3>1, <3>2, <3>4, PlacesParts, Zenon DEF Births, Stays
  <2>2. ASSUME NEW t \in Pages PROVE status'[t] # "DYING" /\ (Newborn(t)' => status'[t] = "BLOCKED")
    BY PlacesParts, Zenon DEF Births, Newborn
  <2> QED BY <2>1, <2>2, PlacesParts, ZenonT(60) DEF Births
<1>6. Distinct(ready_list') /\ (\A s \in Sema : Distinct(waiters'[s]))
      /\ \A t \in Thread : status'[t] = "RUNNING" <=> t = cur'
  BY PlacesParts, Zenon
<1> QED BY <1>1, <1>3, <1>4, <1>5, <1>6, Zenon DEF Places, QueuesMatchStatus

\* A switch to another thread keeps every thread in one place.  The thread
\* switched from waits on a semaphore's list, is idle, is on the run queue or
\* has died.
LEMMA SwitchPlaces ==
  ASSUME Places, TypeInv, TypeOK', ControlOK', Stays, UNCHANGED <<idle_thread, new>>,
         NEW z \in {"BLOCKED", "READY", "DYING"}, Switched(z),
         \/ waiters' = waiters /\ (z # "BLOCKED" \/ cur = Idle)
         \/ /\ cur # Idle /\ WaitsOn(cur) \in Sema /\ z = "BLOCKED" /\ UNCHANGED <<pc, on>>
            /\ waiters' = [waiters EXCEPT ![WaitsOn(cur)] = Append(@, cur)],
         z = "DYING" => cur # Idle /\ pc'[cur] = "run"
  PROVE  Places'
<1>0. TypeOK /\ ControlOK /\ cur \in Thread /\ Idle \in Thread /\ waiters \in [Sema -> Seq(Thread)]
      /\ Pages \subseteq Thread /\ Idle \notin Pages /\ Main \notin Pages
  BY ThreadsAssumption, Zenon DEF TypeInv, TypeOK, SchedTypeOK, Thread
<1>c. PICK c \in Thread : c = cur
  BY <1>0, Zenon
<1>1. status[cur] = "RUNNING"
  BY <1>0, PlacesParts, Zenon
<1>2. ASSUME NEW t \in Thread, t # cur, t # Idle PROVE WaitsOn(t)' = WaitsOn(t)
  BY <1>2, WaitsOnKept, Zenon DEF Stays
<1>3. ASSUME NEW t \in Thread, NEW s \in Sema, t \in Range(waiters[s])
      PROVE  t # cur /\ t # Idle /\ status'[t] = "BLOCKED" /\ WaitsOn(t)' = s
  <2>1. status[t] = "BLOCKED" /\ WaitsOn(t) = s
    BY <1>3, PlacesParts, Zenon
  <2>2. t # Idle
    BY <1>0, <2>1, WaitsOnNothing, Zenon
  <2>3. t # cur
    BY Zenon, <1>1, <2>1
  <2>4. status'[t] = "BLOCKED"
    BY <2>1, <2>2, <2>3, Zenon DEF Switched
  <2> QED BY <1>2, <2>1, <2>2, <2>3, <2>4, Zenon
\* The thread switched from, when it waits.
<1>4. ASSUME waiters' # waiters
      PROVE  /\ cur # Idle /\ WaitsOn(cur) \in Sema /\ z = "BLOCKED" /\ status'[cur] = "BLOCKED"
             /\ WaitsOn(c)' = WaitsOn(cur)
             /\ \A s \in Sema : IF s = WaitsOn(cur)
                  THEN Range(waiters'[s]) = Range(waiters[s]) \cup {cur} /\ Distinct(waiters'[s])
                  ELSE waiters'[s] = waiters[s]
  <2>1. /\ cur # Idle /\ WaitsOn(cur) \in Sema /\ z = "BLOCKED" /\ UNCHANGED <<pc, on>>
        /\ waiters' = [waiters EXCEPT ![WaitsOn(cur)] = Append(@, cur)]
    BY <1>4, Zenon
  <2>2. status'[cur] = "BLOCKED"
    BY <1>0, <2>1, Zenon DEF Switched
  <2>3. WaitsOn(c)' = WaitsOn(cur)
    BY Zenon, <1>c, <2>1, WaitsOnKept
  <2> DEFINE w == WaitsOn(cur)
  <2>4. \A s \in Sema : waiters'[s] = IF s = w THEN Append(waiters[w], cur) ELSE waiters[s]
    BY <1>0, <2>1, Zenon
  <2>5. w \in Sema /\ Distinct(waiters[w]) /\ cur \notin Range(waiters[w])
    BY <1>0, <1>3, <2>1, PlacesParts, Zenon
  <2>6. Range(Append(waiters[w], cur)) = Range(waiters[w]) \cup {cur} /\ Distinct(Append(waiters[w], cur))
    BY <1>0, <2>5, PushBack, Zenon
  <2> HIDE DEF w
  <2>7. \A s \in Sema : IF s = w
                  THEN Range(waiters'[s]) = Range(waiters[s]) \cup {cur} /\ Distinct(waiters'[s])
                  ELSE waiters'[s] = waiters[s]
    BY Zenon, <2>4, <2>6
  <2> QED BY <2>1, <2>2, <2>3, <2>7, Zenon DEF w
<1>5. \A s \in Sema : Distinct(waiters'[s])
  BY <1>4, PlacesParts, Zenon
<1>6. ASSUME NEW t \in Thread, NEW s \in Sema, t \in Range(waiters'[s])
      PROVE  status'[t] = "BLOCKED" /\ WaitsOn(t)' = s
  <2>1. CASE t \in Range(waiters[s])
    BY Zenon, <1>3, <2>1
  <2>2. CASE t \notin Range(waiters[s])
    BY Zenon, <1>4, <1>6, <1>c, <2>2
  <2> QED BY Zenon, <2>1, <2>2
<1>7. ASSUME NEW t \in Thread, status'[t] = "BLOCKED", t # Idle, ~Newborn(t)'
      PROVE  WaitsOn(t)' \in Sema /\ t \in Range(waiters'[WaitsOn(t)'])
  <2>1. CASE t = cur
    <3>1. z = "BLOCKED"
      BY <1>0, <1>7, <2>1, Zenon DEF Switched
    <3>2. waiters' # waiters
      <4>1. CASE waiters' = waiters /\ (z # "BLOCKED" \/ cur = Idle)
        BY Zenon, <1>7, <2>1, <3>1, <4>1
      <4>2. CASE WaitsOn(cur) \in Sema /\ waiters' = [waiters EXCEPT ![WaitsOn(cur)] = Append(@, cur)]
        <5>1. waiters'[WaitsOn(cur)] = Append(waiters[WaitsOn(cur)], cur)
          BY <1>0, <4>2, Zenon
        <5>2. cur \in Range(Append(waiters[WaitsOn(cur)], cur))
          BY <1>0, <4>2, PushBack
        <5>3. cur \notin Range(waiters[WaitsOn(cur)])
          BY <1>0, <1>3, <4>2, Zenon
        <5> QED BY Zenon, <5>1, <5>2, <5>3
      <4> QED BY <4>1, <4>2, Zenon
    <3> QED BY Zenon, <1>4, <1>c, <2>1, <3>2
  <2>2. CASE t # cur
    <3>1. ~Newborn(t)
      BY <1>7, Zenon DEF Newborn
    <3>2. status[t] = "BLOCKED"
      BY <1>7, <2>2, Zenon DEF Switched
    <3>3. WaitsOn(t) \in Sema /\ t \in Range(waiters[WaitsOn(t)])
      BY <1>7, <3>1, <3>2, PlacesParts, Zenon
    <3>4. WaitsOn(t)' = WaitsOn(t)
      BY <1>2, <1>7, <2>2, Zenon
    <3> QED BY Zenon, <1>4, <3>3, <3>4
  <2> QED BY Zenon, <2>1, <2>2
<1>8. Births'
  <2>1. ASSUME NEW t \in Pages, Newborn(t)' PROVE pc'[t] = "run" /\ status'[t] = "BLOCKED"
    <3>1. Newborn(t) /\ t \in Thread /\ t # Idle
      BY <1>0, <2>1, Zenon DEF Newborn
    <3>2. status[t] = "BLOCKED" /\ pc[t] = "run"
      BY <3>1, PlacesParts, Zenon DEF Births
    <3>3. t # cur
      BY Zenon, <1>1, <3>2
    <3> QED BY <3>1, <3>2, <3>3, Zenon DEF Stays, Switched
  <2>2. ASSUME NEW t \in Pages, status'[t] = "FREE" PROVE pc'[t] = "run"
    <3>0. t \in Thread \ {Idle}
      BY <1>0, Zenon
    <3>1. CASE t = cur /\ z = "DYING"
      BY <3>1, Zenon
    <3>2. CASE ~(t = cur /\ z = "DYING")
      <4>1. status[t] \in {"FREE", "DYING"}
        BY <2>2, <3>0, <3>2, Zenon DEF Switched
      <4>2. status[t] # "DYING" /\ (status[t] = "FREE" => pc[t] = "run")
        BY PlacesParts, Zenon DEF Births
      <4>3. t # cur
        BY Zenon, <1>1, <4>1
      <4> QED BY Zenon, <3>0, <4>1, <4>2, <4>3 DEF Stays
    <3> QED BY Zenon, <3>1, <3>2
  <2>3. ASSUME NEW t \in Pages PROVE status'[t] # "DYING"
    BY <1>0, Zenon DEF Switched
  <2> QED BY <2>1, <2>2, <2>3, PlacesParts, ZenonT(60) DEF Births
<1>9. /\ Distinct(ready_list')
      /\ \A t \in Thread : t \in Range(ready_list') <=> status'[t] = "READY" /\ t # idle_thread'
      /\ \A t \in Thread : status'[t] = "RUNNING" <=> t = cur'
  BY Zenon DEF Switched
<1> QED BY <1>5, <1>6, <1>7, <1>8, <1>9, Zenon DEF Places, QueuesMatchStatus

\* thread_block(), thread_yield() and thread_exit() leave the run queue as the
\* statuses say.
LEMMA BlockSwitch ==
  ASSUME Places, TypeInv, pc[Main] # "start", cur # Idle \/ idle_thread # NoThread, thread_block
  PROVE  Switched("BLOCKED")
<1>1. idle_thread = NoThread => ready_list # <<>>
  BY EmptyQueue, Zenon DEF TypeInv, BootOK
<1>2. SchedTypeOK /\ ready_list \in Seq(Thread) /\ cur \in Thread
  BY PlacesParts, Zenon DEF SchedTypeOK
<1>3. \A t \in Thread : t \in Range(ready_list) <=>
        (IF t = cur THEN "BLOCKED" = "READY" ELSE status[t] = "READY") /\ t # idle_thread
  <2>1. status[cur] # "READY" /\ "BLOCKED" # "READY"
    <3>1. status[cur] = "RUNNING"
      BY <1>2, PlacesParts, Zenon
    <3> QED BY Zenon, <3>1
  <2> QED BY <2>1, PlacesParts, Zenon
<1> QED BY <1>1, <1>2, <1>3, PlacesParts, SchedPlaces, Zenon DEF thread_block

LEMMA DieSwitch ==
  ASSUME Places, TypeInv, pc[Main] # "start", cur # Idle, thread_die
  PROVE  Switched("DYING")
<1>1. idle_thread = NoThread => ready_list # <<>>
  BY EmptyQueue, Zenon DEF TypeInv, BootOK
<1>2. SchedTypeOK /\ ready_list \in Seq(Thread) /\ cur \in Thread
  BY PlacesParts, Zenon DEF SchedTypeOK
<1>3. \A t \in Thread : t \in Range(ready_list) <=>
        (IF t = cur THEN "DYING" = "READY" ELSE status[t] = "READY") /\ t # idle_thread
  <2>1. status[cur] # "READY" /\ "DYING" # "READY"
    <3>1. status[cur] = "RUNNING"
      BY <1>2, PlacesParts, Zenon
    <3> QED BY Zenon, <3>1
  <2> QED BY <2>1, PlacesParts, Zenon
<1> QED BY <1>1, <1>2, <1>3, PlacesParts, SchedPlaces, Zenon DEF thread_die

LEMMA YieldSwitch ==
  ASSUME Places, TypeInv, thread_yield
  PROVE  Switched("READY")
<1> DEFINE queue == IF cur # idle_thread THEN Append(ready_list, cur) ELSE ready_list
<1>2. SchedTypeOK /\ ready_list \in Seq(Thread) /\ cur \in Thread /\ cur # NoThread
  BY PlacesParts, ThreadsAssumption, Zenon DEF SchedTypeOK, Thread
<1>3. status[cur] = "RUNNING" /\ Distinct(ready_list)
  BY <1>2, PlacesParts, Zenon
<1>4. cur \notin Range(ready_list)
  <2>1. cur \in Range(ready_list) => status[cur] = "READY"
    BY <1>2, PlacesParts, Zenon
  <2> QED BY <1>3, <2>1
<1>5. CASE cur # idle_thread
  <2>1. queue = Append(ready_list, cur)
    BY <1>5, Zenon
  <2>2. /\ queue \in Seq(Thread) /\ Distinct(queue) /\ queue # <<>>
        /\ Range(queue) = Range(ready_list) \cup {cur}
    BY <1>2, <1>3, <1>4, <2>1, PushBack, Zenon
  <2>3. schedule(queue, [status EXCEPT ![cur] = "READY"])
    BY Zenon DEF thread_yield
  <2> HIDE DEF queue
  <2>4. \A t \in Thread : t \in Range(queue) <=>
          (IF t = cur THEN "READY" = "READY" ELSE status[t] = "READY") /\ t # idle_thread
    BY <1>5, <2>2, PlacesParts, Zenon
  <2> QED BY <1>2, <2>2, <2>3, <2>4, PlacesParts, SchedPlaces, Zenon
<1>6. CASE cur = idle_thread
  <2>1. queue = ready_list
    BY <1>6, Zenon
  <2>2. schedule(ready_list, [status EXCEPT ![cur] = "READY"])
    BY <2>1, Zenon DEF thread_yield
  <2>3. \A t \in Thread : t \in Range(ready_list) <=>
          (IF t = cur THEN "READY" = "READY" ELSE status[t] = "READY") /\ t # idle_thread
    BY <1>4, <1>6, PlacesParts, Zenon
  <2> QED BY <1>2, <1>3, <1>6, <2>2, <2>3, PlacesParts, SchedPlaces, Zenon
<1> QED BY Zenon, <1>5, <1>6

\* sema_up() takes at most the longest waiter from its list to the run queue.
LEMMA UpPlaces ==
  ASSUME Places, TypeInv, TypeOK', ControlOK', Stays, NEW s \in Sema, sema_up(s),
         UNCHANGED <<cur, idle_thread, new>>
  PROVE  Places'
<1>0. TypeOK /\ ControlOK /\ cur \in Thread /\ waiters \in [Sema -> Seq(Thread)]
      /\ status \in [Thread -> Status] /\ ready_list \in Seq(Thread)
      /\ Pages \subseteq Thread /\ Idle \notin Pages
      /\ idle_thread \in {NoThread, Idle} /\ NoThread \notin Thread
  BY ThreadsAssumption, Zenon DEF TypeInv, TypeOK, SchedTypeOK, Thread
<1>1. CASE waiters[s] = <<>>
  BY <1>1, SteadyPlaces, Zenon DEF sema_up
<1>2. CASE waiters[s] # <<>>
  <2> DEFINE x == Head(waiters[s])
  <2>1. /\ waiters' = [waiters EXCEPT ![s] = Tail(waiters[s])] /\ ready_list' = Append(ready_list, x)
        /\ status' = [status EXCEPT ![x] = "READY"]
    BY <1>2, Zenon DEF sema_up, thread_unblock
  <2>2. /\ x \in Thread /\ Range(waiters[s]) = {x} \cup Range(Tail(waiters[s]))
        /\ Distinct(Tail(waiters[s])) /\ x \notin Range(Tail(waiters[s]))
    BY <1>0, <1>2, PopFront, PlacesParts, Zenon
  <2> HIDE DEF x
  <2>3. status[x] = "BLOCKED" /\ WaitsOn(x) = s
    BY <2>2, PlacesParts, Zenon
  <2>4. x # Idle /\ pc[x] # "run"
    BY <1>0, <2>2, <2>3, WaitsOnNothing, Zenon
  <2>5. x # cur /\ x \notin Range(ready_list)
    <3>1. (x = cur => status[x] = "RUNNING") /\ (x \in Range(ready_list) => status[x] = "READY")
      BY <2>2, PlacesParts, Zenon
    <3> QED BY Zenon, <2>3, <3>1
  <2>6. status'[x] = "READY" /\ \A t \in Thread \ {x} : status'[t] = status[t]
    BY <1>0, <2>1, <2>2, Zenon
  <2>7. Distinct(ready_list') /\ Range(ready_list') = Range(ready_list) \cup {x}
    BY <1>0, <2>1, <2>2, <2>5, PushBack, PlacesParts, Zenon
  <2>8. /\ \A u \in Sema \ {s} : waiters'[u] = waiters[u]
        /\ waiters'[s] = Tail(waiters[s])
    BY <1>0, <2>1, Zenon
  <2>9. ASSUME NEW t \in Thread
        PROVE  t \in Range(ready_list') <=> status'[t] = "READY" /\ t # idle_thread'
    <3>1. t \in Range(ready_list) <=> status[t] = "READY" /\ t # idle_thread
      BY PlacesParts, Zenon
    <3>2. x # idle_thread
      BY <1>0, <2>2, <2>4, Zenon
    <3> QED BY Zenon, <2>6, <2>7, <3>1, <3>2
  <2>10. ASSUME NEW t \in Thread PROVE status'[t] = "RUNNING" <=> t = cur'
    <3>1. status[t] = "RUNNING" <=> t = cur
      BY PlacesParts, Zenon
    <3> QED BY Zenon, <2>5, <2>6, <3>1
  <2>11. \A u \in Sema : Distinct(waiters'[u])
    BY <2>2, <2>8, PlacesParts, Zenon
  <2>12. ASSUME NEW t \in Thread, t # Idle, status[t] = "BLOCKED" PROVE WaitsOn(t)' = WaitsOn(t)
    <3>1. t # cur
      <4>1. t = cur => status[t] = "RUNNING"
        BY PlacesParts, Zenon
      <4> QED BY Zenon, <2>12, <4>1
    <3> QED BY <2>12, <3>1, WaitsOnKept, Zenon DEF Stays
  <2>13. ASSUME NEW t \in Thread, NEW u \in Sema, t \in Range(waiters'[u])
         PROVE  status'[t] = "BLOCKED" /\ WaitsOn(t)' = u
    <3>1. t \in Range(waiters[u]) /\ t # x
      <4>1. CASE u = s
        BY Zenon, <2>2, <2>8, <2>13, <4>1
      <4>2. CASE u # s
        <5>1. t \in Range(waiters[u])
          BY <2>8, <2>13, <4>2, Zenon
        <5>2. WaitsOn(t) = u
          BY <5>1, PlacesParts, Zenon
        <5> QED BY Zenon, <2>3, <4>2, <5>1, <5>2
      <4> QED BY Zenon, <4>1, <4>2
    <3>2. status[t] = "BLOCKED" /\ WaitsOn(t) = u
      BY <3>1, PlacesParts, Zenon
    <3>3. t # Idle
      BY <1>0, <3>2, WaitsOnNothing, Zenon
    <3> QED BY <2>6, <2>12, <3>1, <3>2, <3>3, Zenon
  <2>14. ASSUME NEW t \in Thread, status'[t] = "BLOCKED", t # Idle, ~Newborn(t)'
         PROVE  WaitsOn(t)' \in Sema /\ t \in Range(waiters'[WaitsOn(t)'])
    <3>1. t # x /\ status[t] = "BLOCKED"
      BY Zenon, <2>6, <2>14
    <3>2. ~Newborn(t)
      BY <2>14, Zenon DEF Newborn
    <3>3. WaitsOn(t) \in Sema /\ t \in Range(waiters[WaitsOn(t)])
      BY <2>14, <3>1, <3>2, PlacesParts, Zenon
    <3>4. WaitsOn(t)' = WaitsOn(t)
      BY <2>12, <2>14, <3>1, Zenon
    <3>5. t \in Range(waiters'[WaitsOn(t)])
      BY Zenon, <2>2, <2>8, <3>1, <3>3
    <3> QED BY Zenon, <3>3, <3>4, <3>5
  <2>15. Births'
    <3>1. ASSUME NEW t \in Pages, Newborn(t)' \/ status'[t] = "FREE"
          PROVE  pc'[t] = "run" /\ (Newborn(t)' => status'[t] = "BLOCKED")
      <4>1. Newborn(t)' <=> Newborn(t)
        BY Zenon DEF Newborn
      <4>2. Newborn(t) \/ status[t] = "FREE"
        BY Zenon, <1>0, <2>6, <3>1, <4>1
      <4>3. pc[t] = "run" /\ (Newborn(t) => status[t] = "BLOCKED")
        BY <4>2, PlacesParts, Zenon DEF Births
      <4>4. t # x /\ t # Idle /\ t \in Thread
        BY <1>0, <2>4, <4>3, Zenon
      <4>5. t # cur
        <5>1. t = cur => status[t] = "RUNNING"
          BY <4>4, PlacesParts, Zenon
        <5> QED BY Zenon, <4>2, <4>3, <5>1
      <4> QED BY <2>6, <4>1, <4>3, <4>4, <4>5, Zenon DEF Stays
    <3>2. ASSUME NEW t \in Pages PROVE status'[t] # "DYING"
      <4>1. status[t] # "DYING"
        BY PlacesParts, Zenon DEF Births
      <4> QED BY <1>0, <2>6, <4>1
    <3> QED BY <3>1, <3>2, PlacesParts, ZenonT(60) DEF Births
  <2> QED BY <2>7, <2>9, <2>10, <2>11, <2>13, <2>14, <2>15, Zenon DEF Places, QueuesMatchStatus
<1> QED BY <1>1, <1>2

\* thread_create() takes a free page, and later puts the new thread on the run
\* queue.
LEMMA CreatePlaces ==
  ASSUME Places, TypeInv, TypeOK', ControlOK', NEW t \in Thread \ {Idle}, NEW page \in Pages,
         ThreadCreate(t, page)
  PROVE  Places'
<1>0. /\ TypeOK /\ ControlOK /\ status \in [Thread -> Status] /\ new \in [Thread -> Pages \cup {NoThread}]
      /\ Pages \subseteq Thread /\ Idle \notin Pages /\ NoThread \notin Pages /\ page \in Thread /\ t \in Thread
  BY ThreadsAssumption, Zenon DEF TypeInv, TypeOK, SchedTypeOK, Thread
<1>1. /\ cur = t /\ pc[t] = "run" /\ status[page] = "FREE" /\ status' = [status EXCEPT ![page] = "BLOCKED"]
      /\ new' = [new EXCEPT ![t] = page] /\ Goto(t, "acquire", TidLock, "tid_read")
      /\ UNCHANGED <<ready_list, cur, idle_thread, waiters>>
  BY Zenon DEF ThreadCreate, At, objVars
<1>2. \A u \in Thread \ {t} : pc'[u] = pc[u] /\ on'[u] = on[u]
  BY <1>0, <1>1, GotoMoves, ZenonT(60)
<1>3. status'[page] = "BLOCKED" /\ \A u \in Thread \ {page} : status'[u] = status[u]
  BY <1>0, <1>1, Zenon
<1>4. new[t] = NoThread /\ new'[t] = page /\ \A u \in Thread \ {t} : new'[u] = new[u]
  <2>1. ret[t] = "run"
    BY Zenon, <1>0, <1>1 DEF ControlOK
  <2>2. new[t] = NoThread
    BY Zenon, <1>0, <1>1, <2>1 DEF ControlOK
  <2> QED BY <1>0, <1>1, <2>2, Zenon
<1>5. page # cur /\ pc[page] = "run" /\ ~Newborn(page)
  <2>1. page = cur => status[page] = "RUNNING"
    BY <1>0, PlacesParts, Zenon
  <2>2. Newborn(page) => status[page] = "BLOCKED"
    BY PlacesParts, Zenon DEF Births
  <2>3. pc[page] = "run"
    BY <1>1, PlacesParts, Zenon DEF Births
  <2> QED BY Zenon, <1>1, <2>1, <2>2, <2>3
<1>6. ASSUME NEW u \in Thread PROVE Newborn(u)' <=> Newborn(u) \/ u = page
  <2>1. u # NoThread
    BY ThreadsAssumption, Zenon DEF Thread
  <2> QED BY <1>0, <1>4, <2>1, Zenon DEF Newborn
<1>7. ASSUME NEW u \in Thread, u # page PROVE status[u] = "BLOCKED" => WaitsOn(u)' = WaitsOn(u)
  <2>1. u = t => status[u] = "RUNNING"
    BY <1>1, PlacesParts, Zenon
  <2> QED BY Zenon, <1>2, <2>1, WaitsOnKept
<1>8. ASSUME NEW u \in Thread
      PROVE  u \in Range(ready_list') <=> status'[u] = "READY" /\ u # idle_thread'
  <2>1. u \in Range(ready_list) <=> status[u] = "READY" /\ u # idle_thread
    BY PlacesParts, Zenon
  <2> QED BY Zenon, <1>1, <1>3, <2>1
<1>9. ASSUME NEW u \in Thread PROVE status'[u] = "RUNNING" <=> u = cur'
  <2>1. status[u] = "RUNNING" <=> u = cur
    BY PlacesParts, Zenon
  <2> QED BY Zenon, <1>1, <1>3, <1>5, <2>1
<1>10. ASSUME NEW u \in Thread, NEW s \in Sema, u \in Range(waiters'[s])
       PROVE  status'[u] = "BLOCKED" /\ WaitsOn(u)' = s
  <2>1. status[u] = "BLOCKED" /\ WaitsOn(u) = s
    BY <1>1, <1>10, PlacesParts, Zenon
  <2>2. u # page
    BY Zenon, <1>1, <2>1
  <2> QED BY Zenon, <1>3, <1>7, <2>1, <2>2
<1>11. ASSUME NEW u \in Thread, status'[u] = "BLOCKED", u # Idle, ~Newborn(u)'
       PROVE  WaitsOn(u)' \in Sema /\ u \in Range(waiters'[WaitsOn(u)'])
  <2>1. u # page /\ ~Newborn(u)
    BY <1>6, <1>11, Zenon
  <2>2. status[u] = "BLOCKED"
    BY Zenon, <1>3, <1>11, <2>1
  <2>3. WaitsOn(u) \in Sema /\ u \in Range(waiters[WaitsOn(u)])
    BY <1>11, <2>1, <2>2, PlacesParts, Zenon
  <2> QED BY Zenon, <1>1, <1>7, <2>1, <2>2, <2>3
<1>12. Births'
  <2>1. ASSUME NEW u \in Pages, status'[u] = "FREE" \/ Newborn(u)'
        PROVE  pc'[u] = "run" /\ (Newborn(u)' => status'[u] = "BLOCKED")
    <3>1. CASE u = page
      BY <1>0, <1>1, <1>2, <1>3, <1>5, <3>1, Zenon
    <3>2. CASE u # page
      <4>1. u \in Thread /\ status'[u] = status[u] /\ (Newborn(u)' <=> Newborn(u))
        BY <1>0, <1>3, <1>6, <3>2, Zenon
      <4>2. pc[u] = "run" /\ (Newborn(u) => status[u] = "BLOCKED") /\ (status[u] = "FREE" \/ Newborn(u))
        BY <2>1, <4>1, PlacesParts, Zenon DEF Births
      <4>3. u = t => status[u] = "RUNNING"
        BY <1>1, <4>1, PlacesParts, Zenon
      <4>4. u # t
        BY Zenon, <4>2, <4>3
      <4> QED BY <1>2, <4>1, <4>2, <4>4, Zenon
    <3> QED BY <3>1, <3>2
  <2>2. ASSUME NEW u \in Pages PROVE status'[u] # "DYING"
    <3>1. status[u] # "DYING"
      BY PlacesParts, Zenon DEF Births
    <3> QED BY Zenon, <1>0, <1>3, <3>1
  <2>3. ASSUME NEW u \in Thread, NEW v \in Thread, new'[u] # NoThread, new'[u] = new'[v] PROVE u = v
    <3>1. \A w \in Thread : new[w] # page
      BY <1>5, Zenon DEF Newborn
    <3>2. new[u] # NoThread /\ new[u] = new[v] => u = v
      BY PlacesParts, Zenon DEF Births
    <3> QED BY <1>4, <2>3, <3>1, <3>2
  <2> QED BY <2>1, <2>2, <2>3, Zenon DEF Births
<1>13. Distinct(ready_list') /\ \A s \in Sema : Distinct(waiters'[s])
  BY <1>1, PlacesParts, Zenon
<1> QED BY <1>8, <1>9, <1>10, <1>11, <1>12, <1>13, Zenon DEF Places, QueuesMatchStatus

\* thread_unblock() of a thread that is on no list and is no longer being made.
LEMMA UnblockPlaces ==
  ASSUME Places, TypeInv, TypeOK', ControlOK', Stays, NEW x \in Thread, thread_unblock(x),
         status[x] \in {"FREE", "BLOCKED"}, WaitsOn(x) \notin Sema, x # idle_thread,
         UNCHANGED <<cur, idle_thread, waiters>>,
         \A u \in Thread : new'[u] = new[u] \/ (new[u] = x /\ new'[u] = NoThread),
         ~Newborn(x)'
  PROVE  Places'
<1>0. /\ TypeOK /\ ControlOK /\ status \in [Thread -> Status] /\ ready_list \in Seq(Thread) /\ cur \in Thread
      /\ Pages \subseteq Thread /\ Idle \notin Pages /\ NoThread \notin Pages
  BY ThreadsAssumption, Zenon DEF TypeInv, TypeOK, SchedTypeOK, Thread
<1>1. ready_list' = Append(ready_list, x) /\ status' = [status EXCEPT ![x] = "READY"]
  BY Zenon DEF thread_unblock
<1>2. status'[x] = "READY" /\ \A u \in Thread \ {x} : status'[u] = status[u]
  BY <1>0, <1>1, Zenon
<1>3. x # cur /\ x \notin Range(ready_list)
  <2>1. (x = cur => status[x] = "RUNNING") /\ (x \in Range(ready_list) => status[x] = "READY")
    BY PlacesParts, Zenon
  <2> QED BY Zenon, <2>1
<1>4. Distinct(ready_list') /\ Range(ready_list') = Range(ready_list) \cup {x}
  BY <1>0, <1>1, <1>3, PushBack, PlacesParts, Zenon
<1>5. ASSUME NEW u \in Pages, u # x PROVE Newborn(u)' <=> Newborn(u)
  BY Zenon, <1>0, <1>5 DEF Newborn
<1>6. ASSUME NEW u \in Thread, u # Idle, status[u] = "BLOCKED" PROVE WaitsOn(u)' = WaitsOn(u)
  <2>1. u = cur => status[u] = "RUNNING"
    BY PlacesParts, Zenon
  <2>2. u # cur
    BY Zenon, <1>6, <2>1
  <2> QED BY <1>6, <2>2, WaitsOnKept, Zenon DEF Stays
<1>7. ASSUME NEW u \in Thread
      PROVE  u \in Range(ready_list') <=> status'[u] = "READY" /\ u # idle_thread'
  <2>1. u \in Range(ready_list) <=> status[u] = "READY" /\ u # idle_thread
    BY PlacesParts, Zenon
  <2> QED BY Zenon, <1>2, <1>4, <2>1
<1>8. ASSUME NEW u \in Thread PROVE status'[u] = "RUNNING" <=> u = cur'
  <2>1. status[u] = "RUNNING" <=> u = cur
    BY PlacesParts, Zenon
  <2> QED BY Zenon, <1>2, <1>3, <2>1
<1>9. ASSUME NEW u \in Thread, NEW s \in Sema, u \in Range(waiters'[s])
      PROVE  status'[u] = "BLOCKED" /\ WaitsOn(u)' = s
  <2>1. status[u] = "BLOCKED" /\ WaitsOn(u) = s
    BY <1>9, PlacesParts, Zenon
  <2>2. u # x
    BY Zenon, <2>1
  <2>3. u # Idle
    BY <1>0, <2>1, WaitsOnNothing, Zenon
  <2> QED BY Zenon, <1>2, <1>6, <2>1, <2>2, <2>3
<1>10. ASSUME NEW u \in Thread, status'[u] = "BLOCKED", u # Idle, ~Newborn(u)'
       PROVE  WaitsOn(u)' \in Sema /\ u \in Range(waiters'[WaitsOn(u)'])
  <2>1. u # x /\ status[u] = "BLOCKED"
    BY <1>2, <1>10
  <2>2. ~Newborn(u)
    <3>1. Newborn(u) => u \in Pages
      <4>1. \A v \in Thread : new[v] \in Pages \cup {NoThread}
        BY <1>0, Zenon DEF TypeOK
      <4>2. u # NoThread
        BY ThreadsAssumption, Zenon DEF Thread
      <4> QED BY <4>1, <4>2, Zenon DEF Newborn
    <3> QED BY <1>5, <1>10, <2>1, <3>1, Zenon
  <2>3. WaitsOn(u) \in Sema /\ u \in Range(waiters[WaitsOn(u)])
    BY <1>10, <2>1, <2>2, PlacesParts, Zenon
  <2> QED BY Zenon, <1>6, <1>10, <2>1, <2>3
<1>11. Births'
  <2>1. ASSUME NEW u \in Pages, status'[u] = "FREE" \/ Newborn(u)'
        PROVE  pc'[u] = "run" /\ (Newborn(u)' => status'[u] = "BLOCKED")
    <3>1. u # x /\ u \in Thread /\ u # Idle
      BY Zenon, <1>0, <1>2, <2>1
    <3>2. status'[u] = status[u] /\ (Newborn(u)' <=> Newborn(u))
      BY <1>2, <1>5, <3>1, Zenon
    <3>3. pc[u] = "run" /\ (Newborn(u) => status[u] = "BLOCKED") /\ (status[u] = "FREE" \/ Newborn(u))
      BY <2>1, <3>2, PlacesParts, Zenon DEF Births
    <3>4. u = cur => status[u] = "RUNNING"
      BY <3>1, PlacesParts, Zenon
    <3>5. u # cur
      BY Zenon, <3>3, <3>4
    <3> QED BY <3>1, <3>2, <3>3, <3>5, Zenon DEF Stays
  <2>2. ASSUME NEW u \in Pages PROVE status'[u] # "DYING"
    <3>1. status[u] # "DYING"
      BY PlacesParts, Zenon DEF Births
    <3> QED BY Zenon, <1>0, <1>2, <3>1
  <2>3. ASSUME NEW u \in Thread, NEW v \in Thread, new'[u] # NoThread, new'[u] = new'[v] PROVE u = v
    <3>1. new[u] # NoThread /\ new[u] = new[v] => u = v
      BY PlacesParts, Zenon DEF Births
    <3> QED BY Zenon, <2>3, <3>1
  <2> QED BY <2>1, <2>2, <2>3, Zenon DEF Births
<1>12. \A s \in Sema : Distinct(waiters'[s])
  BY PlacesParts, Zenon
<1> QED BY <1>4, <1>7, <1>8, <1>9, <1>10, <1>11, <1>12, Zenon DEF Places, QueuesMatchStatus
-----------------------------------------------------------------------------
(* The steps *)

\* Before thread_start(), the initial thread is alone.
Booting ==
  pc[Main] = "start" =>
    status[Idle] = "FREE" /\ idle_thread = NoThread /\ \A t \in Thread : pc[t] \notin {"tid_read", "tid_write"}

LEMMA PlacesInit == Init => Places /\ Booting
<1> SUFFICES ASSUME Init PROVE Places /\ Booting
  BY Zenon
<1>1. TypeOK
  BY Zenon, TypeInvInit DEF TypeInv
<1>2. /\ status = [t \in Thread |-> IF t = Main THEN "RUNNING" ELSE "FREE"] /\ ready_list = <<>>
      /\ cur = Main /\ waiters = [s \in Sema |-> <<>>] /\ new = [t \in Thread |-> NoThread]
      /\ idle_thread = NoThread
      /\ pc = [t \in Thread |-> IF t = Main THEN "start" ELSE IF t = Idle THEN "idle_init" ELSE "run"]
  BY Zenon DEF Init, SchedInit
<1>3. /\ Main \in Thread /\ Idle \in Thread /\ Main # Idle /\ Pages \subseteq Thread /\ NoThread \notin Thread
      /\ Main \notin Pages /\ Idle \notin Pages
  BY ThreadsAssumption, Zenon DEF Thread
<1>4. \A t \in Thread : ~Newborn(t)
  BY <1>2, <1>3, Zenon DEF Newborn
<1>5. \A t \in Thread : status[t] = IF t = Main THEN "RUNNING" ELSE "FREE"
  BY <1>2, Zenon
<1>6. Births
  BY Zenon, <1>2, <1>3, <1>4, <1>5 DEF Births
<1>7. QueuesMatchStatus
  <2>1. Distinct(ready_list) /\ (\A s \in Sema : Distinct(waiters[s]) /\ Range(waiters[s]) = {})
        /\ Range(ready_list) = {}
    BY <1>2, EmptyQueue, Zenon
  <2>2. \A t \in Thread : status[t] # "READY" /\ status[t] # "BLOCKED" /\ (status[t] = "RUNNING" <=> t = cur)
    BY Zenon, <1>2, <1>5
  <2> QED BY <1>1, <2>1, <2>2, Zenon DEF QueuesMatchStatus
<1>8. Booting
  BY <1>2, <1>3, <1>5 DEF Booting
<1> QED BY Zenon, <1>6, <1>7, <1>8 DEF Places

\* The running thread goes to a label, or stays at its own.
LEMMA RunningMoves ==
  ASSUME TypeInv, NEW t \in Thread, cur = t, pc[t] # "start",
         \/ \E label \in Label \ {"start"}, obj \in Sema \cup Conds \cup {NoThread}, next \in Label :
              Goto(t, label, obj, next)
         \/ UNCHANGED ctlVars
  PROVE  Stays /\ pc'[Main] # "start"
<1>0. TypeOK /\ Main \in Thread /\ pc[Main] # "start"
  BY ThreadsAssumption, Zenon DEF TypeInv, ControlOK, Thread
<1>1. ASSUME NEW label \in Label \ {"start"}, NEW obj, NEW next, Goto(t, label, obj, next)
      PROVE  Stays /\ pc'[Main] # "start"
  <2>1. pc'[t] = label /\ \A u \in Thread \ {t} : pc'[u] = pc[u] /\ on'[u] = on[u]
    BY <1>0, <1>1, GotoMoves, Zenon
  <2> QED BY <1>0, <1>1, <2>1, Zenon DEF Stays
<1>2. CASE UNCHANGED ctlVars
  BY <1>0, <1>2, Zenon DEF ctlVars, Stays
<1> QED BY <1>1, <1>2, Zenon

\* An interrupt moves idle only.
LEMMA WakeMoves ==
  ASSUME TypeInv, pc[Main] # "start", WakeCPU
  PROVE  Stays /\ pc'[Main] # "start" /\ \A t \in Thread \ {Idle} : pc'[t] = pc[t]
<1>0. pc \in [Thread -> Label] /\ Main \in Thread /\ Main # Idle
  BY ThreadsAssumption, Zenon DEF TypeInv, TypeOK, Thread
<1>1. on' = on /\ \A t \in Thread \ {Idle} : pc'[t] = pc[t]
  BY <1>0, Zenon DEF WakeCPU
<1> QED BY <1>0, <1>1, Zenon DEF Stays

\* The running thread goes on without a switch.
LEMMA GoesOn ==
  ASSUME TypeInv, TypeInv', Places, NEW t \in Thread, cur = t, pc[t] # "start",
         \/ \E label \in Label \ {"start"}, obj \in Sema \cup Conds \cup {NoThread}, next \in Label :
              Goto(t, label, obj, next)
         \/ UNCHANGED ctlVars,
         UNCHANGED <<status, ready_list, cur, idle_thread, new>>,
         waiters' = waiters
  PROVE  Places' /\ pc'[Main] # "start"
  BY RunningMoves, SteadyPlaces, Zenon DEF TypeInv

\* One turn of sema_down() on the semaphore the running thread waits on.
LEMMA DownPlaces ==
  ASSUME TypeInv, TypeInv', Places, NEW t \in Thread \ {Idle}, cur = t, pc[t] # "start",
         NEW s \in Sema, WaitsOn(t) = s,
         NEW label \in Label \ {"start"}, NEW obj \in Sema \cup Conds \cup {NoThread}, NEW next \in Label,
         sema_down(t, s, label, obj, next), UNCHANGED <<idle_thread, new>>
  PROVE  Places' /\ pc'[Main] # "start"
<1>0. TypeOK' /\ ControlOK' /\ pc[Main] # "start" /\ t \in Thread /\ t # Idle
  BY Zenon DEF TypeInv, ControlOK, Thread
<1>1. CASE value[s] = 0 /\ thread_block /\ waiters' = [waiters EXCEPT ![s] = Append(@, t)]
           /\ UNCHANGED <<value, ctlVars>>
  <2>1. Switched("BLOCKED")
    BY <1>0, <1>1, BlockSwitch, Zenon
  <2>2. Stays /\ pc'[Main] # "start"
    BY <1>0, <1>1, RunningMoves, Zenon
  <2>3. UNCHANGED <<pc, on>>
    BY <1>1, Zenon DEF ctlVars
  <2>4. waiters' = [waiters EXCEPT ![WaitsOn(cur)] = Append(@, cur)] /\ WaitsOn(cur) \in Sema /\ cur # Idle
    BY <1>0, <1>1, Zenon
  <2>5. "BLOCKED" \in {"BLOCKED", "READY", "DYING"} /\ "BLOCKED" # "DYING"
    BY Zenon
  <2> QED BY <1>0, <2>1, <2>2, <2>3, <2>4, <2>5, SwitchPlaces, Zenon
<1>2. CASE Goto(t, label, obj, next) /\ UNCHANGED <<waiters, status, ready_list, cur, thread_ticks>>
  BY <1>0, <1>2, GoesOn, Zenon
<1> QED BY <1>1, <1>2, Zenon DEF sema_down

LEMMA PlacesStep ==
  TypeInv /\ TypeInv' /\ Places /\ Booting /\ Next => Places' /\ pc'[Main] # "start"
<1> SUFFICES ASSUME TypeInv, TypeInv', Places, Booting, Next PROVE Places' /\ pc'[Main] # "start"
  BY Zenon
<1> DEFINE G == Places' /\ pc'[Main] # "start"
<1>0. /\ TypeOK /\ ControlOK /\ TypeOK' /\ ControlOK' /\ Main \in Thread /\ Idle \in Thread /\ Main # Idle
      /\ new \in [Thread -> Pages \cup {NoThread}] /\ Idle \notin Pages /\ Pages \subseteq Thread
      /\ NoThread \notin Thread /\ Semas \subseteq Sema /\ Locks \subseteq Sema /\ Thread \subseteq Sema
      /\ IdleStarted \in Sema /\ TidLock \in Locks /\ ret \in [Thread -> Label]
      /\ on \in [Thread -> Sema \cup Conds \cup {NoThread}]
      /\ cond_waiters \in [Conds -> Seq(Thread)] /\ LockOf \in [Conds -> Locks]
  BY ThreadsAssumption, SynchAssumption, Zenon DEF TypeInv, TypeOK, Thread, Sema
<1>l. /\ {"run", "down", "acquire", "own", "release", "cond_up", "cond_down", "broadcast", "tid_read",
           "tid_write", "unblock", "idle_up", "idle_block", "idle_halt"} \subseteq Label \ {"start"}
  BY Zenon DEF Label
<1>1. ASSUME NEW t \in Thread \ {Idle}, NEW s \in Semas, SemaDown(t, s) PROVE G
  <2>1. /\ cur = t /\ pc[t] # "start" /\ t \in Thread
        /\ UNCHANGED <<status, ready_list, cur, idle_thread, waiters, new>>
    BY Zenon, <1>1 DEF SemaDown, At, schedVars, objVars, tidVars
  <2>2. \/ \E label \in Label \ {"start"}, obj \in Sema \cup Conds \cup {NoThread}, next \in Label :
              Goto(t, label, obj, next)
        \/ UNCHANGED ctlVars
    BY <1>1, <1>0, <1>l, Zenon DEF SemaDown, Resume, ctlVars
  <2> QED BY <2>1, <2>2, GoesOn, Zenon
<1>2. ASSUME NEW t \in Thread \ {Idle}, NEW s \in Semas, SemaTryDown(t, s) PROVE G
  <2>1. /\ cur = t /\ pc[t] # "start" /\ t \in Thread
        /\ UNCHANGED <<status, ready_list, cur, idle_thread, waiters, new>>
    BY Zenon, <1>2 DEF SemaTryDown, At, schedVars, objVars, tidVars
  <2>2. \/ \E label \in Label \ {"start"}, obj \in Sema \cup Conds \cup {NoThread}, next \in Label :
              Goto(t, label, obj, next)
        \/ UNCHANGED ctlVars
    BY <1>2, <1>0, <1>l, Zenon DEF SemaTryDown, Resume, ctlVars
  <2> QED BY <2>1, <2>2, GoesOn, Zenon
<1>3. ASSUME NEW t \in Thread \ {Idle}, NEW l \in Locks \ {TidLock}, LockAcquire(t, l) PROVE G
  <2>1. /\ cur = t /\ pc[t] # "start" /\ t \in Thread
        /\ UNCHANGED <<status, ready_list, cur, idle_thread, waiters, new>>
    BY Zenon, <1>3 DEF LockAcquire, At, schedVars, objVars, tidVars
  <2>2. \/ \E label \in Label \ {"start"}, obj \in Sema \cup Conds \cup {NoThread}, next \in Label :
              Goto(t, label, obj, next)
        \/ UNCHANGED ctlVars
    BY <1>3, <1>0, <1>l, Zenon DEF LockAcquire, Resume, ctlVars
  <2> QED BY <2>1, <2>2, GoesOn, Zenon
<1>4. ASSUME NEW t \in Thread \ {Idle}, NEW l \in Locks \ {TidLock}, LockTryAcquire(t, l) PROVE G
  <2>1. /\ cur = t /\ pc[t] # "start" /\ t \in Thread
        /\ UNCHANGED <<status, ready_list, cur, idle_thread, waiters, new>>
    BY Zenon, <1>4 DEF LockTryAcquire, At, schedVars, objVars, tidVars
  <2>2. \/ \E label \in Label \ {"start"}, obj \in Sema \cup Conds \cup {NoThread}, next \in Label :
              Goto(t, label, obj, next)
        \/ UNCHANGED ctlVars
    BY <1>4, <1>0, <1>l, Zenon DEF LockTryAcquire, Resume, ctlVars
  <2> QED BY <2>1, <2>2, GoesOn, Zenon
<1>5. ASSUME NEW t \in Thread \ {Idle}, NEW l \in Locks \ {TidLock}, LockRelease(t, l) PROVE G
  <2>1. /\ cur = t /\ pc[t] # "start" /\ t \in Thread
        /\ UNCHANGED <<status, ready_list, cur, idle_thread, waiters, new>>
    BY Zenon, <1>5 DEF LockRelease, At, schedVars, objVars, tidVars
  <2>2. \/ \E label \in Label \ {"start"}, obj \in Sema \cup Conds \cup {NoThread}, next \in Label :
              Goto(t, label, obj, next)
        \/ UNCHANGED ctlVars
    BY <1>5, <1>0, <1>l, Zenon DEF LockRelease, Resume, ctlVars
  <2> QED BY <2>1, <2>2, GoesOn, Zenon
<1>6. ASSUME NEW t \in Thread \ {Idle}, NEW c \in Conds, CondWait(t, c) PROVE G
  <2>1. /\ cur = t /\ pc[t] # "start" /\ t \in Thread
        /\ UNCHANGED <<status, ready_list, cur, idle_thread, waiters, new>>
    BY Zenon, <1>6 DEF CondWait, At, schedVars, objVars, tidVars
  <2>2. \/ \E label \in Label \ {"start"}, obj \in Sema \cup Conds \cup {NoThread}, next \in Label :
              Goto(t, label, obj, next)
        \/ UNCHANGED ctlVars
    BY <1>6, <1>0, <1>l, Zenon DEF CondWait, Resume, ctlVars
  <2> QED BY <2>1, <2>2, GoesOn, Zenon
<1>7. ASSUME NEW t \in Thread \ {Idle}, NEW c \in Conds, CondBroadcast(t, c) PROVE G
  <2>1. /\ cur = t /\ pc[t] # "start" /\ t \in Thread
        /\ UNCHANGED <<status, ready_list, cur, idle_thread, waiters, new>>
    BY Zenon, <1>7 DEF CondBroadcast, At, schedVars, objVars, tidVars
  <2>2. \/ \E label \in Label \ {"start"}, obj \in Sema \cup Conds \cup {NoThread}, next \in Label :
              Goto(t, label, obj, next)
        \/ UNCHANGED ctlVars
    BY <1>7, <1>0, <1>l, Zenon DEF CondBroadcast, Resume, ctlVars
  <2> QED BY <2>1, <2>2, GoesOn, Zenon
<1>8. ASSUME NEW t \in Thread \ {Idle}, TidRead(t) PROVE G
  <2>1. /\ cur = t /\ pc[t] # "start" /\ t \in Thread
        /\ UNCHANGED <<status, ready_list, cur, idle_thread, waiters, new>>
    BY Zenon, <1>8 DEF TidRead, At, schedVars, objVars, tidVars
  <2>2. \/ \E label \in Label \ {"start"}, obj \in Sema \cup Conds \cup {NoThread}, next \in Label :
              Goto(t, label, obj, next)
        \/ UNCHANGED ctlVars
    BY <1>8, <1>0, <1>l, Zenon DEF TidRead, Resume, ctlVars
  <2> QED BY <2>1, <2>2, GoesOn, Zenon
<1>9. ASSUME NEW t \in Thread \ {Idle}, TidWrite(t) PROVE G
  <2>1. /\ cur = t /\ pc[t] # "start" /\ t \in Thread
        /\ UNCHANGED <<status, ready_list, cur, idle_thread, waiters, new>>
    BY Zenon, <1>9 DEF TidWrite, At, schedVars, objVars, tidVars
  <2>2. \/ \E label \in Label \ {"start"}, obj \in Sema \cup Conds \cup {NoThread}, next \in Label :
              Goto(t, label, obj, next)
        \/ UNCHANGED ctlVars
    BY <1>9, <1>0, <1>l, Zenon DEF TidWrite, Resume, ctlVars
  <2> QED BY <2>1, <2>2, GoesOn, Zenon
<1>10. ASSUME NEW t \in Thread \ {Idle}, LockOwn(t) PROVE G
  <2>1. /\ cur = t /\ pc[t] = "own" /\ pc[t] # "start" /\ t \in Thread
        /\ UNCHANGED <<status, ready_list, cur, idle_thread, waiters, new>>
    BY ZenonT(60), <1>10 DEF LockOwn, At, schedVars, tidVars
  <2>2. ret[t] \in Label \ {"start"}
    BY <1>0, <1>l, <2>1 DEF ControlOK
  <2>3. \E label \in Label \ {"start"}, obj \in Sema \cup Conds \cup {NoThread}, next \in Label :
           Goto(t, label, obj, next)
    BY <1>10, <1>l, <2>2, Zenon DEF LockOwn, Resume
  <2> QED BY <2>1, <2>3, GoesOn, Zenon
<1>11. ASSUME NEW t \in Thread \ {Idle}, SemaDownLoop(t) PROVE G
  <2>1. /\ cur = t /\ pc[t] = "down" /\ pc[t] # "start" /\ t \in Thread /\ UNCHANGED <<idle_thread, new>>
    BY Zenon, <1>11 DEF SemaDownLoop, At, tidVars
  <2>2. sema_down(t, on[t], ret[t], NoThread, "run")
    BY <1>11, Zenon DEF SemaDownLoop
  <2>3. WaitsOn(t) = on[t] /\ on[t] \in Sema
    BY Zenon, <1>0, <2>1, ThreadsAssumption, SynchAssumption DEF WaitsOn, ControlOK, Sema
  <2>4. ret[t] \in Label \ {"start"} /\ NoThread \in Sema \cup Conds \cup {NoThread} /\ "run" \in Label
    BY Zenon, <1>0, <1>l, <2>1 DEF ControlOK
  <2> QED BY <2>1, <2>2, <2>3, <2>4, DownPlaces, Zenon
<1>12. ASSUME NEW t \in Thread \ {Idle}, LockAcquireLoop(t) PROVE G
  <2>1. /\ cur = t /\ pc[t] = "acquire" /\ pc[t] # "start" /\ t \in Thread /\ UNCHANGED <<idle_thread, new>>
    BY Zenon, <1>12 DEF LockAcquireLoop, At, tidVars
  <2>2. sema_down(t, on[t], "own", on[t], ret[t])
    BY <1>12, Zenon DEF LockAcquireLoop
  <2>3. WaitsOn(t) = on[t] /\ on[t] \in Sema
    BY Zenon, <1>0, <2>1, ThreadsAssumption, SynchAssumption DEF WaitsOn, ControlOK, Sema
  <2>4. "own" \in Label \ {"start"} /\ on[t] \in Sema \cup Conds \cup {NoThread} /\ ret[t] \in Label
    BY Zenon, <1>0, <1>l, <2>1 DEF ControlOK
  <2> QED BY <2>1, <2>2, <2>3, <2>4, DownPlaces, ZenonT(60)
<1>13. ASSUME NEW t \in Thread \ {Idle}, CondWaitDown(t) PROVE G
  <2>1. /\ cur = t /\ pc[t] = "cond_down" /\ pc[t] # "start" /\ t \in Thread /\ UNCHANGED <<idle_thread, new>>
    BY Zenon, <1>13 DEF CondWaitDown, At, tidVars
  <2>2. sema_down(t, t, "acquire", LockOf[on[t]], "run")
    BY <1>13, Zenon DEF CondWaitDown
  <2>3. WaitsOn(t) = t /\ t \in Sema
    BY Zenon, <1>0, <2>1, ThreadsAssumption, SynchAssumption DEF WaitsOn, ControlOK, Sema
  <2>4. "acquire" \in Label \ {"start"} /\ LockOf[on[t]] \in Sema \cup Conds \cup {NoThread} /\ "run" \in Label
    BY Zenon, <1>0, <1>l, <2>1 DEF ControlOK
  <2> QED BY <2>1, <2>2, <2>3, <2>4, DownPlaces, ZenonT(60)
<1>14. ASSUME NEW t \in Thread \ {Idle}, NEW s \in Semas, SemaUp(t, s) PROVE G
  <2>1. /\ cur = t /\ pc[t] = "run" /\ pc[t] # "start" /\ t \in Thread
        /\ UNCHANGED <<cur, idle_thread, new>>
    BY Zenon, <1>14 DEF SemaUp, At, tidVars
  <2>2. sema_up(s)
    BY <1>14, ZenonT(60) DEF SemaUp
  <2>3. s \in Sema
    BY Zenon, <1>14, <1>0, <2>1 DEF ControlOK
  <2>4. \/ \E label \in Label \ {"start"}, obj \in Sema \cup Conds \cup {NoThread}, next \in Label :
              Goto(t, label, obj, next)
        \/ UNCHANGED ctlVars
    BY <1>14, <1>0, <1>l, Zenon DEF SemaUp
  <2>5. Stays /\ pc'[Main] # "start"
    BY <2>1, <2>4, RunningMoves, Zenon
  <2> QED BY <1>0, <2>1, <2>2, <2>3, <2>5, UpPlaces, Zenon
<1>15. ASSUME NEW t \in Thread \ {Idle}, LockReleaseUp(t) PROVE G
  <2>1. /\ cur = t /\ pc[t] = "release" /\ pc[t] # "start" /\ t \in Thread
        /\ UNCHANGED <<cur, idle_thread, new>>
    BY Zenon, <1>15 DEF LockReleaseUp, At, tidVars
  <2>2. sema_up(on[t])
    BY <1>15, ZenonT(60) DEF LockReleaseUp
  <2>3. on[t] \in Sema
    BY Zenon, <1>15, <1>0, <2>1 DEF ControlOK
  <2>4. \/ \E label \in Label \ {"start"}, obj \in Sema \cup Conds \cup {NoThread}, next \in Label :
              Goto(t, label, obj, next)
        \/ UNCHANGED ctlVars
    <3>1. ret[t] \in Label \ {"start"}
      BY Zenon, <1>0, <1>l, <2>1 DEF ControlOK
    <3> QED BY <1>15, <1>l, <3>1, ZenonT(60) DEF LockReleaseUp, Resume
  <2>5. Stays /\ pc'[Main] # "start"
    BY <2>1, <2>4, RunningMoves, Zenon
  <2> QED BY <1>0, <2>1, <2>2, <2>3, <2>5, UpPlaces, ZenonT(60)
<1>16. ASSUME NEW t \in Thread \ {Idle}, CondWaitUp(t) PROVE G
  <2>1. /\ cur = t /\ pc[t] = "cond_up" /\ pc[t] # "start" /\ t \in Thread
        /\ UNCHANGED <<cur, idle_thread, new>>
    BY Zenon, <1>16 DEF CondWaitUp, At, tidVars
  <2>2. sema_up(LockOf[on[t]])
    BY <1>16, ZenonT(60) DEF CondWaitUp
  <2>3. LockOf[on[t]] \in Sema
    BY <1>16, <1>0, <2>1 DEF ControlOK
  <2>4. \/ \E label \in Label \ {"start"}, obj \in Sema \cup Conds \cup {NoThread}, next \in Label :
              Goto(t, label, obj, next)
        \/ UNCHANGED ctlVars
    BY <1>16, <1>0, <1>l, Zenon DEF CondWaitUp
  <2>5. Stays /\ pc'[Main] # "start"
    BY <2>1, <2>4, RunningMoves, Zenon
  <2> QED BY <1>0, <2>1, <2>2, <2>3, <2>5, UpPlaces, ZenonT(60)
<1>17. ASSUME NEW t \in Thread \ {Idle}, NEW c \in Conds, CondSignal(t, c) PROVE G
  <2>1. /\ cur = t /\ pc[t] = "run" /\ pc[t] # "start" /\ t \in Thread
        /\ UNCHANGED <<cur, idle_thread, new>>
    BY Zenon, <1>17 DEF CondSignal, At, tidVars
  <2>2. sema_up(Head(cond_waiters[c]))
    BY <1>17, Zenon DEF CondSignal, signal_first
  <2>3. Head(cond_waiters[c]) \in Sema
    <3>1. Head(cond_waiters[c]) \in Thread
      BY <1>17, <1>0, PopFront, Zenon DEF CondSignal
    <3> QED BY Zenon, <1>0, <3>1
  <2>4. \/ \E label \in Label \ {"start"}, obj \in Sema \cup Conds \cup {NoThread}, next \in Label :
              Goto(t, label, obj, next)
        \/ UNCHANGED ctlVars
    BY <1>17, <1>0, <1>l, Zenon DEF CondSignal
  <2>5. Stays /\ pc'[Main] # "start"
    BY <2>1, <2>4, RunningMoves, Zenon
  <2> QED BY <1>0, <2>1, <2>2, <2>3, <2>5, UpPlaces, Zenon
<1>18. ASSUME NEW t \in Thread \ {Idle}, CondBroadcastLoop(t) PROVE G
  <2>1. cur = t /\ pc[t] = "broadcast" /\ pc[t] # "start" /\ t \in Thread /\ on[t] \in Conds
    BY Zenon, <1>18, <1>0 DEF CondBroadcastLoop, At, ControlOK
  <2>2. CASE cond_waiters[on[t]] # <<>> /\ signal_first(on[t])
             /\ UNCHANGED <<cur, idle_thread, ctlVars, tidVars>>
    <3>1. Head(cond_waiters[on[t]]) \in Thread /\ sema_up(Head(cond_waiters[on[t]]))
      BY <1>0, <2>1, <2>2, PopFront, Zenon DEF signal_first
    <3>2. Stays /\ pc'[Main] # "start" /\ UNCHANGED <<cur, idle_thread, new>>
      BY <2>1, <2>2, RunningMoves, Zenon DEF tidVars
    <3>3. Head(cond_waiters[on[t]]) \in Sema
      BY Zenon, <1>0, <3>1
    <3> QED BY <1>0, <3>1, <3>2, <3>3, UpPlaces, Zenon
  <2>3. CASE Resume(t, "run") /\ UNCHANGED <<schedVars, objVars, tidVars>>
    <3>1. UNCHANGED <<status, ready_list, cur, idle_thread, waiters, new>>
      BY Zenon, <2>3 DEF schedVars, objVars, tidVars
    <3>2. \E label \in Label \ {"start"}, obj \in Sema \cup Conds \cup {NoThread}, next \in Label :
             Goto(t, label, obj, next)
      BY <1>l, <2>3, Zenon DEF Resume
    <3> QED BY <2>1, <3>1, <3>2, GoesOn, Zenon
  <2> QED BY <1>18, <2>2, <2>3, ZenonT(60) DEF CondBroadcastLoop
<1>19. ASSUME NEW t \in Thread \ {Idle}, NEW page \in Pages, ThreadCreate(t, page) PROVE G
  <2>1. cur = t /\ pc[t] # "start" /\ t \in Thread
    BY Zenon, <1>19 DEF ThreadCreate, At
  <2>2. \E label \in Label \ {"start"}, obj \in Sema \cup Conds \cup {NoThread}, next \in Label :
           Goto(t, label, obj, next)
    BY <1>19, <1>0, <1>l, Zenon DEF ThreadCreate
  <2> QED BY <1>19, <1>0, <2>1, <2>2, RunningMoves, CreatePlaces, Zenon
<1>20. ASSUME NEW t \in Thread \ {Idle}, ThreadCreated(t) PROVE G
  <2>1. cur = t /\ pc[t] = "unblock" /\ pc[t] # "start" /\ t \in Thread
    BY Zenon, <1>20 DEF ThreadCreated, At
  <2>2. /\ thread_unblock(new[t]) /\ new' = [new EXCEPT ![t] = NoThread] /\ Resume(t, "run")
        /\ UNCHANGED <<cur, idle_thread, waiters>>
    BY <1>20, Zenon DEF ThreadCreated, objVars
  <2>3. \E label \in Label \ {"start"}, obj \in Sema \cup Conds \cup {NoThread}, next \in Label :
           Goto(t, label, obj, next)
    BY <1>l, <2>2, Zenon DEF Resume
  <2>4. Stays /\ pc'[Main] # "start"
    BY <2>1, <2>3, RunningMoves, ZenonT(60)
  <2>5. new[t] # NoThread
    BY <1>0, <2>1 DEF ControlOK
  <2>6. new[t] \in Pages /\ new[t] \in Thread /\ new[t] # Idle /\ Newborn(new[t])
    BY <1>0, <2>1, <2>5, Zenon DEF Newborn
  <2>7. status[new[t]] = "BLOCKED" /\ pc[new[t]] = "run"
    BY <2>6, PlacesParts, Zenon DEF Births
  <2>8. WaitsOn(new[t]) \notin Sema
    BY <1>0, <2>6, <2>7, WaitsOnNothing, Zenon
  <2>9. new[t] # idle_thread
    <3>1. idle_thread \in {NoThread, Idle}
      BY <1>0, Zenon DEF TypeOK, SchedTypeOK
    <3> QED BY <2>5, <2>6, <3>1, Zenon
  <2>10. \A u \in Thread : new'[u] = IF u = t THEN NoThread ELSE new[u]
    BY <1>0, <2>1, <2>2, Zenon
  <2>11. \A u \in Thread : new'[u] = new[u] \/ (new[u] = new[t] /\ new'[u] = NoThread)
    BY <2>10, Zenon
  <2>12. PICK x \in Thread : x = new[t]
    BY <2>6, Zenon
  <2>13. ~Newborn(x)'
    <3>1. \A u \in Thread : new'[u] # x
      <4>1. \A u \in Thread : new[u] # NoThread /\ new[u] = new[t] => t = u
        BY <2>1, PlacesParts, Zenon DEF Births
      <4> QED BY <2>5, <2>10, <2>12, <4>1, Zenon
    <3> QED BY <3>1, Zenon DEF Newborn
  <2> QED BY <1>0, <2>2, <2>4, <2>7, <2>8, <2>9, <2>11, <2>12, <2>13, UnblockPlaces, ZenonT(60)
<1>21. ASSUME NEW t \in Thread \ {Idle}, ThreadYield(t) PROVE G
  <2>1. /\ cur = t /\ pc[t] # "start" /\ t \in Thread /\ thread_yield
        /\ UNCHANGED <<idle_thread, new, waiters, ctlVars>>
    BY Zenon, <1>21 DEF ThreadYield, At, objVars, tidVars
  <2>2. Switched("READY") /\ Stays /\ pc'[Main] # "start"
    BY <2>1, YieldSwitch, RunningMoves, Zenon
  <2>3. "READY" \in {"BLOCKED", "READY", "DYING"} /\ "READY" # "BLOCKED" /\ "READY" # "DYING"
    BY Zenon
  <2> QED BY <1>0, <2>1, <2>2, <2>3, SwitchPlaces, Zenon
<1>22. ASSUME NEW t \in Thread \ {Idle}, ThreadExit(t) PROVE G
  <2>1. /\ cur = t /\ pc[t] = "run" /\ pc[t] # "start" /\ t \in Thread /\ t # Idle /\ thread_die
        /\ UNCHANGED <<idle_thread, new, waiters, ctlVars>>
    BY Zenon, <1>22 DEF ThreadExit, At, objVars, tidVars
  <2>2. Stays /\ pc'[Main] # "start" /\ pc' = pc
    BY <2>1, RunningMoves, Zenon DEF ctlVars
  <2>3. Switched("DYING")
    BY <2>1, <2>2, DieSwitch, Zenon
  <2>4. "DYING" \in {"BLOCKED", "READY", "DYING"} /\ "DYING" # "BLOCKED"
    BY Zenon
  <2> QED BY <1>0, <2>1, <2>2, <2>3, <2>4, SwitchPlaces, Zenon
<1>23. CASE ThreadStart
  <2>1. /\ cur = Main /\ pc[Main] = "start" /\ thread_unblock(Idle) /\ Goto(Main, "down", IdleStarted, "run")
        /\ UNCHANGED <<cur, idle_thread, waiters, new>>
    BY <1>23, Zenon DEF ThreadStart, At, objVars
  <2>2. pc'[Main] = "down" /\ \A u \in Thread \ {Main} : pc'[u] = pc[u] /\ on'[u] = on[u]
    BY <1>0, <2>1, GotoMoves, Zenon
  <2>3. Stays /\ pc'[Main] # "start"
    <3>1. Stays
      BY <2>1, <2>2, Zenon DEF Stays
    <3> QED BY <2>2, <3>1
  <2>4. status[Idle] = "FREE" /\ idle_thread = NoThread
    BY <2>1, Zenon DEF Booting
  <2>5. WaitsOn(Idle) \notin Sema /\ Idle # idle_thread
    BY <1>0, <2>4, WaitsOnNothing, Zenon
  <2>6. ~Newborn(Idle)'
    BY <1>0, <2>1, ZenonT(60) DEF Newborn
  <2>7. \A u \in Thread : new'[u] = new[u]
    BY <2>1, Zenon
  <2> QED BY <1>0, <2>1, <2>3, <2>4, <2>5, <2>6, <2>7, UnblockPlaces, Zenon
<1>24. CASE IdleInit
  <2>1. /\ cur = Idle /\ pc[Idle] # "start" /\ Resume(Idle, "idle_up")
        /\ UNCHANGED <<status, ready_list, cur, waiters, new>> /\ idle_thread' = cur
    BY <1>24 DEF IdleInit, At, objVars, tidVars
  <2>2. \E label \in Label \ {"start"}, obj \in Sema \cup Conds \cup {NoThread}, next \in Label :
           Goto(Idle, label, obj, next)
    BY <1>l, <2>1, Zenon DEF Resume
  <2>3. Stays /\ pc'[Main] # "start"
    BY <1>0, <2>1, <2>2, RunningMoves, Zenon
  <2>4. idle_thread' = idle_thread \/ (idle_thread = NoThread /\ idle_thread' = cur)
    BY <1>0, <2>1, Zenon DEF TypeOK, SchedTypeOK
  <2> QED BY <1>0, <2>1, <2>3, <2>4, SteadyPlaces, Zenon
<1>25. CASE IdleUp
  <2>1. /\ cur = Idle /\ pc[Idle] # "start" /\ UNCHANGED <<cur, idle_thread, new>>
    BY <1>25 DEF IdleUp, At, tidVars
  <2>2. sema_up(IdleStarted) /\ Resume(Idle, "idle_block")
    BY <1>25, Zenon DEF IdleUp
  <2>3. \E label \in Label \ {"start"}, obj \in Sema \cup Conds \cup {NoThread}, next \in Label :
           Goto(Idle, label, obj, next)
    BY <1>l, <2>2, Zenon DEF Resume
  <2>4. Stays /\ pc'[Main] # "start"
    BY <1>0, <2>1, <2>3, RunningMoves, Zenon
  <2> QED BY <1>0, <2>1, <2>2, <2>4, UpPlaces, Zenon
<1>26. CASE IdleBlock
  <2>1. /\ cur = Idle /\ pc[Idle] = "idle_block" /\ pc[Idle] # "start" /\ thread_block
        /\ Resume(Idle, "idle_halt") /\ UNCHANGED <<idle_thread, new, waiters>>
    BY Zenon, <1>26 DEF IdleBlock, At, objVars, tidVars
  <2>2. \E label \in Label \ {"start"}, obj \in Sema \cup Conds \cup {NoThread}, next \in Label :
           Goto(Idle, label, obj, next)
    BY <1>l, <2>1, Zenon DEF Resume
  <2>3. Stays /\ pc'[Main] # "start"
    BY <1>0, <2>1, <2>2, RunningMoves, ZenonT(60)
  <2>4. idle_thread # NoThread /\ pc[Main] # "start"
    BY Zenon, <1>0, <2>1 DEF TypeInv, BootOK, ControlOK
  <2>5. Switched("BLOCKED")
    BY <2>1, <2>4, BlockSwitch, Zenon
  <2>6. "BLOCKED" \in {"BLOCKED", "READY", "DYING"} /\ "BLOCKED" # "DYING"
    BY Zenon
  <2> QED BY <1>0, <2>1, <2>3, <2>5, <2>6, SwitchPlaces, Zenon
<1>27. CASE TimerInterrupt
  <2>1. Stays /\ pc'[Main] # "start" /\ UNCHANGED <<idle_thread, new, waiters>>
    BY <1>27, WakeMoves, Zenon DEF TimerInterrupt, objVars, tidVars
  <2>2. CASE thread_yield
    <3>1. Switched("READY")
      BY <2>2, YieldSwitch, Zenon
    <3>2. "READY" \in {"BLOCKED", "READY", "DYING"} /\ "READY" # "BLOCKED" /\ "READY" # "DYING"
      OBVIOUS
    <3> QED BY <1>0, <2>1, <3>1, <3>2, SwitchPlaces, Zenon
  <2>3. CASE UNCHANGED <<status, ready_list, cur>>
    BY <1>0, <2>1, <2>3, SteadyPlaces, Zenon
  <2> QED BY <1>27, <2>2, <2>3, Zenon DEF TimerInterrupt, thread_tick
<1>28. ASSUME NEW s \in Semas, DeviceInterrupt(s) PROVE G
  <2>1. Stays /\ pc'[Main] # "start" /\ UNCHANGED <<cur, idle_thread, new>> /\ sema_up(s) /\ s \in Sema
    BY <1>28, <1>0, WakeMoves, Zenon DEF DeviceInterrupt, tidVars
  <2> QED BY <1>0, <2>1, UpPlaces, Zenon
<1>c. ASSUME NEW t \in Thread \ {Idle}, Call(t) PROVE G
  BY <1>c, <1>1, <1>2, <1>3, <1>4, <1>5, <1>6, <1>7, <1>14, <1>17, <1>19, <1>21, <1>22, ZenonT(60) DEF Call
<1>d. ASSUME NEW t \in Thread \ {Idle}, Continue(t) PROVE G
  BY <1>d, <1>8, <1>9, <1>10, <1>11, <1>12, <1>13, <1>15, <1>16, <1>18, <1>20, Zenon DEF Continue
<1> QED BY <1>23, <1>24, <1>25, <1>26, <1>27, <1>28, <1>c, <1>d, Zenon DEF Next, IdleStep

\* Places with what else its steps rest on.
PlacesInv == TypeInv /\ Places /\ Booting

LEMMA PlacesInvStep == PlacesInv /\ [Next]_vars => PlacesInv'
<1> SUFFICES ASSUME PlacesInv, [Next]_vars PROVE PlacesInv'
  OBVIOUS
<1>1. TypeInv /\ TypeInv' /\ Places /\ Booting
  BY TypeInvStep, Zenon DEF PlacesInv
<1>2. CASE Next
  <2>1. Places' /\ pc'[Main] # "start"
    BY <1>1, <1>2, PlacesStep, Zenon
  <2> QED BY <1>1, <2>1, Zenon DEF PlacesInv, Booting
<1>3. CASE UNCHANGED vars
  <2>1. UNCHANGED <<status, ready_list, cur, idle_thread, waiters, new, pc, on>>
    BY <1>3, Zenon DEF vars, schedVars, objVars, ctlVars, tidVars
  <2>2. Places'
    BY <1>1, <2>1, SteadyPlaces, Zenon DEF TypeInv, Stays
  <2>3. Booting'
    BY <1>1, <2>1, Zenon DEF Booting
  <2> QED BY <1>1, <2>2, <2>3, Zenon DEF PlacesInv
<1> QED BY <1>2, <1>3, Zenon

\* Whatever the threads and the interrupts do, every thread is in exactly one
\* place: running, on the run queue, on the list of the one semaphore it is
\* downing, or on none.
THEOREM OnePlace == Spec => []QueuesMatchStatus
<1>1. Init => PlacesInv
  BY TypeInvInit, PlacesInit, Zenon DEF PlacesInv
<1>2. PlacesInv => QueuesMatchStatus
  BY Zenon DEF PlacesInv, Places
<1> QED BY <1>1, <1>2, PlacesInvStep, PTL DEF Spec
-----------------------------------------------------------------------------
(* Thread identifiers *)

\* Every tid was taken from the counter before its present value, except the
\* one that allocate_tid() has loaded and not yet counted, which is that
\* value; and every tid is one thread's only, alive or dead.
TidInv ==
  /\ next_tid > 0
  /\ \A t \in Thread : tid[t] < next_tid \/ \E u \in Thread : pc[u] = "tid_write" /\ new[u] = t
  /\ \A t \in Thread : pc[t] = "tid_write" => tid[new[t]] = next_tid
  /\ \A t, u \in Thread : t # u /\ tid[t] # 0 => tid[t] # tid[u]

\* A step of thread t that is no part of allocate_tid().
LEMMA TidKept ==
  ASSUME TidInv, NEW t \in Thread, pc[t] # "tid_write", pc'[t] # "tid_write",
         \A u \in Thread \ {t} : pc'[u] = pc[u] /\ new'[u] = new[u], UNCHANGED <<tid, next_tid>>
  PROVE  TidInv'
<1>1. \A u \in Thread : pc'[u] = "tid_write" <=> pc[u] = "tid_write"
  BY Zenon
<1>2. \A u \in Thread : pc[u] = "tid_write" => new'[u] = new[u]
  BY Zenon
<1>3. ASSUME NEW x \in Thread
      PROVE  tid'[x] < next_tid' \/ \E u \in Thread : pc'[u] = "tid_write" /\ new'[u] = x
  <2>1. tid[x] < next_tid \/ \E u \in Thread : pc[u] = "tid_write" /\ new[u] = x
    BY Zenon DEF TidInv
  <2> QED BY <1>1, <1>2, <2>1, Zenon
<1>4. \A x \in Thread : pc'[x] = "tid_write" => tid'[new'[x]] = next_tid'
  BY <1>1, <1>2, ZenonT(60) DEF TidInv
<1> QED BY <1>3, <1>4, Zenon DEF TidInv

\* A primitive's step that keeps the thread out of allocate_tid()'s store.
LEMMA TidMoves ==
  ASSUME TidInv, TypeOK, NEW t \in Thread, pc[t] # "tid_write", UNCHANGED tidVars,
         \/ \E label \in Label \ {"tid_write"}, obj \in Sema \cup Conds \cup {NoThread}, next \in Label :
              Goto(t, label, obj, next)
         \/ UNCHANGED ctlVars
  PROVE  TidInv'
<1>1. ASSUME NEW label \in Label \ {"tid_write"}, NEW obj, NEW next, Goto(t, label, obj, next)
      PROVE  pc'[t] # "tid_write" /\ \A u \in Thread \ {t} : pc'[u] = pc[u]
  BY <1>1, GotoMoves, Zenon
<1>2. CASE UNCHANGED ctlVars
  BY <1>2, TidKept, Zenon DEF ctlVars, tidVars
<1> QED BY <1>1, <1>2, TidKept, Zenon DEF tidVars

LEMMA TidStep ==
  TypeInv /\ Places /\ Booting /\ HolderOK /\ TidInv /\ Next => TidInv'
<1> SUFFICES ASSUME TypeInv, Places, Booting, HolderOK, TidInv, Next PROVE TidInv'
  BY Zenon
<1>0. /\ TypeOK /\ ControlOK /\ Main \in Thread /\ Idle \in Thread /\ Main # Idle
      /\ new \in [Thread -> Pages \cup {NoThread}] /\ Idle \notin Pages /\ Pages \subseteq Thread
      /\ NoThread \notin Thread /\ Semas \subseteq Sema /\ Locks \subseteq Sema /\ TidLock \in Locks
      /\ IdleStarted \in Sema /\ ret \in [Thread -> Label]
      /\ on \in [Thread -> Sema \cup Conds \cup {NoThread}] /\ LockOf \in [Conds -> Locks]
      /\ tid \in [Thread -> Nat] /\ next_tid \in Nat
  BY ThreadsAssumption, SynchAssumption, Zenon DEF TypeInv, TypeOK, Thread, Sema
<1>l. /\ {"run", "down", "acquire", "own", "release", "cond_up", "cond_down", "broadcast", "tid_read",
           "unblock", "idle_up", "idle_block", "idle_halt"} \subseteq Label \ {"tid_write"}
  BY Zenon DEF Label
\* One thread at a time is in allocate_tid().
<1>x. ASSUME NEW t \in Thread, NEW u \in Thread,
             pc[t] \in {"tid_read", "tid_write"}, pc[u] \in {"tid_read", "tid_write"}
      PROVE  t = u
  BY <1>x, ZenonT(60) DEF HolderOK, HolderOKFor
<1> DEFINE Moves(t) == \/ \E label \in Label \ {"tid_write"}, obj \in Sema \cup Conds \cup {NoThread},
                            next \in Label : Goto(t, label, obj, next)
                       \/ UNCHANGED ctlVars
<1>1. ASSUME NEW t \in Thread \ {Idle}, NEW s \in Semas, SemaDown(t, s) PROVE TidInv'
  <2>1. t \in Thread /\ pc[t] # "tid_write" /\ UNCHANGED tidVars
    BY Zenon, <1>1 DEF SemaDown, At
  <2>2. Moves(t)
    BY <1>1, <1>0, <1>l, Zenon DEF SemaDown, Resume
  <2> QED BY <1>0, <2>1, <2>2, TidMoves, Zenon
<1>2. ASSUME NEW t \in Thread \ {Idle}, NEW s \in Semas, SemaTryDown(t, s) PROVE TidInv'
  <2>1. t \in Thread /\ pc[t] # "tid_write" /\ UNCHANGED tidVars
    BY Zenon, <1>2 DEF SemaTryDown, At
  <2>2. Moves(t)
    BY <1>2, <1>0, <1>l, Zenon DEF SemaTryDown, Resume
  <2> QED BY <1>0, <2>1, <2>2, TidMoves, Zenon
<1>3. ASSUME NEW t \in Thread \ {Idle}, NEW s \in Semas, SemaUp(t, s) PROVE TidInv'
  <2>1. t \in Thread /\ pc[t] # "tid_write" /\ UNCHANGED tidVars
    BY Zenon, <1>3 DEF SemaUp, At
  <2>2. Moves(t)
    BY <1>3, <1>0, <1>l, Zenon DEF SemaUp, Resume
  <2> QED BY <1>0, <2>1, <2>2, TidMoves, Zenon
<1>4. ASSUME NEW t \in Thread \ {Idle}, NEW l \in Locks \ {TidLock}, LockAcquire(t, l) PROVE TidInv'
  <2>1. t \in Thread /\ pc[t] # "tid_write" /\ UNCHANGED tidVars
    BY Zenon, <1>4 DEF LockAcquire, At
  <2>2. Moves(t)
    BY <1>4, <1>0, <1>l, Zenon DEF LockAcquire, Resume
  <2> QED BY <1>0, <2>1, <2>2, TidMoves, Zenon
<1>5. ASSUME NEW t \in Thread \ {Idle}, NEW l \in Locks \ {TidLock}, LockTryAcquire(t, l) PROVE TidInv'
  <2>1. t \in Thread /\ pc[t] # "tid_write" /\ UNCHANGED tidVars
    BY Zenon, <1>5 DEF LockTryAcquire, At
  <2>2. Moves(t)
    BY <1>5, <1>0, <1>l, Zenon DEF LockTryAcquire, Resume
  <2> QED BY <1>0, <2>1, <2>2, TidMoves, ZenonT(60)
<1>6. ASSUME NEW t \in Thread \ {Idle}, NEW l \in Locks \ {TidLock}, LockRelease(t, l) PROVE TidInv'
  <2>1. t \in Thread /\ pc[t] # "tid_write" /\ UNCHANGED tidVars
    BY Zenon, <1>6 DEF LockRelease, At
  <2>2. Moves(t)
    BY <1>6, <1>0, <1>l, Zenon DEF LockRelease, Resume
  <2> QED BY <1>0, <2>1, <2>2, TidMoves, Zenon
<1>7. ASSUME NEW t \in Thread \ {Idle}, NEW c \in Conds, CondWait(t, c) PROVE TidInv'
  <2>1. t \in Thread /\ pc[t] # "tid_write" /\ UNCHANGED tidVars
    BY Zenon, <1>7 DEF CondWait, At
  <2>2. Moves(t)
    BY <1>7, <1>0, <1>l, Zenon DEF CondWait, Resume
  <2> QED BY <1>0, <2>1, <2>2, TidMoves, Zenon
<1>8. ASSUME NEW t \in Thread \ {Idle}, NEW c \in Conds, CondSignal(t, c) PROVE TidInv'
  <2>1. t \in Thread /\ pc[t] # "tid_write" /\ UNCHANGED tidVars
    BY Zenon, <1>8 DEF CondSignal, At
  <2>2. Moves(t)
    BY <1>8, <1>0, <1>l, Zenon DEF CondSignal, Resume
  <2> QED BY <1>0, <2>1, <2>2, TidMoves, ZenonT(60)
<1>9. ASSUME NEW t \in Thread \ {Idle}, NEW c \in Conds, CondBroadcast(t, c) PROVE TidInv'
  <2>1. t \in Thread /\ pc[t] # "tid_write" /\ UNCHANGED tidVars
    BY Zenon, <1>9 DEF CondBroadcast, At
  <2>2. Moves(t)
    BY <1>9, <1>0, <1>l, Zenon DEF CondBroadcast, Resume
  <2> QED BY <1>0, <2>1, <2>2, TidMoves, Zenon
<1>10. ASSUME NEW t \in Thread \ {Idle}, ThreadYield(t) PROVE TidInv'
  <2>1. t \in Thread /\ pc[t] # "tid_write" /\ UNCHANGED tidVars
    BY Zenon, <1>10 DEF ThreadYield, At
  <2>2. Moves(t)
    BY <1>10, <1>0, <1>l, Zenon DEF ThreadYield, Resume
  <2> QED BY <1>0, <2>1, <2>2, TidMoves, Zenon
<1>11. ASSUME NEW t \in Thread \ {Idle}, ThreadExit(t) PROVE TidInv'
  <2>1. t \in Thread /\ pc[t] # "tid_write" /\ UNCHANGED tidVars
    BY Zenon, <1>11 DEF ThreadExit, At
  <2>2. Moves(t)
    BY <1>11, <1>0, <1>l, Zenon DEF ThreadExit, Resume
  <2> QED BY <1>0, <2>1, <2>2, TidMoves, Zenon
<1>12. ASSUME NEW t \in Thread \ {Idle}, CondBroadcastLoop(t) PROVE TidInv'
  <2>1. t \in Thread /\ pc[t] # "tid_write" /\ UNCHANGED tidVars
    BY Zenon, <1>12 DEF CondBroadcastLoop, At
  <2>2. Moves(t)
    BY <1>12, <1>0, <1>l, Zenon DEF CondBroadcastLoop, Resume
  <2> QED BY <1>0, <2>1, <2>2, TidMoves, Zenon
<1>13. ASSUME NEW t \in Thread \ {Idle}, CondWaitUp(t) PROVE TidInv'
  <2>1. t \in Thread /\ pc[t] # "tid_write" /\ UNCHANGED tidVars
    BY Zenon, <1>13 DEF CondWaitUp, At
  <2>2. Moves(t)
    BY <1>13, <1>0, <1>l, <2>1, Zenon DEF CondWaitUp
  <2> QED BY <1>0, <2>1, <2>2, TidMoves, ZenonT(60)
<1>14. ASSUME NEW t \in Thread \ {Idle}, LockOwn(t) PROVE TidInv'
  <2>1. t \in Thread /\ pc[t] = "own" /\ pc[t] # "tid_write" /\ UNCHANGED tidVars
    BY Zenon, <1>14 DEF LockOwn, At
  <2>2. ret[t] \in Label \ {"tid_write"}
    BY Zenon, <1>0, <1>l, <2>1 DEF ControlOK
  <2>3. Moves(t)
    BY <1>14, <1>l, <2>2, Zenon DEF LockOwn, Resume
  <2> QED BY <1>0, <2>1, <2>3, TidMoves, ZenonT(60)
<1>15. ASSUME NEW t \in Thread \ {Idle}, LockReleaseUp(t) PROVE TidInv'
  <2>1. t \in Thread /\ pc[t] = "release" /\ pc[t] # "tid_write" /\ UNCHANGED tidVars
    BY Zenon, <1>15 DEF LockReleaseUp, At
  <2>2. ret[t] \in Label \ {"tid_write"}
    BY Zenon, <1>0, <1>l, <2>1 DEF ControlOK
  <2>3. Moves(t)
    BY <1>15, <1>l, <2>2, Zenon DEF LockReleaseUp, Resume
  <2> QED BY <1>0, <2>1, <2>3, TidMoves, ZenonT(60)
<1>16. ASSUME NEW t \in Thread \ {Idle}, SemaDownLoop(t) PROVE TidInv'
  <2>1. t \in Thread /\ pc[t] = "down" /\ pc[t] # "tid_write" /\ UNCHANGED tidVars
    BY Zenon, <1>16 DEF SemaDownLoop, At
  <2>2. ret[t] \in Label \ {"tid_write"} /\ NoThread \in Sema \cup Conds \cup {NoThread} /\ "run" \in Label
    BY Zenon, <1>0, <1>l, <2>1 DEF ControlOK
  <2>3. Moves(t)
    BY <1>16, <2>2, Zenon DEF SemaDownLoop, sema_down
  <2> QED BY <1>0, <2>1, <2>3, TidMoves, Zenon
<1>17. ASSUME NEW t \in Thread \ {Idle}, LockAcquireLoop(t) PROVE TidInv'
  <2>1. t \in Thread /\ pc[t] = "acquire" /\ pc[t] # "tid_write" /\ UNCHANGED tidVars
    BY Zenon, <1>17 DEF LockAcquireLoop, At
  <2>2. "own" \in Label \ {"tid_write"} /\ on[t] \in Sema \cup Conds \cup {NoThread} /\ ret[t] \in Label
    BY Zenon, <1>0, <1>l, <2>1 DEF ControlOK
  <2>3. Moves(t)
    BY <1>17, <2>2, Zenon DEF LockAcquireLoop, sema_down
  <2> QED BY <1>0, <2>1, <2>3, TidMoves, ZenonT(60)
<1>18. ASSUME NEW t \in Thread \ {Idle}, CondWaitDown(t) PROVE TidInv'
  <2>1. t \in Thread /\ pc[t] = "cond_down" /\ pc[t] # "tid_write" /\ UNCHANGED tidVars
    BY Zenon, <1>18 DEF CondWaitDown, At
  <2>2. "acquire" \in Label \ {"tid_write"} /\ LockOf[on[t]] \in Sema \cup Conds \cup {NoThread} /\ "run" \in Label
    BY Zenon, <1>0, <1>l, <2>1 DEF ControlOK
  <2>3. Moves(t)
    BY <1>18, <2>2, Zenon DEF CondWaitDown, sema_down
  <2> QED BY <1>0, <2>1, <2>3, TidMoves, Zenon
<1>19. ASSUME NEW t \in Thread \ {Idle}, ThreadCreated(t) PROVE TidInv'
  <2>1. t \in Thread /\ pc[t] # "tid_write" /\ UNCHANGED <<tid, next_tid>>
    BY Zenon, <1>19 DEF ThreadCreated, At
  <2>2. pc'[t] = "run" /\ \A u \in Thread \ {t} : pc'[u] = pc[u]
    BY <1>19, <1>0, <2>1, GotoMoves, Zenon DEF ThreadCreated, Resume
  <2>3. \A u \in Thread \ {t} : new'[u] = new[u]
    BY <1>19, <1>0, ZenonT(60) DEF ThreadCreated
  <2>4. pc'[t] # "tid_write"
    BY Zenon, <2>2
  <2> QED BY <2>1, <2>2, <2>3, <2>4, TidKept, Zenon
<1>20. CASE IdleInit
  <2>1. pc[Idle] # "tid_write" /\ UNCHANGED tidVars
    BY Zenon, <1>20 DEF IdleInit, At
  <2>2. Moves(Idle)
    BY <1>20, <1>0, <1>l, Zenon DEF IdleInit, Resume
  <2> QED BY <1>0, <2>1, <2>2, TidMoves, Zenon
<1>21. CASE IdleUp
  <2>1. pc[Idle] # "tid_write" /\ UNCHANGED tidVars
    BY Zenon, <1>21 DEF IdleUp, At
  <2>2. Moves(Idle)
    BY <1>21, <1>0, <1>l, Zenon DEF IdleUp, Resume
  <2> QED BY <1>0, <2>1, <2>2, TidMoves, Zenon
<1>22. CASE IdleBlock
  <2>1. pc[Idle] # "tid_write" /\ UNCHANGED tidVars
    BY Zenon, <1>22 DEF IdleBlock, At
  <2>2. Moves(Idle)
    BY <1>22, <1>0, <1>l, Zenon DEF IdleBlock, Resume
  <2> QED BY <1>0, <2>1, <2>2, TidMoves, Zenon
<1>23. CASE TimerInterrupt
  <2>1. pc[Main] # "start" /\ WakeCPU /\ UNCHANGED tidVars
    BY <1>23, Zenon DEF TimerInterrupt
  <2>2. \A u \in Thread \ {Idle} : pc'[u] = pc[u]
    BY <2>1, WakeMoves, Zenon
  <2>3. pc[Idle] # "tid_write" /\ pc'[Idle] # "tid_write"
    <3>1. pc \in [Thread -> Label] /\ pc[Idle] # "tid_write"
      BY Zenon, <1>0 DEF ControlOK, TypeOK
    <3> QED BY SMTT(60), <1>0, <2>1, <3>1 DEF WakeCPU
  <2> QED BY <1>0, <2>1, <2>2, <2>3, TidKept, Zenon DEF tidVars
<1>24. ASSUME NEW s \in Semas, DeviceInterrupt(s) PROVE TidInv'
  <2>1. pc[Main] # "start" /\ WakeCPU /\ UNCHANGED tidVars
    BY <1>24, Zenon DEF DeviceInterrupt
  <2>2. \A u \in Thread \ {Idle} : pc'[u] = pc[u]
    BY <2>1, WakeMoves, Zenon
  <2>3. pc[Idle] # "tid_write" /\ pc'[Idle] # "tid_write"
    <3>1. pc \in [Thread -> Label] /\ pc[Idle] # "tid_write"
      BY Zenon, <1>0 DEF ControlOK, TypeOK
    <3> QED BY SMTT(60), <1>0, <2>1, <3>1 DEF WakeCPU
  <2> QED BY <1>0, <2>1, <2>2, <2>3, TidKept, Zenon DEF tidVars
<1>25. CASE ThreadStart
  <2>1. /\ pc[Main] = "start" /\ tid' = [tid EXCEPT ![Idle] = next_tid] /\ next_tid' = next_tid + 1
        /\ Goto(Main, "down", IdleStarted, "run")
    BY <1>25, Zenon DEF ThreadStart, At
  <2>2. \A u \in Thread : pc[u] # "tid_write"
    BY <2>1, Zenon DEF Booting
  <2>3. pc'[Main] = "down" /\ \A u \in Thread \ {Main} : pc'[u] = pc[u]
    BY <1>0, <2>1, GotoMoves, Zenon
  <2>4. \A u \in Thread : pc'[u] # "tid_write"
    BY Zenon, <2>2, <2>3
  <2>5. tid'[Idle] = next_tid /\ \A u \in Thread \ {Idle} : tid'[u] = tid[u]
    BY <1>0, <2>1, Zenon
  <2>6. \A u \in Thread : tid[u] < next_tid
    BY <2>2, Zenon DEF TidInv
  <2>7. \A u \in Thread : tid'[u] < next_tid'
    BY SMTT(60), <1>0, <2>1, <2>5, <2>6
  <2>8. \A u, v \in Thread : u # v /\ tid'[u] # 0 => tid'[u] # tid'[v]
    BY SMTT(60), <1>0, <2>5, <2>6 DEF TidInv
  <2>9. next_tid' > 0
    BY <1>0, <2>1
  <2> QED BY <2>4, <2>7, <2>8, <2>9, Zenon DEF TidInv
<1>26. ASSUME NEW t \in Thread \ {Idle}, NEW page \in Pages, ThreadCreate(t, page) PROVE TidInv'
  <2>1. /\ t \in Thread /\ page \in Thread /\ pc[t] # "tid_write" /\ status[page] = "FREE"
        /\ tid' = [tid EXCEPT ![page] = 0] /\ next_tid' = next_tid
        /\ new' = [new EXCEPT ![t] = page] /\ Goto(t, "acquire", TidLock, "tid_read")
    BY Zenon, <1>26, <1>0 DEF ThreadCreate, At
  <2>2. pc'[t] = "acquire" /\ \A u \in Thread \ {t} : pc'[u] = pc[u]
    BY <1>0, <2>1, GotoMoves, Zenon
  <2>3. pc'[t] # "tid_write"
    BY Zenon, <2>2
  <2>4. \A u \in Thread \ {t} : new'[u] = new[u]
    BY <1>0, <2>1, Zenon
  <2>5. \A u \in Thread : (pc'[u] = "tid_write" <=> pc[u] = "tid_write") /\ (pc[u] = "tid_write" => new'[u] = new[u])
    BY <2>1, <2>2, <2>3, <2>4, Zenon
  <2>6. tid'[page] = 0 /\ \A u \in Thread \ {page} : tid'[u] = tid[u]
    BY <1>0, <2>1, ZenonT(60)
  <2>7. ASSUME NEW u \in Thread, pc[u] = "tid_write" PROVE new[u] # page /\ new[u] \in Thread
    <3>1. new[u] # NoThread
      BY Zenon, <1>0, <2>7 DEF ControlOK
    <3>2. new[u] \in Pages
      BY <1>0, <3>1, Zenon
    <3>3. status[new[u]] = "BLOCKED"
      BY <3>2, PlacesParts, Zenon DEF Births, Newborn
    <3> QED BY Zenon, <1>0, <2>1, <3>2, <3>3
  <2>8. ASSUME NEW x \in Thread
        PROVE  tid'[x] < next_tid' \/ \E u \in Thread : pc'[u] = "tid_write" /\ new'[u] = x
    <3>1. CASE x = page
      BY <2>1, <2>6, <3>1 DEF TidInv
    <3>2. CASE x # page
      <4>1. tid[x] < next_tid \/ \E u \in Thread : pc[u] = "tid_write" /\ new[u] = x
        BY Zenon DEF TidInv
      <4> QED BY <2>1, <2>5, <2>6, <3>2, <4>1, ZenonT(60)
    <3> QED BY Zenon, <3>1, <3>2
  <2>9. ASSUME NEW x \in Thread, pc'[x] = "tid_write" PROVE tid'[new'[x]] = next_tid'
    <3>1. pc[x] = "tid_write" /\ new'[x] = new[x]
      BY <2>5, <2>9, Zenon
    <3>2. tid[new[x]] = next_tid /\ new[x] # page /\ new[x] \in Thread
      BY <2>7, <3>1, Zenon DEF TidInv
    <3> QED BY <2>1, <2>6, <3>1, <3>2, Zenon
  <2>10. ASSUME NEW u \in Thread, NEW v \in Thread, u # v, tid'[u] # 0 PROVE tid'[u] # tid'[v]
    <3>1. u # page /\ tid'[u] = tid[u]
      BY <2>6, <2>10, Zenon
    <3>2. tid[u] # tid[v]
      BY <2>10, <3>1, Zenon DEF TidInv
    <3> QED BY <2>6, <2>10, <3>1, <3>2, Zenon
  <2> QED BY <2>1, <2>8, <2>9, <2>10, ZenonT(60) DEF TidInv
<1>27. ASSUME NEW t \in Thread \ {Idle}, TidRead(t) PROVE TidInv'
  <2>1. /\ t \in Thread /\ pc[t] = "tid_read" /\ tid' = [tid EXCEPT ![new[t]] = next_tid]
        /\ next_tid' = next_tid /\ new' = new /\ Resume(t, "tid_write")
    BY Zenon, <1>27 DEF TidRead, At
  <2>2. pc'[t] = "tid_write" /\ \A u \in Thread \ {t} : pc'[u] = pc[u]
    BY <1>0, <2>1, GotoMoves, Zenon DEF Resume
  <2>3. \A u \in Thread : pc[u] # "tid_write"
    BY Zenon, <1>x, <2>1
  <2>4. new[t] # NoThread
    BY <1>0, <2>1 DEF ControlOK
  <2>5. new[t] \in Thread
    BY <1>0, <2>1, <2>4, Zenon
  <2>6. tid'[new[t]] = next_tid /\ \A u \in Thread \ {new[t]} : tid'[u] = tid[u]
    BY <1>0, <2>1, <2>5, Zenon
  <2>7. \A u \in Thread : tid[u] < next_tid
    BY <2>3, Zenon DEF TidInv
  <2>8. \A x \in Thread : tid'[x] < next_tid' \/ \E u \in Thread : pc'[u] = "tid_write" /\ new'[u] = x
    BY <2>1, <2>2, <2>6, <2>7, ZenonT(60)
  <2>9. \A x \in Thread : pc'[x] = "tid_write" => tid'[new'[x]] = next_tid'
    BY <2>1, <2>2, <2>3, <2>6, Zenon
  <2>10. \A u, v \in Thread : u # v /\ tid'[u] # 0 => tid'[u] # tid'[v]
    BY SMTT(60), <1>0, <2>5, <2>6, <2>7 DEF TidInv
  <2> QED BY <2>1, <2>8, <2>9, <2>10, ZenonT(60) DEF TidInv
<1>28. ASSUME NEW t \in Thread \ {Idle}, TidWrite(t) PROVE TidInv'
  <2>1. /\ t \in Thread /\ pc[t] = "tid_write" /\ next_tid' = tid[new[t]] + 1
        /\ Goto(t, "release", TidLock, "unblock") /\ UNCHANGED <<tid, new>>
    BY Zenon, <1>28 DEF TidWrite, At
  <2>2. pc'[t] = "release" /\ \A u \in Thread \ {t} : pc'[u] = pc[u]
    BY <1>0, <2>1, GotoMoves, Zenon
  <2>3. \A u \in Thread \ {t} : pc[u] # "tid_write"
    BY Zenon, <1>x, <2>1
  <2>4. \A u \in Thread : pc'[u] # "tid_write"
    BY Zenon, <2>2, <2>3
  <2>5. next_tid' = next_tid + 1 /\ tid[new[t]] = next_tid
    BY <2>1, Zenon DEF TidInv
  <2>6. \A x \in Thread : tid[x] < next_tid \/ x = new[t]
    BY <2>3, ZenonT(60) DEF TidInv
  <2>7. \A x \in Thread : tid'[x] < next_tid'
    BY SMTT(60), <1>0, <2>1, <2>5, <2>6
  <2>8. next_tid' > 0
    BY <1>0, <2>5
  <2> QED BY <2>1, <2>4, <2>7, <2>8, ZenonT(60) DEF TidInv
<1>c. ASSUME NEW t \in Thread \ {Idle}, Call(t) PROVE TidInv'
  BY <1>c, <1>1, <1>2, <1>3, <1>4, <1>5, <1>6, <1>7, <1>8, <1>9, <1>10, <1>11, <1>26, ZenonT(60) DEF Call
<1>d. ASSUME NEW t \in Thread \ {Idle}, Continue(t) PROVE TidInv'
  BY <1>d, <1>12, <1>13, <1>14, <1>15, <1>16, <1>17, <1>18, <1>19, <1>27, <1>28, ZenonT(60) DEF Continue
<1> QED BY <1>20, <1>21, <1>22, <1>23, <1>24, <1>25, <1>c, <1>d, Zenon DEF Next, IdleStep

\* allocate_tid() gives no tid twice, however many threads are in
\* thread_create(), are preempted between its load and its store, die and
\* have their pages used again.
THEOREM TidsNeverReused == Spec => []TidsUnique
<1> DEFINE I == PlacesInv /\ HolderOK /\ MutualExclusion /\ TidInv
<1>1. Init => I
  <2> SUFFICES ASSUME Init PROVE I
    BY Zenon
  <2>1. PlacesInv /\ HolderOK /\ MutualExclusion
    BY TypeInvInit, PlacesInit, LockInit, Zenon DEF PlacesInv
  <2>2. TidInv
    <3>1. /\ next_tid = 2 /\ tid = [t \in Thread |-> IF t = Main THEN 1 ELSE 0]
          /\ pc = [t \in Thread |-> IF t = Main THEN "start" ELSE IF t = Idle THEN "idle_init" ELSE "run"]
      BY Zenon DEF Init
    <3> QED BY <3>1 DEF TidInv
  <2> QED BY <2>1, <2>2, Zenon
<1>2. I /\ [Next]_vars => I'
  <2> SUFFICES ASSUME I, [Next]_vars PROVE I'
    BY Zenon
  <2>1. PlacesInv' /\ HolderOK' /\ OwnersStep
    BY PlacesInvStep, LockStep, Zenon DEF PlacesInv
  <2>2. MutualExclusion'
    BY <2>1, MutexStep, Zenon DEF PlacesInv, TypeInv
  <2>3. TidInv'
    <3>1. CASE Next
      BY <3>1, TidStep, Zenon DEF PlacesInv
    <3>2. CASE UNCHANGED vars
      BY <3>2, Zenon DEF TidInv, vars, ctlVars, tidVars
    <3> QED BY <3>1, <3>2, Zenon
  <2> QED BY <2>1, <2>2, <2>3, Zenon
<1>3. I => TidsUnique
  BY Zenon DEF TidInv, TidsUnique
<1> QED BY <1>1, <1>2, <1>3, PTL DEF Spec

-----------------------------------------------------------------------------
(* Condition variables *)

\* The labels from the moment cond_wait() gives up the lock to the return of
\* its sema_down().
InWait == {"cond_up", "cond_down"}

\* A step that leaves the conditions, the semaphores of their waiters and the
\* waiters themselves where they are.
CondsSteady ==
  /\ cond_waiters' = cond_waiters
  /\ \A u \in Thread :
       /\ value'[u] = value[u]
       /\ pc'[u] \in InWait <=> pc[u] \in InWait
       /\ pc[u] \in InWait => on'[u] = on[u]

LEMMA SteadySignals == SignalDelivered /\ CondsSteady => SignalDelivered'
<1> SUFFICES ASSUME SignalDelivered, CondsSteady PROVE SignalDelivered'
  OBVIOUS
<1>1. \A c \in Conds : Distinct(cond_waiters'[c])
  BY Zenon DEF SignalDelivered, CondsSteady
<1>2. ASSUME NEW t \in Thread
      PROVE  /\ value'[t] \in {0, 1}
             /\ value'[t] = 1 => pc'[t] \in InWait
  BY Zenon DEF SignalDelivered, CondsSteady, InWait
<1>3. ASSUME NEW t \in Thread, NEW c \in Conds
      PROVE  t \in Range(cond_waiters'[c]) <=> pc'[t] \in InWait /\ on'[t] = c /\ value'[t] = 0
  <2>1. t \in Range(cond_waiters[c]) <=> pc[t] \in InWait /\ on[t] = c /\ value[t] = 0
    BY Zenon DEF SignalDelivered, InWait
  <2> QED BY <2>1, Zenon DEF CondsSteady
<1> QED BY <1>1, <1>2, <1>3, Zenon DEF SignalDelivered, InWait

\* The running thread goes from a label outside cond_wait() to another one.
LEMMA GotoSteady ==
  ASSUME TypeOK, NEW t \in Thread, NEW label, NEW obj, NEW next, Goto(t, label, obj, next),
         pc[t] \notin InWait /\ label \notin InWait, cond_waiters' = cond_waiters,
         \A u \in Thread : value'[u] = value[u]
  PROVE  CondsSteady
<1>1. pc'[t] = label /\ \A u \in Thread \ {t} : pc'[u] = pc[u] /\ on'[u] = on[u]
  BY GotoMoves, Zenon
<1> QED BY <1>1, Zenon DEF CondsSteady

LEMMA RestSteady ==
  ASSUME UNCHANGED ctlVars, cond_waiters' = cond_waiters, \A u \in Thread : value'[u] = value[u]
  PROVE  CondsSteady
  BY Zenon DEF CondsSteady, ctlVars

\* An up of a shared semaphore is not seen by the waiters of conditions.
LEMMA UpSteady ==
  ASSUME TypeOK, NEW s \in Sema, s \notin Thread, sema_up(s)
  PROVE  \A u \in Thread : value'[u] = value[u]
  BY Zenon DEF sema_up, TypeOK, Sema

\* Nor is a turn of sema_down() on one.
LEMMA DownSteady ==
  ASSUME TypeOK, NEW t \in Thread, NEW s \in Sema, s \notin Thread, NEW label, NEW obj, NEW next,
         sema_down(t, s, label, obj, next), cond_waiters' = cond_waiters,
         pc[t] \notin InWait, label \notin InWait
  PROVE  CondsSteady
<1>1. CASE UNCHANGED <<value, ctlVars>>
  BY <1>1, RestSteady, Zenon
<1>2. CASE value' = [value EXCEPT ![s] = @ - 1] /\ Goto(t, label, obj, next)
  <2>1. \A u \in Thread : value'[u] = value[u]
    BY <1>2, Zenon DEF TypeOK, Sema
  <2> QED BY <1>2, <2>1, GotoSteady, Zenon
<1> QED BY <1>1, <1>2, Zenon DEF sema_down

\* The interrupt that wakes a halted CPU moves only the idle thread.
LEMMA WakeSteady ==
  ASSUME TypeOK, WakeCPU, cond_waiters' = cond_waiters, \A u \in Thread : value'[u] = value[u]
  PROVE  CondsSteady
<1>1. \A u \in Thread : pc'[u] = pc[u] \/ (pc[u] = "idle_halt" /\ pc'[u] = "idle_block")
  BY Zenon DEF WakeCPU, At, TypeOK, Thread
<1>2. "idle_halt" \notin InWait /\ "idle_block" \notin InWait
  BY DEF InWait
<1> QED BY <1>1, <1>2, Zenon DEF CondsSteady, WakeCPU

\* cond_signal() on a condition with waiters hands one signal to the first.
LEMMA SignalOne ==
  ASSUME TypeOK, SignalDelivered, NEW c \in Conds, cond_waiters[c] # <<>>,
         signal_first(c), UNCHANGED ctlVars
  PROVE  SignalDelivered'
<1> DEFINE h == Head(cond_waiters[c])
<1>0. cond_waiters \in [Conds -> Seq(Thread)] /\ cond_waiters[c] \in Seq(Thread) /\ value \in [Sema -> Nat]
  BY Zenon DEF TypeOK
<1>1. /\ h \in Thread /\ Range(cond_waiters[c]) = {h} \cup Range(Tail(cond_waiters[c]))
      /\ Distinct(Tail(cond_waiters[c])) /\ h \notin Range(Tail(cond_waiters[c]))
  BY <1>0, PopFront, Zenon DEF SignalDelivered
<1>2. h \in Range(cond_waiters[c])
  BY <1>1, Zenon
<1>3. pc[h] \in InWait /\ on[h] = c /\ value[h] = 0
  BY <1>1, <1>2, Zenon DEF SignalDelivered, InWait
<1>4. cond_waiters' = [cond_waiters EXCEPT ![c] = Tail(@)] /\ value' = [value EXCEPT ![h] = @ + 1]
  BY Zenon DEF signal_first, sema_up
<1>5. value'[h] = 1
  <2>1. h \in Sema
    BY <1>1, Zenon DEF Sema
  <2>2. value'[h] = value[h] + 1
    BY <1>0, <1>4, <2>1, Zenon
  <2> QED BY <1>3, <2>2
<1>6. \A u \in Thread \ {h} : value'[u] = value[u]
  BY <1>0, <1>4, Zenon DEF Sema
<1>7. cond_waiters'[c] = Tail(cond_waiters[c])
  BY <1>0, <1>4, Zenon
<1>8. \A d \in Conds \ {c} : cond_waiters'[d] = cond_waiters[d]
  BY <1>0, <1>4, Zenon
<1> HIDE DEF h
<1>9. ASSUME NEW d \in Conds PROVE Distinct(cond_waiters'[d])
  BY <1>1, <1>7, <1>8, Zenon DEF SignalDelivered
<1>10. ASSUME NEW t \in Thread
       PROVE  /\ value'[t] \in {0, 1}
              /\ value'[t] = 1 => pc'[t] \in InWait
  <2>1. pc' = pc
    BY Zenon DEF ctlVars
  <2>2. value[t] \in {0, 1} /\ (value[t] = 1 => pc[t] \in InWait)
    BY Zenon DEF SignalDelivered, InWait
  <2> QED BY <1>3, <1>5, <1>6, <2>1, <2>2, Zenon
<1>11. ASSUME NEW t \in Thread, NEW d \in Conds
       PROVE  t \in Range(cond_waiters'[d]) <=> pc'[t] \in InWait /\ on'[t] = d /\ value'[t] = 0
  <2>0. pc' = pc /\ on' = on
    BY Zenon DEF ctlVars
  <2>1. t \in Range(cond_waiters[d]) <=> pc[t] \in InWait /\ on[t] = d /\ value[t] = 0
    BY Zenon DEF SignalDelivered, InWait
  <2>2. CASE t = h
    <3>1. value'[t] # 0
      BY <1>5, <2>2
    <3>2. t \notin Range(cond_waiters'[d])
      <4>1. CASE d = c
        BY <1>1, <1>7, <2>2, <4>1, Zenon
      <4>2. CASE d # c
        BY <1>3, <1>8, <2>1, <2>2, <4>2, Zenon
      <4> QED BY <4>1, <4>2, Zenon
    <3> QED BY <3>1, <3>2, Zenon
  <2>3. CASE t # h
    <3>1. t \in Range(cond_waiters'[d]) <=> t \in Range(cond_waiters[d])
      <4>1. CASE d = c
        BY <1>1, <1>7, <2>3, <4>1, Zenon
      <4>2. CASE d # c
        BY <1>8, <4>2, Zenon
      <4> QED BY <4>1, <4>2, Zenon
    <3> QED BY <1>6, <2>0, <2>1, <2>3, <3>1, Zenon
  <2> QED BY <2>2, <2>3, Zenon
<1> QED BY <1>9, <1>10, <1>11, Zenon DEF SignalDelivered, InWait
\* cond_wait() lists its caller, whose semaphore starts at 0.
LEMMA SignalWait ==
  ASSUME TypeOK, SignalDelivered, NEW t \in Thread, NEW c \in Conds, CondWait(t, c)
  PROVE  SignalDelivered'
<1>0. /\ cond_waiters \in [Conds -> Seq(Thread)] /\ cond_waiters[c] \in Seq(Thread)
      /\ value \in [Sema -> Nat] /\ t \in Sema
  BY Zenon DEF TypeOK, Sema
<1>1. /\ pc[t] = "run" /\ value' = [value EXCEPT ![t] = 0]
      /\ cond_waiters' = [cond_waiters EXCEPT ![c] = Append(@, t)]
      /\ pc'[t] = "cond_up" /\ on'[t] = c
      /\ \A u \in Thread \ {t} : pc'[u] = pc[u] /\ on'[u] = on[u]
  <2>1. Goto(t, "cond_up", c, "run")
    BY Zenon DEF CondWait
  <2>2. /\ pc'[t] = "cond_up" /\ on'[t] = c
        /\ \A u \in Thread \ {t} : pc'[u] = pc[u] /\ on'[u] = on[u]
    BY <2>1, Zenon DEF Goto, TypeOK
  <2> QED BY <2>2, Zenon DEF CondWait, At
<1>2. pc[t] \notin InWait /\ pc'[t] \in InWait
  BY <1>1 DEF InWait
<1>3. ASSUME NEW d \in Conds PROVE t \notin Range(cond_waiters[d])
  <2>1. t \in Range(cond_waiters[d]) => pc[t] \in InWait
    BY Zenon DEF SignalDelivered, InWait
  <2> QED BY <1>2, <2>1, Zenon
<1>4. cond_waiters'[c] = Append(cond_waiters[c], t) /\ \A d \in Conds \ {c} : cond_waiters'[d] = cond_waiters[d]
  BY <1>0, <1>1, Zenon
<1>5. /\ Range(cond_waiters'[c]) = Range(cond_waiters[c]) \cup {t}
      /\ Distinct(cond_waiters'[c])
  <2>1. t \notin Range(cond_waiters[c]) /\ Distinct(cond_waiters[c])
    BY <1>3, Zenon DEF SignalDelivered
  <2> QED BY <1>0, <1>4, <2>1, PushBack, Zenon
<1>6. value'[t] = 0 /\ \A u \in Thread \ {t} : value'[u] = value[u]
  BY <1>0, <1>1, Zenon DEF Sema
<1>7. ASSUME NEW d \in Conds PROVE Distinct(cond_waiters'[d])
  BY <1>4, <1>5, Zenon DEF SignalDelivered
<1>8. ASSUME NEW u \in Thread
      PROVE  value'[u] \in {0, 1} /\ (value'[u] = 1 => pc'[u] \in InWait)
  <2>1. value[u] \in {0, 1} /\ (value[u] = 1 => pc[u] \in InWait)
    BY Zenon DEF SignalDelivered, InWait
  <2> QED BY <1>1, <1>2, <1>6, <2>1, Zenon
<1>9. ASSUME NEW u \in Thread, NEW d \in Conds
      PROVE  u \in Range(cond_waiters'[d]) <=> pc'[u] \in InWait /\ on'[u] = d /\ value'[u] = 0
  <2>1. u \in Range(cond_waiters[d]) <=> pc[u] \in InWait /\ on[u] = d /\ value[u] = 0
    BY Zenon DEF SignalDelivered, InWait
  <2>2. CASE u = t
    <3>1. u \in Range(cond_waiters'[d]) <=> d = c
      <4>1. CASE d = c
        BY <1>5, <2>2, <4>1, Zenon
      <4>2. CASE d # c
        BY <1>3, <1>4, <2>2, <4>2, Zenon
      <4> QED BY <4>1, <4>2, Zenon
    <3> QED BY <1>1, <1>2, <1>6, <2>2, <3>1, Zenon
  <2>3. CASE u # t
    <3>1. u \in Range(cond_waiters'[d]) <=> u \in Range(cond_waiters[d])
      <4>1. CASE d = c
        BY <1>5, <2>3, <4>1, Zenon
      <4>2. CASE d # c
        BY <1>4, <4>2, Zenon
      <4> QED BY <4>1, <4>2, Zenon
    <3> QED BY <1>1, <1>6, <2>1, <2>3, <3>1, Zenon
  <2> QED BY <2>2, <2>3, Zenon
<1> QED BY <1>7, <1>8, <1>9, Zenon DEF SignalDelivered, InWait

\* The waiter that downs its semaphore has been signalled, and no list has it.
LEMMA SignalTaken ==
  ASSUME TypeOK, SignalDelivered, NEW t \in Thread, pc[t] = "cond_down", value[t] > 0,
         NEW label, NEW obj, NEW next, Goto(t, label, obj, next), label \notin InWait,
         value' = [value EXCEPT ![t] = @ - 1], cond_waiters' = cond_waiters
  PROVE  SignalDelivered'
<1>0. value \in [Sema -> Nat] /\ t \in Sema
  BY Zenon DEF TypeOK, Sema
<1>1. pc'[t] = label /\ \A u \in Thread \ {t} : pc'[u] = pc[u] /\ on'[u] = on[u]
  BY GotoMoves, Zenon
<1>2. value[t] \in {0, 1}
  BY Zenon DEF SignalDelivered
<1>3. value[t] = 1
  BY <1>2
<1>4. value'[t] = 0
  <2>1. value'[t] = value[t] - 1
    BY <1>0, Zenon
  <2> QED BY <1>3, <2>1
<1>5. \A u \in Thread \ {t} : value'[u] = value[u]
  BY <1>0, Zenon DEF Sema
<1>6. value[t] # 0
  BY <1>3
<1>7. \A c \in Conds : t \notin Range(cond_waiters[c])
  BY <1>6, Zenon DEF SignalDelivered
<1>8. ASSUME NEW u \in Thread
      PROVE  value'[u] \in {0, 1} /\ (value'[u] = 1 => pc'[u] \in InWait)
  <2>1. value[u] \in {0, 1} /\ (value[u] = 1 => pc[u] \in InWait)
    BY Zenon DEF SignalDelivered, InWait
  <2>2. value'[t] # 1
    BY <1>4
  <2> QED BY <1>1, <1>4, <1>5, <2>1, <2>2, Zenon
<1>9. ASSUME NEW u \in Thread, NEW d \in Conds
      PROVE  u \in Range(cond_waiters'[d]) <=> pc'[u] \in InWait /\ on'[u] = d /\ value'[u] = 0
  <2>1. u \in Range(cond_waiters[d]) <=> pc[u] \in InWait /\ on[u] = d /\ value[u] = 0
    BY Zenon DEF SignalDelivered, InWait
  <2> QED BY <1>1, <1>5, <1>7, <2>1, Zenon
<1> QED BY <1>8, <1>9, Zenon DEF SignalDelivered, InWait
\* Every step keeps every signal: only cond_wait() lists a thread, only
\* cond_signal() and cond_broadcast() pop one and up its semaphore, and only
\* that thread takes the unit.
LEMMA SignalStep ==
  TypeInv /\ SignalDelivered /\ [Next]_vars => SignalDelivered'
<1> SUFFICES ASSUME TypeInv, SignalDelivered, [Next]_vars PROVE SignalDelivered'
  BY Zenon
<1>0. TypeOK /\ ControlOK
  BY Zenon DEF TypeInv
<1>a. /\ Main \in Thread /\ Idle \in Thread
      /\ \A s \in Semas \cup Locks \cup {IdleStarted} : s \in Sema /\ s \notin Thread
      /\ \A c \in Conds : LockOf[c] \in Locks
  BY SynchAssumption, Zenon DEF Sema, Thread
<1>b. /\ {"start", "run", "down", "acquire", "own", "release", "broadcast", "tid_read", "tid_write",
          "unblock", "idle_init", "idle_up", "idle_block", "idle_halt"} \cap InWait = {}
      /\ {"cond_up", "cond_down"} = InWait
  BY DEF InWait
<1>1. CASE ThreadStart
  <2>1. pc[Main] = "start" /\ Goto(Main, "down", IdleStarted, "run") /\ UNCHANGED <<cond_waiters, value>>
    BY <1>1, Zenon DEF ThreadStart, At, objVars
  <2>2. pc[Main] \notin InWait /\ "down" \notin InWait
    BY <1>b, <2>1, Zenon
  <2> QED BY <1>0, <1>a, <2>1, <2>2, GotoSteady, SteadySignals, Zenon
<1>2. ASSUME NEW t \in Thread \ {Idle}, NEW s \in Semas, SemaDown(t, s) PROVE SignalDelivered'
  <2>1. pc[t] = "run" /\ Goto(t, "down", s, "run") /\ UNCHANGED <<cond_waiters, value>>
    BY <1>2, Zenon DEF SemaDown, At, objVars
  <2>2. t \in Thread /\ pc[t] \notin InWait /\ "down" \notin InWait
    BY <1>b, <2>1, Zenon
  <2> QED BY <1>0, <2>1, <2>2, GotoSteady, SteadySignals, Zenon
<1>3. ASSUME NEW t \in Thread \ {Idle}, NEW s \in Semas, SemaTryDown(t, s) PROVE SignalDelivered'
  <2>1. s \in Sema /\ s \notin Thread /\ UNCHANGED ctlVars /\ cond_waiters' = cond_waiters
        /\ value' = [value EXCEPT ![s] = @ - 1] /\ value \in [Sema -> Nat]
    BY <1>0, <1>3, <1>a, Zenon DEF SemaTryDown, TypeOK
  <2>2. \A u \in Thread : value'[u] = value[u]
    BY <2>1, Zenon DEF Sema
  <2> QED BY <2>1, <2>2, RestSteady, SteadySignals, Zenon
<1>4. ASSUME NEW t \in Thread \ {Idle}, NEW s \in Semas, SemaUp(t, s) PROVE SignalDelivered'
  <2>1. s \in Sema /\ s \notin Thread /\ sema_up(s) /\ UNCHANGED ctlVars /\ cond_waiters' = cond_waiters
    BY <1>4, <1>a, Zenon DEF SemaUp
  <2> QED BY <1>0, <2>1, UpSteady, RestSteady, SteadySignals, Zenon
<1>5. ASSUME NEW t \in Thread \ {Idle}, NEW l \in Locks \ {TidLock}, LockAcquire(t, l)
      PROVE  SignalDelivered'
  <2>1. pc[t] = "run" /\ Goto(t, "acquire", l, "run") /\ UNCHANGED <<cond_waiters, value>>
    BY <1>5, Zenon DEF LockAcquire, At, objVars
  <2>2. t \in Thread /\ pc[t] \notin InWait /\ "acquire" \notin InWait
    BY <1>b, <2>1, Zenon
  <2> QED BY <1>0, <2>1, <2>2, GotoSteady, SteadySignals, Zenon
<1>6. ASSUME NEW t \in Thread \ {Idle}, NEW l \in Locks \ {TidLock}, LockTryAcquire(t, l)
      PROVE  SignalDelivered'
  <2>1. /\ pc[t] = "run" /\ Goto(t, "own", l, "run") /\ cond_waiters' = cond_waiters
        /\ l \in Sema /\ l \notin Thread
        /\ value' = [value EXCEPT ![l] = @ - 1] /\ value \in [Sema -> Nat]
    BY <1>0, <1>6, <1>a, Zenon DEF LockTryAcquire, At, TypeOK
  <2>2. t \in Thread /\ pc[t] \notin InWait /\ "own" \notin InWait
    BY <1>b, <2>1, Zenon
  <2>3. \A u \in Thread : value'[u] = value[u]
    BY <2>1, Zenon DEF Sema
  <2> QED BY <1>0, <2>1, <2>2, <2>3, GotoSteady, SteadySignals, Zenon
<1>7. ASSUME NEW t \in Thread \ {Idle}, NEW l \in Locks \ {TidLock}, LockRelease(t, l)
      PROVE  SignalDelivered'
  <2>1. pc[t] = "run" /\ Goto(t, "release", l, "run") /\ UNCHANGED <<cond_waiters, value>>
    BY <1>7, Zenon DEF LockRelease, At
  <2>2. t \in Thread /\ pc[t] \notin InWait /\ "release" \notin InWait
    BY <1>b, <2>1, Zenon
  <2> QED BY <1>0, <2>1, <2>2, GotoSteady, SteadySignals, Zenon
<1>8. ASSUME NEW t \in Thread \ {Idle}, NEW c \in Conds, CondWait(t, c) PROVE SignalDelivered'
  BY <1>0, <1>8, SignalWait, Zenon
<1>9. ASSUME NEW t \in Thread \ {Idle}, NEW c \in Conds, CondSignal(t, c) PROVE SignalDelivered'
  BY <1>0, <1>9, SignalOne, Zenon DEF CondSignal
<1>10. ASSUME NEW t \in Thread \ {Idle}, NEW c \in Conds, CondBroadcast(t, c) PROVE SignalDelivered'
  <2>1. pc[t] = "run" /\ Goto(t, "broadcast", c, "run") /\ UNCHANGED <<cond_waiters, value>>
    BY <1>10, Zenon DEF CondBroadcast, At, objVars
  <2>2. t \in Thread /\ pc[t] \notin InWait /\ "broadcast" \notin InWait
    BY <1>b, <2>1, Zenon
  <2> QED BY <1>0, <2>1, <2>2, GotoSteady, SteadySignals, Zenon
<1>11. ASSUME NEW t \in Thread \ {Idle}, NEW page \in Pages, ThreadCreate(t, page)
       PROVE  SignalDelivered'
  <2>1. pc[t] = "run" /\ Goto(t, "acquire", TidLock, "tid_read") /\ UNCHANGED <<cond_waiters, value>>
    BY <1>11, Zenon DEF ThreadCreate, At, objVars
  <2>2. t \in Thread /\ pc[t] \notin InWait /\ "acquire" \notin InWait
    BY <1>b, <2>1, Zenon
  <2> QED BY <1>0, <2>1, <2>2, GotoSteady, SteadySignals, Zenon
<1>12. ASSUME NEW t \in Thread \ {Idle}, ThreadYield(t) \/ ThreadExit(t) PROVE SignalDelivered'
  <2>1. UNCHANGED ctlVars /\ UNCHANGED <<cond_waiters, value>>
    BY <1>12, Zenon DEF ThreadYield, ThreadExit, objVars
  <2> QED BY <2>1, RestSteady, SteadySignals, Zenon
<1>13. ASSUME NEW t \in Thread \ {Idle}, SemaDownLoop(t) PROVE SignalDelivered'
  <2>1. /\ t \in Thread /\ pc[t] = "down" /\ sema_down(t, on[t], ret[t], NoThread, "run")
        /\ cond_waiters' = cond_waiters
    BY <1>13, Zenon DEF SemaDownLoop, At
  <2>2. on[t] \in Semas \cup {IdleStarted} /\ ret[t] = "run"
    BY <1>0, <2>1 DEF ControlOK
  <2>3. on[t] \in Sema /\ on[t] \notin Thread /\ pc[t] \notin InWait /\ ret[t] \notin InWait
    BY <1>a, <1>b, <2>1, <2>2, Zenon
  <2> QED BY <1>0, <2>1, <2>3, DownSteady, SteadySignals, Zenon
<1>14. ASSUME NEW t \in Thread \ {Idle}, LockAcquireLoop(t) PROVE SignalDelivered'
  <2>1. /\ t \in Thread /\ pc[t] = "acquire" /\ sema_down(t, on[t], "own", on[t], ret[t])
        /\ cond_waiters' = cond_waiters
    BY <1>14, Zenon DEF LockAcquireLoop, At
  <2>2. on[t] \in Locks
    BY <1>0, <2>1 DEF ControlOK
  <2>3. on[t] \in Sema /\ on[t] \notin Thread /\ pc[t] \notin InWait /\ "own" \notin InWait
    BY <1>a, <1>b, <2>1, <2>2, Zenon
  <2> QED BY <1>0, <2>1, <2>3, DownSteady, SteadySignals, Zenon
<1>15. ASSUME NEW t \in Thread \ {Idle}, LockOwn(t) PROVE SignalDelivered'
  <2>1. /\ t \in Thread /\ pc[t] = "own" /\ Goto(t, ret[t], NoThread, "run")
        /\ UNCHANGED <<cond_waiters, value>>
    BY <1>15, Zenon DEF LockOwn, At, Resume
  <2>2. ret[t] \in {"run", "tid_read"}
    BY <1>0, <2>1 DEF ControlOK
  <2>3. pc[t] \notin InWait /\ ret[t] \notin InWait
    BY <1>b, <2>1, <2>2, Zenon
  <2> QED BY <1>0, <2>1, <2>3, GotoSteady, SteadySignals, Zenon
<1>16. ASSUME NEW t \in Thread \ {Idle}, LockReleaseUp(t) PROVE SignalDelivered'
  <2>1. /\ t \in Thread /\ pc[t] = "release" /\ Goto(t, ret[t], NoThread, "run")
        /\ sema_up(on[t]) /\ cond_waiters' = cond_waiters
    BY <1>16, Zenon DEF LockReleaseUp, At, Resume
  <2>2. on[t] \in Locks /\ ret[t] \in {"run", "unblock"}
    BY <1>0, <2>1 DEF ControlOK
  <2>3. on[t] \in Sema /\ on[t] \notin Thread /\ pc[t] \notin InWait /\ ret[t] \notin InWait
    BY <1>a, <1>b, <2>1, <2>2, Zenon
  <2> QED BY <1>0, <2>1, <2>3, UpSteady, GotoSteady, SteadySignals, Zenon
<1>17. ASSUME NEW t \in Thread \ {Idle}, CondWaitUp(t) PROVE SignalDelivered'
  <2>1. /\ t \in Thread /\ pc[t] = "cond_up" /\ Goto(t, "cond_down", on[t], "run")
        /\ sema_up(LockOf[on[t]]) /\ cond_waiters' = cond_waiters
    BY <1>17, Zenon DEF CondWaitUp, At
  <2>2. on[t] \in Conds
    BY <1>0, <2>1 DEF ControlOK
  <2>3. LockOf[on[t]] \in Sema /\ LockOf[on[t]] \notin Thread
    BY <1>a, <2>2, Zenon
  <2>4. \A u \in Thread : value'[u] = value[u]
    BY <1>0, <2>1, <2>3, UpSteady, Zenon
  <2>5. /\ pc'[t] = "cond_down" /\ on'[t] = on[t]
        /\ \A u \in Thread \ {t} : pc'[u] = pc[u] /\ on'[u] = on[u]
    BY <1>0, <2>1, Zenon DEF Goto, TypeOK
  <2>6. CondsSteady
    BY <1>b, <2>1, <2>4, <2>5, Zenon DEF CondsSteady
  <2> QED BY <2>6, SteadySignals, Zenon
<1>18. ASSUME NEW t \in Thread \ {Idle}, CondWaitDown(t) PROVE SignalDelivered'
  <2>1. /\ t \in Thread /\ pc[t] = "cond_down" /\ cond_waiters' = cond_waiters
        /\ sema_down(t, t, "acquire", LockOf[on[t]], "run")
    BY <1>18, Zenon DEF CondWaitDown, At
  <2>2. CASE UNCHANGED <<value, ctlVars>>
    BY <2>1, <2>2, RestSteady, SteadySignals, Zenon
  <2>3. CASE /\ value[t] > 0 /\ value' = [value EXCEPT ![t] = @ - 1]
             /\ Goto(t, "acquire", LockOf[on[t]], "run")
    <3>1. "acquire" \notin InWait
      BY <1>b, Zenon
    <3> QED BY <1>0, <2>1, <2>3, <3>1, SignalTaken, Zenon
  <2> QED BY <2>1, <2>2, <2>3, Zenon DEF sema_down
<1>19. ASSUME NEW t \in Thread \ {Idle}, CondBroadcastLoop(t) PROVE SignalDelivered'
  <2>1. t \in Thread /\ pc[t] = "broadcast"
    BY <1>19, Zenon DEF CondBroadcastLoop, At
  <2>2. on[t] \in Conds
    BY <1>0, <2>1 DEF ControlOK
  <2>3. CASE cond_waiters[on[t]] # <<>> /\ signal_first(on[t]) /\ UNCHANGED ctlVars
    BY <1>0, <2>2, <2>3, SignalOne, Zenon
  <2>4. CASE Goto(t, "run", NoThread, "run") /\ UNCHANGED objVars
    <3>1. "run" \notin InWait /\ pc[t] \notin InWait /\ UNCHANGED <<cond_waiters, value>>
      BY <1>b, <2>1, <2>4, Zenon DEF objVars
    <3> QED BY <1>0, <2>1, <2>4, <3>1, GotoSteady, SteadySignals, Zenon
  <2> QED BY <1>19, <2>3, <2>4, Zenon DEF CondBroadcastLoop, Resume
<1>20. ASSUME NEW t \in Thread \ {Idle}, TidRead(t) PROVE SignalDelivered'
  <2>1. pc[t] = "tid_read" /\ Goto(t, "tid_write", NoThread, "run") /\ UNCHANGED <<cond_waiters, value>>
    BY <1>20, Zenon DEF TidRead, At, Resume, objVars
  <2>2. t \in Thread /\ pc[t] \notin InWait /\ "tid_write" \notin InWait
    BY <1>b, <2>1, Zenon
  <2> QED BY <1>0, <2>1, <2>2, GotoSteady, SteadySignals, Zenon
<1>21. ASSUME NEW t \in Thread \ {Idle}, TidWrite(t) PROVE SignalDelivered'
  <2>1. pc[t] = "tid_write" /\ Goto(t, "release", TidLock, "unblock") /\ UNCHANGED <<cond_waiters, value>>
    BY <1>21, Zenon DEF TidWrite, At
  <2>2. t \in Thread /\ pc[t] \notin InWait /\ "release" \notin InWait
    BY <1>b, <2>1, Zenon
  <2> QED BY <1>0, <2>1, <2>2, GotoSteady, SteadySignals, Zenon
<1>22. ASSUME NEW t \in Thread \ {Idle}, ThreadCreated(t) PROVE SignalDelivered'
  <2>1. pc[t] = "unblock" /\ Goto(t, "run", NoThread, "run") /\ UNCHANGED <<cond_waiters, value>>
    BY <1>22, Zenon DEF ThreadCreated, At, Resume, objVars
  <2>2. t \in Thread /\ pc[t] \notin InWait /\ "run" \notin InWait
    BY <1>b, <2>1, Zenon
  <2> QED BY <1>0, <2>1, <2>2, GotoSteady, SteadySignals, Zenon
<1>23. CASE IdleInit
  <2>1. pc[Idle] = "idle_init" /\ Goto(Idle, "idle_up", NoThread, "run") /\ UNCHANGED <<cond_waiters, value>>
    BY <1>23, Zenon DEF IdleInit, At, Resume, objVars
  <2>2. pc[Idle] \notin InWait /\ "idle_up" \notin InWait
    BY <1>b, <2>1, Zenon
  <2> QED BY <1>0, <1>a, <2>1, <2>2, GotoSteady, SteadySignals, Zenon
<1>24. CASE IdleUp
  <2>1. /\ pc[Idle] = "idle_up" /\ Goto(Idle, "idle_block", NoThread, "run")
        /\ sema_up(IdleStarted) /\ cond_waiters' = cond_waiters
    BY <1>24, Zenon DEF IdleUp, At, Resume
  <2>2. /\ pc[Idle] \notin InWait /\ "idle_block" \notin InWait
        /\ IdleStarted \in Sema /\ IdleStarted \notin Thread
    BY <1>a, <1>b, <2>1, Zenon
  <2> QED BY <1>0, <1>a, <2>1, <2>2, UpSteady, GotoSteady, SteadySignals, Zenon
<1>25. CASE IdleBlock
  <2>1. pc[Idle] = "idle_block" /\ Goto(Idle, "idle_halt", NoThread, "run") /\ UNCHANGED <<cond_waiters, value>>
    BY <1>25, Zenon DEF IdleBlock, At, Resume, objVars
  <2>2. pc[Idle] \notin InWait /\ "idle_halt" \notin InWait
    BY <1>b, <2>1, Zenon
  <2> QED BY <1>0, <1>a, <2>1, <2>2, GotoSteady, SteadySignals, Zenon
<1>26. CASE TimerInterrupt
  <2>1. WakeCPU /\ UNCHANGED <<cond_waiters, value>>
    BY <1>26, Zenon DEF TimerInterrupt, objVars
  <2> QED BY <1>0, <2>1, WakeSteady, SteadySignals, Zenon
<1>27. ASSUME NEW s \in Semas, DeviceInterrupt(s) PROVE SignalDelivered'
  <2>1. s \in Sema /\ s \notin Thread /\ sema_up(s) /\ WakeCPU /\ cond_waiters' = cond_waiters
    BY <1>27, <1>a, Zenon DEF DeviceInterrupt
  <2> QED BY <1>0, <2>1, UpSteady, WakeSteady, SteadySignals, Zenon
<1>28. CASE UNCHANGED vars
  <2>1. UNCHANGED ctlVars /\ UNCHANGED <<cond_waiters, value>>
    BY <1>28, Zenon DEF vars, objVars
  <2> QED BY <2>1, RestSteady, SteadySignals, Zenon
<1> QED
  BY ZenonT(60), <1>1, <1>2, <1>3, <1>4, <1>5, <1>6, <1>7, <1>8, <1>9, <1>10, <1>11, <1>12, <1>13,
     <1>14, <1>15, <1>16, <1>17, <1>18, <1>19, <1>20, <1>21, <1>22, <1>23, <1>24, <1>25, <1>26,
     <1>27, <1>28
     DEF Next, Call, Continue, IdleStep

\* No signal is lost and none is counted twice: from the moment cond_wait()
\* gives up the lock, its caller is on the condition's list or has the one
\* signal it was sent in its own semaphore, although both are changed by
\* others before it sleeps.
THEOREM SignalsArrive == Spec => []SignalDelivered
<1>1. Init => SignalDelivered
  <2> SUFFICES ASSUME Init PROVE SignalDelivered
    BY Zenon
  <2>1. \A c \in Conds : cond_waiters[c] = <<>>
    BY Zenon DEF Init
  <2>2. ASSUME NEW t \in Thread PROVE value[t] = 0 /\ pc[t] \notin InWait
    <3>1. t \notin Locks
      BY SynchAssumption, Zenon
    <3>2. value[t] = 0
      BY <3>1, Zenon DEF Init, Sema
    <3>3. pc[t] \in {"start", "idle_init", "run"}
      BY Zenon DEF Init
    <3> QED BY Zenon, <3>2, <3>3 DEF InWait
  <2> QED BY <2>1, <2>2, EmptyQueue DEF SignalDelivered, InWait
<1> QED BY <1>1, TypeInvInit, TypeInvStep, SignalStep, PTL DEF Spec
-----------------------------------------------------------------------------
\* No wakeup of a semaphore is lost.

\* The labels at which a thread is in sema_down().
Downing == {"down", "acquire", "cond_down"}

\* NoLostWakeup for one semaphore.
Served(s) == waiters[s] # <<>> => Enough(value[s], Woken(s))

LEMMA EnoughMore ==
  ASSUME NEW n, NEW S, NEW T, Enough(n, S), S \subseteq T
  PROVE  Enough(n, T)
<1>1. PICK f \in [1 .. n -> S] : \A i, j \in 1 .. n : f[i] = f[j] => i = j
  BY Zenon DEF Enough
<1>2. f \in [1 .. n -> T]
  BY Zenon
<1> QED BY <1>1, <1>2, Zenon DEF Enough

LEMMA EnoughZero == ASSUME NEW S PROVE Enough(0, S)
<1>1. 1 .. 0 = {}
  OBVIOUS
<1>2. [i \in {} |-> i] \in [{} -> S]
  BY Zenon
<1> QED BY <1>1, <1>2, Zenon DEF Enough

\* The unit of a thread that is no longer there may be the one taken.
LEMMA EnoughTaken ==
  ASSUME NEW n \in Nat, n > 0, NEW S, NEW T, NEW t, Enough(n, S), S \ {t} \subseteq T
  PROVE  Enough(n - 1, T)
<1>1. PICK f \in [1 .. n -> S] : \A i, j \in 1 .. n : f[i] = f[j] => i = j
  BY Zenon DEF Enough
<1> DEFINE g == [i \in 1 .. n - 1 |-> IF f[i] = t THEN f[n] ELSE f[i]]
<1>2. /\ n \in 1 .. n
      /\ \A i \in 1 .. n - 1 : i \in 1 .. n /\ i # n
  OBVIOUS
<1>3. \A i \in 1 .. n - 1 : g[i] = IF f[i] = t THEN f[n] ELSE f[i]
  BY Zenon
<1>4. \A i \in 1 .. n - 1 : g[i] \in T
  BY <1>1, <1>2, <1>3, Zenon
<1>5. g \in [1 .. n - 1 -> T]
  BY <1>3, <1>4, Zenon
<1> HIDE DEF g
<1>6. \A i, j \in 1 .. n - 1 : g[i] = g[j] => i = j
  <2> TAKE i, j \in 1 .. n - 1
  <2>1. i \in 1 .. n /\ j \in 1 .. n /\ i # n /\ j # n
    BY <1>2, Zenon
  <2> QED BY <1>1, <1>2, <1>3, <2>1, Zenon
<1> QED BY <1>5, <1>6, Zenon DEF Enough

\* A thread that was not there takes the unit that is added.
LEMMA EnoughAdded ==
  ASSUME NEW n \in Nat, NEW S, NEW T, NEW h \in T, h \notin S, Enough(n, S), S \subseteq T
  PROVE  Enough(n + 1, T)
<1>1. PICK f \in [1 .. n -> S] : \A i, j \in 1 .. n : f[i] = f[j] => i = j
  BY Zenon DEF Enough
<1> DEFINE g == [i \in 1 .. n + 1 |-> IF i = n + 1 THEN h ELSE f[i]]
<1>2. \A i \in 1 .. n + 1 : i # n + 1 => i \in 1 .. n
  OBVIOUS
<1>3. \A i \in 1 .. n + 1 : g[i] = IF i = n + 1 THEN h ELSE f[i]
  BY Zenon
<1>4. g \in [1 .. n + 1 -> T]
  BY <1>2, Zenon
<1> HIDE DEF g
<1>6. \A i, j \in 1 .. n + 1 : g[i] = g[j] => i = j
  <2> TAKE i, j \in 1 .. n + 1
  <2>1. \A k \in 1 .. n + 1 : k # n + 1 => g[k] = f[k] /\ f[k] \in S /\ k \in 1 .. n
    BY <1>2, <1>3, Zenon
  <2>2. g[n + 1] = h
    <3>1. n + 1 \in 1 .. n + 1
      OBVIOUS
    <3> QED BY <1>3, <3>1, Zenon
  <2> QED BY <1>1, <2>1, <2>2, Zenon
<1> QED BY <1>4, <1>6, Zenon DEF Enough

\* A thread in sema_down() that neither moves nor falls asleep stays woken.
LEMMA WokenStay ==
  ASSUME TypeInv, NEW x, NEW s \in Sema, x \in Thread => WaitsOn(x) # s,
         \A u \in Thread \ {x, Idle} : pc[u] \in Downing =>
            /\ pc'[u] = pc[u] /\ on'[u] = on[u]
            /\ status'[u] = "BLOCKED" => status[u] = "BLOCKED"
  PROVE  Woken(s) \subseteq Woken(s)'
<1> SUFFICES ASSUME NEW u \in Thread, WaitsOn(u) = s, status[u] # "BLOCKED"
             PROVE  WaitsOn(u)' = s /\ status'[u] # "BLOCKED"
  BY Zenon DEF Woken
<1>1. u # Idle /\ u # x
  BY WaitsOnNothing, Zenon DEF TypeInv
<1>2. pc[u] \in Downing
  <2>1. pc[u] \notin Downing => WaitsOn(u) = NoThread
    BY DEF Downing, WaitsOn
  <2>2. NoThread \notin Sema
    BY ThreadsAssumption, SynchAssumption, Zenon DEF Sema, Thread
  <2> QED BY <2>1, <2>2, Zenon
<1>3. pc'[u] = pc[u] /\ on'[u] = on[u] /\ status'[u] # "BLOCKED"
  BY <1>1, <1>2, Zenon
<1> QED BY <1>3, WaitsOnKept, Zenon

\* A step that puts nobody to sleep on s and adds no unit to its value.
LEMMA ServedStays ==
  ASSUME TypeInv, NEW s \in Sema, Served(s), Woken(s) \subseteq Woken(s)',
         value'[s] = value[s], waiters'[s] = waiters[s]
  PROVE  Served(s)'
  BY EnoughMore, Zenon DEF Served

LEMMA ServedZero ==
  ASSUME NEW s, value'[s] = 0 PROVE Served(s)'
  BY EnoughZero, Zenon DEF Served

\* A unit is taken by a thread that leaves the woken, or by one that was not
\* among them.
LEMMA ServedTaken ==
  ASSUME TypeInv, NEW s \in Sema, Served(s), NEW t, Woken(s) \ {t} \subseteq Woken(s)',
         value[s] > 0, value' = [value EXCEPT ![s] = @ - 1], waiters'[s] = waiters[s]
  PROVE  Served(s)'
<1>1. value[s] \in Nat /\ value'[s] = value[s] - 1
  BY Zenon DEF TypeInv, TypeOK
<1>2. waiters[s] # <<>> => Enough(value[s] - 1, Woken(s)')
  BY <1>1, EnoughTaken, Zenon DEF Served
<1> QED BY <1>1, <1>2, Zenon DEF Served

\* sema_up() adds a unit and wakes a thread for it, or has nobody to wake.
LEMMA ServedUp ==
  ASSUME TypeInv, Places, NEW s \in Sema, Served(s), sema_up(s),
         \A u \in Thread \ {Idle} : pc[u] \in Downing => pc'[u] = pc[u] /\ on'[u] = on[u]
  PROVE  /\ Served(s)'
         /\ \A u \in Thread : status'[u] = "BLOCKED" => status[u] = "BLOCKED"
         /\ \A z \in Sema \ {s} : value'[z] = value[z] /\ waiters'[z] = waiters[z]
<1>0. /\ value \in [Sema -> Nat] /\ waiters \in [Sema -> Seq(Thread)] /\ status \in [Thread -> Status]
      /\ ControlOK
  BY Zenon DEF TypeInv, TypeOK, SchedTypeOK
<1>1. value' = [value EXCEPT ![s] = @ + 1]
  BY Zenon DEF sema_up
<1>2. CASE waiters[s] = <<>>
  <2>1. waiters' = waiters /\ status' = status
    BY <1>2, Zenon DEF sema_up
  <2> QED BY <1>0, <1>1, <1>2, <2>1, Zenon DEF Served
<1>3. CASE waiters[s] # <<>>
  <2>0. waiters[s] \in Seq(Thread)
    BY <1>0, Zenon
  <2>a. Head(waiters[s]) \in Thread /\ Head(waiters[s]) \in Range(waiters[s])
    BY <1>3, <2>0, PopFront, Zenon
  <2>2. PICK h \in Thread : h = Head(waiters[s]) /\ h \in Range(waiters[s])
    BY <2>a, Zenon
  <2>1. waiters' = [waiters EXCEPT ![s] = Tail(@)] /\ status' = [status EXCEPT ![h] = "READY"]
    BY <1>3, <2>2, Zenon DEF sema_up, thread_unblock
  <2>3. status[h] = "BLOCKED" /\ WaitsOn(h) = s
    BY <2>2, PlacesParts, Zenon
  <2>4. h # Idle /\ pc[h] \in Downing
    <3>1. pc[h] \notin Downing => WaitsOn(h) = NoThread
      BY DEF Downing, WaitsOn
    <3>2. NoThread \notin Sema
      BY ThreadsAssumption, SynchAssumption, Zenon DEF Sema, Thread
    <3> QED BY <1>0, <2>2, <2>3, <3>1, <3>2, WaitsOnNothing, Zenon
  <2>5. status'[h] = "READY" /\ \A u \in Thread \ {h} : status'[u] = status[u]
    BY <1>0, <2>1, <2>2, Zenon
  <2>6. "READY" # "BLOCKED"
    OBVIOUS
  <2>7. WaitsOn(h)' = s /\ h \in Woken(s)' /\ h \notin Woken(s)
    <3>1. WaitsOn(h)' = s
      BY <2>2, <2>3, <2>4, WaitsOnKept, Zenon
    <3>2. h \in Woken(s)'
      BY <2>2, <2>5, <2>6, <3>1, Zenon DEF Woken
    <3>3. h \notin Woken(s)
      BY <2>3, Zenon DEF Woken
    <3> QED BY <3>1, <3>2, <3>3, Zenon
  <2>8. \A u \in Thread : status'[u] = "BLOCKED" => status[u] = "BLOCKED"
    BY <2>5, <2>6, Zenon
  <2>9. Woken(s) \subseteq Woken(s)'
    <3>1. NoThread \in Thread => WaitsOn(NoThread) # s
      BY ThreadsAssumption, Zenon DEF Thread
    <3> QED BY <2>8, <3>1, WokenStay, Zenon
  <2>10. value[s] \in Nat /\ value'[s] = value[s] + 1
    BY <1>0, <1>1, Zenon
  <2>11. Enough(value[s] + 1, Woken(s)')
    <3>1. Enough(value[s], Woken(s))
      BY <1>3, Zenon DEF Served
    <3> QED BY <2>7, <2>9, <2>10, <3>1, EnoughAdded, Zenon
  <2>12. Served(s)'
    BY <2>10, <2>11, Zenon DEF Served
  <2> QED BY <1>0, <1>1, <2>1, <2>8, <2>12, Zenon
<1> QED BY <1>2, <1>3, Zenon

\* The threads in sema_down() keep their place in it, and none falls asleep.
StillDowning == \A u \in Thread \ {Idle} : pc[u] \in Downing => pc'[u] = pc[u] /\ on'[u] = on[u]
NoneBlocks == \A u \in Thread \ {Idle} : pc[u] \in Downing /\ status'[u] = "BLOCKED" => status[u] = "BLOCKED"

LEMMA AllWokenStay ==
  ASSUME TypeInv, StillDowning, NoneBlocks, NEW s \in Sema
  PROVE  Woken(s) \subseteq Woken(s)'
<1>1. NoThread \in Thread => WaitsOn(NoThread) # s
  BY ThreadsAssumption, Zenon DEF Thread
<1> QED BY <1>1, WokenStay, Zenon DEF StillDowning, NoneBlocks

\* No semaphore is upped and nobody starts to wait.
LEMMA NoUp ==
  ASSUME TypeInv, NoLostWakeup, StillDowning, NoneBlocks, waiters' = waiters,
         \A s \in Sema : value'[s] = value[s] \/ value'[s] = 0
  PROVE  NoLostWakeup'
<1>1. ASSUME NEW s \in Sema PROVE Served(s)'
  <2>1. Served(s) /\ Woken(s) \subseteq Woken(s)' /\ waiters'[s] = waiters[s]
    BY AllWokenStay, Zenon DEF NoLostWakeup, Served
  <2> QED BY <2>1, ServedStays, ServedZero, Zenon
<1> QED BY <1>1, Zenon DEF NoLostWakeup, Served

\* A unit is taken without waiting: sema_try_down().
LEMMA OneTaken ==
  ASSUME TypeInv, NoLostWakeup, StillDowning, NoneBlocks, waiters' = waiters,
         NEW s \in Sema, value[s] > 0, value' = [value EXCEPT ![s] = @ - 1]
  PROVE  NoLostWakeup'
<1>1. ASSUME NEW z \in Sema PROVE Served(z)'
  <2>1. Served(z) /\ Woken(z) \subseteq Woken(z)' /\ waiters'[z] = waiters[z]
    BY AllWokenStay, Zenon DEF NoLostWakeup, Served
  <2>2. CASE z = s
    <3>1. Woken(z) \ {NoThread} \subseteq Woken(z)'
      BY <2>1, Zenon
    <3> QED BY <2>1, <2>2, <3>1, ServedTaken, Zenon
  <2>3. CASE z # s
    <3>1. value'[z] = value[z]
      BY <2>3, Zenon DEF TypeInv, TypeOK
    <3> QED BY <2>1, <3>1, ServedStays, Zenon
  <2> QED BY <2>2, <2>3, Zenon
<1> QED BY <1>1, Zenon DEF NoLostWakeup, Served

LEMMA OneUp ==
  ASSUME TypeInv, Places, NoLostWakeup, StillDowning, NEW s \in Sema, sema_up(s)
  PROVE  NoLostWakeup'
<1>1. Served(s)
  BY Zenon DEF NoLostWakeup, Served
<1>2. /\ Served(s)'
      /\ \A u \in Thread : status'[u] = "BLOCKED" => status[u] = "BLOCKED"
      /\ \A z \in Sema \ {s} : value'[z] = value[z] /\ waiters'[z] = waiters[z]
  BY <1>1, ServedUp, Zenon DEF StillDowning
<1>3. NoneBlocks
  BY <1>2, Zenon DEF NoneBlocks
<1>4. ASSUME NEW z \in Sema \ {s} PROVE Served(z)'
  <2>1. z \in Sema /\ Served(z) /\ Woken(z) \subseteq Woken(z)' /\ value'[z] = value[z] /\ waiters'[z] = waiters[z]
    BY <1>2, <1>3, AllWokenStay, Zenon DEF NoLostWakeup, Served
  <2> QED BY <2>1, ServedStays, Zenon
<1> QED BY <1>2, <1>4, Zenon DEF NoLostWakeup, Served

LEMMA OneDown ==
  ASSUME TypeInv, Places, NoLostWakeup, NEW t \in Thread \ {Idle}, cur = t, pc[t] # "start",
         NEW s \in Sema, WaitsOn(t) = s, NEW label, NEW obj, NEW next,
         sema_down(t, s, label, obj, next)
  PROVE  NoLostWakeup'
<1>0. value \in [Sema -> Nat] /\ waiters \in [Sema -> Seq(Thread)] /\ pc[Main] # "start" /\ t \in Thread /\ TypeOK
  BY Zenon DEF TypeInv, TypeOK, ControlOK, Thread
<1>1. CASE /\ value[s] = 0 /\ thread_block /\ waiters' = [waiters EXCEPT ![s] = Append(@, t)]
           /\ UNCHANGED <<value, ctlVars>>
  <2>1. Switched("BLOCKED")
    BY <1>0, <1>1, BlockSwitch, Zenon
  <2>2. \A u \in Thread \ {t, Idle} : pc[u] \in Downing =>
            /\ pc'[u] = pc[u] /\ on'[u] = on[u]
            /\ status'[u] = "BLOCKED" => status[u] = "BLOCKED"
    BY <1>1, <2>1, Zenon DEF Switched, ctlVars
  <2>3. ASSUME NEW z \in Sema PROVE Served(z)'
    <3>1. CASE z = s
      BY <1>1, <3>1, ServedZero, Zenon
    <3>2. CASE z # s
      <4>1. Woken(z) \subseteq Woken(z)'
        BY <2>2, <3>2, WokenStay, Zenon
      <4>2. value'[z] = value[z] /\ waiters'[z] = waiters[z] /\ Served(z)
        BY <1>0, <1>1, <3>2, Zenon DEF NoLostWakeup, Served
      <4> QED BY <4>1, <4>2, ServedStays, Zenon
    <3> QED BY <3>1, <3>2, Zenon
  <2> QED BY <2>3, Zenon DEF NoLostWakeup, Served
<1>2. CASE /\ value[s] > 0 /\ value' = [value EXCEPT ![s] = @ - 1] /\ Goto(t, label, obj, next)
           /\ UNCHANGED <<waiters, status, ready_list, cur, thread_ticks>>
  <2>1. \A u \in Thread \ {t} : pc'[u] = pc[u] /\ on'[u] = on[u]
    BY <1>0, <1>2, Zenon DEF Goto, TypeOK
  <2>2. \A u \in Thread \ {t, Idle} : pc[u] \in Downing =>
            /\ pc'[u] = pc[u] /\ on'[u] = on[u]
            /\ status'[u] = "BLOCKED" => status[u] = "BLOCKED"
    BY <1>2, <2>1, Zenon
  <2>3. ASSUME NEW z \in Sema PROVE Served(z)'
    <3>1. CASE z = s
      <4>1. ASSUME NEW u \in Thread \ {t}, WaitsOn(u) = s, status[u] # "BLOCKED"
            PROVE  WaitsOn(u)' = s /\ status'[u] # "BLOCKED"
        BY <1>2, <2>1, <4>1, WaitsOnKept, Zenon
      <4>2. Woken(s) \ {t} \subseteq Woken(s)'
        BY <4>1, Zenon DEF Woken
      <4>3. waiters'[s] = waiters[s] /\ Served(s)
        BY <1>2, Zenon DEF NoLostWakeup, Served
      <4> QED BY <1>2, <3>1, <4>2, <4>3, ServedTaken, Zenon
    <3>2. CASE z # s
      <4>1. Woken(z) \subseteq Woken(z)'
        BY <2>2, <3>2, WokenStay, Zenon
      <4>2. value'[z] = value[z] /\ waiters'[z] = waiters[z] /\ Served(z)
        BY <1>0, <1>2, <3>2, Zenon DEF NoLostWakeup, Served
      <4> QED BY <4>1, <4>2, ServedStays, Zenon
    <3> QED BY <3>1, <3>2, Zenon
  <2> QED BY <2>3, Zenon DEF NoLostWakeup, Served
<1> QED BY <1>1, <1>2, Zenon DEF sema_down

\* A thread outside sema_down() moves, and nobody falls asleep.
LEMMA MovesOutside ==
  ASSUME TypeOK, NEW t \in Thread, pc[t] \notin Downing,
         \/ \E label, obj, next : Goto(t, label, obj, next)
         \/ UNCHANGED ctlVars
  PROVE  StillDowning
<1>1. ASSUME NEW label, NEW obj, NEW next, Goto(t, label, obj, next) PROVE StillDowning
  <2>1. \A u \in Thread \ {t} : pc'[u] = pc[u] /\ on'[u] = on[u]
    BY <1>1, Zenon DEF Goto, TypeOK
  <2> QED BY <2>1, Zenon DEF StillDowning
<1>2. CASE UNCHANGED ctlVars
  BY <1>2, Zenon DEF StillDowning, ctlVars
<1> QED BY <1>1, <1>2, Zenon

LEMMA SwitchAwake ==
  ASSUME NEW z, Switched(z), z # "BLOCKED" \/ pc[cur] \notin Downing
  PROVE  NoneBlocks
  BY Zenon DEF Switched, NoneBlocks
LEMMA WakeupStep ==
  ASSUME PlacesInv, NoLostWakeup, [Next]_vars
  PROVE  NoLostWakeup'
<1> DEFINE G == NoLostWakeup'
<1>0. /\ TypeInv /\ TypeOK /\ ControlOK /\ Places /\ Main \in Thread /\ Idle \in Thread
      /\ status \in [Thread -> Status] /\ value \in [Sema -> Nat] /\ cur \in Thread
      /\ Semas \subseteq Sema /\ Locks \subseteq Sema /\ Thread \subseteq Sema /\ IdleStarted \in Sema
      /\ LockOf \in [Conds -> Locks] /\ cond_waiters \in [Conds -> Seq(Thread)]
  BY SynchAssumption, Zenon DEF PlacesInv, TypeInv, TypeOK, SchedTypeOK, Thread, Sema
<1>a. {"start", "run", "own", "release", "cond_up", "broadcast", "tid_read", "tid_write",
       "unblock", "idle_init", "idle_up", "idle_block", "idle_halt"} \cap Downing = {}
  BY DEF Downing
<1>b. status' = status => NoneBlocks
  BY Zenon DEF NoneBlocks
<1>1. CASE ThreadStart
  <2>1. /\ pc[Main] = "start" /\ Goto(Main, "down", IdleStarted, "run") /\ UNCHANGED <<waiters, value>>
        /\ status' = [status EXCEPT ![Idle] = "READY"]
    BY <1>1, Zenon DEF ThreadStart, At, objVars, thread_unblock
  <2>2. pc[Main] \notin Downing
    BY <1>a, <2>1, Zenon
  <2>3. StillDowning
    BY <1>0, <2>1, <2>2, MovesOutside, Zenon
  <2>4. NoneBlocks
    BY <1>0, <2>1, Zenon DEF NoneBlocks
  <2> QED BY <1>0, <2>1, <2>3, <2>4, NoUp, Zenon
<1>2. ASSUME NEW t \in Thread \ {Idle}, NEW s, SemaDown(t, s) \/ LockAcquire(t, s) \/ LockRelease(t, s)
              \/ CondBroadcast(t, s)
      PROVE  G
  <2>1. /\ pc[t] = "run" /\ UNCHANGED <<waiters, value, status>>
        /\ \E label, obj, next : Goto(t, label, obj, next)
    BY <1>2, Zenon DEF SemaDown, LockAcquire, LockRelease, CondBroadcast, At, objVars, schedVars
  <2>2. StillDowning
    BY <1>0, <1>a, <2>1, MovesOutside, Zenon
  <2> QED BY <1>0, <1>b, <2>1, <2>2, NoUp, Zenon
<1>3. ASSUME NEW t \in Thread \ {Idle}, NEW s \in Semas, SemaTryDown(t, s) PROVE G
  <2>1. /\ pc[t] = "run" /\ UNCHANGED <<waiters, status>> /\ UNCHANGED ctlVars
        /\ s \in Sema /\ value[s] > 0 /\ value' = [value EXCEPT ![s] = @ - 1]
    BY <1>0, <1>3, Zenon DEF SemaTryDown, At, schedVars
  <2>2. StillDowning
    BY <1>0, <1>a, <2>1, MovesOutside, Zenon
  <2> QED BY <1>0, <1>b, <2>1, <2>2, OneTaken, Zenon
<1>4. ASSUME NEW t \in Thread \ {Idle}, NEW l \in Locks, LockTryAcquire(t, l) PROVE G
  <2>1. /\ pc[t] = "run" /\ UNCHANGED <<waiters, status>> /\ Goto(t, "own", l, "run")
        /\ l \in Sema /\ value[l] > 0 /\ value' = [value EXCEPT ![l] = @ - 1]
    BY <1>0, <1>4, Zenon DEF LockTryAcquire, At, schedVars
  <2>2. StillDowning
    BY <1>0, <1>a, <2>1, MovesOutside, Zenon
  <2> QED BY <1>0, <1>b, <2>1, <2>2, OneTaken, Zenon
<1>5. ASSUME NEW t \in Thread \ {Idle}, NEW s \in Semas, SemaUp(t, s) PROVE G
  <2>1. pc[t] = "run" /\ UNCHANGED ctlVars /\ s \in Sema /\ sema_up(s)
    BY <1>0, <1>5, Zenon DEF SemaUp, At
  <2>2. StillDowning
    BY <1>0, <1>a, <2>1, MovesOutside, Zenon
  <2> QED BY <1>0, <2>1, <2>2, OneUp, Zenon
<1>6. ASSUME NEW t \in Thread \ {Idle}, NEW c \in Conds, CondWait(t, c) PROVE G
  <2>1. /\ pc[t] = "run" /\ UNCHANGED <<waiters, status>> /\ Goto(t, "cond_up", c, "run")
        /\ value' = [value EXCEPT ![t] = 0]
    BY <1>6, Zenon DEF CondWait, At, schedVars
  <2>2. StillDowning
    BY <1>0, <1>a, <2>1, MovesOutside, Zenon
  <2>3. \A s \in Sema : value'[s] = value[s] \/ value'[s] = 0
    BY <1>0, <2>1, Zenon
  <2> QED BY <1>0, <1>b, <2>1, <2>2, <2>3, NoUp, Zenon
<1>7. ASSUME NEW c \in Conds, cond_waiters[c] # <<>>, signal_first(c), UNCHANGED ctlVars PROVE G
  <2>1. cond_waiters[c] \in Seq(Thread)
    BY <1>0, Zenon
  <2>2. Head(cond_waiters[c]) \in Sema
    BY <1>0, <1>7, <2>1, PopFront, Zenon
  <2>3. PICK s \in Sema : sema_up(s)
    BY <1>7, <2>2, Zenon DEF signal_first
  <2>4. StillDowning
    BY <1>7, Zenon DEF StillDowning, ctlVars
  <2> QED BY <1>0, <2>3, <2>4, OneUp, Zenon
<1>8. ASSUME NEW t \in Thread \ {Idle}, NEW c \in Conds, CondSignal(t, c) PROVE G
  BY <1>7, <1>8, Zenon DEF CondSignal
<1>9. ASSUME NEW t \in Thread \ {Idle}, NEW page \in Pages, ThreadCreate(t, page) PROVE G
  <2>1. /\ pc[t] = "run" /\ UNCHANGED <<waiters, value>> /\ Goto(t, "acquire", TidLock, "tid_read")
        /\ status[page] = "FREE" /\ status' = [status EXCEPT ![page] = "BLOCKED"]
    BY <1>9, Zenon DEF ThreadCreate, At, objVars
  <2>2. StillDowning
    BY <1>0, <1>a, <2>1, MovesOutside, Zenon
  <2>3. pc[page] \notin Downing
    <3>1. pc[page] = "run"
      BY <1>0, <2>1, Zenon DEF Places, Births
    <3> QED BY <1>a, <3>1, Zenon
  <2>4. NoneBlocks
    BY <1>0, <2>1, <2>3, Zenon DEF NoneBlocks
  <2> QED BY <1>0, <2>1, <2>2, <2>4, NoUp, Zenon
<1>10. ASSUME NEW t \in Thread \ {Idle}, ThreadYield(t) \/ ThreadExit(t) PROVE G
  <2>1. /\ cur = t /\ pc[t] = "run" /\ UNCHANGED <<waiters, value>> /\ UNCHANGED ctlVars
        /\ thread_yield \/ thread_die
    BY <1>10, Zenon DEF ThreadYield, ThreadExit, At, objVars
  <2>2. StillDowning /\ pc[cur] \notin Downing
    BY <1>0, <1>a, <2>1, MovesOutside, Zenon
  <2>3. pc[Main] # "start" /\ cur # Idle
    <3>1. pc[Main] = "start" => cur = Main
      BY <1>0, Zenon DEF ControlOK
    <3>2. "run" # "start"
      OBVIOUS
    <3> QED BY <2>1, <3>1, <3>2, Zenon
  <2>4. \E z : Switched(z)
    BY <1>0, <2>1, <2>3, YieldSwitch, DieSwitch, Zenon
  <2>5. NoneBlocks
    BY <2>2, <2>4, SwitchAwake, Zenon
  <2> QED BY <1>0, <2>1, <2>2, <2>5, NoUp, Zenon
<1>11. ASSUME NEW t \in Thread \ {Idle}, SemaDownLoop(t) PROVE G
  <2>1. cur = t /\ pc[t] = "down" /\ sema_down(t, on[t], ret[t], NoThread, "run")
    BY <1>11, Zenon DEF SemaDownLoop, At
  <2>2. PICK s \in Sema : on[t] = s
    BY <1>0, <2>1, Zenon DEF ControlOK
  <2>3. WaitsOn(t) = s /\ pc[t] # "start"
    BY <2>1, <2>2 DEF WaitsOn
  <2> QED BY <1>0, <2>1, <2>2, <2>3, OneDown, Zenon
<1>12. ASSUME NEW t \in Thread \ {Idle}, LockAcquireLoop(t) PROVE G
  <2>1. cur = t /\ pc[t] = "acquire" /\ sema_down(t, on[t], "own", on[t], ret[t])
    BY <1>12, Zenon DEF LockAcquireLoop, At
  <2>2. PICK s \in Sema : on[t] = s
    BY <1>0, <2>1, Zenon DEF ControlOK
  <2>3. WaitsOn(t) = s /\ pc[t] # "start"
    BY <2>1, <2>2 DEF WaitsOn
  <2> QED BY <1>0, <2>1, <2>2, <2>3, OneDown, Zenon
<1>13. ASSUME NEW t \in Thread \ {Idle}, CondWaitDown(t) PROVE G
  <2>1. cur = t /\ pc[t] = "cond_down" /\ sema_down(t, t, "acquire", LockOf[on[t]], "run")
    BY <1>13, Zenon DEF CondWaitDown, At
  <2>2. WaitsOn(t) = t /\ pc[t] # "start" /\ t \in Sema
    <3>1. WaitsOn(t) = t /\ pc[t] # "start"
      BY <2>1 DEF WaitsOn
    <3> QED BY <1>0, <3>1, Zenon
  <2> QED BY <1>0, <2>1, <2>2, OneDown, Zenon
<1>14. ASSUME NEW t \in Thread \ {Idle}, LockOwn(t) \/ TidRead(t) \/ TidWrite(t) PROVE G
  <2>1. /\ pc[t] \in {"own", "tid_read", "tid_write"} /\ UNCHANGED <<waiters, value, status>>
        /\ \E label, obj, next : Goto(t, label, obj, next)
    BY <1>14, Zenon DEF LockOwn, TidRead, TidWrite, Resume, At, objVars, schedVars
  <2>2. StillDowning
    BY <1>0, <1>a, <2>1, MovesOutside, Zenon
  <2> QED BY <1>0, <1>b, <2>1, <2>2, NoUp, Zenon
<1>15. ASSUME NEW t \in Thread \ {Idle}, LockReleaseUp(t) PROVE G
  <2>1. pc[t] = "release" /\ sema_up(on[t]) /\ \E label, obj, next : Goto(t, label, obj, next)
    BY <1>15, Zenon DEF LockReleaseUp, Resume, At
  <2>2. PICK s \in Sema : on[t] = s
    BY <1>0, <2>1, Zenon DEF ControlOK
  <2>3. StillDowning
    BY <1>0, <1>a, <2>1, MovesOutside, Zenon
  <2> QED BY <1>0, <2>1, <2>2, <2>3, OneUp, Zenon
<1>16. ASSUME NEW t \in Thread \ {Idle}, CondWaitUp(t) PROVE G
  <2>1. pc[t] = "cond_up" /\ sema_up(LockOf[on[t]]) /\ \E label, obj, next : Goto(t, label, obj, next)
    BY <1>16, Zenon DEF CondWaitUp, At
  <2>2. PICK s \in Sema : LockOf[on[t]] = s
    BY <1>0, <2>1, Zenon DEF ControlOK
  <2>3. StillDowning
    BY <1>0, <1>a, <2>1, MovesOutside, Zenon
  <2> QED BY <1>0, <2>1, <2>2, <2>3, OneUp, Zenon
<1>17. ASSUME NEW t \in Thread \ {Idle}, CondBroadcastLoop(t) PROVE G
  <2>1. pc[t] = "broadcast" /\ on[t] \in Conds
    BY <1>0, <1>17, Zenon DEF CondBroadcastLoop, At, ControlOK
  <2>2. CASE cond_waiters[on[t]] # <<>> /\ signal_first(on[t]) /\ UNCHANGED ctlVars
    <3>1. PICK c \in Conds : on[t] = c
      BY <2>1, Zenon
    <3> QED BY <1>7, <2>2, <3>1, Zenon
  <2>3. CASE Resume(t, "run") /\ UNCHANGED <<schedVars, objVars>>
    <3>1. UNCHANGED <<waiters, value, status>> /\ \E label, obj, next : Goto(t, label, obj, next)
      BY <2>3, Zenon DEF Resume, objVars, schedVars
    <3>2. StillDowning
      BY <1>0, <1>a, <2>1, <3>1, MovesOutside, Zenon
    <3> QED BY <1>0, <1>b, <3>1, <3>2, NoUp, Zenon
  <2> QED BY <1>17, <2>2, <2>3, Zenon DEF CondBroadcastLoop
<1>18. ASSUME NEW t \in Thread \ {Idle}, ThreadCreated(t) PROVE G
  <2>1. /\ pc[t] = "unblock" /\ UNCHANGED <<waiters, value>> /\ status' = [status EXCEPT ![new[t]] = "READY"]
        /\ \E label, obj, next : Goto(t, label, obj, next)
    BY <1>18, Zenon DEF ThreadCreated, At, Resume, objVars, thread_unblock
  <2>2. StillDowning
    BY <1>0, <1>a, <2>1, MovesOutside, Zenon
  <2>3. NoneBlocks
    BY <1>0, <2>1, Zenon DEF NoneBlocks
  <2> QED BY <1>0, <2>1, <2>2, <2>3, NoUp, Zenon
<1>19. CASE IdleInit
  <2>1. /\ pc[Idle] = "idle_init" /\ UNCHANGED <<waiters, value, status>>
        /\ \E label, obj, next : Goto(Idle, label, obj, next)
    BY <1>19, Zenon DEF IdleInit, At, Resume, objVars
  <2>2. StillDowning
    BY <1>0, <1>a, <2>1, MovesOutside, Zenon
  <2> QED BY <1>0, <1>b, <2>1, <2>2, NoUp, Zenon
<1>20. CASE IdleUp
  <2>1. pc[Idle] = "idle_up" /\ sema_up(IdleStarted) /\ \E label, obj, next : Goto(Idle, label, obj, next)
    BY <1>20, Zenon DEF IdleUp, At, Resume
  <2>2. StillDowning
    BY <1>0, <1>a, <2>1, MovesOutside, Zenon
  <2> QED BY <1>0, <2>1, <2>2, OneUp, Zenon
<1>21. CASE IdleBlock
  <2>1. /\ cur = Idle /\ pc[Idle] = "idle_block" /\ UNCHANGED <<waiters, value>> /\ thread_block
        /\ \E label, obj, next : Goto(Idle, label, obj, next)
    BY <1>21, Zenon DEF IdleBlock, At, Resume, objVars
  <2>2. StillDowning
    BY <1>0, <1>a, <2>1, MovesOutside, Zenon
  <2>3. pc[Main] # "start" /\ idle_thread # NoThread
    <3>1. "idle_block" # "idle_init"
      OBVIOUS
    <3> QED BY <1>0, <2>1, <3>1, ThreadsAssumption, ZenonT(60) DEF TypeInv, BootOK, ControlOK
  <2>4. Switched("BLOCKED") /\ pc[cur] \notin Downing
    BY <1>0, <1>a, <2>1, <2>3, BlockSwitch, Zenon
  <2>5. NoneBlocks
    BY <2>4, SwitchAwake, Zenon
  <2> QED BY <1>0, <2>1, <2>2, <2>5, NoUp, Zenon
<1>22. ASSUME WakeCPU PROVE StillDowning
  <2>1. \A u \in Thread \ {Idle} : pc'[u] = pc[u] /\ on'[u] = on[u]
    BY <1>0, <1>22, Zenon DEF WakeCPU, TypeOK
  <2> QED BY <2>1, Zenon DEF StillDowning
<1>23. CASE TimerInterrupt
  <2>1. /\ WakeCPU /\ UNCHANGED <<waiters, value>>
        /\ thread_yield \/ status' = status
    BY <1>23, Zenon DEF TimerInterrupt, thread_tick, objVars
  <2>2. NoneBlocks
    <3>1. CASE thread_yield
      <4>1. Switched("READY") /\ "READY" # "BLOCKED"
        <5>1. "READY" # "BLOCKED"
          OBVIOUS
        <5> QED BY <1>0, <3>1, <5>1, YieldSwitch, Zenon
      <4> QED BY <4>1, SwitchAwake, Zenon
    <3> QED BY <1>b, <2>1, <3>1, Zenon
  <2> QED BY <1>0, <1>22, <2>1, <2>2, NoUp, Zenon
<1>24. ASSUME NEW s \in Semas, DeviceInterrupt(s) PROVE G
  <2>1. s \in Sema /\ sema_up(s) /\ WakeCPU
    BY <1>0, <1>24, Zenon DEF DeviceInterrupt
  <2> QED BY <1>0, <1>22, <2>1, OneUp, Zenon
<1>25. CASE UNCHANGED vars
  <2>1. UNCHANGED <<waiters, value, status>> /\ UNCHANGED ctlVars
    BY <1>25, Zenon DEF vars, objVars, schedVars
  <2>2. StillDowning
    BY <2>1, Zenon DEF StillDowning, ctlVars
  <2> QED BY <1>0, <1>b, <2>1, <2>2, NoUp, Zenon
<1> QED
  BY ZenonT(60), <1>1, <1>2, <1>3, <1>4, <1>5, <1>6, <1>8, <1>9, <1>10, <1>11, <1>12, <1>13,
     <1>14, <1>15, <1>16, <1>17, <1>18, <1>19, <1>20, <1>21, <1>23, <1>24, <1>25
     DEF Next, Call, Continue, IdleStep

\* No wakeup is lost: while threads sleep on a semaphore, every unit of its
\* value has a thread of its own on the way to take it, whoever takes a unit
\* out of turn, and although sema_up() may come from an interrupt between any
\* two steps.
THEOREM WakeupsSuffice == Spec => []NoLostWakeup
<1>1. Init => NoLostWakeup
  <2> SUFFICES ASSUME Init PROVE NoLostWakeup
    BY Zenon
  <2>1. \A s \in Sema : waiters[s] = <<>>
    BY Zenon DEF Init
  <2> QED BY <2>1, Zenon DEF NoLostWakeup
<1>2. Init => PlacesInv
  BY TypeInvInit, PlacesInit, Zenon DEF PlacesInv
<1>3. PlacesInv /\ [Next]_vars => PlacesInv'
  BY Zenon, PlacesInvStep
<1>4. PlacesInv /\ NoLostWakeup /\ [Next]_vars => NoLostWakeup'
  BY Zenon, WakeupStep
<1> QED BY <1>1, <1>2, <1>3, <1>4, PTL DEF Spec
=============================================================================
