------------------------------ MODULE MCSynch ------------------------------
(***************************************************************************)
(* Synch for TLC, with one lock, semaphore and condition, and three pages  *)
(* for threads.  A load says what the threads call besides thread_create(),*)
(* thread_yield() and thread_exit(): the semaphore and the lock, on which  *)
(* an interrupt handler also calls sema_up(); the lock and the condition;  *)
(* or nothing, with memory enough that two may be in thread_create() at    *)
(* once.                                                                   *)
(***************************************************************************)
EXTENDS Synch, TLC

CONSTANTS L, S, C, A, B, D,
          SyncTid  \* bound on the tids of threads that synchronise

VARIABLE load  \* "sema", "cond" or "create"

MCLockOf == [c \in Conds |-> L]

MCInit == Init /\ load \in {"sema", "cond", "create"}

SyncCall(t) ==
  \/ /\ load = "sema"
     /\ \E s \in Semas : SemaDown(t, s) \/ SemaTryDown(t, s) \/ SemaUp(t, s)
  \/ LockAcquire(t, L) \/ LockTryAcquire(t, L) \/ LockRelease(t, L)
  \/ /\ load = "cond"
     /\ \E c \in Conds : CondWait(t, c) \/ CondSignal(t, c) \/ CondBroadcast(t, c)
  \/ /\ next_tid + Cardinality(Creating) <= SyncTid
     /\ \E page \in Pages \ {D} : ThreadCreate(t, page)

MCCall(t) ==
  \/ load # "create" /\ SyncCall(t)
  \/ load = "create" /\ \E page \in Pages : ThreadCreate(t, page)
  \/ ThreadYield(t)
  \/ ThreadExit(t)

MCNext ==
  /\ \/ ThreadStart
     \/ \E t \in Thread \ {Idle} : MCCall(t) \/ Continue(t)
     \/ IdleStep
     \/ TimerInterrupt
     \/ load = "sema" /\ \E s \in Semas : DeviceInterrupt(s)
  /\ UNCHANGED load

MCSpec == MCInit /\ [][MCNext]_<<vars, load>> /\ Fairness
=============================================================================
