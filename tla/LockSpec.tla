------------------------------ MODULE LockSpec ------------------------------
(***************************************************************************)
(* What threads/synch.h promises of locks: each lock is owned by at most   *)
(* one thread, it is taken only when free, and only its owner gives it     *)
(* back.  Synch implements this; the modules above it use it.              *)
(***************************************************************************)
CONSTANTS Locks, Thread, NoThread

VARIABLE owner   \* owner[l], the thread that owns l, or NoThread

Acquire(t, l) ==
  /\ owner[l] = NoThread
  /\ owner' = [owner EXCEPT ![l] = t]

Release(t, l) ==
  /\ owner[l] = t
  /\ owner' = [owner EXCEPT ![l] = NoThread]

Init == owner = [l \in Locks |-> NoThread]

Next == \E t \in Thread, l \in Locks : Acquire(t, l) \/ Release(t, l)

Spec == Init /\ [][Next]_owner
=============================================================================
