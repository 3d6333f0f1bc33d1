-------------------------------- MODULE Fifo --------------------------------
(***************************************************************************)
(* A bounded first-in first-out queue of bytes: what devices/intq.c        *)
(* promises to the two sides of an interrupt queue.                        *)
(***************************************************************************)
EXTENDS Naturals, Sequences

CONSTANTS Bytes, Capacity

VARIABLES
  queue,  \* the bytes put and not yet taken, oldest first
  taken,  \* the byte taken last
  given   \* the byte handed over last, to this queue or to another

Init == queue = <<>> /\ taken \in Bytes

Put ==
  /\ Len(queue) < Capacity
  /\ queue' = Append(queue, given')
  /\ UNCHANGED taken

Take ==
  /\ queue # <<>>
  /\ queue' = Tail(queue)
  /\ taken' = Head(queue)

Next == Put \/ Take

Spec == Init /\ [][Next]_<<queue, taken>>
=============================================================================
