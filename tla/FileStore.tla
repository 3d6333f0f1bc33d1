------------------------------ MODULE FileStore ------------------------------
(***************************************************************************)
(* What filesys/inode.c promises its callers: every file is a sequence of  *)
(* bytes of its own.  A call leaves a reply, which says what was asked and *)
(* how many bytes, or which bytes, the call returned.                      *)
(***************************************************************************)
EXTENDS Naturals, Sequences

CONSTANTS Names, Lengths, Offsets, Payloads, Sizes, NoFile

VARIABLES
  file,   \* file[f], the bytes of file f, or NoFile
  reply   \* the last call and its result

Larger(a, b) == IF a > b THEN a ELSE b

\* The bytes c after data is written at offset o; a gap is filled with zeros.
Overlay(c, o, data) ==
  [i \in 1..Larger(Len(c), o + Len(data)) |->
     IF i > o /\ i <= o + Len(data) THEN data[i - o]
     ELSE IF i <= Len(c) THEN c[i] ELSE 0]

Create(f, n) ==
  /\ reply' = <<"create", f, n>>
  /\ file[f] = NoFile
  /\ file' = [file EXCEPT ![f] = [i \in 1..n |-> 0]]

Delete(f) ==
  /\ reply' = <<"none">>
  /\ file[f] # NoFile
  /\ file' = [file EXCEPT ![f] = NoFile]

\* A call that reaches no file, or one that only counts openers.
Other == reply' = <<"none">> /\ UNCHANGED file

Write(f, o, data, n) ==
  /\ reply' = <<"write", f, o, data, n>>
  /\ file[f] # NoFile
  /\ file' = [file EXCEPT ![f] =
                IF n = 0 THEN @ ELSE Overlay(@, o, SubSeq(data, 1, n))]

Read(f, o, n) ==
  /\ file[f] # NoFile
  /\ LET end == IF o + n < Len(file[f]) THEN o + n ELSE Len(file[f])
     IN reply' = <<"read", f, o, SubSeq(file[f], o + 1, end)>>
  /\ UNCHANGED file

Init == file = [f \in Names |-> NoFile] /\ reply = <<"none">>

Next ==
  \/ Other
  \/ \E f \in Names :
       \/ \E n \in Lengths : Create(f, n)
       \/ Delete(f)
       \/ \E o \in Offsets :
            \/ \E data \in Payloads : \E n \in {0, Len(data)} : Write(f, o, data, n)
            \/ \E n \in Sizes : Read(f, o, n)

Spec == Init /\ [][Next]_<<file, reply>>
=============================================================================
