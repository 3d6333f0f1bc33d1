----------------------------- MODULE BlockStore -----------------------------
(***************************************************************************)
(* What filesys/cache.c promises the file system, and devices/block.c over *)
(* ide.c promises the cache: an array of sectors that are read and written *)
(* one at a time, each at one moment of the call.                          *)
(***************************************************************************)
CONSTANTS Threads, Sectors, Data, Blank

VARIABLES
  store,    \* store[s], the contents of sector s
  request,  \* request[t], <<operation, sector>>, or <<>> when t is elsewhere
  buffer    \* buffer[t], the buffer that thread t passes

Call(t, o, s, d) ==
  /\ request[t] = <<>>
  /\ request' = [request EXCEPT ![t] = <<o, s>>]
  /\ buffer' = [buffer EXCEPT ![t] = d]
  /\ UNCHANGED store

Read(t, s) ==
  /\ request[t] = <<"read", s>>
  /\ buffer' = [buffer EXCEPT ![t] = store[s]]
  /\ request' = [request EXCEPT ![t] = <<>>]
  /\ UNCHANGED store

Write(t, s) ==
  /\ request[t] = <<"write", s>>
  /\ store' = [store EXCEPT ![s] = buffer[t]]
  /\ request' = [request EXCEPT ![t] = <<>>]
  /\ UNCHANGED buffer

Init ==
  /\ store = [s \in Sectors |-> Blank]
  /\ request = [t \in Threads |-> <<>>]
  /\ buffer = [t \in Threads |-> Blank]

Next ==
  \E t \in Threads, s \in Sectors :
    \/ \E o \in {"read", "write"}, d \in Data : Call(t, o, s, d)
    \/ Read(t, s)
    \/ Write(t, s)

Spec == Init /\ [][Next]_<<store, request, buffer>>
=============================================================================
