------------------------------ MODULE MCSerial ------------------------------
(* Serial for TLC: two bytes, and queues of two. *)
EXTENDS Serial, TLC

CONSTANTS X, Y

ByteSymmetry == Permutations({X, Y})
=============================================================================
