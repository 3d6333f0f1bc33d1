---------------------------- MODULE MCProcesses ----------------------------
(* Processes for TLC: a handful of interchangeable processes. *)
EXTENDS Processes, TLC

CONSTANTS A, B, C

Use(e, o, v, m) == [exits |-> e, orphans |-> o, overlap |-> v, may_fail |-> m]

\* Execs that overlap; parents that outlive their children, with memory running
\* out; and parents that do not.
SafeUses == {Use(FALSE, FALSE, TRUE, FALSE),
             Use(TRUE, FALSE, FALSE, TRUE),
             Use(FALSE, TRUE, FALSE, FALSE)}

LiveUses == {Use(FALSE, TRUE, FALSE, FALSE), Use(TRUE, FALSE, TRUE, FALSE)}

ProcSymmetry == Permutations(Procs)
=============================================================================
