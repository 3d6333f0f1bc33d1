--------------------------- MODULE MCBufferCache ---------------------------
(* BufferCache for TLC: two callers, two blocks, two contents of a sector. *)
EXTENDS BufferCache, TLC

CONSTANTS A, B, Other

Use(lock, s, d) == [file_lock |-> lock, sectors |-> s, data |-> d]

\* Callers one at a time, callers that overlap and evict, whose contents
\* differ from those of the disk at first, and such callers that all write
\* the same; only these are followed once they have raced an eviction.
AllUses ==
  {Use(TRUE, Sectors, {Other}), Use(FALSE, Sectors, {Other}), Use(FALSE, Sectors, {Blank})}
UntilRace == raced => use.data = {Blank}
RacyUses == {Use(FALSE, Sectors, Data)}

ThreadSymmetry == Permutations({A, B})
=============================================================================
