---------------------------- MODULE MCBatchLogger ----------------------------
(* Small instances of BatchLogger for TLC.                                     *)
EXTENDS BatchLogger, TLC

CONSTANTS r1, r2, r3, r4, bad, w1, w2, c1

\* Sound with UnitSize, which treats the well-formed records alike.
Symmetry == Permutations(Records \ Malformed) \cup Permutations(Writers)

UnitSize == [r \in Records |-> 1]
\* Two of the short lines fit in a batch, a long one does not.
MixedSize == [r \in Records |-> IF r \in {r2, r4} THEN 3 ELSE 1]
==============================================================================
