------------------------------- MODULE MCSpaces -------------------------------
(* Three threads, three space_t objects and frames; UTCB locations 0 and 1 *)
(* share a page, 2 is in another one.                                     *)
EXTENDS Migration, TLC

CONSTANTS t1, t2, t3, s1, s2, s3, f1, f2, f3

MCPageOf(l) == IF l \in Nat THEN l \div 2 ELSE -1
MCAreas     == {{0, 1, 2}, {2}}
Symmetry    == Permutations({t2, t3}) \cup Permutations({s2, s3})
                 \cup Permutations({f1, f2, f3})
=============================================================================
