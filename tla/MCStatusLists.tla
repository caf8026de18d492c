--------------------------- MODULE MCStatusLists ---------------------------
(* Small instances of StatusLists for TLC.                                 *)
EXTENDS StatusListInduction, TLC

CONSTANTS c1, c2, c3, k1, k2

MCIndex == 0 .. 2
Symmetry == Permutations({c1, c2, c3}) \cup Permutations({k1, k2})
=============================================================================
