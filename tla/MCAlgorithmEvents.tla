------------------------- MODULE MCAlgorithmEvents --------------------------
(* A small instance of AlgorithmEvents for TLC.                            *)
EXTENDS EventInduction

CONSTANTS e1, e2, u1

MCEvent == {e1, e2}
MCUpload == {u1}

\* The event that comes with data.
MCOf == [u \in MCUpload |-> e1]
=============================================================================
