------------------------ MODULE MCAlgorithmInstances ------------------------
(* A small instance of AlgorithmInstances for TLC.                         *)
EXTENDS AlgorithmInduction
=============================================================================
