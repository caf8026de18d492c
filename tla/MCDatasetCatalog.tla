-------------------------- MODULE MCDatasetCatalog --------------------------
(* A small instance of DatasetCatalog for TLC.                             *)
EXTENDS CatalogInduction, TLC

\* No definition tells one dataset from another.
Alike == Permutations(Dataset)
=============================================================================
