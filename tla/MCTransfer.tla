----------------------------- MODULE MCTransfer -----------------------------
(* Small instances of Transfer for TLC.                                    *)
EXTENDS TransferInduction
=============================================================================
