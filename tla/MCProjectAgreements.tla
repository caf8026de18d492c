------------------------ MODULE MCProjectAgreements ------------------------
(* A small instance of ProjectAgreements for TLC.                          *)
EXTENDS AgreementInduction
=============================================================================
