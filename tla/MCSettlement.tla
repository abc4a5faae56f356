---------------------------- MODULE MCSettlement ----------------------------
(***************************************************************************)
(* Settlement for TLC.  The constants, and the bounds on blocks,           *)
(* withdrawals and manual settlements, get their values in Settlement*.cfg.*)
(***************************************************************************)
EXTENDS Settlement, TLC
=============================================================================
