----------------------------- MODULE MCPurchase -----------------------------
(* Purchase for TLC, with two watchdog threads: one the heartbeat waits for *)
(* and one it has abandoned.  The bounds get their values in Purchase*.cfg. *)
EXTENDS Purchase
=============================================================================
