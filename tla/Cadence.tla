------------------------------- MODULE Cadence -------------------------------
(***************************************************************************)
(* The scheduler of sovereign/engine/schedule.py, live: an entry for each  *)
(* thing that is done now and then, a time, or after a failure the time of *)
(* the next try.  Each write is committed at once and survives a crash.    *)
(*                                                                         *)
(* One thread of one process uses it at a time.  All entries are one value *)
(* of the store, which a write reads, changes and writes back without a    *)
(* transaction: a role left behind or a command that does so in between    *)
(* would undo the entry of another, which the modules over this one leave  *)
(* out.                                                                    *)
(***************************************************************************)
EXTENDS Integers

CONSTANTS
  Entries,    (* keys of the schedule                                       *)
  MaxTime     (* bound: the clock stops here                                *)

ASSUME CadenceAssumption == MaxTime \in Nat

VARIABLES
  now,        (* the clock                                                  *)
  entry       (* the schedule                                               *)

Blank == [kind |-> "never", at |-> 0]

CadenceInit == now = 0 /\ entry = [k \in Entries |-> Blank]

CadenceTypeOK ==
  /\ now \in 0..MaxTime
  /\ entry \in [Entries -> [kind: {"never", "last", "next"}, at: Nat]]

(* due(): the time of the next try counts, else the time of the last one.  *)
Due(k, period) ==
  CASE entry[k].kind = "next" -> now >= entry[k].at
    [] entry[k].kind = "last" -> now - entry[k].at >= period
    [] OTHER                  -> TRUE

(* Mutant: a mark leaves the time of the next try where it is.             *)
Mark_KeepsNext(k) ==
  entry' = [entry EXCEPT ![k] = IF @.kind = "next" THEN @ ELSE [kind |-> "last", at |-> now]]

Mark(k) == entry' = [entry EXCEPT ![k] = [kind |-> "last", at |-> now]]

(* claim(): what is due is marked before it is done; nobody else claims    *)
(* between the two.                                                        *)
Claim(k, period) == Due(k, period) /\ Mark(k)

RetryAfter(k, delay) == entry' = [entry EXCEPT ![k] = [kind |-> "next", at |-> now + delay]]
=============================================================================
