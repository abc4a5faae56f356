---------------------------- MODULE Receivables -----------------------------
(***************************************************************************)
(* What settlement promises, with no chains, workers or suspense: an       *)
(* job is billed at an amount no other open invoice has; its invoice is    *)
(* then either settled for good or written off, and only one that was      *)
(* written off is billed again; cash is exactly what was settled.          *)
(* One step may settle several invoices, as one watch of the chains may.   *)
(***************************************************************************)
EXTENDS Integers, Sums

CONSTANT NumJobs

VARIABLES status, amount, cash
vars == <<status, amount, cash>>

Jobs == 1..NumJobs
Pending == {j \in Jobs : status[j] = "open"}

Init ==
  /\ status = [j \in Jobs |-> "none"]
  /\ amount = [j \in Jobs |-> 0]
  /\ cash = 0

Bill(j) ==
  /\ status[j] \in {"none", "void"}
  /\ amount'[j] \in Nat \ {0}
  /\ \A k \in Pending : amount[k] # amount'[j]
  /\ amount' = [amount EXCEPT ![j] = amount'[j]]
  /\ status' = [status EXCEPT ![j] = "open"]
  /\ UNCHANGED cash

Settle(paid) ==
  /\ status' = [j \in Jobs |-> IF j \in paid THEN "paid" ELSE status[j]]
  /\ cash' = cash + SumTo([j \in Jobs |-> IF j \in paid THEN amount[j] ELSE 0], NumJobs)
  /\ UNCHANGED amount

WriteOff(j) ==
  /\ status[j] = "open"
  /\ status' = [status EXCEPT ![j] = "void"]
  /\ UNCHANGED <<amount, cash>>

Next ==
  \/ \E j \in Jobs : Bill(j) \/ WriteOff(j)
  \/ \E paid \in SUBSET Pending : Settle(paid)

Spec == Init /\ [][Next]_vars
=============================================================================
