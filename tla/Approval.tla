------------------------------ MODULE Approval ------------------------------
(***************************************************************************)
(* What the quorum promises, with no bus, heartbeat or threads: seats are  *)
(* asked, each may say something on each request, and money is spent on a  *)
(* request that every seat has spoken to and the treasurer and the         *)
(* director have said yes to.  It is spent once, until the purchase is     *)
(* torn: the expense is there, and who made it is gone before it is noted. *)
(***************************************************************************)
EXTENDS Naturals

CONSTANT Seats, MaxRequests

VARIABLES asked, said, paid, torn
vars == <<asked, said, paid, torn>>

Requests == 1..MaxRequests
Nothing  == [c \in Requests |-> 0]

Init == asked = 0 /\ said = {} /\ paid = Nothing /\ torn = FALSE

(* Seats are only asked while there is something left to buy.              *)
Ask ==
  /\ asked < MaxRequests
  /\ torn \/ paid = Nothing
  /\ asked' = asked + 1
  /\ UNCHANGED <<said, paid, torn>>

Say(c, s, v) ==
  /\ c <= asked
  /\ said' = said \cup {[corr |-> c, seat |-> s, vote |-> v]}
  /\ UNCHANGED <<asked, paid, torn>>

Heard(c, s)    == \E v \in said : v.corr = c /\ v.seat = s
Approved(c, s) == \E v \in said : v.corr = c /\ v.seat = s /\ v.vote = "yes"

Buy(c) ==
  /\ torn \/ paid = Nothing
  /\ \A s \in Seats : Heard(c, s)
  /\ Approved(c, "treasurer") /\ Approved(c, "director")
  /\ paid' = [paid EXCEPT ![c] = @ + 1]
  /\ UNCHANGED <<asked, said, torn>>

Tear == torn' = TRUE /\ UNCHANGED <<asked, said, paid>>

Next ==
  \/ Ask \/ Tear
  \/ \E c \in Requests : Buy(c) \/ \E s \in Seats, v \in {"yes", "no"} : Say(c, s, v)

Spec == Init /\ [][Next]_vars
=============================================================================
