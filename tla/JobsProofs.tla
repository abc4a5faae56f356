----------------------------- MODULE JobsProofs -----------------------------
(***************************************************************************)
(* Theorems about Jobs for any jobs, threads and cap.                      *)
(*                                                                         *)
(* A role works on copies of rows, so each invariant says of every copy    *)
(* what it says of the row: that the work was ordered (JobsInv), that the  *)
(* count covers what was sent (CapInv), and that it is of no job whose     *)
(* client has said no since (CopiesInv).                                   *)
(***************************************************************************)
EXTENDS Jobs, FiniteSetTheorems, TLAPS

(* What was ordered and what was made, or is the firm's own.               *)
Ordered == asked \cup Own
Done    == made \cup Own

(* What a worker holds is what it may write: a crafter works on what was   *)
(* ordered, the treasurer bills what was ordered and made.                 *)
HandSound(h, ordered, done) ==
  /\ h \in Hands
  /\ h.at \in {"brain", "sent", "produce", "made", "queued", "write"} => h.gig \in Gigs
  /\ h.role = "crafter" => h.gig \in ordered
  /\ h.role = "crafter" /\ h.at = "made" => h.gig \in done
  /\ h.role = "treasurer" => h.left \subseteq ordered \cap done
  /\ h.at = "write" => h.gig \in ordered
  /\ h.at = "write" <=> h.role = "accept"

(* A job under way was ordered, one that is done was made, and only what   *)
(* is both has a bill.                                                     *)
RowSound(j) ==
  /\ status[j] \in {"accepted", "queued_craft", "delivered", "invoiced", "paid"} => j \in Ordered
  /\ status[j] \in {"delivered", "invoiced", "paid"} => j \in Done
  /\ bill[j] # "none" => j \in Ordered \cap Done

(* The inductive invariant, for the rows and for every copy of a row.      *)
JobsInv ==
  /\ JobsTypeOK
  /\ \A w \in Workers : HandSound(hand[w], Ordered, Done)
  /\ \A j \in Gigs : RowSound(j)

(* The parts of the invariant that a step may leave alone.                 *)
HandsKept == \A w \in Workers : HandSound(hand[w], Ordered, Done)

(* The rows of the tables.                                                 *)
RowsKept ==
  /\ status \in [Gigs -> Statuses]
  /\ bill \in [Gigs -> {"none", "open", "paid", "void"}]
  /\ \A j \in Gigs : RowSound(j)

(* What the other variables are.                                           *)
RestKept ==
  /\ faults \subseteq Faults
  /\ via \in [Gigs -> Vias]
  /\ duty \in Threads \cup {Nobody}
  /\ posted \cup asked \cup made \cup today \cup raced \subseteq Gigs
  /\ counted \in Nat /\ lost \in BOOLEAN

(* The invariant is its parts.                                             *)
LEMMA Parts == JobsInv <=> HandsKept /\ RowsKept /\ RestKept /\ hand \in [Workers -> Hands]
BY DEF JobsInv, HandsKept, RowsKept, RestKept, JobsTypeOK

(* The same of the next state.                                             *)
LEMMA PartsKept ==
  ASSUME HandsKept', RowsKept', RestKept', (hand \in [Workers -> Hands])'
  PROVE  JobsInv'
BY DEF JobsInv, HandsKept, RowsKept, RestKept, JobsTypeOK

(* What was ordered or made stays so.                                      *)
OrdersKept == UNCHANGED via /\ asked \subseteq asked' /\ made \subseteq made'

(* Then the same of what is the firm's own.                                *)
LEMMA OrdersStay ==
  ASSUME OrdersKept
  PROVE  /\ UNCHANGED Own /\ Ordered \subseteq Ordered' /\ Done \subseteq Done'
         /\ asked \subseteq Ordered /\ asked' \subseteq Ordered'
         /\ made \subseteq Done /\ made' \subseteq Done'
BY DEF OrdersKept, Ordered, Done, Own

(* One worker goes on.                                                     *)
LEMMA HandGoesOn ==
  ASSUME JobsInv, NEW w \in Workers, NEW h, Now(w, h), HandSound(h, Ordered', Done'),
         OrdersKept
  PROVE  HandsKept' /\ (hand \in [Workers -> Hands])'
<1>1. hand \in [Workers -> Hands] /\ h \in Hands
  BY DEF JobsInv, JobsTypeOK, HandSound
<1>2. hand' = [hand EXCEPT ![w] = h]
  BY DEF Now
<1>3. (hand \in [Workers -> Hands])'
  BY <1>1, <1>2
<1>4. ASSUME NEW u \in Workers PROVE HandSound(hand[u], Ordered, Done)'
  <2>1. CASE u = w
    <3>1. hand'[u] = h
      BY <1>1, <1>2, <2>1
    <3> QED BY <3>1 DEF HandSound
  <2>2. CASE u # w
    <3>1. hand'[u] = hand[u] /\ HandSound(hand[u], Ordered, Done)
      BY <1>1, <1>2, <2>2 DEF JobsInv
    <3> QED BY <3>1, OrdersStay DEF HandSound
  <2> QED BY <2>1, <2>2
<1> QED BY <1>3, <1>4 DEF HandsKept

(* No worker goes on; what was ordered and made stays so.                  *)
LEMMA HandsAlone ==
  ASSUME JobsInv, UNCHANGED hand, OrdersKept
  PROVE  HandsKept' /\ (hand \in [Workers -> Hands])'
BY OrdersStay DEF JobsInv, JobsTypeOK, HandsKept, HandSound

(* One row is written.                                                     *)
LEMMA RowWritten ==
  ASSUME JobsInv, NEW j \in Gigs, NEW s \in Statuses, Put(j, s), UNCHANGED bill,
         OrdersKept,
         s \in {"accepted", "queued_craft", "delivered", "invoiced", "paid"} => j \in Ordered',
         s \in {"delivered", "invoiced", "paid"} => j \in Done'
  PROVE  RowsKept'
BY OrdersStay DEF JobsInv, JobsTypeOK, Put, RowsKept, RowSound

(* No row is written.                                                      *)
LEMMA RowsAlone ==
  ASSUME JobsInv, UNCHANGED <<status, bill>>, OrdersKept
  PROVE  RowsKept'
BY OrdersStay DEF JobsInv, JobsTypeOK, RowsKept, RowSound

(* A worker at rest holds nothing.                                         *)
LEMMA IdleSound == ASSUME NEW a, NEW m PROVE HandSound(Idle, a, m)
BY DEF HandSound, Idle, Hands

(* No orders and no bills; what is over is rejected.                       *)
LEMMA JobsStarts == JobsInit => JobsInv
<1> SUFFICES ASSUME JobsInit PROVE JobsInv
  OBVIOUS
<1>1. Idle \in Hands
  BY DEF Idle, Hands
<1>2. hand \in [Workers -> Hands] /\ \A w \in Workers : hand[w] = Idle
  BY <1>1 DEF JobsInit
<1>3. JobsTypeOK
  BY <1>2 DEF JobsInit, JobsTypeOK, Statuses, AcceptFrom
<1>4. \A j \in Gigs : RowSound(j)
  BY DEF JobsInit, RowSound
<1> QED BY <1>2, <1>3, <1>4, IdleSound DEF JobsInv

(* What the invariant says of one worker.                                  *)
LEMMA WorkerIsSound ==
  ASSUME JobsInv, NEW w \in Workers
  PROVE  /\ hand[w] \in Hands /\ HandSound(hand[w], Ordered, Done)
         /\ asked \subseteq Gigs /\ made \subseteq Gigs
BY DEF JobsInv, JobsTypeOK

(* The closer counts on.                                                   *)
LEMMA NextLetterHand ==
  ASSUME NEW t, NEW n \in {0, 1}, hand[t] \in Hands
  PROVE  /\ NextLetter(t, n) \in Hands /\ NextLetter(t, n).role = hand[t].role
         /\ NextLetter(t, n).at = "letters" /\ NextLetter(t, n).gig = Nobody
         /\ NextLetter(t, n).left = hand[t].left
         /\ NextLetter(t, n).used = hand[t].used + n
<1>1. PICK u \in Nat : u = hand[t].used + n
  <2>1. hand[t].used \in Nat
    BY DEF Hands
  <2>2. hand[t].used + n \in Nat
    BY <2>1
  <2> QED BY <2>2
<1>2. NextLetter(t, n) = [hand[t] EXCEPT !.at = "letters", !.gig = Nobody, !.used = u]
  BY <1>1 DEF Hands, NextLetter
<1> QED BY <1>1, <1>2 DEF Hands

(* Roles are left behind or die; a day ends.                               *)
LEMMA StepsSetAside ==
  ASSUME JobsInv,
         \/ LeaveBehind \/ Die \/ NextDay \/ UNCHANGED jobsVars
  PROVE  JobsInv'
<1>1. UNCHANGED <<status, bill, asked, made, faults, via, posted, counted>> \/ NextDay
  BY DEF LeaveBehind, Die, table, jobsVars, history
<1>2. UNCHANGED <<status, bill>> /\ OrdersKept
  BY <1>1 DEF NextDay, OrdersKept
<1>3. RowsKept'
  BY <1>2, RowsAlone
<1>4. RestKept'
  <2>1. RestKept
    BY Parts
  <2>2. CASE UNCHANGED jobsVars
    BY <2>1, <2>2 DEF RestKept, jobsVars, table, history
  <2>3. CASE LeaveBehind
    BY <2>1, <2>3 DEF RestKept, LeaveBehind, table
  <2>4. CASE Die
    BY <2>1, <2>4 DEF RestKept, Die, table
  <2>5. CASE NextDay
    BY <2>1, <2>5 DEF RestKept, NextDay
  <2> QED BY <2>2, <2>3, <2>4, <2>5
<1>5. HandsKept' /\ (hand \in [Workers -> Hands])'
  <2>1. CASE Die
    <3>1. hand' = [w \in Workers |-> IF w = Desk THEN hand[w] ELSE Idle]
      BY <2>1 DEF Die
    <3>2. ASSUME NEW w \in Workers PROVE hand'[w] \in Hands /\ HandSound(hand'[w], Ordered', Done')
      BY <1>2, <3>1, WorkerIsSound, IdleSound, OrdersStay DEF HandSound
    <3> QED BY <3>1, <3>2 DEF HandsKept
  <2>2. CASE UNCHANGED hand
    BY <1>2, <2>2, HandsAlone
  <2> QED BY <2>1, <2>2 DEF LeaveBehind, NextDay, jobsVars
<1> QED BY <1>3, <1>4, <1>5, PartsKept

(* The operator, the mail and the hunter.                                  *)
LEMMA RowStepsKeep ==
  ASSUME JobsInv, NEW j \in Gigs,
         \/ Hunt(j) \/ Publish(j) \/ Scout(j) \/ MailAccepts(j) \/ MailRejects(j)
         \/ Settle(j)
  PROVE  JobsInv'
<1>1. OrdersKept /\ UNCHANGED hand
  BY DEF Hunt, Publish, Scout, MailAccepts, MailRejects, Settle, history, OrdersKept
<1>2. HandsKept' /\ (hand \in [Workers -> Hands])'
  BY <1>1, HandsAlone
<1>3. RestKept'
  BY Parts DEF RestKept, Hunt, Publish, Scout, MailAccepts, MailRejects, NoteRace, Settle,
               history
<1>4. RowsKept'
  <2>1. CASE Hunt(j)
    BY <1>1, <2>1, RowWritten DEF Hunt, Statuses, AcceptFrom
  <2>2. CASE Publish(j) \/ Scout(j)
    <3>1. Put(j, "delivered") /\ UNCHANGED bill /\ j \in Own
      BY <2>2 DEF Publish, Scout
    <3>2. j \in Ordered' /\ j \in Done'
      BY <1>1, <3>1, OrdersStay DEF Ordered, Done
    <3> QED BY <1>1, <3>1, <3>2, RowWritten DEF Statuses, AcceptFrom
  <2>3. CASE MailAccepts(j)
    BY <1>1, <2>3, RowWritten, OrdersStay DEF MailAccepts, Statuses, AcceptFrom
  <2>4. CASE MailRejects(j)
    BY <1>1, <2>4, RowWritten DEF MailRejects, Statuses, AcceptFrom
  <2>5. CASE Settle(j)
    <3>1. /\ bill[j] = "open" /\ j \in Ordered \cap Done
          /\ \/ bill' = [bill EXCEPT ![j] = "paid"] /\ Put(j, "paid")
             \/ bill' = [bill EXCEPT ![j] = "void"] /\ UNCHANGED status
      BY <2>5 DEF Settle, JobsInv, RowSound
    <3> QED BY <1>1, <3>1, OrdersStay
            DEF JobsInv, JobsTypeOK, RowsKept, RowSound, Put, Statuses
  <2> QED BY <2>1, <2>2, <2>3, <2>4, <2>5
<1> QED BY <1>2, <1>3, <1>4, PartsKept

(* The operator orders what is then accepted.                              *)
LEMMA DeskKeeps ==
  ASSUME JobsInv, FinishAccept \/ \E j \in Gigs : StartAccept(j)
  PROVE  JobsInv'
<1>1. OrdersKept /\ Desk \in Workers
  BY DEF FinishAccept, StartAccept, history, table, Workers, OrdersKept
<1>2. RestKept'
  BY Parts DEF RestKept, FinishAccept, StartAccept, history, table
<1>3. CASE FinishAccept
  <2>1. HandsKept' /\ (hand \in [Workers -> Hands])'
    BY <1>1, <1>3, HandGoesOn, IdleSound DEF FinishAccept
  <2>2. hand[Desk].gig \in Gigs /\ hand[Desk].gig \in Ordered
    BY <1>1, <1>3, WorkerIsSound DEF HandSound, FinishAccept
  <2>3. RowsKept'
    BY <1>1, <1>3, <2>2, RowWritten, OrdersStay DEF FinishAccept, Statuses, AcceptFrom
  <2> QED BY <1>2, <2>1, <2>3, PartsKept
<1>4. ASSUME NEW j \in Gigs, StartAccept(j) PROVE JobsInv'
  <2> DEFINE h == [Idle EXCEPT !.role = "accept", !.at = "write", !.gig = j]
  <2>1. Now(Desk, h) /\ asked' = asked \cup {j} /\ UNCHANGED <<status, bill>>
    BY <1>4 DEF StartAccept, table
  <2>2. HandSound(h, Ordered', Done')
    BY <2>1 DEF HandSound, Idle, Hands, Ordered
  <2> HIDE DEF h
  <2>3. HandsKept' /\ (hand \in [Workers -> Hands])'
    BY <1>1, <2>1, <2>2, HandGoesOn
  <2> QED BY <1>1, <1>2, <2>1, <2>3, RowsAlone, PartsKept
<1> QED BY <1>3, <1>4

(* The closer writes no status that says a client has ordered, except when *)
(* the client has.                                                         *)
LEMMA CloserKeeps ==
  ASSUME JobsInv, NEW t \in Threads, Closer(t)
  PROVE  JobsInv'
<1>1. t \in Workers /\ hand[t] \in Hands /\ HandSound(hand[t], Ordered, Done)
      /\ asked \subseteq Gigs /\ made \subseteq Gigs
      /\ Cap \in Nat /\ counted \in Nat /\ hand[t].used \in Nat
  BY WorkerIsSound, JobsAssumption DEF Workers, JobsInv, JobsTypeOK, Hands
<1>2. OrdersKept /\ UNCHANGED bill
  BY DEF Closer, StartCloser, Begin, Expire, ReadLeads, Park, ReadCount, ApplyByWeb, Draft,
         CountWeb, Compose, Record, CountLetters, table, history, OrdersKept
<1>3. ASSUME NEW h \in Hands, h.role = "closer", Now(t, h),
             h.at \in {"old", "leads", "web", "letters"} \/ h.gig \in Gigs, h.at # "write"
      PROVE  HandsKept' /\ (hand \in [Workers -> Hands])'
  <2>1. HandSound(h, Ordered', Done')
    BY <1>3 DEF HandSound, Hands
  <2> QED BY <1>1, <1>2, <1>3, <2>1, HandGoesOn
<1>4. ASSUME End(t) PROVE HandsKept' /\ (hand \in [Workers -> Hands])'
  BY <1>1, <1>2, <1>4, IdleSound, HandGoesOn DEF End
<1>5. CASE StartCloser(t)
  <2> DEFINE h == [Idle EXCEPT !.role = "closer", !.at = "old", !.left = In({"applied"})]
  <2>1. h \in Hands /\ h.role = "closer" /\ h.at = "old"
    BY DEF Idle, Hands, In
  <2>2. Now(t, h) /\ UNCHANGED <<table, history>> /\ duty' = t
    BY <1>5 DEF StartCloser, Begin
  <2> HIDE DEF h
  <2>3. HandsKept' /\ (hand \in [Workers -> Hands])'
    BY <1>3, <2>1, <2>2
  <2>4. RestKept'
    BY <2>2, Parts DEF RestKept, table, history
  <2> QED BY <1>2, <2>2, <2>3, <2>4, RowsAlone, PartsKept DEF table
<1>6. CASE ReadLeads(t)
  <2> DEFINE h == [hand[t] EXCEPT !.at = "leads", !.left = In(Leads)]
  <2>1. Now(t, h) /\ UNCHANGED <<table, duty, history>> /\ hand[t].role = "closer"
    BY <1>6 DEF ReadLeads, Closing
  <2>2. h \in Hands /\ h.role = "closer" /\ h.at = "leads"
    BY <1>1, <2>1 DEF Hands, In
  <2> HIDE DEF h
  <2>3. HandsKept' /\ (hand \in [Workers -> Hands])'
    BY <1>3, <2>1, <2>2
  <2>4. RestKept'
    BY <2>1, Parts DEF RestKept, table, history
  <2> QED BY <1>2, <2>1, <2>3, <2>4, RowsAlone, PartsKept DEF table
<1>7. CASE ReadCount(t)
  <2> DEFINE h == [hand[t] EXCEPT !.at = "web", !.used = counted]
  <2>1. Now(t, h) /\ UNCHANGED <<table, duty, history>> /\ hand[t].role = "closer"
    BY <1>7 DEF ReadCount, Closing
  <2>2. h \in Hands /\ h.role = "closer" /\ h.at = "web"
    BY <1>1, <2>1 DEF Hands, In
  <2> HIDE DEF h
  <2>3. HandsKept' /\ (hand \in [Workers -> Hands])'
    BY <1>3, <2>1, <2>2
  <2>4. RestKept'
    BY <2>1, Parts DEF RestKept, table, history
  <2> QED BY <1>2, <2>1, <2>3, <2>4, RowsAlone, PartsKept DEF table
<1>8. ASSUME NEW j \in Gigs, Expire(t, j) \/ Park(t, j) PROVE JobsInv'
  <2> DEFINE h == [hand[t] EXCEPT !.left = @ \ {j}, !.used = 0]
  <2>1. Now(t, h) /\ UNCHANGED <<faults, via, bill, posted, counted, duty, history>>
        /\ (Put(j, "expired") \/ Put(j, "needs_channel"))
        /\ hand[t].role = "closer" /\ hand[t].at \in {"old", "leads"}
    BY <1>8 DEF Expire, Park, Closing, Handled
  <2>2. h \in Hands /\ h.role = "closer" /\ h.at \in {"old", "leads"}
    BY <1>1, <2>1 DEF Hands
  <2> HIDE DEF h
  <2>3. HandsKept' /\ (hand \in [Workers -> Hands])'
    BY <1>3, <2>1, <2>2
  <2>4. RestKept'
    BY <2>1, Parts DEF RestKept, history
  <2>5. RowsKept'
    BY <1>2, <2>1, RowWritten DEF Statuses, AcceptFrom
  <2> QED BY <2>3, <2>4, <2>5, PartsKept
<1>9. ASSUME NEW j \in Gigs, ApplyByWeb(t, j) PROVE JobsInv'
  <2>1. /\ hand[t].role = "closer" /\ hand[t].at = "web"
        /\ UNCHANGED <<faults, via, bill, posted, counted, duty, asked, made, lost, raced>>
        /\ today' \subseteq today \cup {j}
    BY <1>9 DEF ApplyByWeb, Closing
  <2>2. PICK n \in {0, 1} : Tried(t, j, n)
    BY <1>9 DEF ApplyByWeb
  <2> DEFINE h == [hand[t] EXCEPT !.left = hand[t].left \ {j}, !.used = hand[t].used + n,
                                  !.web = TRUE]
  <2>3. h \in Hands /\ h.role = "closer" /\ h.at = "web"
    <3>1. PICK u \in Nat : u = hand[t].used + n
      <4>1. hand[t].used + n \in Nat
        BY <1>1
      <4> QED BY <4>1
    <3>2. h = [hand[t] EXCEPT !.left = hand[t].left \ {j}, !.used = u, !.web = TRUE]
      BY <3>1
    <3> HIDE DEF h
    <3> QED BY <1>1, <2>1, <3>2 DEF Hands
  <2>4. Now(t, h)
    BY <1>1, <2>2 DEF Tried, Hands
  <2> HIDE DEF h
  <2>5. HandsKept' /\ (hand \in [Workers -> Hands])'
    BY <1>3, <2>3, <2>4
  <2>6. RestKept'
    BY <2>1, Parts DEF RestKept
  <2>7. RowsKept'
    BY <1>2, <1>9, RowWritten, RowsAlone DEF ApplyByWeb, Statuses, AcceptFrom
  <2> QED BY <2>5, <2>6, <2>7, PartsKept
<1>10. ASSUME NEW j \in Gigs, Draft(t, j) PROVE JobsInv'
  <2> DEFINE h == [hand[t] EXCEPT !.at = "brain", !.gig = j, !.left = @ \ {j}]
  <2>1. Now(t, h) /\ UNCHANGED <<table, duty, history>> /\ hand[t].role = "closer"
    BY <1>10 DEF Draft, Closing
  <2>2. h \in Hands /\ h.role = "closer" /\ h.at = "brain" /\ h.gig \in Gigs
    BY <1>1, <2>1 DEF Hands
  <2> HIDE DEF h
  <2>3. HandsKept' /\ (hand \in [Workers -> Hands])'
    BY <1>3, <2>1, <2>2
  <2>4. RestKept'
    BY <2>1, Parts DEF RestKept, table, history
  <2> QED BY <1>2, <2>1, <2>3, <2>4, RowsAlone, PartsKept DEF table
<1>11. CASE CountWeb(t)
  <2>1. /\ hand[t].role = "closer" /\ counted' \in Nat
        /\ UNCHANGED <<faults, via, status, bill, posted, history>>
    BY <1>1, <1>11 DEF CountWeb, Closing
  <2> DEFINE h == [hand[t] EXCEPT !.at = "letters", !.web = FALSE,
                                  !.left = {j \in @ : via[j] = "mail"}]
  <2>2. h \in Hands /\ h.role = "closer" /\ h.at = "letters"
    BY <1>1, <2>1 DEF Hands
  <2>3. (Now(t, h) /\ UNCHANGED duty) \/ End(t)
    BY <1>11 DEF CountWeb
  <2> HIDE DEF h
  <2>4. HandsKept' /\ (hand \in [Workers -> Hands])'
    BY <1>3, <1>4, <2>2, <2>3
  <2>5. RestKept'
    BY <2>1, <2>3, Parts DEF RestKept, history, End
  <2> QED BY <1>2, <2>1, <2>4, <2>5, RowsAlone, PartsKept
<1>12. CASE Compose(t)
  <2> DEFINE j == hand[t].gig
             h == [hand[t] EXCEPT !.at = "sent"]
             g == NextLetter(t, 0)
  <2>1. /\ hand[t].role = "closer" /\ hand[t].at = "brain"
        /\ UNCHANGED <<faults, via, bill, counted, duty, asked, made, lost, raced>>
        /\ today' \subseteq today \cup {j} /\ posted' \subseteq posted \cup {j}
    BY <1>12 DEF Compose, Closing
  <2>2. j \in Gigs
    BY <1>1, <2>1 DEF HandSound
  <2>3. /\ h \in Hands /\ h.role = "closer" /\ h.at = "sent" /\ h.gig \in Gigs
        /\ g \in Hands /\ g.role = "closer" /\ g.at = "letters"
    BY <1>1, <2>1, <2>2, NextLetterHand DEF Hands
  <2>4. /\ Now(t, h) \/ Now(t, g)
        /\ UNCHANGED status \/ Put(j, "queued_budget")
    BY <1>12 DEF Compose
  <2> HIDE DEF h, g, j
  <2>5. HandsKept' /\ (hand \in [Workers -> Hands])'
    BY <1>3, <2>3, <2>4
  <2>6. RestKept'
    BY <2>1, <2>2, Parts DEF RestKept
  <2>7. RowsKept'
    BY <1>2, <2>1, <2>2, <2>4, RowWritten, RowsAlone DEF Statuses, AcceptFrom
  <2> QED BY <2>5, <2>6, <2>7, PartsKept
<1>13. CASE Record(t)
  <2> DEFINE j == hand[t].gig
             g == NextLetter(t, 1)
  <2>1. /\ hand[t].role = "closer" /\ hand[t].at = "sent"
        /\ UNCHANGED <<faults, via, bill, posted, counted, made, today>>
        /\ raced' \subseteq raced \cup {j}
        /\ \/ Now(t, g) /\ UNCHANGED duty /\ UNCHANGED lost
           \/ End(t) /\ lost' = TRUE
    BY <1>13 DEF Record, Closing, NoteRace
  <2>2. j \in Gigs
    BY <1>1, <2>1 DEF HandSound
  <2>3. g \in Hands /\ g.role = "closer" /\ g.at = "letters"
    BY <1>1, <2>1, NextLetterHand
  <2>4. \/ (Put(j, "applied") \/ Put(j, "rejected") \/ UNCHANGED status) /\ UNCHANGED asked
        \/ Put(j, "accepted") /\ asked' = asked \cup {j}
    BY <1>13 DEF Record
  <2> HIDE DEF g, j
  <2>5. HandsKept' /\ (hand \in [Workers -> Hands])'
    BY <1>3, <1>4, <2>1, <2>3
  <2>6. RestKept'
    BY <2>1, <2>2, <2>4, Parts DEF RestKept, End
  <2>7. RowsKept'
    BY <1>2, <2>1, <2>2, <2>4, RowWritten, RowsAlone, OrdersStay DEF Statuses, AcceptFrom
  <2> QED BY <2>5, <2>6, <2>7, PartsKept
<1>14. CASE CountLetters(t)
  <2>1. End(t) /\ counted' \in Nat /\ UNCHANGED <<faults, via, status, bill, posted, history>>
    BY <1>1, <1>14 DEF CountLetters
  <2>2. RestKept'
    BY <2>1, Parts DEF RestKept, history, End
  <2> QED BY <1>2, <1>4, <2>1, <2>2, RowsAlone, PartsKept
<1> QED BY <1>5, <1>6, <1>7, <1>8, <1>9, <1>10, <1>11, <1>12, <1>13, <1>14 DEF Closer

(* A crafter takes what was ordered and delivers what it made.             *)
LEMMA CrafterKeeps ==
  ASSUME JobsInv, NEW t \in Threads, Make(t) \/ Produced(t) \/ \E j \in Gigs : Craft(t, j)
  PROVE  JobsInv'
<1>1. t \in Workers /\ hand[t] \in Hands /\ HandSound(hand[t], Ordered, Done)
      /\ asked \subseteq Gigs /\ made \subseteq Gigs
  BY WorkerIsSound DEF Workers
<1>2. OrdersKept /\ UNCHANGED bill
  BY DEF Make, Produced, Craft, Begin, table, history, OrdersKept
<1>3. ASSUME End(t) PROVE HandsKept' /\ (hand \in [Workers -> Hands])'
  BY <1>1, <1>2, <1>3, IdleSound, HandGoesOn DEF End
<1>4. CASE Make(t)
  <2> DEFINE j == hand[t].gig
             h == [hand[t] EXCEPT !.at = "made"]
             g == [hand[t] EXCEPT !.at = "queued"]
  <2>1. /\ hand[t].role = "crafter" /\ hand[t].at = "produce"
        /\ UNCHANGED <<table, asked, today, lost, raced>>
        /\ \/ made' = made \cup {j} /\ Now(t, h) /\ UNCHANGED duty
           \/ UNCHANGED made /\ Now(t, g) /\ UNCHANGED duty
           \/ UNCHANGED made /\ End(t)
    BY <1>4 DEF Make
  <2>2. j \in Gigs /\ j \in Ordered'
    BY <1>1, <1>2, <2>1, OrdersStay DEF HandSound
  <2>3. /\ h \in Hands /\ h.role = "crafter" /\ h.at = "made" /\ h.gig = j
        /\ g \in Hands /\ g.role = "crafter" /\ g.at = "queued" /\ g.gig = j
    BY <1>1, <2>1 DEF Hands
  <2> HIDE DEF h, g, j
  <2>4. HandsKept' /\ (hand \in [Workers -> Hands])'
    <3>1. CASE made' = made \cup {j} /\ Now(t, h)
      <4>1. HandSound(h, Ordered', Done')
        BY <1>2, <2>2, <2>3, <3>1 DEF HandSound, Done
      <4> QED BY <1>1, <1>2, <3>1, <4>1, HandGoesOn
    <3>2. CASE Now(t, g)
      <4>1. HandSound(g, Ordered', Done')
        BY <1>2, <2>2, <2>3, <3>2 DEF HandSound
      <4> QED BY <1>1, <1>2, <3>2, <4>1, HandGoesOn
    <3> QED BY <1>3, <2>1, <3>1, <3>2
  <2>5. RestKept'
    BY <2>1, <2>2, Parts DEF RestKept, table, End
  <2> QED BY <1>2, <2>1, <2>4, <2>5, RowsAlone, PartsKept DEF table
<1>5. CASE Produced(t)
  <2>1. /\ hand[t].role = "crafter" /\ hand[t].at \in {"made", "queued"}
        /\ UNCHANGED <<faults, via, bill, posted, counted, history>> /\ End(t)
        /\ Put(hand[t].gig, IF hand[t].at = "made" THEN "delivered" ELSE "queued_craft")
    BY <1>5 DEF Produced
  <2>2. /\ hand[t].gig \in Gigs /\ hand[t].gig \in Ordered'
        /\ hand[t].at = "made" => hand[t].gig \in Done'
    BY <1>1, <1>2, <2>1, OrdersStay DEF HandSound
  <2>3. RowsKept'
    <3>1. CASE hand[t].at = "made"
      <4>1. Put(hand[t].gig, "delivered")
        BY <2>1, <3>1
      <4> QED BY <1>2, <2>1, <2>2, <3>1, <4>1, RowWritten DEF Statuses, AcceptFrom
    <3>2. CASE hand[t].at = "queued"
      <4>1. Put(hand[t].gig, "queued_craft")
        BY <2>1, <3>2
      <4> QED BY <1>2, <2>1, <2>2, <4>1, RowWritten DEF Statuses, AcceptFrom
    <3> QED BY <2>1, <3>1, <3>2
  <2>4. RestKept'
    BY <2>1, Parts DEF RestKept, history, End
  <2> QED BY <1>3, <2>1, <2>3, <2>4, PartsKept
<1>6. ASSUME NEW j \in Gigs, Craft(t, j) PROVE JobsInv'
  <2> DEFINE h == [Idle EXCEPT !.role = "crafter", !.at = "produce", !.gig = j]
  <2>1. Now(t, h) /\ UNCHANGED <<table, history>> /\ duty' = t /\ j \in ToCraft
    BY <1>6 DEF Craft, Begin
  <2>2. j \in Ordered'
    BY <1>2, <2>1, OrdersStay DEF ToCraft, In, JobsInv, RowSound
  <2>3. HandSound(h, Ordered', Done')
    BY <2>2 DEF HandSound, Idle, Hands
  <2> HIDE DEF h
  <2>4. HandsKept' /\ (hand \in [Workers -> Hands])'
    BY <1>1, <1>2, <2>1, <2>3, HandGoesOn
  <2>5. RestKept'
    BY <2>1, Parts DEF RestKept, table, history
  <2> QED BY <1>2, <2>1, <2>4, <2>5, RowsAlone, PartsKept DEF table
<1> QED BY <1>4, <1>5, <1>6

(* The treasurer bills what it read as delivered, ordered and made then.   *)
LEMMA TreasurerKeeps ==
  ASSUME JobsInv, NEW t \in Threads,
         StartBilling(t) \/ Issued(t) \/ \E j \in Gigs : IssueFor(t, j)
  PROVE  JobsInv'
<1>1. t \in Workers /\ hand[t] \in Hands /\ HandSound(hand[t], Ordered, Done)
      /\ asked \subseteq Gigs /\ made \subseteq Gigs
  BY WorkerIsSound DEF Workers
<1>2. OrdersKept
  BY DEF StartBilling, Issued, IssueFor, Begin, table, history, OrdersKept
<1>3. CASE StartBilling(t)
  <2> DEFINE h == [Idle EXCEPT !.role = "treasurer", !.at = "bills", !.left = In({"delivered"})]
  <2>1. Now(t, h) /\ UNCHANGED <<table, history>> /\ duty' = t
    BY <1>3 DEF StartBilling, Begin
  <2>2. In({"delivered"}) \subseteq Ordered' \cap Done'
    BY <1>2, OrdersStay DEF In, JobsInv, RowSound
  <2>3. HandSound(h, Ordered', Done')
    BY <1>1, <2>2 DEF HandSound, Idle, Hands, In
  <2> HIDE DEF h
  <2>4. HandsKept' /\ (hand \in [Workers -> Hands])'
    BY <1>1, <1>2, <2>1, <2>3, HandGoesOn
  <2>5. RestKept'
    BY <2>1, Parts DEF RestKept, table, history
  <2> QED BY <1>2, <2>1, <2>4, <2>5, RowsAlone, PartsKept DEF table
<1>4. CASE Issued(t)
  <2>1. End(t) /\ UNCHANGED <<table, history>>
    BY <1>4 DEF Issued
  <2>2. HandsKept' /\ (hand \in [Workers -> Hands])'
    BY <1>1, <1>2, <2>1, IdleSound, HandGoesOn DEF End
  <2>3. RestKept'
    BY <2>1, Parts DEF RestKept, table, history, End
  <2> QED BY <1>2, <2>1, <2>2, <2>3, RowsAlone, PartsKept DEF table
<1>5. ASSUME NEW j \in Gigs, IssueFor(t, j) PROVE JobsInv'
  <2> DEFINE h == [hand[t] EXCEPT !.left = @ \ {j}, !.used = 0]
  <2>1. /\ hand[t].role = "treasurer" /\ j \in hand[t].left /\ Now(t, h)
        /\ UNCHANGED <<faults, via, posted, counted, duty, history>>
        /\ \/ UNCHANGED <<status, bill>>
           \/ Put(j, "invoiced") /\ bill' = [bill EXCEPT ![j] = "open"]
    BY <1>5 DEF IssueFor, Handled
  <2>2. j \in Ordered' /\ j \in Done'
    BY <1>1, <1>2, <2>1, OrdersStay DEF HandSound
  <2>3. /\ h \in Hands /\ h.role = "treasurer" /\ h.left \subseteq hand[t].left
        /\ h.at = hand[t].at /\ h.gig = hand[t].gig
    BY <1>1, <2>1 DEF Hands
  <2> HIDE DEF h
  <2>4. HandSound(h, Ordered', Done')
    BY <1>1, <1>2, <2>1, <2>3, OrdersStay DEF HandSound
  <2>5. HandsKept' /\ (hand \in [Workers -> Hands])'
    BY <1>1, <1>2, <2>1, <2>4, HandGoesOn
  <2>6. RestKept'
    BY <2>1, Parts DEF RestKept, history
  <2>7. RowsKept'
    <3>1. CASE Put(j, "invoiced") /\ bill' = [bill EXCEPT ![j] = "open"]
      BY <1>2, <2>2, <3>1, OrdersStay
         DEF JobsInv, JobsTypeOK, RowsKept, RowSound, Put, Statuses
    <3> QED BY <1>2, <2>1, <3>1, RowsAlone
  <2> QED BY <2>5, <2>6, <2>7, PartsKept
<1> QED BY <1>3, <1>4, <1>5

(* Every step keeps the invariant.                                         *)
LEMMA JobsKeep == JobsInv /\ [JobsNext]_jobsVars => JobsInv'
<1> SUFFICES ASSUME JobsInv, [JobsNext]_jobsVars PROVE JobsInv'
  OBVIOUS
<1> QED BY StepsSetAside, RowStepsKeep, DeskKeeps, CloserKeeps, CrafterKeeps, TreasurerKeeps
        DEF JobsNext

(* By induction: a role keeps what it read, and what was ordered and made  *)
(* once stays ordered and made, so that a late write of an old row is of   *)
(* ordered work too.                                                       *)
THEOREM JobsInvariant == JobsSpec => []JobsInv
BY JobsStarts, JobsKeep, PTL DEF JobsSpec

(* treasurer and issue: whoever is billed has ordered the work, and it was *)
(* made, whatever copies of rows a late role, the operator or a crash      *)
(* leave behind.                                                           *)
THEOREM WorkIsBilledOnOrder == JobsSpec => []BilledWorkWasOrdered
<1>1. JobsInv => BilledWorkWasOrdered
  BY DEF JobsInv, RowSound, BilledWorkWasOrdered, Ordered, Done
<1> QED BY <1>1, JobsInvariant, PTL

-----------------------------------------------------------------------------
(* The cap on the applications of a day.                                   *)

(* What a closer has read or counted covers what was sent, and leaves room *)
(* for what it is about to send.                                           *)
HandCapped(h, sent, read) ==
  /\ h.at \in {"old", "leads", "web", "letters", "brain", "sent"}
  /\ h.at \in {"old", "leads"} => sent <= read
  /\ h.at \in {"web", "letters", "brain"} => sent <= h.used /\ h.used <= Cap
  /\ h.at = "web" /\ ~h.web => h.used = read
  /\ h.at = "brain" => h.used < Cap
  /\ h.at = "sent" => h.used < Cap /\ sent <= h.used + 1

(* The roles that send applications.                                       *)
Closers == {t \in Threads : hand[t].role = "closer"}

(* The inductive invariant of the cap: the only closer is the one the      *)
(* heartbeat waits for, and between two closers the count is in the store. *)
CapInv ==
  /\ IsFiniteSet(today)
  /\ ~lost =>
       /\ counted <= Cap
       /\ \A t \in Closers : t = duty /\ HandCapped(hand[t], Cardinality(today), counted)
       /\ Closers = {} => Cardinality(today) <= counted

(* A worker at rest has no role.                                           *)
LEMMA IdleRole == Idle.role = "none"
BY DEF Idle

(* At every place of the closer what was sent is within the cap.           *)
LEMMA CapKeptByInv == JobsInv /\ CapInv => CapKept
<1> SUFFICES ASSUME JobsInv, CapInv, ~lost PROVE Cardinality(today) <= Cap
  BY DEF CapKept
<1>1. Cardinality(today) \in Nat /\ counted \in Nat /\ Cap \in Nat /\ counted <= Cap
  BY FS_CardinalityType, JobsAssumption DEF CapInv, JobsInv, JobsTypeOK
<1>2. CASE Closers = {}
  BY <1>1, <1>2 DEF CapInv
<1>3. ASSUME NEW t \in Closers PROVE Cardinality(today) <= Cap
  <2>1. HandCapped(hand[t], Cardinality(today), counted) /\ hand[t].used \in Nat
    BY WorkerIsSound DEF CapInv, Closers, Workers, Hands
  <2> QED BY <1>1, <2>1 DEF HandCapped
<1> QED BY <1>2, <1>3

(* One thread goes on and the others do not.                               *)
LEMMA ThreadHand ==
  ASSUME JobsInv, NEW t \in Threads, NEW h, Now(t, h)
  PROVE  hand'[t] = h /\ \A u \in Threads : u # t => hand'[u] = hand[u]
BY DEF JobsInv, JobsTypeOK, Now, Workers

(* A step of the closer that stays one.                                    *)
LEMMA CloserGoesOn ==
  ASSUME JobsInv, CapInv, NEW t \in Closers, NEW h, Now(t, h), h.role = "closer",
         UNCHANGED duty, UNCHANGED lost, IsFiniteSet(today'),
         ~lost => counted' <= Cap /\ HandCapped(h, Cardinality(today'), counted')
  PROVE  CapInv'
<1>1. t \in Threads /\ hand'[t] = h /\ \A u \in Threads : u # t => hand'[u] = hand[u]
  BY ThreadHand DEF Closers
<1>2. Closers' = Closers
  BY <1>1 DEF Closers
<1>3. ~lost => Closers = {t} /\ t = duty
  BY DEF CapInv
<1>4. ~lost => \A u \in Closers : u = duty /\ HandCapped(hand'[u], Cardinality(today'), counted')
  BY <1>1, <1>3
<1> QED BY <1>2, <1>4 DEF CapInv

(* A step with which the closer is done.                                   *)
LEMMA CloserEnds ==
  ASSUME JobsInv, CapInv, NEW t \in Closers, End(t), IsFiniteSet(today'),
         ~lost' => ~lost /\ counted' <= Cap /\ Cardinality(today') <= counted'
  PROVE  CapInv'
<1>1. t \in Threads /\ hand'[t] = Idle /\ \A u \in Threads : u # t => hand'[u] = hand[u]
  BY ThreadHand DEF Closers, End
<1>2. Closers' = Closers \ {t}
  BY <1>1, IdleRole DEF Closers
<1>3. ~lost' => Closers' = {}
  BY <1>2 DEF CapInv
<1> QED BY <1>3 DEF CapInv

(* A step that is not a closer's.                                          *)
LEMMA ClosersAlone ==
  ASSUME JobsInv, CapInv, UNCHANGED <<counted, today, lost>>,
         ~lost => /\ Closers' = Closers
                  /\ \A u \in Closers : hand'[u] = hand[u] /\ duty' = duty
  PROVE  CapInv'
<1>1. ~lost => \A u \in Closers : u = duty' /\ HandCapped(hand'[u], Cardinality(today'), counted')
  BY DEF CapInv
<1> QED BY <1>1 DEF CapInv

(* A step of a crafter or of the treasurer.                                *)
LEMMA OtherRolesKeepCap ==
  ASSUME JobsInv, CapInv, NEW t \in Threads, NEW h, Now(t, h), h.role # "closer",
         UNCHANGED <<counted, today, lost>>,
         \/ hand[t].role # "closer" /\ (duty' = duty \/ (duty = t /\ duty' = Nobody))
         \/ duty = Nobody /\ Resting(t)
  PROVE  CapInv'
<1>1. hand'[t] = h /\ \A u \in Threads : u # t => hand'[u] = hand[u]
  BY ThreadHand
<1>2. hand[t].role # "closer"
  <2>1. CASE Resting(t)
    BY <2>1, IdleRole DEF Resting
  <2> QED BY <2>1
<1>3. Closers' = Closers /\ \A u \in Closers : u # t /\ hand'[u] = hand[u]
  BY <1>1, <1>2 DEF Closers
<1>4. ~lost => \A u \in Closers : u = duty /\ u # Nobody
  BY JobsAssumption DEF CapInv, Closers
<1>5. ~lost => \A u \in Closers : duty' = duty
  BY <1>3, <1>4
<1> QED BY <1>3, <1>5, ClosersAlone

(* A step of the operator or of no worker.                                 *)
LEMMA DeskKeepsCap ==
  ASSUME JobsInv, CapInv, NEW h, Now(Desk, h) \/ UNCHANGED hand,
         UNCHANGED <<counted, today, lost, duty>>
  PROVE  CapInv'
<1>1. \A u \in Threads : hand'[u] = hand[u]
  BY JobsAssumption DEF JobsInv, JobsTypeOK, Now, Workers
<1>2. Closers' = Closers /\ \A u \in Closers : hand'[u] = hand[u]
  BY <1>1 DEF Closers
<1> QED BY <1>2, ClosersAlone

(* A closer that is left behind or dies is lost until midnight.            *)
LEMMA SetAsideKeepsCap ==
  ASSUME JobsInv, CapInv, LeaveBehind \/ Die \/ NextDay
  PROVE  CapInv'
<1>1. CASE LeaveBehind
  <2>1. CASE hand[duty].role = "closer"
    BY <1>1, <2>1 DEF LeaveBehind, CapInv, Closers
  <2>2. CASE hand[duty].role # "closer"
    <3>1. UNCHANGED <<counted, today, hand, lost>>
      <4>1. lost \in BOOLEAN
        BY DEF JobsInv, JobsTypeOK
      <4> QED BY <1>1, <2>2, <4>1 DEF LeaveBehind, table
    <3>2. ~lost => Closers = {} /\ Closers' = Closers
      BY <2>2, <3>1 DEF CapInv, Closers
    <3> QED BY <3>1, <3>2, ClosersAlone
  <2> QED BY <2>1, <2>2
<1>2. CASE Die
  <2>1. \A t \in Threads : hand'[t] = Idle
    BY <1>2, JobsAssumption DEF Die, Workers
  <2>2. Closers' = {}
    BY <2>1, IdleRole DEF Closers
  <2>3. UNCHANGED <<counted, today>> /\ (~lost' => ~lost /\ Closers = {})
    BY <1>2 DEF Die, table, Closers
  <2> QED BY <2>2, <2>3 DEF CapInv
<1>3. CASE NextDay
  <2>1. Closers' = {} /\ counted' = 0 /\ today' = {}
    BY <1>3 DEF NextDay, Closers
  <2> QED BY <2>1, FS_EmptySet, JobsAssumption DEF CapInv
<1> QED BY <1>1, <1>2, <1>3

(* One more application is one more at most.                               *)
LEMMA OneMore ==
  ASSUME IsFiniteSet(today), NEW j, today' = today \/ today' = today \cup {j}
  PROVE  /\ IsFiniteSet(today') /\ Cardinality(today) \in Nat /\ Cardinality(today') \in Nat
         /\ Cardinality(today') <= Cardinality(today) + 1
BY FS_AddElement, FS_CardinalityType

(* The heartbeat waits for no role, so no closer is at work.               *)
LEMMA StartCloserKeepsCap ==
  ASSUME JobsInv, CapInv, NEW t \in Threads, StartCloser(t)
  PROVE  CapInv'
<1> DEFINE h == [Idle EXCEPT !.role = "closer", !.at = "old", !.left = In({"applied"})]
<1>1. h.role = "closer" /\ h.at = "old"
  BY DEF Idle
<1>2. Now(t, h) /\ duty = Nobody /\ duty' = t /\ UNCHANGED <<table, history>>
  BY DEF StartCloser, Begin
<1> HIDE DEF h
<1>3. hand'[t] = h /\ \A u \in Threads : u # t => hand'[u] = hand[u]
  BY <1>2, ThreadHand
<1>4. UNCHANGED <<counted, today, lost>>
  BY <1>2 DEF table, history
<1>5. ~lost => Closers = {}
  BY <1>2, JobsAssumption DEF CapInv, Closers
<1>6. ~lost => Closers' = {t} /\ hand'[t] = h /\ duty' = t
  BY <1>1, <1>2, <1>3, <1>5 DEF Closers
<1>7. ~lost => HandCapped(h, Cardinality(today), counted)
  BY <1>1, <1>5 DEF CapInv, HandCapped
<1> QED BY <1>4, <1>6, <1>7 DEF CapInv

(* The closer reads the count, counts what it sends and writes the count.  *)
LEMMA CloserKeepsCap ==
  ASSUME JobsInv, CapInv, NEW t \in Threads, Closer(t)
  PROVE  CapInv'
<1>1. /\ t \in Workers /\ hand[t] \in Hands /\ Cap \in Nat /\ counted \in Nat
      /\ hand[t].used \in Nat /\ IsFiniteSet(today) /\ Cardinality(today) \in Nat
      /\ lost \in BOOLEAN
  BY WorkerIsSound, JobsAssumption, FS_CardinalityType
     DEF Workers, JobsInv, JobsTypeOK, Hands, CapInv
<1>2. ASSUME hand[t].role = "closer"
      PROVE  /\ t \in Closers
             /\ ~lost => HandCapped(hand[t], Cardinality(today), counted) /\ counted <= Cap
  BY <1>2 DEF CapInv, Closers
<1>3. CASE StartCloser(t)
  BY <1>3, StartCloserKeepsCap
<1>4. ASSUME NEW j \in Gigs, Expire(t, j) \/ Park(t, j) PROVE CapInv'
  <2> DEFINE h == [hand[t] EXCEPT !.left = @ \ {j}, !.used = 0]
  <2>1. Now(t, h) /\ UNCHANGED <<counted, duty, today, lost>>
        /\ hand[t].role = "closer" /\ hand[t].at \in {"old", "leads"}
    BY <1>4 DEF Expire, Park, Closing, Handled, history
  <2>2. h.role = "closer" /\ h.at \in {"old", "leads"}
    BY <1>1, <2>1 DEF Hands
  <2> HIDE DEF h
  <2>3. ~lost => HandCapped(h, Cardinality(today), counted)
    BY <1>2, <2>1, <2>2 DEF HandCapped
  <2> QED BY <1>1, <1>2, <2>1, <2>2, <2>3, CloserGoesOn
<1>5. CASE ReadLeads(t)
  <2> DEFINE h == [hand[t] EXCEPT !.at = "leads", !.left = In(Leads)]
  <2>1. Now(t, h) /\ UNCHANGED <<counted, duty, today, lost>>
        /\ hand[t].role = "closer" /\ hand[t].at = "old"
    BY <1>5 DEF ReadLeads, Closing, table, history
  <2>2. h.role = "closer" /\ h.at = "leads"
    BY <1>1, <2>1 DEF Hands
  <2> HIDE DEF h
  <2>3. ~lost => HandCapped(h, Cardinality(today), counted)
    BY <1>2, <2>1, <2>2 DEF HandCapped
  <2> QED BY <1>1, <1>2, <2>1, <2>2, <2>3, CloserGoesOn
<1>6. CASE ReadCount(t)
  <2> DEFINE h == [hand[t] EXCEPT !.at = "web", !.used = counted]
  <2>1. Now(t, h) /\ UNCHANGED <<counted, duty, today, lost>>
        /\ hand[t].role = "closer" /\ hand[t].at = "leads"
    BY <1>6 DEF ReadCount, Closing, table, history
  <2>2. h.role = "closer" /\ h.at = "web" /\ h.used = counted
    BY <1>1, <2>1 DEF Hands
  <2> HIDE DEF h
  <2>3. ~lost => HandCapped(h, Cardinality(today), counted)
    BY <1>2, <2>1, <2>2 DEF HandCapped
  <2> QED BY <1>1, <1>2, <2>1, <2>2, <2>3, CloserGoesOn
<1>7. ASSUME NEW j \in Gigs, ApplyByWeb(t, j) PROVE CapInv'
  <2>1. /\ hand[t].role = "closer" /\ hand[t].at = "web" /\ hand[t].used < Cap
        /\ UNCHANGED <<counted, duty, lost>>
    BY <1>7 DEF ApplyByWeb, Closing
  <2>2. PICK n \in {0, 1} : /\ Tried(t, j, n)
                            /\ IF n = 1 THEN today' = today \cup {j} ELSE today' = today
    BY <1>7 DEF ApplyByWeb
  <2>3. PICK u \in Nat : u = hand[t].used + n
    <3>1. hand[t].used + n \in Nat
      BY <1>1
    <3> QED BY <3>1
  <2> DEFINE h == [hand[t] EXCEPT !.left = hand[t].left \ {j}, !.used = u, !.web = TRUE]
  <2>4. Now(t, h)
    BY <1>1, <2>2, <2>3 DEF Tried, Hands
  <2>5. h.role = "closer" /\ h.at = "web" /\ h.used = u /\ h.web
    BY <1>1, <2>1 DEF Hands
  <2> HIDE DEF h
  <2>6. IsFiniteSet(today') /\ Cardinality(today') <= Cardinality(today) + n
        /\ Cardinality(today') \in Nat
    BY <1>1, <2>2, OneMore
  <2>7. ~lost => HandCapped(h, Cardinality(today'), counted')
    BY <1>1, <1>2, <2>1, <2>3, <2>5, <2>6 DEF HandCapped
  <2> QED BY <1>2, <2>1, <2>4, <2>5, <2>6, <2>7, CloserGoesOn
<1>8. CASE CountWeb(t)
  <2> DEFINE h == [hand[t] EXCEPT !.at = "letters", !.web = FALSE,
                                  !.left = {j \in @ : via[j] = "mail"}]
  <2>1. /\ hand[t].role = "closer" /\ hand[t].at = "web"
        /\ counted' = (IF hand[t].web THEN hand[t].used ELSE counted)
        /\ UNCHANGED <<today, lost>>
        /\ (Now(t, h) /\ UNCHANGED duty) \/ End(t)
    BY <1>8 DEF CountWeb, Closing, history
  <2>2. h.role = "closer" /\ h.at = "letters" /\ h.used = hand[t].used
    BY <1>1, <2>1 DEF Hands
  <2> HIDE DEF h
  <2>3. ~lost => counted' = hand[t].used
    BY <1>2, <2>1 DEF HandCapped
  <2>4. ~lost => /\ HandCapped(h, Cardinality(today), counted')
                 /\ counted' <= Cap /\ Cardinality(today) <= counted'
    BY <1>1, <1>2, <2>1, <2>2, <2>3 DEF HandCapped
  <2>5. CASE Now(t, h) /\ UNCHANGED duty
    BY <1>1, <1>2, <2>1, <2>2, <2>4, <2>5, CloserGoesOn
  <2>6. CASE End(t)
    BY <1>1, <1>2, <2>1, <2>4, <2>6, CloserEnds
  <2> QED BY <2>1, <2>5, <2>6
<1>9. ASSUME NEW j \in Gigs, Draft(t, j) PROVE CapInv'
  <2> DEFINE h == [hand[t] EXCEPT !.at = "brain", !.gig = j, !.left = @ \ {j}]
  <2>1. Now(t, h) /\ UNCHANGED <<counted, duty, today, lost>> /\ hand[t].used < Cap
        /\ hand[t].role = "closer" /\ hand[t].at = "letters"
    BY <1>9 DEF Draft, Closing, table, history
  <2>2. h.role = "closer" /\ h.at = "brain" /\ h.used = hand[t].used
    BY <1>1, <2>1 DEF Hands
  <2> HIDE DEF h
  <2>3. ~lost => HandCapped(h, Cardinality(today), counted)
    BY <1>1, <1>2, <2>1, <2>2 DEF HandCapped
  <2> QED BY <1>1, <1>2, <2>1, <2>2, <2>3, CloserGoesOn
<1>10. CASE Compose(t)
  <2> DEFINE j == hand[t].gig
             h == [hand[t] EXCEPT !.at = "sent"]
             g == NextLetter(t, 0)
  <2>1. /\ hand[t].role = "closer" /\ hand[t].at = "brain"
        /\ UNCHANGED <<counted, duty, lost>>
        /\ \/ Now(t, h) /\ (today' = today \/ today' = today \cup {j})
           \/ Now(t, g) /\ today' = today
    BY <1>10 DEF Compose, Closing
  <2>2. /\ h.role = "closer" /\ h.at = "sent" /\ h.used = hand[t].used
        /\ g.role = "closer" /\ g.at = "letters" /\ g.used = hand[t].used
    <3>1. hand[t].used + 0 = hand[t].used
      BY <1>1
    <3>2. g.role = "closer" /\ g.at = "letters" /\ g.used = hand[t].used
      BY <1>1, <2>1, <3>1, NextLetterHand
    <3> QED BY <1>1, <2>1, <3>2 DEF Hands
  <2> HIDE DEF h, g, j
  <2>3. IsFiniteSet(today') /\ Cardinality(today') <= Cardinality(today) + 1
        /\ Cardinality(today') \in Nat
    BY <1>1, <2>1, OneMore
  <2>4. CASE Now(t, h)
    <3>1. ~lost => HandCapped(h, Cardinality(today'), counted')
      BY <1>1, <1>2, <2>1, <2>2, <2>3 DEF HandCapped
    <3> QED BY <1>2, <2>1, <2>2, <2>3, <2>4, <3>1, CloserGoesOn
  <2>5. CASE Now(t, g) /\ today' = today
    <3>1. ~lost => HandCapped(g, Cardinality(today'), counted')
      BY <1>1, <1>2, <2>1, <2>2, <2>5 DEF HandCapped
    <3> QED BY <1>2, <2>1, <2>2, <2>3, <2>5, <3>1, CloserGoesOn
  <2> QED BY <2>1, <2>4, <2>5
<1>11. CASE Record(t)
  <2> DEFINE g == NextLetter(t, 1)
  <2>1. /\ hand[t].role = "closer" /\ hand[t].at = "sent"
        /\ UNCHANGED <<counted, today>>
        /\ \/ Now(t, g) /\ UNCHANGED duty /\ UNCHANGED lost
           \/ End(t) /\ lost' = TRUE
    BY <1>11 DEF Record, Closing
  <2>2. g.role = "closer" /\ g.at = "letters" /\ g.used = hand[t].used + 1
    BY <1>1, <2>1, NextLetterHand
  <2> HIDE DEF g
  <2>3. CASE Now(t, g) /\ UNCHANGED duty /\ UNCHANGED lost
    <3>1. ~lost => HandCapped(g, Cardinality(today), counted)
      BY <1>1, <1>2, <2>1, <2>2 DEF HandCapped
    <3> QED BY <1>1, <1>2, <2>1, <2>2, <2>3, <3>1, CloserGoesOn
  <2>4. CASE End(t) /\ lost' = TRUE
    BY <1>1, <1>2, <2>1, <2>4, CloserEnds
  <2> QED BY <2>1, <2>3, <2>4
<1>12. CASE CountLetters(t)
  <2>1. /\ hand[t].role = "closer" /\ hand[t].at = "letters" /\ End(t)
        /\ counted' = hand[t].used /\ UNCHANGED <<today, lost>>
    BY <1>12 DEF CountLetters, Closing, history
  <2>2. ~lost => counted' <= Cap /\ Cardinality(today) <= counted'
    BY <1>1, <1>2, <2>1 DEF HandCapped
  <2> QED BY <1>1, <1>2, <2>1, <2>2, CloserEnds
<1> QED BY <1>3, <1>4, <1>5, <1>6, <1>7, <1>8, <1>9, <1>10, <1>11, <1>12 DEF Closer

(* Crafters and the treasurer send no applications.                        *)
LEMMA WorkKeepsCap ==
  ASSUME JobsInv, CapInv, NEW t \in Threads,
         \/ Make(t) \/ Produced(t) \/ Issued(t) \/ StartBilling(t)
         \/ \E j \in Gigs : Craft(t, j) \/ IssueFor(t, j)
  PROVE  CapInv'
<1>1. hand[t] \in Hands
  BY WorkerIsSound DEF Workers
<1>2. UNCHANGED <<counted, today, lost>>
  BY DEF Make, Produced, Issued, StartBilling, Craft, IssueFor, Begin, table, history
<1>3. ASSUME End(t), hand[t].role # "closer" PROVE CapInv'
  BY <1>2, <1>3, IdleRole, OtherRolesKeepCap DEF End
<1>4. ASSUME NEW h, Now(t, h), h.role # "closer", hand[t].role # "closer", UNCHANGED duty
      PROVE  CapInv'
  BY <1>2, <1>4, OtherRolesKeepCap
<1>5. ASSUME NEW h, Begin(t, h), h.role # "closer" PROVE CapInv'
  BY <1>2, <1>5, OtherRolesKeepCap DEF Begin
<1>6. CASE Make(t)
  <2> DEFINE h == [hand[t] EXCEPT !.at = "made"]
             g == [hand[t] EXCEPT !.at = "queued"]
  <2>1. h.role = hand[t].role /\ g.role = hand[t].role
    BY <1>1 DEF Hands
  <2>2. /\ (Now(t, h) /\ UNCHANGED duty) \/ (Now(t, g) /\ UNCHANGED duty) \/ End(t)
        /\ hand[t].role = "crafter"
    BY <1>6 DEF Make
  <2> HIDE DEF h, g
  <2> QED BY <1>3, <1>4, <2>1, <2>2
<1>7. CASE Produced(t)
  BY <1>3, <1>7 DEF Produced
<1>8. CASE Issued(t)
  BY <1>3, <1>8 DEF Issued
<1>9. CASE StartBilling(t)
  <2> DEFINE h == [Idle EXCEPT !.role = "treasurer", !.at = "bills", !.left = In({"delivered"})]
  <2>1. h.role = "treasurer" /\ Begin(t, h)
    BY <1>9 DEF StartBilling, Idle
  <2> HIDE DEF h
  <2> QED BY <1>5, <2>1
<1>10. ASSUME NEW j \in Gigs, Craft(t, j) PROVE CapInv'
  <2> DEFINE h == [Idle EXCEPT !.role = "crafter", !.at = "produce", !.gig = j]
  <2>1. h.role = "crafter" /\ Begin(t, h)
    BY <1>10 DEF Craft, Idle
  <2> HIDE DEF h
  <2> QED BY <1>5, <2>1
<1>11. ASSUME NEW j \in Gigs, IssueFor(t, j) PROVE CapInv'
  <2> DEFINE h == [hand[t] EXCEPT !.left = @ \ {j}, !.used = 0]
  <2>1. h.role = hand[t].role
    BY <1>1 DEF Hands
  <2>2. Now(t, h) /\ UNCHANGED duty /\ hand[t].role = "treasurer"
    BY <1>11 DEF IssueFor, Handled
  <2> HIDE DEF h
  <2> QED BY <1>4, <2>1, <2>2
<1> QED BY <1>6, <1>7, <1>8, <1>9, <1>10, <1>11

(* Nor do the operator, the mail and the hunter.                           *)
LEMMA RowsKeepCap ==
  ASSUME JobsInv, CapInv,
         \/ FinishAccept \/ UNCHANGED jobsVars
         \/ \E j \in Gigs : \/ Hunt(j) \/ Publish(j) \/ Scout(j) \/ MailAccepts(j)
                            \/ MailRejects(j) \/ Settle(j) \/ StartAccept(j)
  PROVE  CapInv'
<1>1. UNCHANGED <<counted, today, lost, duty>>
  BY DEF FinishAccept, Hunt, Publish, Scout, MailAccepts, MailRejects, Settle, StartAccept,
         jobsVars, table, history
<1>2. CASE FinishAccept
  BY <1>1, <1>2, DeskKeepsCap DEF FinishAccept
<1>3. CASE UNCHANGED hand
  BY <1>1, <1>3, DeskKeepsCap
<1>4. ASSUME NEW j \in Gigs, StartAccept(j) PROVE CapInv'
  BY <1>1, <1>4, DeskKeepsCap DEF StartAccept
<1> QED BY <1>2, <1>3, <1>4 DEF Hunt, Publish, Scout, MailAccepts, MailRejects, Settle, jobsVars

(* closer: with its one count for the web and for mail, read at the start  *)
(* and written twice, no more applications are sent a day than             *)
(* daily_apply_cap, unless a closer was cut off or left behind.            *)
THEOREM ApplicationsAreCapped == JobsSpec => []CapKept
<1>1. JobsInit => CapInv
  <2> SUFFICES ASSUME JobsInit PROVE CapInv
    OBVIOUS
  <2>1. today = {} /\ counted = 0 /\ \A t \in Threads : hand[t] = Idle
    BY DEF JobsInit, Workers
  <2>2. Closers = {}
    BY <2>1, IdleRole DEF Closers
  <2> QED BY <2>1, <2>2, FS_EmptySet, JobsAssumption DEF CapInv
<1>2. JobsInv /\ CapInv /\ [JobsNext]_jobsVars => CapInv'
  <2> SUFFICES ASSUME JobsInv, CapInv, [JobsNext]_jobsVars PROVE CapInv'
    OBVIOUS
  <2> QED BY SetAsideKeepsCap, CloserKeepsCap, WorkKeepsCap, RowsKeepCap DEF JobsNext
<1> QED BY <1>1, <1>2, JobsInvariant, CapKeptByInv, PTL DEF JobsSpec
-----------------------------------------------------------------------------
(* A rejected job stays rejected.                                          *)

(* What a worker takes up is a lead, what was accepted, or, to bill it,    *)
(* what was delivered; the rest it has had before.                         *)
HandFrom(h, g, rows) ==
  /\ h.gig \notin h.left /\ (h.at = "old" => h.gig = Nobody)
  /\ \A j \in Gigs : h.gig = j \/ j \in h.left =>
       \/ (g.gig = j \/ j \in g.left) /\ h.role = g.role
       \/ rows[j] \in AcceptFrom \cup {"accepted", "queued_craft"}
       \/ rows[j] = "delivered" /\ h.role = "treasurer"

(* So it is with every worker in a step.                                   *)
HandsFrom == \A w \in Workers : HandFrom(hand'[w], hand[w], status)

(* Who may write the row of a job in a step, and what.                     *)
RowFrom(j) ==
  \/ status'[j] = status[j]
  \/ \E w \in Workers : Holds(w, j) /\ (hand[w].role = "treasurer" => status'[j] = "invoiced")
  \/ status[j] \in RejectFrom
  \/ status[j] = "absent" /\ j \notin Own
  \/ status'[j] = "delivered" /\ j \in Own
  \/ status'[j] = "paid" /\ bill[j] = "open"

(* Who has a copy of a row that is being rejected is noted.                *)
RaceNoted(j) ==
  status'[j] = "rejected" /\ status[j] # "rejected" /\ j \notin raced' =>
    \A w \in Workers : ~Holds(w, j)'

(* What every step does to the rows.                                       *)
RowsFrom == UNCHANGED via /\ raced \subseteq raced' /\ \A j \in Gigs : RowFrom(j) /\ RaceNoted(j)

(* Nobody has a copy of a row that was rejected, unless he had it then;    *)
(* the firm's own rows are only ever billed.                               *)
CopiesInv ==
  /\ \A w \in Workers : /\ hand[w].gig \notin hand[w].left
                        /\ hand[w].at = "old" => hand[w].gig = Nobody
  /\ \A j \in Gigs \ raced : status[j] = "rejected" => \A w \in Workers : ~Holds(w, j)
  /\ \A j \in Own : /\ status[j] \in {"absent", "delivered", "invoiced", "paid"}
                    /\ \A w \in Workers : hand[w].role # "treasurer" => ~Holds(w, j)

(* The step leaves a rejected job rejected, or it pays a bill.             *)
RejectedStay ==
  \A j \in Gigs \ raced :
    status[j] = "rejected" =>
      status'[j] = "rejected" \/ (status'[j] = "paid" /\ bill[j] = "open")

(* A step of this kind keeps the invariant.                                *)
LEMMA CopiesKept ==
  ASSUME JobsInv, CopiesInv, HandsFrom, RowsFrom
  PROVE  CopiesInv' /\ RejectedStay
<1>1. UNCHANGED Own
  BY DEF RowsFrom, Own
<1>2. ASSUME NEW j \in Gigs \ raced, status[j] = "rejected"
      PROVE  /\ status'[j] = "rejected" \/ (status'[j] = "paid" /\ bill[j] = "open")
             /\ \A w \in Workers : ~Holds(w, j)'
  <2>1. (\A w \in Workers : ~Holds(w, j)) /\ j \notin Own /\ RowFrom(j)
    BY <1>2 DEF CopiesInv, RowsFrom
  <2>2. \A w \in Workers : ~Holds(w, j)'
    BY <1>2, <2>1 DEF HandsFrom, HandFrom, Holds, AcceptFrom
  <2> QED BY <1>2, <2>1, <2>2 DEF RowFrom, RejectFrom, AcceptFrom
<1>3. ASSUME NEW j \in (Gigs \ raced)', status'[j] = "rejected", NEW w \in Workers
      PROVE  ~Holds(w, j)'
  <2>1. j \in Gigs \ raced /\ RaceNoted(j)
    BY <1>3 DEF RowsFrom
  <2>2. CASE status[j] = "rejected"
    BY <1>2, <2>1, <2>2
  <2>3. CASE status[j] # "rejected"
    BY <1>3, <2>1, <2>3 DEF RaceNoted
  <2> QED BY <2>2, <2>3
<1>4. ASSUME NEW j \in Own
      PROVE  /\ status'[j] \in {"absent", "delivered", "invoiced", "paid"}
             /\ \A w \in Workers : hand'[w].role # "treasurer" => ~Holds(w, j)'
  <2>1. /\ j \in Gigs /\ status[j] \in {"absent", "delivered", "invoiced", "paid"}
        /\ \A w \in Workers : hand[w].role # "treasurer" => ~Holds(w, j)
        /\ RowFrom(j)
    BY DEF CopiesInv, Own, RowsFrom
  <2>2. status'[j] \in {"absent", "delivered", "invoiced", "paid"}
    BY <2>1 DEF RowFrom, RejectFrom, AcceptFrom
  <2>3. \A w \in Workers : hand'[w].role # "treasurer" => ~Holds(w, j)'
    BY <2>1 DEF HandsFrom, HandFrom, Holds, AcceptFrom
  <2> QED BY <2>2, <2>3
<1>5. \A w \in Workers : /\ hand'[w].gig \notin hand'[w].left
                         /\ hand'[w].at = "old" => hand'[w].gig = Nobody
  BY DEF HandsFrom, HandFrom
<1> QED BY <1>1, <1>2, <1>3, <1>4, <1>5 DEF CopiesInv, RejectedStay

(* One worker goes on, or none.                                            *)
LEMMA HandMoves ==
  ASSUME JobsInv, CopiesInv,
         \/ UNCHANGED hand
         \/ \E w \in Workers : \E h \in Hands : Now(w, h) /\ HandFrom(h, hand[w], status)
  PROVE  HandsFrom
<1>1. \A w \in Workers : HandFrom(hand[w], hand[w], status)
  BY DEF CopiesInv, HandFrom
<1>2. CASE UNCHANGED hand
  BY <1>1, <1>2 DEF HandsFrom
<1>3. ASSUME NEW w \in Workers, NEW h, Now(w, h), HandFrom(h, hand[w], status)
      PROVE  HandsFrom
  <2>1. hand'[w] = h /\ \A u \in Workers : u # w => hand'[u] = hand[u]
    BY <1>3 DEF JobsInv, JobsTypeOK, Now
  <2> QED BY <1>1, <1>3, <2>1 DEF HandsFrom
<1> QED BY <1>2, <1>3

(* Who is done holds nothing.                                              *)
LEMMA IdleFrom == ASSUME NEW g, NEW rows PROVE HandFrom(Idle, g, rows) /\ Idle \in Hands
BY JobsAssumption DEF HandFrom, Idle, Hands

(* A worker that goes on through its list, or is done with the job it is   *)
(* working on, has taken up nothing.                                       *)
LEMMA LessFrom ==
  ASSUME NEW g \in Hands, NEW h, NEW rows, g.gig \notin g.left,
         h.role = g.role, h.left \subseteq g.left, h.at = "old" => h.gig = Nobody,
         \/ h.gig = g.gig \/ h.gig = Nobody
         \/ h.gig \in g.left /\ h.gig \notin h.left
  PROVE  HandFrom(h, g, rows)
BY JobsAssumption DEF HandFrom, Hands

(* No row is written.                                                      *)
LEMMA RowsStand ==
  ASSUME UNCHANGED <<via, status, raced>>
  PROVE  RowsFrom
BY DEF RowsFrom, RowFrom, RaceNoted

(* One row is written, and not as rejected.                                *)
LEMMA RowWrites ==
  ASSUME JobsInv, NEW j \in Gigs, NEW s, Put(j, s), s # "rejected", UNCHANGED <<via, raced>>,
         \/ \E w \in Workers : Holds(w, j) /\ (hand[w].role = "treasurer" => s = "invoiced")
         \/ status[j] \in RejectFrom
         \/ status[j] = "absent" /\ j \notin Own
         \/ s = "delivered" /\ j \in Own
         \/ s = "paid" /\ bill[j] = "open"
  PROVE  RowsFrom
<1>1. status'[j] = s /\ \A i \in Gigs : i # j => status'[i] = status[i]
  BY DEF JobsInv, JobsTypeOK, Put
<1>2. RowFrom(j) /\ RaceNoted(j)
  BY <1>1 DEF RowFrom, RaceNoted
<1>3. \A i \in Gigs : i # j => RowFrom(i) /\ RaceNoted(i)
  BY <1>1 DEF RowFrom, RaceNoted
<1> QED BY <1>2, <1>3 DEF RowsFrom

(* One row is written as rejected.                                         *)
LEMMA RowRejected ==
  ASSUME JobsInv, NEW j \in Gigs, Put(j, "rejected"), status[j] \in RejectFrom,
         UNCHANGED via, NEW others, NoteRace(j, others),
         \A w \in Workers : Holds(w, j)' => w \in others /\ Holds(w, j)
  PROVE  RowsFrom
<1>1. status'[j] = "rejected" /\ \A i \in Gigs : i # j => status'[i] = status[i]
  BY DEF JobsInv, JobsTypeOK, Put
<1>2. raced \subseteq raced'
  BY DEF NoteRace
<1>3. RowFrom(j) /\ RaceNoted(j)
  BY DEF RowFrom, RaceNoted, NoteRace
<1>4. \A i \in Gigs : i # j => RowFrom(i) /\ RaceNoted(i)
  BY <1>1 DEF RowFrom, RaceNoted
<1> QED BY <1>2, <1>3, <1>4 DEF RowsFrom

(* The closer takes up applications and leads, and writes what it holds.   *)
LEMMA CloserTakesLeads ==
  ASSUME JobsInv, CopiesInv, NEW t \in Threads, Closer(t)
  PROVE  HandsFrom /\ RowsFrom
<1>1. /\ t \in Workers /\ hand[t] \in Hands /\ hand[t].gig \notin hand[t].left
      /\ hand[t].left \subseteq Gigs /\ hand[t].used \in Nat /\ counted \in Nat
      /\ hand[t].at \in {"brain", "sent"} => hand[t].gig \in Gigs
      /\ hand[t].at = "old" => hand[t].gig = Nobody
  BY WorkerIsSound DEF Workers, CopiesInv, Hands, HandSound, JobsInv, JobsTypeOK
<1>2. ASSUME End(t) PROVE HandsFrom
  BY <1>1, <1>2, IdleFrom, HandMoves DEF End
<1>3. ASSUME NEW h \in Hands, Now(t, h), h.role = hand[t].role, h.left \subseteq hand[t].left,
             \/ h.gig = hand[t].gig \/ h.gig = Nobody
             \/ h.gig \in hand[t].left /\ h.gig \notin h.left,
             h.at = "old" => hand[t].at = "old" /\ h.gig = hand[t].gig
      PROVE  HandsFrom
  BY <1>1, <1>3, LessFrom, HandMoves
<1>4. CASE StartCloser(t)
  <2> DEFINE h == [Idle EXCEPT !.role = "closer", !.at = "old", !.left = In({"applied"})]
  <2>1. Now(t, h) /\ UNCHANGED <<via, status, raced>>
    BY <1>4 DEF StartCloser, Begin, table, history
  <2>2. h \in Hands /\ HandFrom(h, hand[t], status)
    BY JobsAssumption DEF Idle, Hands, In, HandFrom, AcceptFrom
  <2> HIDE DEF h
  <2> QED BY <1>1, <2>1, <2>2, HandMoves, RowsStand
<1>5. CASE ReadLeads(t)
  <2> DEFINE h == [hand[t] EXCEPT !.at = "leads", !.left = In(Leads)]
  <2>1. Now(t, h) /\ UNCHANGED <<via, status, raced>>
        /\ hand[t].at = "old"
    BY <1>5 DEF ReadLeads, Closing, table, history
  <2>2. h \in Hands /\ h.role = hand[t].role /\ h.gig = hand[t].gig /\ h.left = In(Leads)
        /\ h.at = "leads"
    BY <1>1 DEF Hands, In
  <2>3. \A j \in In(Leads) : status[j] \in AcceptFrom
    BY DEF In, Leads, AcceptFrom
  <2> HIDE DEF h
  <2>4. h.gig = Nobody /\ h.gig \notin h.left
    BY <1>1, <2>1, <2>2, JobsAssumption DEF In
  <2>5. HandFrom(h, hand[t], status)
    BY <2>2, <2>3, <2>4 DEF HandFrom
  <2> QED BY <1>1, <2>1, <2>2, <2>5, HandMoves, RowsStand
<1>6. CASE ReadCount(t)
  <2> DEFINE h == [hand[t] EXCEPT !.at = "web", !.used = counted]
  <2>1. Now(t, h) /\ UNCHANGED <<via, status, raced>>
    BY <1>6 DEF ReadCount, table, history
  <2>2. h \in Hands /\ h.role = hand[t].role /\ h.gig = hand[t].gig /\ h.left = hand[t].left
        /\ h.at = "web"
    BY <1>1 DEF Hands
  <2> HIDE DEF h
  <2> QED BY <1>3, <2>1, <2>2, RowsStand
<1>7. ASSUME NEW j \in Gigs, Expire(t, j) \/ Park(t, j) PROVE HandsFrom /\ RowsFrom
  <2> DEFINE h == [hand[t] EXCEPT !.left = @ \ {j}, !.used = 0]
  <2>1. /\ Now(t, h) /\ UNCHANGED <<via, raced>> /\ j \in hand[t].left
        /\ Put(j, "expired") \/ Put(j, "needs_channel")
        /\ hand[t].role = "closer"
    BY <1>7 DEF Expire, Park, Handled, Closing, history
  <2>2. h \in Hands /\ h.role = hand[t].role /\ h.gig = hand[t].gig /\ h.left \subseteq hand[t].left
        /\ h.at = hand[t].at
    BY <1>1 DEF Hands
  <2> HIDE DEF h
  <2>3. HandsFrom
    BY <1>3, <2>1, <2>2
  <2>4. Holds(t, j)
    BY <2>1 DEF Holds
  <2> QED BY <1>1, <2>1, <2>3, <2>4, RowWrites
<1>8. ASSUME NEW j \in Gigs, ApplyByWeb(t, j) PROVE HandsFrom /\ RowsFrom
  <2>1. /\ j \in hand[t].left /\ UNCHANGED <<via, raced>> /\ hand[t].role = "closer"
        /\ Put(j, "applied") \/ Put(j, "needs_channel") \/ UNCHANGED status
    BY <1>8 DEF ApplyByWeb, Closing
  <2>2. PICK n \in {0, 1} : Tried(t, j, n)
    BY <1>8 DEF ApplyByWeb
  <2>3. PICK u \in Nat : u = hand[t].used + n
    <3>1. hand[t].used + n \in Nat
      BY <1>1
    <3> QED BY <3>1
  <2> DEFINE h == [hand[t] EXCEPT !.left = hand[t].left \ {j}, !.used = u, !.web = TRUE]
  <2>4. Now(t, h)
    BY <1>1, <2>2, <2>3 DEF Tried, Hands
  <2>5. h \in Hands /\ h.role = hand[t].role /\ h.gig = hand[t].gig /\ h.left \subseteq hand[t].left
        /\ h.at = hand[t].at
    BY <1>1 DEF Hands
  <2> HIDE DEF h
  <2>6. HandsFrom
    BY <1>3, <2>4, <2>5
  <2>7. Holds(t, j)
    BY <2>1 DEF Holds
  <2> QED BY <1>1, <2>1, <2>6, <2>7, RowWrites, RowsStand
<1>9. CASE CountWeb(t)
  <2> DEFINE h == [hand[t] EXCEPT !.at = "letters", !.web = FALSE,
                                  !.left = {j \in @ : via[j] = "mail"}]
  <2>1. (Now(t, h) \/ End(t)) /\ UNCHANGED <<via, status, raced>>
    BY <1>9 DEF CountWeb, history
  <2>2. h \in Hands /\ h.role = hand[t].role /\ h.gig = hand[t].gig /\ h.left \subseteq hand[t].left
        /\ h.at = "letters"
    BY <1>1 DEF Hands
  <2> HIDE DEF h
  <2> QED BY <1>2, <1>3, <2>1, <2>2, RowsStand
<1>10. ASSUME NEW j \in Gigs, Draft(t, j) PROVE HandsFrom /\ RowsFrom
  <2> DEFINE h == [hand[t] EXCEPT !.at = "brain", !.gig = j, !.left = @ \ {j}]
  <2>1. Now(t, h) /\ UNCHANGED <<via, status, raced>> /\ j \in hand[t].left
    BY <1>10 DEF Draft, table, history
  <2>2. h \in Hands /\ h.role = hand[t].role /\ h.gig = j /\ h.left = hand[t].left \ {j}
        /\ h.at = "brain"
    BY <1>1 DEF Hands
  <2> HIDE DEF h
  <2> QED BY <1>3, <2>1, <2>2, RowsStand
<1>11. CASE Compose(t)
  <2> DEFINE j == hand[t].gig
             h == [hand[t] EXCEPT !.at = "sent"]
             g == NextLetter(t, 0)
  <2>1. /\ hand[t].role = "closer" /\ hand[t].at = "brain" /\ UNCHANGED <<via, raced>>
        /\ Now(t, h) \/ Now(t, g)
        /\ UNCHANGED status \/ Put(j, "queued_budget")
    BY <1>11 DEF Compose, Closing
  <2>2. /\ h \in Hands /\ h.role = hand[t].role /\ h.gig = j /\ h.left = hand[t].left
        /\ g \in Hands /\ g.role = hand[t].role /\ g.gig = Nobody /\ g.left = hand[t].left
        /\ h.at = "sent" /\ g.at = "letters"
    BY <1>1, NextLetterHand DEF Hands
  <2>3. j \in Gigs /\ Holds(t, j)
    BY <1>1, <2>1 DEF Holds
  <2>4. HandsFrom
    <3> HIDE DEF h, g
    <3> QED BY <1>3, <2>1, <2>2
  <2> HIDE DEF h, g, j
  <2> QED BY <1>1, <2>1, <2>3, <2>4, RowWrites, RowsStand
<1>12. CASE Record(t)
  <2>0. PICK j : j = hand[t].gig
    OBVIOUS
  <2> DEFINE g == NextLetter(t, 1)
  <2>1. /\ hand[t].role = "closer" /\ hand[t].at = "sent" /\ UNCHANGED via
        /\ Now(t, g) \/ End(t)
        /\ \/ UNCHANGED raced /\ (UNCHANGED status \/ Put(j, "applied") \/ Put(j, "accepted"))
           \/ /\ Put(j, "rejected") /\ status[j] \in RejectFrom
              /\ NoteRace(j, Workers \ {t}) /\ Now(t, g)
    BY <1>12, <2>0 DEF Record, Closing
  <2>2. g \in Hands /\ g.role = hand[t].role /\ g.gig = Nobody /\ g.left = hand[t].left
        /\ g.at = "letters"
    BY <1>1, NextLetterHand
  <2>3. j \in Gigs /\ Holds(t, j) /\ j \notin hand[t].left
    BY <1>1, <2>0, <2>1 DEF Holds
  <2>4. HandsFrom
    <3> HIDE DEF g
    <3> QED BY <1>2, <1>3, <2>1, <2>2
  <2>5. CASE Put(j, "rejected") /\ status[j] \in RejectFrom /\ NoteRace(j, Workers \ {t})
             /\ Now(t, g)
    <3> HIDE DEF g
    <3>1. hand'[t] = g /\ \A u \in Workers : u # t => hand'[u] = hand[u]
      BY <1>1, <2>5 DEF JobsInv, JobsTypeOK, Now
    <3>2. \A w \in Workers : Holds(w, j)' => w \in Workers \ {t} /\ Holds(w, j)
      BY <2>2, <2>3, <3>1, JobsAssumption DEF Holds
    <3> QED BY <2>1, <2>3, <2>4, <2>5, <3>2, RowRejected
  <2> HIDE DEF g
  <2> QED BY <1>1, <2>1, <2>3, <2>4, <2>5, RowWrites, RowsStand
<1>13. CASE CountLetters(t)
  BY <1>2, <1>13, RowsStand DEF CountLetters, history
<1> QED BY <1>4, <1>5, <1>6, <1>7, <1>8, <1>9, <1>10, <1>11, <1>12, <1>13 DEF Closer

(* The crafter takes up what was accepted, the treasurer what was made.    *)
LEMMA WorkTakesOrders ==
  ASSUME JobsInv, CopiesInv, NEW t \in Threads,
         \/ Make(t) \/ Produced(t) \/ Issued(t) \/ StartBilling(t)
         \/ \E j \in Gigs : Craft(t, j) \/ IssueFor(t, j)
  PROVE  HandsFrom /\ RowsFrom
<1>1. /\ t \in Workers /\ hand[t] \in Hands /\ hand[t].gig \notin hand[t].left
      /\ hand[t].at = "old" => hand[t].gig = Nobody
      /\ HandSound(hand[t], Ordered, Done)
  BY WorkerIsSound DEF Workers, CopiesInv
<1>2. ASSUME End(t) PROVE HandsFrom
  BY <1>1, <1>2, IdleFrom, HandMoves DEF End
<1>3. ASSUME NEW h \in Hands, Now(t, h), h.role = hand[t].role, h.left \subseteq hand[t].left,
             h.gig = hand[t].gig, h.at = "old" => hand[t].at = "old"
      PROVE  HandsFrom
  BY <1>1, <1>3, LessFrom, HandMoves
<1>4. CASE Make(t)
  <2> DEFINE h == [hand[t] EXCEPT !.at = "made"]
             g == [hand[t] EXCEPT !.at = "queued"]
  <2>1. (Now(t, h) \/ Now(t, g) \/ End(t)) /\ UNCHANGED <<via, status, raced>>
    BY <1>4 DEF Make, table
  <2>2. /\ h \in Hands /\ h.role = hand[t].role /\ h.gig = hand[t].gig /\ h.left = hand[t].left
        /\ g \in Hands /\ g.role = hand[t].role /\ g.gig = hand[t].gig /\ g.left = hand[t].left
        /\ h.at = "made" /\ g.at = "queued"
    BY <1>1 DEF Hands
  <2> HIDE DEF h, g
  <2> QED BY <1>2, <1>3, <2>1, <2>2, RowsStand
<1>5. CASE Produced(t)
  <2>1. /\ hand[t].role = "crafter" /\ End(t) /\ UNCHANGED <<via, raced>>
        /\ hand[t].gig \in Gigs /\ Holds(t, hand[t].gig)
        /\ Put(hand[t].gig, "delivered") \/ Put(hand[t].gig, "queued_craft")
    BY <1>1, <1>5 DEF Produced, history, HandSound, Holds
  <2> QED BY <1>1, <1>2, <2>1, RowWrites
<1>6. CASE Issued(t)
  BY <1>2, <1>6, RowsStand DEF Issued, table, history
<1>7. CASE StartBilling(t)
  <2> DEFINE h == [Idle EXCEPT !.role = "treasurer", !.at = "bills", !.left = In({"delivered"})]
  <2>1. Now(t, h) /\ UNCHANGED <<via, status, raced>>
    BY <1>7 DEF StartBilling, Begin, table, history
  <2>2. h \in Hands /\ HandFrom(h, hand[t], status)
    BY JobsAssumption DEF Idle, Hands, In, HandFrom
  <2> HIDE DEF h
  <2> QED BY <1>1, <2>1, <2>2, HandMoves, RowsStand
<1>8. ASSUME NEW j \in Gigs, Craft(t, j) PROVE HandsFrom /\ RowsFrom
  <2> DEFINE h == [Idle EXCEPT !.role = "crafter", !.at = "produce", !.gig = j]
  <2>1. Now(t, h) /\ UNCHANGED <<via, status, raced>>
        /\ status[j] \in {"accepted", "queued_craft"}
    BY <1>8 DEF Craft, Begin, table, history, ToCraft, In
  <2>2. h \in Hands /\ HandFrom(h, hand[t], status)
    BY <2>1, JobsAssumption DEF Idle, Hands, HandFrom
  <2> HIDE DEF h
  <2> QED BY <1>1, <2>1, <2>2, HandMoves, RowsStand
<1>9. ASSUME NEW j \in Gigs, IssueFor(t, j) PROVE HandsFrom /\ RowsFrom
  <2> DEFINE h == [hand[t] EXCEPT !.left = @ \ {j}, !.used = 0]
  <2>1. /\ Now(t, h) /\ j \in hand[t].left /\ UNCHANGED <<via, raced>>
        /\ UNCHANGED status \/ Put(j, "invoiced")
    BY <1>9 DEF IssueFor, Handled, history
  <2>2. h \in Hands /\ h.role = hand[t].role /\ h.gig = hand[t].gig /\ h.left \subseteq hand[t].left
        /\ h.at = hand[t].at
    BY <1>1 DEF Hands
  <2> HIDE DEF h
  <2>3. HandsFrom
    BY <1>3, <2>1, <2>2
  <2>4. Holds(t, j)
    BY <2>1 DEF Holds
  <2> QED BY <1>1, <2>1, <2>3, <2>4, RowWrites, RowsStand
<1> QED BY <1>4, <1>5, <1>6, <1>7, <1>8, <1>9

(* The operator, the mail and a payment write what is not rejected; who    *)
(* has a copy of what the mail rejects is noted.                           *)
LEMMA OthersWriteLittle ==
  ASSUME JobsInv, CopiesInv,
         \/ FinishAccept \/ LeaveBehind \/ Die \/ NextDay \/ UNCHANGED jobsVars
         \/ \E j \in Gigs : \/ Hunt(j) \/ Publish(j) \/ Scout(j) \/ MailAccepts(j)
                            \/ MailRejects(j) \/ Settle(j) \/ StartAccept(j)
  PROVE  HandsFrom /\ RowsFrom
<1>1. Desk \in Workers /\ hand[Desk].gig \notin hand[Desk].left
  BY DEF Workers, CopiesInv
<1>2. CASE LeaveBehind \/ NextDay \/ UNCHANGED jobsVars
  <2>1. UNCHANGED <<hand, via, status, raced>>
    BY <1>2 DEF LeaveBehind, NextDay, jobsVars, table, history
  <2> QED BY <2>1, HandMoves, RowsStand
<1>3. CASE Die
  <2>1. UNCHANGED <<via, status, raced>>
    BY <1>3 DEF Die, table
  <2>2. \A w \in Workers : hand'[w] = hand[w] \/ hand'[w] = Idle
    BY <1>3 DEF Die
  <2>3. \A w \in Workers : HandFrom(hand[w], hand[w], status)
    BY DEF CopiesInv, HandFrom
  <2>4. HandsFrom
    BY <2>2, <2>3, IdleFrom DEF HandsFrom
  <2> QED BY <2>1, <2>4, RowsStand
<1>4. CASE FinishAccept
  <2>1. hand[Desk].gig \in Gigs /\ hand[Desk].role = "accept" /\ Holds(Desk, hand[Desk].gig)
    BY <1>1, <1>4, WorkerIsSound DEF FinishAccept, HandSound, Holds
  <2>2. HandsFrom
    BY <1>1, <1>4, IdleFrom, HandMoves DEF FinishAccept
  <2>3. Put(hand[Desk].gig, "accepted") /\ UNCHANGED <<via, raced>>
    BY <1>4 DEF FinishAccept, history
  <2> QED BY <1>1, <2>1, <2>2, <2>3, RowWrites
<1>5. ASSUME NEW j \in Gigs, StartAccept(j) PROVE HandsFrom /\ RowsFrom
  <2> DEFINE h == [Idle EXCEPT !.role = "accept", !.at = "write", !.gig = j]
  <2>1. Now(Desk, h) /\ UNCHANGED <<via, status, raced>> /\ status[j] \in AcceptFrom
    BY <1>5 DEF StartAccept, table, Acceptable
  <2>2. h \in Hands /\ HandFrom(h, hand[Desk], status)
    BY <2>1, JobsAssumption DEF Idle, Hands, HandFrom
  <2> HIDE DEF h
  <2> QED BY <1>1, <2>1, <2>2, HandMoves, RowsStand
<1>6. ASSUME NEW j \in Gigs, MailRejects(j) PROVE HandsFrom /\ RowsFrom
  <2>1. /\ Put(j, "rejected") /\ status[j] \in RejectFrom /\ NoteRace(j, Workers)
        /\ UNCHANGED <<via, hand>>
    BY <1>6 DEF MailRejects
  <2>2. \A w \in Workers : Holds(w, j)' => w \in Workers /\ Holds(w, j)
    BY <2>1 DEF Holds
  <2> QED BY <2>1, <2>2, HandMoves, RowRejected
<1>7. ASSUME NEW j \in Gigs, Settle(j) PROVE HandsFrom /\ RowsFrom
  <2>1. /\ bill[j] = "open" /\ UNCHANGED <<via, raced, hand>>
        /\ Put(j, "paid") \/ UNCHANGED status
    BY <1>7 DEF Settle, history
  <2> QED BY <2>1, HandMoves, RowWrites, RowsStand
<1>8. ASSUME NEW j \in Gigs, Hunt(j) \/ Publish(j) \/ Scout(j) \/ MailAccepts(j)
      PROVE  HandsFrom /\ RowsFrom
  <2>1. /\ UNCHANGED <<via, raced, hand>>
        /\ \/ j \notin Own /\ status[j] = "absent" /\ (Put(j, "open") \/ Put(j, "needs_channel"))
           \/ j \in Own /\ Put(j, "delivered")
           \/ status[j] \in RejectFrom /\ Put(j, "accepted")
    BY <1>8 DEF Hunt, Publish, Scout, MailAccepts, Acceptable, RejectFrom, history
  <2> QED BY <2>1, HandMoves, RowWrites
<1> QED BY <1>2, <1>3, <1>4, <1>5, <1>6, <1>7, <1>8

(* reject_job and every role: a client that said no is left alone.  With   *)
(* roles left behind, an operator beside running ones and deaths, a        *)
(* rejection is undone only by a copy of the row that a worker had when it *)
(* came, or by the payment of a bill that is out: nothing takes a rejected *)
(* job up again.                                                           *)
THEOREM RejectionIsFinal == JobsSpec => RejectedIsFinal
<1>1. JobsInit => CopiesInv
  <2> SUFFICES ASSUME JobsInit PROVE CopiesInv
    OBVIOUS
  <2>1. \A w \in Workers : hand[w].gig = Nobody /\ hand[w].left = {}
    BY DEF JobsInit, Idle
  <2>2. \A w \in Workers, j \in Gigs : ~Holds(w, j)
    BY <2>1, JobsAssumption DEF Holds
  <2> QED BY <2>1, <2>2 DEF CopiesInv, JobsInit, Own
<1>2. JobsInv /\ CopiesInv /\ [JobsNext]_jobsVars => CopiesInv' /\ RejectedStay
  <2> SUFFICES ASSUME JobsInv, CopiesInv, [JobsNext]_jobsVars PROVE CopiesInv' /\ RejectedStay
    OBVIOUS
  <2>1. HandsFrom /\ RowsFrom
    BY CloserTakesLeads, WorkTakesOrders, OthersWriteLittle DEF JobsNext
  <2> QED BY <2>1, CopiesKept
<1> QED BY <1>1, <1>2, JobsInvariant, PTL DEF JobsSpec, RejectedIsFinal, RejectedStay
=============================================================================
