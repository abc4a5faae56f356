-------------------------------- MODULE Jobs --------------------------------
(***************************************************************************)
(* The pipeline of jobs: hunter, closer, crafter, treasurer and publisher  *)
(* of sovereign/agents/roles.py over the rows of the jobs table, accept    *)
(* and reject of labor/pipeline.py, craft.produce of labor/craft.py.       *)
(*                                                                         *)
(* A role runs on a thread of its own.  It reads rows, talks to a model, a *)
(* browser or a mail server for as long as that takes, and writes its copy *)
(* of a row back as a whole.  The heartbeat waits for one role at a time;  *)
(* one that takes too long is left behind and works on.  The operator      *)
(* accepts and rejects from another process.                               *)
(***************************************************************************)
EXTENDS Integers, FiniteSets

CONSTANTS
  Gigs,       (* the jobs                                                   *)
  Threads,    (* threads of the daemon: bounds the roles left behind        *)
  Cap,        (* applications a day                                         *)
  Faults      (* of {"crash", "late", "meddle"}: what may go wrong          *)

Desk    == "desk"       (* the operator's process                           *)
Nobody  == "nobody"
Workers == Threads \cup {Desk}

ASSUME JobsAssumption ==
  /\ Cap \in Nat /\ Faults \subseteq {"crash", "late", "meddle"}
  /\ Threads \cap {Desk, Nobody} = {} /\ Nobody \notin Gigs

Leads      == {"open", "queued_budget"}
AcceptFrom == {"open", "applied", "queued_budget", "needs_channel"}
RejectFrom == AcceptFrom \cup {"accepted"}
Statuses   == AcceptFrom \cup {"absent", "accepted", "rejected", "expired",
                               "queued_craft", "delivered", "invoiced", "paid"}

VARIABLES
  faults,   (* what may go wrong in this behaviour                          *)
  via,      (* how a job can be applied for; "own": the firm's own product  *)
  status,   (* the rows of the table; of a row its status                   *)
  bill,     (* the invoice of each job                                      *)
  posted,   (* the jobs with a proposal in the table of mails               *)
  counted,  (* apply_by_day of today                                        *)
  hand,     (* what each worker does, with its copy of the rows             *)
  duty,     (* the thread the heartbeat waits for                           *)
  asked,    (* history: the jobs whose client said yes                      *)
  made,     (* history: the jobs with files in deliveries/                  *)
  today,    (* history: the jobs that were applied for today                *)
  lost,     (* history: a closer was cut off or left behind since           *)
  raced     (* history: the jobs rejected while a worker had a copy         *)

table    == <<faults, via, status, bill, counted, posted>>
history  == <<asked, made, today, lost, raced>>
jobsVars == <<table, hand, duty, history>>

(* What a role holds: the job it works on; the jobs of its list that are   *)
(* left; the day's count, as it was read and goes on; whether anything was *)
(* tried by web.                                                           *)
Idle == [role |-> "none", at |-> "", gig |-> Nobody, left |-> {}, used |-> 0,
         web |-> FALSE]
Hands == [role: {"none", "closer", "crafter", "treasurer", "accept"},
          at: {"", "old", "leads", "web", "letters", "brain", "sent", "produce",
               "made", "queued", "bills", "write"},
          gig: Gigs \cup {Nobody}, left: SUBSET Gigs, used: Nat, web: BOOLEAN]

Vias == {"mail", "web", "none", "own"}

(* Only a simulation puts up rows of its own: prod_<tick>, retainer_inbox  *)
(* and design_kit.                                                         *)
Own == {j \in Gigs : via[j] = "own"}

(* A job may be over before it begins.                                     *)
JobsInit ==
  /\ faults \in SUBSET Faults
  /\ via \in [Gigs -> Vias]
  /\ status \in [Gigs -> {"absent", "rejected"}]
  /\ \A j \in Own : status[j] = "absent"
  /\ bill = [j \in Gigs |-> "none"]
  /\ counted = 0
  /\ hand = [w \in Workers |-> Idle]
  /\ duty = Nobody
  /\ posted = {} /\ asked = {} /\ made = {}
  /\ today = {} /\ lost = FALSE /\ raced = {}

JobsTypeOK ==
  /\ faults \subseteq Faults
  /\ via \in [Gigs -> Vias]
  /\ status \in [Gigs -> Statuses]
  /\ bill \in [Gigs -> {"none", "open", "paid", "void"}]
  /\ hand \in [Workers -> Hands]
  /\ duty \in Threads \cup {Nobody}
  /\ posted \cup asked \cup made \cup today \cup raced \subseteq Gigs
  /\ counted \in Nat /\ lost \in BOOLEAN

-----------------------------------------------------------------------------
Put(j, s) == status' = [status EXCEPT ![j] = s]
Resting(w) == hand[w] = Idle
Holds(w, j) == hand[w].gig = j \/ j \in hand[w].left
Quiet == \A w \in Workers : Resting(w)
Now(w, h) == hand' = [hand EXCEPT ![w] = h]

In(states) == {j \in Gigs : status[j] \in states}

(* The heartbeat runs a role on thread t, with what it reads first.        *)
Begin(t, h) ==
  /\ duty = Nobody /\ Resting(t)
  /\ "meddle" \notin faults => Resting(Desk)
  /\ Now(t, h)
  /\ duty' = t
  /\ UNCHANGED <<table, history>>

(* The role returns or raises: the heartbeat goes on if it was waiting.    *)
End(t) ==
  /\ Now(t, Idle)
  /\ duty' = IF duty = t THEN Nobody ELSE duty

(* The watchdog gives up on the role; the worker lives on.  Bound: one     *)
(* role at a time is left behind.                                          *)
LeaveBehind ==
  /\ "late" \in faults /\ duty # Nobody
  /\ \A t \in Threads \ {duty} : Resting(t)
  /\ duty' = Nobody
  /\ lost' = (lost \/ hand[duty].role = "closer")
  /\ UNCHANGED <<table, hand, asked, made, today, raced>>

(* The daemon dies with its threads.                                       *)
Die ==
  /\ "crash" \in faults /\ \E t \in Threads : ~Resting(t)
  /\ hand' = [w \in Workers |-> IF w = Desk THEN hand[w] ELSE Idle]
  /\ duty' = Nobody
  /\ lost' = (lost \/ \E t \in Threads : hand[t].role = "closer")
  /\ UNCHANGED <<table, asked, made, today, raced>>

(* Midnight.  A closer that works past it counts for the day it began on;  *)
(* here it ends first.                                                     *)
NextDay ==
  /\ \A t \in Threads : hand[t].role # "closer"
  /\ duty = Nobody
  /\ counted' = 0 /\ today' = {} /\ lost' = FALSE
  /\ UNCHANGED <<faults, via, status, bill, posted, hand, duty, asked, made, raced>>

-----------------------------------------------------------------------------
(* hunter(): a row is inserted only when the id is not there yet.          *)
Hunt(j) ==
  /\ duty = Nobody /\ j \notin Own /\ status[j] = "absent"
  /\ \E s \in {"open", "needs_channel"} : Put(j, s)
  /\ UNCHANGED <<faults, via, bill, posted, counted, hand, duty, history>>

(* publisher() in a simulation: a product is sold as it is listed, while   *)
(* the heartbeat waits or after it gave up.  The row is written whatever   *)
(* it was: a tick that is resumed after a crash writes it again.           *)
Publish(j) ==
  /\ j \in Own /\ made # {}
  /\ Put(j, "delivered")
  /\ UNCHANGED <<faults, via, bill, posted, counted, hand, duty, history>>

(* scout() in a simulation, once the month is good enough (left open): it  *)
(* looks for the row, then inserts it, and two scouts may do so at once.   *)
Scout(j) ==
  /\ j \in Own /\ (status[j] = "absent" \/ "late" \in faults)
  /\ Put(j, "delivered")
  /\ UNCHANGED <<faults, via, bill, posted, counted, hand, duty, history>>

-----------------------------------------------------------------------------
(* accept_job() and reject_job(): read the row, then write it back.        *)

(* Mutant: what is over can be accepted too.                               *)
Acceptable_Any(s) == s # "absent"

Acceptable(s) == s \in AcceptFrom

(* The operator's `sovereign accept`.                                      *)
StartAccept(j) ==
  /\ Resting(Desk)
  /\ "meddle" \notin faults => Quiet
  /\ Acceptable(status[j])
  /\ Now(Desk, [Idle EXCEPT !.role = "accept", !.at = "write", !.gig = j])
  /\ asked' = asked \cup {j}
  /\ UNCHANGED <<table, duty, made, today, lost, raced>>

FinishAccept ==
  /\ hand[Desk].at = "write"
  /\ Put(hand[Desk].gig, "accepted")
  /\ Now(Desk, Idle)
  /\ UNCHANGED <<faults, via, bill, posted, counted, duty, history>>

(* Mail is read on the heartbeat's own thread, when it waits for no role.  *)
(* One step: what may come between is what may for the operator.           *)
MailTurn == duty = Nobody /\ ("meddle" \notin faults => Resting(Desk))

MailAccepts(j) ==
  /\ MailTurn /\ Acceptable(status[j])
  /\ Put(j, "accepted")
  /\ asked' = asked \cup {j}
  /\ UNCHANGED <<faults, via, bill, posted, counted, hand, duty, made, today, lost,
                 raced>>

(* Whether a worker has a copy of the row that is being rejected.          *)
NoteRace(j, others) ==
  raced' = IF \E w \in others : Holds(w, j) THEN raced \cup {j} ELSE raced

(* reject_job() ignores what is delivered or over.                         *)
MailRejects(j) ==
  /\ MailTurn /\ status[j] \in RejectFrom
  /\ Put(j, "rejected") /\ NoteRace(j, Workers)
  /\ UNCHANGED <<faults, via, bill, posted, counted, hand, duty, asked, made, today, lost>>

-----------------------------------------------------------------------------
(* closer().                                                               *)

Closing(t, at) == hand[t].role = "closer" /\ hand[t].at = at
Handled(t, j, used) == Now(t, [hand[t] EXCEPT !.left = @ \ {j}, !.used = used])

StartCloser(t) ==
  Begin(t, [Idle EXCEPT !.role = "closer", !.at = "old", !.left = In({"applied"})])

(* An application of long ago.                                             *)
Expire(t, j) ==
  /\ Closing(t, "old") /\ j \in hand[t].left
  /\ Put(j, "expired")
  /\ Handled(t, j, 0)
  /\ UNCHANGED <<faults, via, bill, posted, counted, duty, history>>

ReadLeads(t) ==
  /\ Closing(t, "old")
  /\ Now(t, [hand[t] EXCEPT !.at = "leads", !.left = In(Leads)])
  /\ UNCHANGED <<table, duty, history>>

(* No verified contact and no page to apply at.                            *)
Park(t, j) ==
  /\ Closing(t, "leads") /\ j \in hand[t].left /\ via[j] = "none"
  /\ Put(j, "needs_channel")
  /\ Handled(t, j, 0)
  /\ UNCHANGED <<faults, via, bill, posted, counted, duty, history>>

ReadCount(t) ==
  /\ Closing(t, "leads")
  /\ \A j \in hand[t].left : via[j] # "none"
  /\ Now(t, [hand[t] EXCEPT !.at = "web", !.used = counted])
  /\ UNCHANGED <<table, duty, history>>

Tried(t, j, n) == Now(t, [hand[t] EXCEPT !.left = @ \ {j}, !.used = @ + n, !.web = TRUE])

(* _closer_web_apply(): applied, parked for a human, or left as it is.     *)
ApplyByWeb(t, j) ==
  /\ Closing(t, "web") /\ j \in hand[t].left /\ via[j] = "web"
  /\ hand[t].used < Cap
  /\ \/ Put(j, "applied") /\ Tried(t, j, 1) /\ today' = today \cup {j}
     \/ Put(j, "needs_channel") /\ Tried(t, j, 0) /\ UNCHANGED today
     \/ UNCHANGED <<status, today>> /\ Tried(t, j, 0)
  /\ UNCHANGED <<faults, via, bill, posted, counted, duty, asked, made, lost, raced>>

(* Mutant: only the letters are counted, at the end.                       *)
CountWeb_Later(t) ==
  /\ Closing(t, "web")
  /\ \/ Now(t, [hand[t] EXCEPT !.at = "letters", !.web = FALSE,
                               !.left = {j \in @ : via[j] = "mail"}])
        /\ UNCHANGED duty
     \/ End(t)
  /\ UNCHANGED <<table, history>>

(* What was sent by web is counted; without a model budget that is all.    *)
CountWeb(t) ==
  /\ Closing(t, "web")
  /\ counted' = IF hand[t].web THEN hand[t].used ELSE counted
  /\ \/ Now(t, [hand[t] EXCEPT !.at = "letters", !.web = FALSE,
                               !.left = {j \in @ : via[j] = "mail"}])
        /\ UNCHANGED duty
     \/ End(t)
  /\ UNCHANGED <<faults, via, status, bill, posted, history>>

Draft(t, j) ==
  /\ Closing(t, "letters") /\ j \in hand[t].left
  /\ hand[t].used < Cap
  /\ Now(t, [hand[t] EXCEPT !.at = "brain", !.gig = j, !.left = @ \ {j}])
  /\ UNCHANGED <<table, duty, history>>

NextLetter(t, n) == [hand[t] EXCEPT !.at = "letters", !.gig = Nobody, !.used = @ + n]

(* The model answers and mail.send writes to each client once; the model   *)
(* or the mail fails; or there is no model budget.                         *)
Compose(t) ==
  LET j == hand[t].gig
  IN  /\ Closing(t, "brain")
      /\ \/ /\ Now(t, [hand[t] EXCEPT !.at = "sent"])
            /\ posted' = posted \cup {j}
            /\ today' = IF j \in posted THEN today ELSE today \cup {j}
            /\ UNCHANGED status
         \/ Now(t, NextLetter(t, 0)) /\ UNCHANGED <<status, posted, today>>
         \/ /\ Now(t, NextLetter(t, 0))
            /\ Put(j, "queued_budget") /\ UNCHANGED <<posted, today>>
      /\ UNCHANGED <<faults, via, bill, counted, duty, asked, made, lost, raced>>

(* Live the job waits for its client; a simulated client answers at once,  *)
(* which a job that is over or under way ignores, and one whose craft is   *)
(* queued makes the role raise.                                            *)
Record(t) ==
  LET j    == hand[t].gig
      next == NextLetter(t, 1)
  IN  /\ Closing(t, "sent")
      /\ \/ Put(j, "applied") /\ Now(t, next) /\ UNCHANGED <<asked, duty, lost, raced>>
         \/ /\ Acceptable(status[j]) /\ Put(j, "accepted") /\ Now(t, next)
            /\ asked' = asked \cup {j} /\ UNCHANGED <<duty, lost, raced>>
         \/ /\ status[j] \in RejectFrom /\ Put(j, "rejected") /\ Now(t, next)
            /\ NoteRace(j, Workers \ {t})
            /\ UNCHANGED <<asked, duty, lost>>
         \/ /\ status[j] \notin AcceptFrom \cup {"queued_craft"} /\ Now(t, next)
            /\ UNCHANGED <<status, asked, duty, lost, raced>>
         \/ /\ status[j] = "queued_craft" /\ End(t) /\ lost' = TRUE
            /\ UNCHANGED <<status, asked, raced>>
      /\ UNCHANGED <<faults, via, bill, posted, counted, made, today>>

CountLetters(t) ==
  /\ Closing(t, "letters")
  /\ counted' = hand[t].used
  /\ End(t)
  /\ UNCHANGED <<faults, via, status, bill, posted, history>>

Closer(t) ==
  \/ StartCloser(t) \/ ReadLeads(t) \/ ReadCount(t)
  \/ \E j \in Gigs : Expire(t, j) \/ Park(t, j) \/ ApplyByWeb(t, j) \/ Draft(t, j)
  \/ CountWeb(t) \/ Compose(t) \/ Record(t) \/ CountLetters(t)

-----------------------------------------------------------------------------
(* crafter(): queue[0] of the queued, then of the accepted jobs.           *)

ToCraft ==
  IF In({"queued_craft"}) # {} THEN In({"queued_craft"}) ELSE In({"accepted"})

Craft(t, j) ==
  /\ j \in ToCraft
  /\ Begin(t, [Idle EXCEPT !.role = "crafter", !.at = "produce", !.gig = j])

(* craft.produce(): the work directory is copied to deliveries/; or the    *)
(* model that should fill it gives nothing yet; or something raises.       *)
Make(t) ==
  LET j == hand[t].gig
  IN  /\ hand[t].role = "crafter" /\ hand[t].at = "produce"
      /\ \/ /\ made' = made \cup {j}
            /\ Now(t, [hand[t] EXCEPT !.at = "made"]) /\ UNCHANGED duty
         \/ /\ Now(t, [hand[t] EXCEPT !.at = "queued"]) /\ UNCHANGED <<made, duty>>
         \/ End(t) /\ UNCHANGED made
      /\ UNCHANGED <<table, asked, today, lost, raced>>

(* Mutant: what the model did not produce is delivered all the same.       *)
Produced_Anyhow(t) ==
  /\ hand[t].role = "crafter" /\ hand[t].at \in {"made", "queued"}
  /\ Put(hand[t].gig, "delivered")
  /\ End(t)
  /\ UNCHANGED <<faults, via, bill, posted, counted, history>>

(* The role writes its copy of the row.                                    *)
Produced(t) ==
  /\ hand[t].role = "crafter" /\ hand[t].at \in {"made", "queued"}
  /\ Put(hand[t].gig, IF hand[t].at = "made" THEN "delivered" ELSE "queued_craft")
  /\ End(t)
  /\ UNCHANGED <<faults, via, bill, posted, counted, history>>

-----------------------------------------------------------------------------
(* treasurer() bills the delivered jobs it read; issue() looks again for   *)
(* an invoice, in the transaction that writes one.                         *)
StartBilling(t) ==
  /\ In({"delivered"}) # {}
  /\ Begin(t, [Idle EXCEPT !.role = "treasurer", !.at = "bills", !.left = In({"delivered"})])

IssueFor(t, j) ==
  /\ hand[t].role = "treasurer" /\ j \in hand[t].left
  /\ IF bill[j] \in {"open", "paid"}
     THEN UNCHANGED <<status, bill>>
     ELSE Put(j, "invoiced") /\ bill' = [bill EXCEPT ![j] = "open"]
  /\ Handled(t, j, 0)
  /\ UNCHANGED <<faults, via, posted, counted, duty, history>>

Issued(t) ==
  /\ hand[t].role = "treasurer" /\ hand[t].left = {}
  /\ End(t)
  /\ UNCHANGED <<table, history>>

(* collect() and void(), each one transaction.                             *)
Settle(j) ==
  /\ bill[j] = "open"
  /\ \/ bill' = [bill EXCEPT ![j] = "paid"] /\ Put(j, "paid")
     \/ bill' = [bill EXCEPT ![j] = "void"] /\ UNCHANGED status
  /\ UNCHANGED <<faults, via, posted, counted, hand, duty, history>>

JobsNext ==
  \/ \E j \in Gigs : Hunt(j) \/ Publish(j) \/ Scout(j) \/ MailAccepts(j)
                     \/ MailRejects(j) \/ Settle(j) \/ StartAccept(j)
  \/ \E t \in Threads : \/ Closer(t) \/ Make(t) \/ Produced(t) \/ Issued(t)
                        \/ StartBilling(t)
                        \/ \E j \in Gigs : Craft(t, j) \/ IssueFor(t, j)
  \/ FinishAccept \/ LeaveBehind \/ Die \/ NextDay

JobsSpec == JobsInit /\ [][JobsNext]_jobsVars
-----------------------------------------------------------------------------
(* Properties.                                                             *)

(* No client is billed for work that was not ordered or not made, whatever *)
(* copies of rows a late role, the operator or a crash leave behind.  Only *)
(* what a simulated firm puts up as sold already is billed without either. *)
BilledWorkWasOrdered ==
  \A j \in Gigs \ Own : bill[j] # "none" => j \in asked \cap made

(* Unless a closer was cut off or left behind, the firm never sends more   *)
(* applications a day than the cap, by web and by mail together.           *)
CapKept == ~lost => Cardinality(today) <= Cap

(* A client that said no is left alone.  Roles left behind, an operator    *)
(* beside running ones and deaths included, a rejection is undone only     *)
(* when a worker had a copy of the row as it came, or by the payment of a  *)
(* bill that is out.                                                       *)
RejectedIsFinal ==
  [][\A j \in Gigs \ raced :
       status[j] = "rejected" =>
         status'[j] = "rejected" \/ (status'[j] = "paid" /\ bill[j] = "open")]_jobsVars
=============================================================================
