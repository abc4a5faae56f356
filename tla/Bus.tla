-------------------------------- MODULE Bus ---------------------------------
(***************************************************************************)
(* The message table behind the agents' bus, comms/bus.py.  M is the table:*)
(* a sequence of rows in the order they were inserted, where a row that    *)
(* retention deleted keeps its place with status "deleted".  An operation  *)
(* is a function from one committed table to the next, as the code runs    *)
(* each of them inside one store.transaction().                            *)
(*                                                                         *)
(* A row's age is its distance from the clock in ticks.  Only requests     *)
(* have a deadline, and all of them the same, so the age also says whether *)
(* the deadline has passed.                                                *)
(***************************************************************************)
EXTENDS Naturals, Sequences, FiniteSets, SequencesExt

CONSTANTS
  MaxAttempts,    (* failures after which a message is dead-lettered        *)
  DeadlineTicks,  (* ticks a request may wait for its answer                *)
  MaxAge          (* ticks after which retention deletes a settled row; ages*)
                  (* are not told apart from here on                        *)

ASSUME BusAssumption ==
  /\ MaxAttempts \in Nat \ {0}
  /\ DeadlineTicks \in Nat \ {0}
  /\ MaxAge \in Nat /\ MaxAge > DeadlineTicks

Seats    == {"treasurer", "risk", "director"}
Agents   == Seats \cup {"operator"}
Kinds    == {"vote_request", "vote_request.reply", "notify"}
YesNo    == {"yes", "no"}
Statuses == {"queued", "done", "expired", "dead", "deleted"}
NoRow    == 0

(* corr is the request a row belongs to, answers the row it is a reply to. *)
Row == [kind: Kinds, sender: Agents \cup {"mechanic"}, recipient: Agents,
        corr: Nat, answers: Nat, vote: YesNo \cup {"none"},
        status: Statuses, attempts: Nat, age: 0..MaxAge]

ExpectsReply(row) == row.kind = "vote_request"
Overdue(row)      == ExpectsReply(row) /\ row.age > DeadlineTicks

NewRow(kind, sender, recipient, corr, answers, vote) ==
  [kind |-> kind, sender |-> sender, recipient |-> recipient, corr |-> corr,
   answers |-> answers, vote |-> vote, status |-> "queued", attempts |-> 0, age |-> 0]

(* request(): one row per recipient, all or none.                          *)
Request(M, sender, recipients, corr) ==
  M \o [i \in DOMAIN recipients |->
          NewRow("vote_request", sender, recipients[i], corr, NoRow, "none")]

(* broadcast() or send() without a deadline, one recipient of it.          *)
Send(M, sender, recipient) ==
  Append(M, NewRow("notify", sender, recipient, 0, NoRow, "none"))

(* reply() to row i by its recipient.                                      *)
Reply(M, i, vote) ==
  Append(M, NewRow("vote_request.reply", M[i].recipient, M[i].sender,
                   M[i].corr, i, vote))

(* ack() and fail() raise, and change nothing, unless the row is still     *)
(* queued.                                                                 *)
Ack(M, i) ==
  IF M[i].status = "queued" THEN [M EXCEPT ![i].status = "done"] ELSE M

Fail(M, i) ==
  LET attempts == M[i].attempts + 1
      status   == IF attempts >= MaxAttempts THEN "dead" ELSE "queued"
  IN  IF M[i].status = "queued"
      THEN [M EXCEPT ![i] = [@ EXCEPT !.attempts = attempts, !.status = status]]
      ELSE M

(* requeue(): the row keeps its deadline.                                  *)
Requeueable(M) == {i \in DOMAIN M : M[i].status \in {"dead", "expired"}}
Requeue(M, i) ==
  [M EXCEPT ![i] = [@ EXCEPT !.status = "queued", !.attempts = 0]]

(* prune(): settled rows that are older than this many ticks go.  A thread *)
(* that has listed a row before still knows what it was.                   *)
Gone(row) == [row EXCEPT !.status = "deleted", !.vote = "none", !.attempts = 0, !.age = 0]
Prune(M, ticks) ==
  [i \in DOMAIN M |->
     IF M[i].status \in {"done", "expired"} /\ M[i].age > ticks
     THEN Gone(M[i]) ELSE M[i]]

(* Mutant: only the rows of one agent are swept.                           *)
ExpireDue_OperatorOnly(M) ==
  [i \in DOMAIN M |->
     IF M[i].status = "queued" /\ Overdue(M[i]) /\ M[i].recipient = "operator"
     THEN [M[i] EXCEPT !.status = "expired"] ELSE M[i]]

(* Mutant: every overdue row expires, the answered ones too.               *)
ExpireDue_Answered(M) ==
  [i \in DOMAIN M |->
     IF Overdue(M[i]) THEN [M[i] EXCEPT !.status = "expired"] ELSE M[i]]

(* expire_due().                                                           *)
ExpireDue(M) ==
  [i \in DOMAIN M |->
     IF M[i].status = "queued" /\ Overdue(M[i])
     THEN [M[i] EXCEPT !.status = "expired"] ELSE M[i]]

(* The clock moves one tick.                                               *)
Older(age) == IF age = MaxAge THEN age ELSE age + 1
Tick(M) ==
  [i \in DOMAIN M |->
     IF M[i].status = "deleted" THEN M[i] ELSE [M[i] EXCEPT !.age = Older(@)]]

(* inbox(): what an agent finds, oldest first; overdue rows are hidden.    *)
(* Rows of one tick carry one time and random ids: they come in any order. *)
(* There are never as many here as one listing returns.                    *)
Visible(M, agent) ==
  {i \in DOMAIN M : M[i].recipient = agent /\ M[i].status = "queued" /\ ~Overdue(M[i])}
Inbox(M, agent) ==
  {rows \in SetToSeqs(Visible(M, agent)) :
     \A k, l \in DOMAIN rows : k < l => M[rows[k]].age >= M[rows[l]].age}

QueuedRecipients(M) == {M[i].recipient : i \in {k \in DOMAIN M : M[k].status = "queued"}}

(* The rows of one correlation, and what the requester reads off them.     *)
Rows(M, corr) == {i \in DOMAIN M : M[i].corr = corr /\ M[i].status # "deleted"}
(* Mutant: replies to whatever request.                                    *)
Replies_AnyRequest(M, corr) ==
  {i \in DOMAIN M : M[i].answers # NoRow /\ M[i].status # "deleted"}

Replies(M, corr) == {i \in Rows(M, corr) : M[i].answers # NoRow}
Outstanding(M, corr) ==
  Cardinality({i \in Rows(M, corr) : ExpectsReply(M[i]) /\ M[i].status = "queued"})
=============================================================================
