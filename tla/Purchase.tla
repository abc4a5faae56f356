------------------------------ MODULE Purchase ------------------------------
(***************************************************************************)
(* The operator's purchase of infrastructure by quorum: the heartbeat that *)
(* pumps the agents' inboxes (engine/heartbeat.py), the pump itself        *)
(* (comms/handlers.py), the operator's role (agents/roles.py) and the      *)
(* council's rule (governance/council.py), over the bus.                   *)
(*                                                                         *)
(* Every call the heartbeat makes runs on a watchdog thread.  A thread     *)
(* that overruns its budget is abandoned, not stopped: it goes on next to  *)
(* its successors, and every transaction it still makes counts.  Between   *)
(* two transactions of one thread anything may happen.                     *)
(***************************************************************************)
EXTENDS Bus, Sums

CONSTANTS
  Workers,      (* bound: watchdog threads alive at one time, 1..n          *)
  MaxRequests,  (* bound: quorums requested in a behaviour                  *)
  MaxNotes,     (* bound: other messages that are sent                      *)
  Notified,     (* bound: agents they are sent to                           *)
  Dissenters,   (* bound: seats that may vote no; the others vote yes       *)
  Freezable,    (* bound: agents that may be found frozen                   *)
  MaxFaults,    (* bound: things that go wrong in a behaviour               *)
  Faults        (* what may go wrong, see FaultKinds                        *)

FaultKinds == {"pump_hangs", "role_hangs", "pump_raises", "role_raises",
               "crash", "purge", "requeue"}

ASSUME PurchaseAssumption ==
  /\ Workers \subseteq Nat \ {0} /\ Workers # {} /\ IsFiniteSet(Workers)
  /\ {MaxRequests, MaxNotes, MaxFaults} \subseteq Nat
  /\ Dissenters \subseteq Seats
  /\ Freezable \subseteq Agents /\ Notified \subseteq Agents
  /\ Faults \subseteq FaultKinds

VARIABLES
  messages,  (* the messages table                                          *)
  quorum,    (* kv infra_quorum: correlation and age of the request, or None*)
  bought,    (* kv vps_bought                                               *)
  ballots,   (* the votes table                                             *)
  paid,      (* ledger postings to expenses.infra, by the request they cite *)
  requests,  (* how many quorums were requested: names the next             *)
  notes,     (* how many other messages were sent                           *)
  faults,    (* how many things went wrong                                  *)
  phase,     (* where the heartbeat is                                      *)
  agenda,    (* calls it still has to make in this phase                    *)
  snapshot,  (* agents that had mail when the tick began                    *)
  waiting,   (* the thread it has started and waits for, or Nobody          *)
  worker,    (* what each thread is doing                                   *)
  cast,      (* history: the votes the seats have replied with              *)
  failed,    (* history: rows that failed an attempt in this tick           *)
  torn       (* history: a role was lost between the expense and its mark,  *)
             (* or began beside another that had been abandoned             *)

database  == <<messages, quorum, bought, ballots, paid>>
counters  == <<requests, notes, faults>>
heartbeat == <<phase, agenda, snapshot, waiting>>
history   == <<cast, failed, torn>>
vars == <<database, counters, heartbeat, worker, history>>

None    == [corr |-> 0, age |-> 0]
Nobody  == 0
Call    == [agent: Agents, does: {"pump", "role"}]
NoVotes == [s \in Seats |-> "none"]
Idle    == [does |-> "idle", agent |-> "none", todo |-> <<>>, corr |-> 0, votes |-> NoVotes]

(* The agents of the pipeline that take part, in its order.                *)
Pipeline == <<"risk", "director", "operator", "treasurer">>
QuorumSeats == <<"treasurer", "risk", "director">>

Init ==
  /\ messages = <<>>
  /\ quorum = None
  /\ bought = FALSE
  /\ ballots = {}
  /\ paid = [c \in 1..MaxRequests |-> 0]
  /\ requests = 0
  /\ notes = 0
  /\ faults = 0
  /\ phase = "idle"
  /\ agenda = <<>>
  /\ snapshot = {}
  /\ waiting = Nobody
  /\ worker = [w \in Workers |-> Idle]
  /\ cast = {}
  /\ failed = {}
  /\ torn = FALSE

-----------------------------------------------------------------------------
(* The heartbeat.                                                          *)

PumpOf(a, agents) == IF a \in agents THEN <<[agent |-> a, does |-> "pump"]>> ELSE <<>>
RoleOf(a) == IF a = "operator" THEN <<[agent |-> a, does |-> "role"]>> ELSE <<>>

Pumps(agents) ==
  PumpOf(Pipeline[1], agents) \o PumpOf(Pipeline[2], agents)
    \o PumpOf(Pipeline[3], agents) \o PumpOf(Pipeline[4], agents)

(* Each agent in turn: its inbox when it has mail, then its role.  Of the  *)
(* roles only the operator's matters here.                                 *)
Agenda(agents) ==
  LET calls(a) == PumpOf(a, agents) \o RoleOf(a)
  IN  calls(Pipeline[1]) \o calls(Pipeline[2]) \o calls(Pipeline[3]) \o calls(Pipeline[4])

(* The clock moves, overdue rows are swept, retention deletes old ones     *)
(* when it is due, and one snapshot says whose inbox is worth opening.     *)
StartTick ==
  /\ phase = "idle"
  /\ LET swept == ExpireDue(Tick(messages))
     IN  messages' \in {swept, Prune(swept, MaxAge - 1)}
  /\ snapshot' = QueuedRecipients(messages')
  /\ agenda' = Agenda(snapshot')
  /\ quorum' = IF quorum = None THEN None ELSE [quorum EXCEPT !.age = Older(@)]
  /\ phase' = "pipeline"
  /\ failed' = {}
  /\ UNCHANGED <<bought, ballots, paid, counters, waiting, worker, cast, torn>>

(* The steps of the operator's role.                                       *)
RoleSteps == {"read", "ask", "note", "weigh", "decide", "book", "clear"}

(* The next call gets a thread, and the heartbeat waits for it.            *)
Start(call) ==
  [Idle EXCEPT !.does = IF call.does = "pump" THEN "list" ELSE "read", !.agent = call.agent]

CallNext ==
  /\ waiting = Nobody
  /\ agenda # <<>>
  /\ \E w \in Workers :
       /\ worker[w] = Idle
       /\ \A v \in Workers : v < w => worker[v] # Idle
       /\ worker' = [worker EXCEPT ![w] = Start(Head(agenda))]
       /\ waiting' = w
  /\ agenda' = Tail(agenda)
  /\ torn' = (torn \/ (Head(agenda).does = "role"
                          /\ \E v \in Workers : worker[v].does \in RoleSteps))
  /\ UNCHANGED <<database, counters, phase, snapshot, cast, failed>>

(* The calls of one agent follow one another: its pump, then its role.     *)
WithoutFirst(calls) ==
  LET rest == Tail(calls)
  IN  IF rest # <<>> /\ Head(rest).agent = Head(calls).agent THEN Tail(rest) ELSE rest

(* A frozen agent is neither pumped nor called.  Others freeze and thaw    *)
(* agents; here it may be found frozen when its turn comes, which is before*)
(* its inbox is pumped.                                                    *)
SkipFrozen ==
  /\ waiting = Nobody
  /\ agenda # <<>>
  /\ Head(agenda).agent \in Freezable
  /\ Head(agenda).does = "pump" \/ Head(agenda).agent \notin snapshot
  /\ agenda' = WithoutFirst(agenda)
  /\ UNCHANGED <<database, counters, phase, snapshot, waiting, worker, history>>

GoesWrong(kind) ==
  /\ kind \in Faults
  /\ faults < MaxFaults
  /\ faults' = faults + 1

(* The budget of a call runs out: its thread is abandoned.                 *)
TimeOut ==
  /\ waiting # Nobody
  /\ GoesWrong(IF worker[waiting].does \in {"list", "handle", "ack"}
               THEN "pump_hangs" ELSE "role_hangs")
  /\ waiting' = Nobody
  /\ UNCHANGED <<database, requests, notes, phase, agenda, snapshot, worker, history>>

(* Mutant: whoever has mail is pumped again.                               *)
LatePumps_All ==
  /\ phase = "pipeline"
  /\ waiting = Nobody
  /\ agenda = <<>>
  /\ phase' = "late"
  /\ agenda' = Pumps(QueuedRecipients(messages))
  /\ UNCHANGED <<database, counters, snapshot, waiting, worker, history>>

(* Mail that came in during the tick for agents that had none before.      *)
LatePumps ==
  /\ phase = "pipeline"
  /\ waiting = Nobody
  /\ agenda = <<>>
  /\ phase' = "late"
  /\ agenda' = Pumps(QueuedRecipients(messages) \ snapshot)
  /\ UNCHANGED <<database, counters, snapshot, waiting, worker, history>>

EndTick ==
  /\ phase = "late"
  /\ waiting = Nobody
  /\ agenda = <<>>
  /\ phase' = "idle"
  /\ snapshot' = {}
  /\ UNCHANGED <<database, counters, agenda, waiting, worker, history>>

(* The process dies and is started again: threads are gone, the database   *)
(* is as the last commit left it.                                          *)
Crash ==
  /\ GoesWrong("crash")
  /\ phase # "idle" \/ \E w \in Workers : worker[w] # Idle
  /\ phase' = "idle"
  /\ agenda' = <<>>
  /\ snapshot' = {}
  /\ waiting' = Nobody
  /\ worker' = [w \in Workers |-> Idle]
  /\ torn' = (torn \/ \E w \in Workers : worker[w].does = "book")
  /\ UNCHANGED <<database, requests, notes, cast, failed>>

-----------------------------------------------------------------------------
(* A thread that pumps an inbox.                                           *)

Finish(w) ==
  /\ worker' = [worker EXCEPT ![w] = Idle]
  /\ waiting' = IF waiting = w THEN Nobody ELSE waiting

Goto(w, does) ==
  /\ worker' = [worker EXCEPT ![w].does = does]
  /\ UNCHANGED waiting

(* On to the messages that are left.                                       *)
Continue(w, todo) ==
  IF todo = <<>>
  THEN Finish(w)
  ELSE /\ worker' = [worker EXCEPT ![w] = [@ EXCEPT !.does = "handle", !.todo = todo]]
       /\ UNCHANGED waiting

Current(w) == Head(worker[w].todo)
Mail(w)    == messages[Current(w)]

PumpUnchanged == UNCHANGED <<quorum, bought, ballots, paid, requests, notes,
                             phase, agenda, snapshot>>

ListInbox(w) ==
  /\ worker[w].does = "list"
  /\ \E todo \in Inbox(messages, worker[w].agent) : Continue(w, todo)
  /\ PumpUnchanged /\ UNCHANGED faults
  /\ UNCHANGED <<messages, history>>

(* Mutant: requests are taken for data like everything else.               *)
Receive_Requests(w) ==
  /\ worker[w].does = "handle"
  /\ messages' = Ack(messages, Current(w))
  /\ Continue(w, Tail(worker[w].todo))
  /\ PumpUnchanged /\ UNCHANGED faults
  /\ UNCHANGED history

(* Replies are acknowledged, and read later by their correlation; so is    *)
(* what a handler has no answer to.                                        *)
Receive(w) ==
  /\ worker[w].does = "handle"
  /\ ~ExpectsReply(Mail(w))
  /\ messages' = Ack(messages, Current(w))
  /\ Continue(w, Tail(worker[w].todo))
  /\ PumpUnchanged /\ UNCHANGED faults
  /\ UNCHANGED history

(* A seat votes: the reply is committed on its own, before the ack.  What  *)
(* the policies read - cash, freezes, revenue - is not modelled: a seat    *)
(* may vote either way, each time it is asked.                             *)
AnswerVote(w) ==
  /\ worker[w].does = "handle"
  /\ ExpectsReply(Mail(w))
  /\ \E vote \in IF worker[w].agent \in Dissenters THEN YesNo ELSE {"yes"} :
       /\ messages' = Reply(messages, Current(w), vote)
       /\ cast' = cast \cup {[corr |-> Mail(w).corr, seat |-> worker[w].agent, vote |-> vote]}
  /\ Goto(w, "ack")
  /\ PumpUnchanged /\ UNCHANGED <<faults, failed, torn>>

AckAnswered(w) ==
  /\ worker[w].does = "ack"
  /\ messages' = Ack(messages, Current(w))
  /\ Continue(w, Tail(worker[w].todo))
  /\ PumpUnchanged /\ UNCHANGED faults
  /\ UNCHANGED history

(* A handler, the reply or the ack raises: the message has failed once     *)
(* more, and the pump goes on.                                             *)
HandlerRaises(w) ==
  /\ GoesWrong("pump_raises")
  /\ worker[w].does \in {"handle", "ack"}
  /\ messages' = Fail(messages, Current(w))
  /\ Continue(w, Tail(worker[w].todo))
  /\ PumpUnchanged
  /\ failed' = failed \cup {Current(w)}
  /\ UNCHANGED <<cast, torn>>

Pump(w) == ListInbox(w) \/ Receive(w) \/ AnswerVote(w) \/ AckAnswered(w)

-----------------------------------------------------------------------------
(* A thread that runs the operator's role.                                 *)

RoleUnchanged == UNCHANGED <<requests, notes, phase, agenda, snapshot, history>>

(* Nothing pending.  There is nothing to buy, or no money or bus for it;   *)
(* or the seats are asked, on what was read a moment ago.                  *)
Refrain(w) ==
  /\ worker[w].does = "read"
  /\ quorum = None
  /\ Finish(w)
  /\ RoleUnchanged /\ UNCHANGED faults
  /\ UNCHANGED database

Consider(w) ==
  /\ worker[w].does = "read"
  /\ quorum = None
  /\ ~bought
  /\ requests + Cardinality({v \in Workers : worker[v].does = "ask"}) < MaxRequests
  /\ Goto(w, "ask")
  /\ RoleUnchanged /\ UNCHANGED faults
  /\ UNCHANGED database

AskSeats(w) ==
  /\ worker[w].does = "ask"
  /\ requests' = requests + 1
  /\ messages' = Request(messages, "operator", QuorumSeats, requests')
  /\ worker' = [worker EXCEPT ![w] = [@ EXCEPT !.does = "note", !.corr = requests']]
  /\ UNCHANGED <<quorum, bought, ballots, paid, notes, faults, heartbeat, history>>

NoteRequest(w) ==
  /\ worker[w].does = "note"
  /\ quorum' = [corr |-> worker[w].corr, age |-> 0]
  /\ Finish(w)
  /\ RoleUnchanged /\ UNCHANGED faults
  /\ UNCHANGED <<messages, bought, ballots, paid>>

(* What the seats have said: the last reply of each, and either one when   *)
(* two have the same time.                                                 *)
VotesOf(corr) ==
  LET said(s)   == {i \in Replies(messages, corr) : messages[i].sender = s}
      latest(s) == {i \in said(s) : \A k \in said(s) : messages[k].age >= messages[i].age}
      may(s)    == IF said(s) = {} THEN {"none"} ELSE {messages[i].vote : i \in latest(s)}
  IN  {votes \in [Seats -> YesNo \cup {"none"}] : \A s \in Seats : votes[s] \in may(s)}

AllIn(votes) == \A s \in Seats : votes[s] # "none"

(* The pending quorum and the replies to it; when one is missing, another  *)
(* look at the rows decides whether to give up.                            *)
ReadVotes(w) ==
  /\ worker[w].does = "read"
  /\ quorum # None
  /\ \E votes \in VotesOf(quorum.corr) :
       worker' = [worker EXCEPT ![w] =
         [@ EXCEPT !.corr = quorum.corr,
                   !.does = IF AllIn(votes) THEN "decide" ELSE "weigh",
                   !.votes = IF AllIn(votes) THEN votes ELSE NoVotes]]
  /\ UNCHANGED waiting
  /\ RoleUnchanged /\ UNCHANGED faults
  /\ UNCHANGED database

(* Whether the deadline has passed is known from the pending quorum, unless*)
(* another thread of the operator has replaced it since.                   *)
TooLate(corr) == IF quorum.corr = corr THEN {quorum.age > DeadlineTicks} ELSE BOOLEAN

Hopeless(corr) ==
  \/ \E i \in Rows(messages, corr) :
       messages[i].answers = NoRow /\ messages[i].status = "expired"
  \/ Outstanding(messages, corr) = 0

GiveUpOrWait(w) ==
  /\ worker[w].does = "weigh"
  /\ \E late \in TooLate(worker[w].corr) :
       IF late \/ Hopeless(worker[w].corr) THEN Goto(w, "clear") ELSE Finish(w)
  /\ RoleUnchanged /\ UNCHANGED faults
  /\ UNCHANGED database

(* Council.quorum for buy_infra.                                           *)
Approves(votes) == votes["treasurer"] = "yes" /\ votes["director"] = "yes"

(* Mutant: a rejected quorum is left pending.                              *)
Decide_KeepRejected(w) ==
  LET votes == worker[w].votes
      corr  == worker[w].corr
  IN  /\ worker[w].does = "decide"
      /\ UNCHANGED ballots
      /\ \/ /\ Approves(votes) /\ ~bought
            /\ paid' = [paid EXCEPT ![corr] = @ + 1]
            /\ Goto(w, "book")
         \/ UNCHANGED paid /\ Finish(w)
      /\ RoleUnchanged /\ UNCHANGED faults
      /\ UNCHANGED <<messages, quorum, bought>>

(* The votes are recorded if the quorum passes, each on its own, here as   *)
(* one.  Treasury.pay posts the expense, or declines: no cash, no token,   *)
(* live buying not allowed.                                                *)
Decide(w) ==
  LET votes == worker[w].votes
      corr  == worker[w].corr
  IN  /\ worker[w].does = "decide"
      /\ ballots' = IF Approves(votes)
                    THEN ballots \cup {[corr |-> corr, seat |-> s, vote |-> votes[s]] : s \in Seats}
                    ELSE ballots
      /\ \/ /\ Approves(votes) /\ ~bought
            /\ paid' = [paid EXCEPT ![corr] = @ + 1]
            /\ Goto(w, "book")
         \/ UNCHANGED paid /\ Goto(w, "clear")
      /\ RoleUnchanged /\ UNCHANGED faults
      /\ UNCHANGED <<messages, quorum, bought>>

(* Mutant: the purchase is not remembered.                                 *)
MarkBought_Forget(w) ==
  /\ worker[w].does = "book"
  /\ Goto(w, "clear")
  /\ RoleUnchanged /\ UNCHANGED faults
  /\ UNCHANGED database

MarkBought(w) ==
  /\ worker[w].does = "book"
  /\ bought' = TRUE
  /\ Goto(w, "clear")
  /\ RoleUnchanged /\ UNCHANGED faults
  /\ UNCHANGED <<messages, quorum, ballots, paid>>

ClearQuorum(w) ==
  /\ worker[w].does = "clear"
  /\ quorum' = None
  /\ Finish(w)
  /\ RoleUnchanged /\ UNCHANGED faults
  /\ UNCHANGED <<messages, bought, ballots, paid>>

(* An exception ends the role, the heartbeat goes on.                      *)
RoleRaises(w) ==
  /\ GoesWrong("role_raises")
  /\ worker[w].does \in RoleSteps
  /\ Finish(w)
  /\ torn' = (torn \/ worker[w].does = "book")
  /\ UNCHANGED <<database, requests, notes, phase, agenda, snapshot, cast, failed>>

Role(w) ==
  \/ Refrain(w) \/ Consider(w) \/ AskSeats(w) \/ NoteRequest(w) \/ ReadVotes(w)
  \/ GiveUpOrWait(w) \/ Decide(w) \/ MarkBought(w) \/ ClearQuorum(w)

-----------------------------------------------------------------------------
(* Other agents, and a human at the command line.                          *)

(* A role tells another agent something; the roles run between the calls   *)
(* that are modelled.                                                      *)
Notify(agent) ==
  /\ phase = "pipeline" /\ waiting = Nobody
  /\ notes < MaxNotes
  /\ notes' = notes + 1
  /\ messages' = Send(messages, "mechanic", agent)
  /\ UNCHANGED <<quorum, bought, ballots, paid, requests, faults, heartbeat, worker, history>>

(* `sovereign comms --purge-days N`                                        *)
Purge ==
  /\ GoesWrong("purge")
  /\ \E ticks \in 0..DeadlineTicks : messages' = Prune(messages, ticks)
  /\ UNCHANGED <<quorum, bought, ballots, paid, requests, notes, heartbeat, worker, history>>

(* `sovereign comms --requeue ID`                                          *)
RequeueRow(i) ==
  /\ GoesWrong("requeue")
  /\ messages' = Requeue(messages, i)
  /\ UNCHANGED <<quorum, bought, ballots, paid, requests, notes, heartbeat, worker, history>>

Next ==
  \/ StartTick \/ CallNext \/ SkipFrozen \/ TimeOut \/ LatePumps \/ EndTick \/ Crash
  \/ \E w \in Workers : Pump(w) \/ HandlerRaises(w) \/ Role(w) \/ RoleRaises(w)
  \/ \E agent \in Notified : Notify(agent)
  \/ Purge
  \/ \E i \in Requeueable(messages) : RequeueRow(i)

Spec == Init /\ [][Next]_vars
-----------------------------------------------------------------------------
(* Properties.                                                             *)

Thread == [does: {"idle", "list", "handle", "ack", "read", "ask", "note", "weigh", "decide",
                  "book", "clear"},
           agent: Agents \cup {"none"}, todo: Seq(Nat), corr: 0..MaxRequests,
           votes: [Seats -> YesNo \cup {"none"}]]

(* Every variable has its type, and a message that may be tried again has  *)
(* attempts left.                                                          *)
TypeOK ==
  /\ messages \in Seq(Row)
  /\ \A i \in DOMAIN messages :
       messages[i].status = "queued" => messages[i].attempts < MaxAttempts
  /\ quorum \in [corr: 0..MaxRequests, age: 0..MaxAge]
  /\ bought \in BOOLEAN
  /\ ballots \subseteq [corr: 1..MaxRequests, seat: Seats, vote: YesNo \cup {"none"}]
  /\ paid \in [1..MaxRequests -> Nat]
  /\ {requests, notes, faults} \subseteq Nat
  /\ phase \in {"idle", "pipeline", "late"}
  /\ agenda \in Seq(Call)
  /\ snapshot \subseteq Agents
  /\ waiting \in Workers \cup {Nobody}
  /\ worker \in [Workers -> Thread]
  /\ cast \subseteq [corr: Nat, seat: Seats, vote: YesNo]
  /\ failed \subseteq Nat
  /\ torn \in BOOLEAN

(* Nothing is bought on silence, or on votes for something else: whatever  *)
(* hangs, fails, crashes, or is purged or requeued, money is only spent on *)
(* a request that all three seats answered, the treasurer and the director *)
(* with a yes to this very request.                                        *)
Said(corr, seat, vote) == [corr |-> corr, seat |-> seat, vote |-> vote] \in cast
PurchaseApproved ==
  \A c \in 1..MaxRequests : paid[c] > 0 =>
    /\ Said(c, "treasurer", "yes") /\ Said(c, "director", "yes")
    /\ Said(c, "risk", "yes") \/ Said(c, "risk", "no")

(* The bus delivers at least once: a request only ever counts as handled   *)
(* when its recipient's answer is already committed.                       *)
DoneMeansAnswered ==
  \A i \in DOMAIN messages :
    messages[i].status = "done" /\ ExpectsReply(messages[i]) =>
      \E v \in cast : v.corr = messages[i].corr /\ v.seat = messages[i].recipient

(* The firm pays for its server once, whatever hangs, raises, crashes, is  *)
(* asked or answered again: unless a role is lost between the expense and  *)
(* the mark, or is called while an abandoned one still runs.               *)
BoughtOnce == ~torn => SumTo(paid, MaxRequests) <= 1

(* No thread that comes late takes a row out of the state it ended in: only*)
(* `--requeue` brings an expired or dead row back, nothing a done one.     *)
EndedStaysEnded ==
  [][\A i \in DOMAIN messages :
       LET before == messages[i].status
           after  == messages'[i].status
       IN  /\ before = "done" => after \in {"done", "deleted"}
           /\ before = "expired" => after \in {"expired", "deleted", "queued"}
           /\ before = "dead" => after \in {"dead", "queued"}
           /\ before \in {"expired", "dead"} /\ after = "queued" => RequeueRow(i)]_vars

(* As long as no pump hangs, retries stay one attempt per tick, so that a  *)
(* passing trouble does not use up the attempts of a message at once.      *)
OneAttemptPerTick ==
  [][\A w \in Workers : HandlerRaises(w) => Current(w) \notin failed]_vars

(* Purchases go as Approval says: only when approved, and once, unless a   *)
(* role was torn.                                                          *)
Promise == INSTANCE Approval WITH asked <- requests, said <- cast
KeepsPromise == Promise!Spec

-----------------------------------------------------------------------------
(* Liveness.  The daemon loops; threads that do not hang for ever make     *)
(* progress; the operator is not frozen for good.                          *)

CallOperator(does) == CallNext /\ Head(agenda) = [agent |-> "operator", does |-> does]

Fairness ==
  /\ WF_vars(StartTick) /\ WF_vars(CallNext \/ SkipFrozen)
  /\ SF_vars(CallOperator("pump")) /\ SF_vars(CallOperator("role"))
  /\ WF_vars(LatePumps) /\ WF_vars(EndTick)
  /\ \A w \in Workers : WF_vars(Pump(w)) /\ WF_vars(Role(w))

FairSpec == Spec /\ Fairness

(* A pending quorum never blocks the operator for good: it is decided or   *)
(* given up.                                                               *)
QuorumEnds == \A c \in 1..MaxRequests : quorum.corr = c ~> quorum.corr # c

(* A request is answered, dead-lettered or expired, even when its recipient*)
(* is frozen for ever.                                                     *)
Waits(c, s) == \E i \in Rows(messages, c) :
  messages[i].recipient = s /\ ExpectsReply(messages[i]) /\ messages[i].status = "queued"
RequestsEnd == \A c \in 1..MaxRequests : \A s \in Seats : Waits(c, s) ~> ~Waits(c, s)

=============================================================================
