--------------------------- MODULE PurchaseProofs ---------------------------
(***************************************************************************)
(* What holds of every purchase, for any number of threads, requests,      *)
(* notices, faults and any deadlines.                                      *)
(*                                                                         *)
(* PurchaseInv is inductive under every kind of fault.  A purchase is      *)
(* approved because every vote that a row, a thread or the votes table     *)
(* holds is one that its seat has cast: the invariant follows a vote from  *)
(* the reply, through the thread that reads it, to the payment.            *)
(*                                                                         *)
(* BoughtOnce and the refinement of Approval follow from OnceInv, which    *)
(* says that one role runs at a time and that its payment is noted before  *)
(* the next.  It is kept by every step under every fault but one that      *)
(* makes the purchase torn: a role that is lost between the payment and    *)
(* the mark is followed by another that pays again, and an abandoned one   *)
(* may pay beside its successor.                                           *)
(* OneAttemptPerTick needs that no pump hangs (PumpsReturn): an abandoned  *)
(* pump still holds messages that its successor has listed too.  FreshInv  *)
(* says which thread runs alone then, and what it has still to do.         *)
(***************************************************************************)
EXTENDS Purchase, SumsProofs, FiniteSetTheorems, SequenceTheorems

(* Some vote in C answers the request in row r.                            *)
Answered(r, C) == \E v \in C : v.corr = r.corr /\ v.seat = r.recipient

(* Good mail, when n requests were made and the votes in C were cast: a    *)
(* queued row has attempts left, a vote request is one of the operator to  *)
(* a seat and done only when it is answered, a reply carries a vote that   *)
(* its sender has cast.                                                    *)
Mailed(r, n, C) ==
  /\ r \in Row
  /\ r.status = "queued" => r.attempts < MaxAttempts
  /\ ExpectsReply(r) =>
       r.sender = "operator" /\ r.recipient \in Seats /\ r.answers = NoRow /\ r.corr \in 1..n
  /\ ExpectsReply(r) /\ r.status = "done" => Answered(r, C)
  /\ r.answers # NoRow /\ r.status # "deleted" =>
       [corr |-> r.corr, seat |-> r.sender, vote |-> r.vote] \in C

AllMailed(M, n, C) == M \in Seq(Row) /\ \A i \in DOMAIN M : Mailed(M[i], n, C)

(* What no operation changes of a row, or of a table.                      *)
SameMail(r, q) ==
  /\ q.kind = r.kind /\ q.sender = r.sender /\ q.recipient = r.recipient
  /\ q.corr = r.corr /\ q.answers = r.answers
Evolves(M, N) == DOMAIN M \subseteq DOMAIN N /\ \A i \in DOMAIN M : SameMail(M[i], N[i])

(* The statuses a row may go through as long as nobody requeues it.        *)
Lasts(before, after) ==
  after = before \/ before = "queued" \/ (before \in {"done", "expired"} /\ after = "deleted")
Lasting(M, N) == \A i \in DOMAIN M : Lasts(M[i].status, N[i].status)

(* What a thread knows: its messages are its agent's, the one it is about  *)
(* to acknowledge is answered, its request was made, and the votes it is   *)
(* about to decide on were cast.                                           *)
ThreadOK(t, M, n, C) ==
  /\ t \in Thread
  /\ \A k \in DOMAIN t.todo : t.todo[k] \in DOMAIN M /\ M[t.todo[k]].recipient = t.agent
  /\ t.does = "list" => t.agent \in Agents
  /\ t.does \in {"handle", "ack"} => t.todo # <<>>
  /\ t.does = "ack" => Answered(M[Head(t.todo)], C)
  /\ t.does \in {"note", "weigh", "decide", "book", "clear"} => t.corr \in 1..n
  /\ t.does = "decide" => \A s \in Seats :
       t.votes[s] \in YesNo /\ [corr |-> t.corr, seat |-> s, vote |-> t.votes[s]] \in C

Asking(wk) == {w \in Workers : wk[w].does = "ask"}

(* The inductive invariant: one part for the bounds, the heartbeat, the    *)
(* store, the history and the threads each, besides the mail.              *)
Counted ==
  /\ requests \in Nat /\ notes \in Nat /\ faults \in Nat
  /\ requests + Cardinality(Asking(worker)) <= MaxRequests
Beating ==
  /\ phase \in {"idle", "pipeline", "late"}
  /\ agenda \in Seq(Call)
  /\ snapshot \subseteq Agents
  /\ waiting \in Workers \cup {Nobody}
Stored ==
  /\ quorum \in [corr: 0..MaxRequests, age: 0..MaxAge]
  /\ quorum # None => quorum.corr \in 1..requests
  /\ bought \in BOOLEAN
  /\ ballots \subseteq [corr: 1..MaxRequests, seat: Seats, vote: YesNo \cup {"none"}]
  /\ paid \in [1..MaxRequests -> Nat]
Recorded ==
  /\ cast \subseteq [corr: 1..requests, seat: Seats, vote: YesNo]
  /\ failed \subseteq Nat
Working ==
  /\ worker \in [Workers -> Thread]
  /\ \A w \in Workers : ThreadOK(worker[w], messages, requests, cast)

PurchaseInv ==
  /\ Counted /\ Beating /\ Stored /\ Recorded /\ Working
  /\ AllMailed(messages, requests, cast)
  /\ PurchaseApproved

-----------------------------------------------------------------------------
(* Rows: what a change of one row leaves as it was.                        *)

LEMMA TableOfRows ==
  ASSUME NEW S, NEW n \in Nat, NEW N \in [1..n -> S]
  PROVE  N \in Seq(S) /\ Len(N) = n /\ DOMAIN N = 1..n
OBVIOUS

(* More requests and more votes do not spoil a row.                        *)
LEMMA MailedStays ==
  ASSUME NEW r, NEW n \in Nat, NEW m \in Nat, n <= m, NEW C, NEW D, C \subseteq D,
         Mailed(r, n, C)
  PROVE  Mailed(r, m, D)
BY DEF Mailed, Answered

(* An edit of a row that is still good mail: it keeps whose mail it is, is *)
(* retried only with attempts left, is done only when answered, and keeps  *)
(* its vote unless it is deleted.                                          *)
Edits(r, q, C) ==
  /\ q \in Row
  /\ SameMail(r, q)
  /\ q.status = "queued" => q.attempts < MaxAttempts
  /\ ExpectsReply(q) /\ q.status = "done" => r.status = "done" \/ Answered(q, C)
  /\ q.answers # NoRow /\ q.status # "deleted" => r.status # "deleted" /\ q.vote = r.vote

LEMMA EditIsMailed ==
  ASSUME NEW r, NEW q, NEW n, NEW C, Mailed(r, n, C), Edits(r, q, C)
  PROVE  Mailed(q, n, C)
BY DEF Mailed, Edits, SameMail, ExpectsReply, Answered

(* A table whose rows are edited ...                                       *)
LEMMA TableEdited ==
  ASSUME NEW M, NEW N, NEW n, NEW C, AllMailed(M, n, C),
         N \in [DOMAIN M -> Row], \A i \in DOMAIN M : Edits(M[i], N[i], C)
  PROVE  AllMailed(N, n, C) /\ Evolves(M, N)
<1>1. M \in Seq(Row) /\ Len(M) \in Nat /\ DOMAIN M = 1..Len(M)
  BY DEF AllMailed
<1>2. N \in Seq(Row) /\ DOMAIN N = DOMAIN M
  BY <1>1, TableOfRows
<1>3. \A i \in DOMAIN N : Mailed(N[i], n, C)
  BY <1>2, EditIsMailed DEF AllMailed
<1> QED BY <1>2, <1>3 DEF AllMailed, Evolves, Edits

(* ... and one that has a new row at its end.                              *)
LEMMA TableExtended ==
  ASSUME NEW M, NEW r, NEW n, NEW C, AllMailed(M, n, C), Mailed(r, n, C)
  PROVE  AllMailed(Append(M, r), n, C) /\ Evolves(M, Append(M, r))
<1>1. M \in Seq(Row) /\ r \in Row
  BY DEF AllMailed, Mailed
<1>2. Append(M, r) \in Seq(Row) /\ DOMAIN Append(M, r) = 1..(Len(M) + 1)
      /\ Len(M) \in Nat /\ DOMAIN M = 1..Len(M)
  BY <1>1
<1>3. \A i \in 1..(Len(M) + 1) : Append(M, r)[i] = IF i = Len(M) + 1 THEN r ELSE M[i]
  BY <1>1
<1> QED BY <1>2, <1>3 DEF AllMailed, Evolves, SameMail

LEMMA EvolvesTrans ==
  ASSUME NEW M, NEW N, NEW O, Evolves(M, N), Evolves(N, O)
  PROVE  Evolves(M, O)
BY DEF Evolves, SameMail

LEMMA TableStays ==
  ASSUME NEW M, NEW n \in Nat, NEW m \in Nat, n <= m, NEW C, NEW D, C \subseteq D,
         AllMailed(M, n, C)
  PROVE  AllMailed(M, m, D) /\ Evolves(M, M)
BY MailedStays DEF AllMailed, Evolves, SameMail

-----------------------------------------------------------------------------
(* What each operation of the bus makes of the table.                      *)

LEMMA TickEdits ==
  ASSUME NEW M, NEW n, NEW C, AllMailed(M, n, C)
  PROVE  AllMailed(Tick(M), n, C) /\ Evolves(M, Tick(M)) /\ Lasting(M, Tick(M))
<1>1. ASSUME NEW i \in DOMAIN M
      PROVE  Edits(M[i], Tick(M)[i], C) /\ Tick(M)[i].status = M[i].status
  <2>1. Mailed(M[i], n, C) /\ M[i] \in Row
    BY DEF AllMailed, Mailed
  <2>2. Older(M[i].age) \in 0..MaxAge
    BY <2>1, BusAssumption DEF Older, Row
  <2>3. Tick(M)[i] = IF M[i].status = "deleted" THEN M[i]
                     ELSE [M[i] EXCEPT !.age = Older(@)]
    BY DEF Tick
  <2> QED BY <2>1, <2>2, <2>3 DEF Edits, SameMail, Mailed, Row, ExpectsReply, Answered
<1>2. Tick(M) \in [DOMAIN M -> Row]
  BY <1>1 DEF Tick, Edits
<1> QED BY <1>1, <1>2, TableEdited DEF Lasting, Lasts

LEMMA ExpireEdits ==
  ASSUME NEW M, NEW n, NEW C, AllMailed(M, n, C)
  PROVE  /\ AllMailed(ExpireDue(M), n, C)
         /\ Evolves(M, ExpireDue(M)) /\ Lasting(M, ExpireDue(M))
<1>1. ASSUME NEW i \in DOMAIN M
      PROVE  Edits(M[i], ExpireDue(M)[i], C) /\ Lasts(M[i].status, ExpireDue(M)[i].status)
  <2>1. Mailed(M[i], n, C) /\ M[i] \in Row
    BY DEF AllMailed, Mailed
  <2>2. ExpireDue(M)[i] = IF M[i].status = "queued" /\ Overdue(M[i])
                          THEN [M[i] EXCEPT !.status = "expired"] ELSE M[i]
    BY DEF ExpireDue
  <2> QED BY <2>1, <2>2
          DEF Edits, SameMail, Mailed, Row, ExpectsReply, Answered, Statuses, Lasts
<1>2. ExpireDue(M) \in [DOMAIN M -> Row]
  BY <1>1 DEF ExpireDue, Edits
<1> QED BY <1>1, <1>2, TableEdited DEF Lasting

LEMMA PruneEdits ==
  ASSUME NEW M, NEW n, NEW C, AllMailed(M, n, C), NEW t \in Nat
  PROVE  /\ AllMailed(Prune(M, t), n, C)
         /\ Evolves(M, Prune(M, t)) /\ Lasting(M, Prune(M, t))
<1>1. ASSUME NEW i \in DOMAIN M
      PROVE  Edits(M[i], Prune(M, t)[i], C) /\ Lasts(M[i].status, Prune(M, t)[i].status)
  <2>1. Mailed(M[i], n, C) /\ M[i] \in Row
    BY DEF AllMailed, Mailed
  <2>2. Prune(M, t)[i] = IF M[i].status \in {"done", "expired"} /\ M[i].age > t
                         THEN Gone(M[i]) ELSE M[i]
    BY DEF Prune
  <2>3. CASE M[i].status \in {"done", "expired"} /\ M[i].age > t
    <3>1. Gone(M[i]) = [M[i] EXCEPT !.status = "deleted", !.vote = "none",
                                    !.attempts = 0, !.age = 0]
      BY DEF Gone
    <3>0. 0 \in 0..MaxAge /\ "deleted" \in Statuses
      BY BusAssumption DEF Statuses
    <3>2. Gone(M[i]) \in Row
      <4> DEFINE r == M[i]
      <4>1. r \in Row /\ "none" \in YesNo \cup {"none"} /\ 0 \in Nat
        BY <2>1
      <4> HIDE DEF r
      <4>2. [r EXCEPT !.status = "deleted", !.vote = "none", !.attempts = 0, !.age = 0] \in Row
        BY <3>0, <4>1 DEF Row
      <4> QED BY <3>1, <4>2 DEF r
    <3>3. Gone(M[i]).status = "deleted" /\ SameMail(M[i], Gone(M[i]))
      BY <2>1, <3>1 DEF Row, SameMail
    <3> QED BY <2>2, <2>3, <3>2, <3>3 DEF Edits, Lasts
  <2>4. CASE ~(M[i].status \in {"done", "expired"} /\ M[i].age > t)
    BY <2>1, <2>2, <2>4 DEF Edits, SameMail, Mailed, ExpectsReply, Answered, Lasts
  <2> QED BY <2>3, <2>4
<1>2. Prune(M, t) \in [DOMAIN M -> Row]
  BY <1>1 DEF Prune, Edits
<1> QED BY <1>1, <1>2, TableEdited DEF Lasting

(* One row of the table is replaced by an edit of it.                      *)
LEMMA RowEdited ==
  ASSUME NEW M, NEW n, NEW C, AllMailed(M, n, C), NEW i \in DOMAIN M,
         NEW q, Edits(M[i], q, C), NEW N, N = [M EXCEPT ![i] = q]
  PROVE  AllMailed(N, n, C) /\ Evolves(M, N)
<1>1. M \in Seq(Row) /\ \A k \in DOMAIN M : Mailed(M[k], n, C) /\ M[k] \in Row
  BY DEF AllMailed, Mailed
<1>2. q \in Row
  BY DEF Edits
<1>3. N \in [DOMAIN M -> Row] /\ \A k \in DOMAIN M : N[k] = IF k = i THEN q ELSE M[k]
  BY <1>1, <1>2
<1>4. \A k \in DOMAIN M : Edits(M[k], M[k], C)
  BY <1>1 DEF Edits, SameMail, Mailed
<1>5. \A k \in DOMAIN M : Edits(M[k], N[k], C)
  BY <1>3, <1>4
<1> QED BY <1>3, <1>5, TableEdited

LEMMA AckEdits ==
  ASSUME NEW M, NEW n, NEW C, AllMailed(M, n, C), NEW i \in DOMAIN M,
         ExpectsReply(M[i]) => Answered(M[i], C)
  PROVE  AllMailed(Ack(M, i), n, C) /\ Evolves(M, Ack(M, i)) /\ Lasting(M, Ack(M, i))
<1> DEFINE q == [M[i] EXCEPT !.status = "done"]
<1>1. M \in Seq(Row) /\ Mailed(M[i], n, C) /\ M[i] \in Row
  BY DEF AllMailed, Mailed
<1>2. CASE M[i].status = "queued"
  <2>1. Ack(M, i) = [M EXCEPT ![i] = q]
    BY <1>2 DEF Ack
  <2>2. Edits(M[i], q, C)
    BY <1>1, <1>2 DEF Edits, SameMail, Mailed, Row, Statuses, ExpectsReply, Answered
  <2>3. Lasting(M, [M EXCEPT ![i] = q])
    BY <1>1, <1>2 DEF Lasting, Lasts
  <2> HIDE DEF q
  <2>4. AllMailed(Ack(M, i), n, C) /\ Evolves(M, Ack(M, i))
    BY <2>1, <2>2, RowEdited
  <2> QED BY <2>1, <2>3, <2>4
<1>3. CASE M[i].status # "queued"
  BY <1>3 DEF Ack, Evolves, SameMail, Lasting, Lasts
<1> QED BY <1>2, <1>3

LEMMA FailEdits ==
  ASSUME NEW M, NEW n, NEW C, AllMailed(M, n, C), NEW i \in DOMAIN M
  PROVE  AllMailed(Fail(M, i), n, C) /\ Evolves(M, Fail(M, i)) /\ Lasting(M, Fail(M, i))
<1> DEFINE attempts == M[i].attempts + 1
           status   == IF attempts >= MaxAttempts THEN "dead" ELSE "queued"
           q == [M[i] EXCEPT !.attempts = attempts, !.status = status]
<1>1. M \in Seq(Row) /\ Mailed(M[i], n, C) /\ M[i] \in Row
  BY DEF AllMailed, Mailed
<1>2. CASE M[i].status = "queued"
  <2>1. Fail(M, i) = [M EXCEPT ![i] = q]
    BY <1>2 DEF Fail
  <2>2. attempts \in Nat /\ status \in {"dead", "queued"}
        /\ (status = "queued" => attempts < MaxAttempts)
    <3>1. M[i].attempts \in Nat /\ MaxAttempts \in Nat
      BY <1>1, BusAssumption DEF Row
    <3> QED BY <3>1
  <2>3. q \in Row /\ q.attempts = attempts /\ q.status = status /\ SameMail(M[i], q)
        /\ q.vote = M[i].vote
    <3> HIDE DEF attempts, status
    <3> QED BY <1>1, <2>2 DEF Row, Statuses, SameMail
  <2>4. Edits(M[i], q, C)
    <3> HIDE DEF attempts, status, q
    <3> QED BY <1>1, <1>2, <2>2, <2>3 DEF Edits, ExpectsReply
  <2>5. Lasting(M, [M EXCEPT ![i] = q])
    <3> HIDE DEF q
    <3> QED BY <1>1, <1>2 DEF Lasting, Lasts
  <2> HIDE DEF q
  <2>6. AllMailed(Fail(M, i), n, C) /\ Evolves(M, Fail(M, i))
    BY <2>1, <2>4, RowEdited
  <2> QED BY <2>1, <2>5, <2>6
<1>3. CASE M[i].status # "queued"
  BY <1>3 DEF Fail, Evolves, SameMail, Lasting, Lasts
<1> QED BY <1>2, <1>3

LEMMA RequeueEdits ==
  ASSUME NEW M, NEW n, NEW C, AllMailed(M, n, C), NEW i \in Requeueable(M)
  PROVE  AllMailed(Requeue(M, i), n, C) /\ Evolves(M, Requeue(M, i))
<1> DEFINE q == [M[i] EXCEPT !.status = "queued", !.attempts = 0]
<1>1. i \in DOMAIN M /\ M[i].status \in {"dead", "expired"}
  BY DEF Requeueable
<1>2. M \in Seq(Row) /\ Mailed(M[i], n, C) /\ M[i] \in Row
  BY <1>1 DEF AllMailed, Mailed
<1>3. Requeue(M, i) = [M EXCEPT ![i] = q]
  BY DEF Requeue
<1>4. q \in Row /\ SameMail(M[i], q) /\ q.vote = M[i].vote
      /\ q.status = "queued" /\ q.attempts = 0
  BY <1>2 DEF SameMail, Row, Statuses
<1>5. Edits(M[i], q, C)
  <2> HIDE DEF q
  <2> QED BY <1>1, <1>4, BusAssumption DEF Edits
<1> HIDE DEF q
<1> QED BY <1>1, <1>3, <1>5, RowEdited

LEMMA NewRowMailed ==
  ASSUME NEW k \in Kinds, NEW s \in Agents \cup {"mechanic"}, NEW a \in Agents,
         NEW c \in Nat, NEW r \in Nat, NEW v \in YesNo \cup {"none"}, NEW n, NEW C,
         k = "vote_request" => s = "operator" /\ a \in Seats /\ r = NoRow /\ c \in 1..n,
         r # NoRow => [corr |-> c, seat |-> s, vote |-> v] \in C
  PROVE  Mailed(NewRow(k, s, a, c, r, v), n, C)
BY BusAssumption DEF Mailed, NewRow, Row, Statuses, ExpectsReply

LEMMA SendExtends ==
  ASSUME NEW M, NEW n, NEW C, AllMailed(M, n, C), NEW a \in Agents
  PROVE  LET N == Send(M, "mechanic", a)
         IN  AllMailed(N, n, C) /\ Evolves(M, N) /\ Lasting(M, N)
<1> DEFINE r == NewRow("notify", "mechanic", a, 0, NoRow, "none")
<1>1. Mailed(r, n, C)
  BY NewRowMailed DEF Kinds, NoRow
<1>2. M \in Seq(Row)
  BY DEF AllMailed
<1>3. Lasting(M, Append(M, r))
  <2> HIDE DEF r
  <2> QED BY <1>2 DEF Lasting, Lasts
<1> HIDE DEF r
<1> QED BY <1>1, <1>3, TableExtended DEF Send, r

(* A reply is good mail once the vote it carries is on record.             *)
LEMMA ReplyExtends ==
  ASSUME NEW M, NEW n, NEW C, AllMailed(M, n, C), NEW i \in DOMAIN M, ExpectsReply(M[i]),
         NEW v \in YesNo, [corr |-> M[i].corr, seat |-> M[i].recipient, vote |-> v] \in C
  PROVE  LET N == Reply(M, i, v)
         IN  AllMailed(N, n, C) /\ Evolves(M, N) /\ Lasting(M, N)
<1> DEFINE r == NewRow("vote_request.reply", M[i].recipient, M[i].sender, M[i].corr, i, v)
<1>1. M \in Seq(Row) /\ Mailed(M[i], n, C) /\ M[i] \in Row /\ i \in Nat
  BY DEF AllMailed, Mailed
<1>2. M[i].sender \in Agents /\ M[i].recipient \in Agents \cup {"mechanic"} /\ M[i].corr \in Nat
  BY <1>1 DEF Mailed, Row, Agents
<1>3. Mailed(r, n, C)
  BY <1>1, <1>2, NewRowMailed DEF Kinds
<1>4. Lasting(M, Append(M, r))
  <2> HIDE DEF r
  <2> QED BY <1>1 DEF Lasting, Lasts
<1> HIDE DEF r
<1> QED BY <1>3, <1>4, TableExtended DEF Reply, r

(* The seats are asked with a number of their own.                         *)
LEMMA RequestExtends ==
  ASSUME NEW M, NEW n \in Nat, NEW C, AllMailed(M, n, C)
  PROVE  LET N == Request(M, "operator", QuorumSeats, n + 1)
         IN  AllMailed(N, n + 1, C) /\ Evolves(M, N) /\ Lasting(M, N)
<1> DEFINE R == [i \in 1..3 |-> NewRow("vote_request", "operator", QuorumSeats[i], n + 1,
                                       NoRow, "none")]
<1>1. QuorumSeats \in Seq(Seats) /\ DOMAIN QuorumSeats = 1..3
      /\ \A i \in 1..3 : QuorumSeats[i] \in Seats
  BY DEF QuorumSeats, Seats
<1>2. \A i \in 1..3 : Mailed(R[i], n + 1, C)
  <2>1. n + 1 \in Nat /\ n + 1 \in 1..(n + 1) /\ NoRow \in Nat
    BY DEF NoRow
  <2>2. "operator" \in Agents \cup {"mechanic"} /\ "vote_request" \in Kinds
        /\ Seats \subseteq Agents
    BY DEF Agents, Kinds
  <2> QED BY <1>1, <2>1, <2>2, NewRowMailed
<1>3. R \in Seq(Row) /\ Len(R) = 3 /\ DOMAIN R = 1..3
  <2>1. R \in [1..3 -> Row]
    BY <1>2 DEF Mailed
  <2> HIDE DEF R
  <2> QED BY <2>1, TableOfRows
<1>4. Request(M, "operator", QuorumSeats, n + 1) = M \o R
  BY <1>1 DEF Request
<1>5. AllMailed(M, n + 1, C) /\ M \in Seq(Row)
  <2>1. n + 1 \in Nat /\ n <= n + 1
    OBVIOUS
  <2> QED BY <2>1, TableStays DEF AllMailed
<1> HIDE DEF R
<1>6. /\ M \o R \in Seq(Row) /\ Len(M \o R) = Len(M) + 3
      /\ \A i \in 1..(Len(M) + 3) : (M \o R)[i] = IF i <= Len(M) THEN M[i] ELSE R[i - Len(M)]
  <2>1. M \in Seq(Row) /\ R \in Seq(Row) /\ Len(R) = 3
    BY <1>3, <1>5
  <2>2. /\ M \o R \in Seq(Row) /\ Len(M \o R) = Len(M) + Len(R)
        /\ \A i \in 1..(Len(M) + Len(R)) :
              (M \o R)[i] = IF i <= Len(M) THEN M[i] ELSE R[i - Len(M)]
    BY <2>1, ConcatProperties
  <2> QED BY <2>1, <2>2
<1>7. DOMAIN (M \o R) = 1..(Len(M) + 3) /\ Len(M) \in Nat /\ DOMAIN M = 1..Len(M)
  BY <1>5, <1>6
<1>8. \A i \in DOMAIN (M \o R) : Mailed((M \o R)[i], n + 1, C)
  <2> TAKE i \in DOMAIN (M \o R)
  <2>1. CASE i <= Len(M)
    BY <1>5, <1>6, <1>7, <2>1 DEF AllMailed
  <2>2. CASE i > Len(M)
    <3>1. i - Len(M) \in 1..3
      BY <1>6, <2>2
    <3> QED BY <1>2, <1>6, <1>7, <2>2, <3>1
  <2> QED BY <1>6, <2>1, <2>2
<1>9. Evolves(M, M \o R) /\ Lasting(M, M \o R)
  BY <1>6, <1>7 DEF Evolves, SameMail, Lasting, Lasts
<1> QED BY <1>4, <1>6, <1>8, <1>9 DEF AllMailed

(* A listing is a sequence of rows of that agent.                          *)
LEMMA InboxType ==
  ASSUME NEW M, NEW n, NEW C, AllMailed(M, n, C), NEW a, NEW rows \in Inbox(M, a)
  PROVE  /\ rows \in Seq(Nat)
         /\ \A k \in DOMAIN rows : rows[k] \in DOMAIN M /\ M[rows[k]].recipient = a
<1> DEFINE V == Visible(M, a)
<1>1. M \in Seq(Row) /\ DOMAIN M = 1..Len(M) /\ Len(M) \in Nat
  BY DEF AllMailed
<1>2. V \subseteq 1..Len(M) /\ \A i \in V : M[i].recipient = a
  BY <1>1 DEF Visible
<1>3. IsFiniteSet(V) /\ Cardinality(V) \in Nat
  <2>1. IsFiniteSet(1..Len(M))
    BY <1>1, FS_Interval
  <2> HIDE DEF V
  <2> QED BY <1>2, <2>1, FS_Subset, FS_CardinalityType
<1>4. rows \in [1..Cardinality(V) -> V]
  BY DEF Inbox, SetToSeqs
<1> HIDE DEF V
<1>5. rows \in Seq(V) /\ DOMAIN rows = 1..Cardinality(V)
  BY <1>3, <1>4, TableOfRows
<1>6. \A k \in DOMAIN rows : rows[k] \in V
  BY <1>4, <1>5
<1>7. rows \in [1..Cardinality(V) -> Nat]
  <2>1. V \subseteq Nat
    BY <1>1, <1>2
  <2> QED BY <1>4, <2>1
<1> QED BY <1>1, <1>2, <1>3, <1>6, <1>7, TableOfRows

-----------------------------------------------------------------------------
(* Threads and the heartbeat.                                              *)

(* What a thread knows stays true when the table evolves, requests are     *)
(* added and votes are recorded.                                           *)
LEMMA ThreadStays ==
  ASSUME NEW t, NEW M, NEW N, NEW n \in Nat, NEW m \in Nat, NEW C, NEW D,
         ThreadOK(t, M, n, C), Evolves(M, N), n <= m, C \subseteq D
  PROVE  ThreadOK(t, N, m, D)
<1>1. /\ t \in Thread
      /\ t.does = "list" => t.agent \in Agents
      /\ t.does \in {"handle", "ack"} => t.todo # <<>>
      /\ t.does \in {"note", "weigh", "decide", "book", "clear"} => t.corr \in 1..m
      /\ t.does = "decide" => \A s \in Seats :
           t.votes[s] \in YesNo /\ [corr |-> t.corr, seat |-> s, vote |-> t.votes[s]] \in D
  BY DEF ThreadOK
<1>2. \A k \in DOMAIN t.todo : t.todo[k] \in DOMAIN N /\ N[t.todo[k]].recipient = t.agent
  BY DEF ThreadOK, Evolves, SameMail
<1>3. t.does = "ack" => Answered(N[Head(t.todo)], D)
  <2> SUFFICES ASSUME t.does = "ack" PROVE Answered(N[Head(t.todo)], D)
    OBVIOUS
  <2>1. t.todo \in Seq(Nat) /\ t.todo # <<>> /\ Answered(M[Head(t.todo)], C)
    BY DEF ThreadOK, Thread
  <2>2. 1 \in DOMAIN t.todo /\ Head(t.todo) = t.todo[1]
    BY <2>1
  <2>3. SameMail(M[Head(t.todo)], N[Head(t.todo)])
    BY <2>2 DEF ThreadOK, Evolves
  <2> QED BY <2>1, <2>3 DEF Answered, SameMail
<1> QED BY <1>1, <1>2, <1>3 DEF ThreadOK

LEMMA IdleOK ==
  ASSUME NEW M, NEW n, NEW C
  PROVE  ThreadOK(Idle, M, n, C) /\ Idle \in Thread /\ Idle.does = "idle"
<1>1. MaxRequests \in Nat
  BY PurchaseAssumption
<1> QED BY <1>1 DEF ThreadOK, Idle, Thread, NoVotes

(* The row a thread is at.                                                 *)
LEMMA CurrentRow ==
  ASSUME Working, NEW w \in Workers, worker[w].does \in {"handle", "ack"}
  PROVE  /\ Current(w) \in DOMAIN messages
         /\ Mail(w).recipient = worker[w].agent
         /\ worker[w].does = "ack" => Answered(Mail(w), cast)
         /\ worker[w].todo \in Seq(Nat) /\ worker[w].todo # <<>>
<1>1. ThreadOK(worker[w], messages, requests, cast)
  BY DEF Working
<1>2. worker[w].todo \in Seq(Nat) /\ worker[w].todo # <<>>
  BY <1>1 DEF ThreadOK, Thread
<1>3. 1 \in DOMAIN worker[w].todo /\ Head(worker[w].todo) = worker[w].todo[1]
  BY <1>2
<1> QED BY <1>1, <1>2, <1>3 DEF ThreadOK, Current, Mail

(* What a thread does after one message, or after it listed its inbox.     *)
LEMMA ContinueStep ==
  ASSUME NEW w \in Workers, NEW todo \in Seq(Nat), Continue(w, todo), worker[w] \in Thread,
         NEW N,
         \A k \in DOMAIN todo : todo[k] \in DOMAIN N /\ N[todo[k]].recipient = worker[w].agent,
         NEW n, NEW C
  PROVE  \E t : /\ ThreadOK(t, N, n, C) /\ t.does \in {"idle", "handle"}
                /\ worker' = [worker EXCEPT ![w] = t]
                /\ waiting' \in {waiting, Nobody}
<1>1. CASE todo = <<>>
  <2>1. worker' = [worker EXCEPT ![w] = Idle] /\ waiting' \in {waiting, Nobody}
    BY <1>1 DEF Continue, Finish
  <2> QED BY <2>1, IdleOK
<1>2. CASE todo # <<>>
  <2> DEFINE t == [worker[w] EXCEPT !.does = "handle", !.todo = todo]
  <2>1. worker' = [worker EXCEPT ![w] = t] /\ waiting' = waiting
    BY <1>2 DEF Continue
  <2>2. t \in Thread /\ t.does = "handle" /\ t.todo = todo /\ t.agent = worker[w].agent
    BY DEF Thread
  <2>3. ThreadOK(t, N, n, C)
    <3> HIDE DEF t
    <3> QED BY <1>2, <2>2 DEF ThreadOK
  <2> HIDE DEF t
  <2> QED BY <2>1, <2>2, <2>3
<1> QED BY <1>1, <1>2

(* The messages behind the current one, in a table that has evolved.       *)
LEMMA RestOfTodo ==
  ASSUME Working, NEW w \in Workers, worker[w].does \in {"handle", "ack"},
         NEW N, Evolves(messages, N)
  PROVE  /\ Tail(worker[w].todo) \in Seq(Nat)
         /\ \A k \in DOMAIN Tail(worker[w].todo) :
              /\ Tail(worker[w].todo)[k] \in DOMAIN N
              /\ N[Tail(worker[w].todo)[k]].recipient = worker[w].agent
<1> DEFINE todo == worker[w].todo
<1>1. todo \in Seq(Nat) /\ todo # <<>>
  BY CurrentRow
<1>2. \A k \in DOMAIN todo : todo[k] \in DOMAIN N /\ N[todo[k]].recipient = worker[w].agent
  BY DEF Working, ThreadOK, Evolves, SameMail
<1> HIDE DEF todo
<1>3. /\ Tail(todo) \in Seq(Nat)
      /\ \A k \in DOMAIN Tail(todo) : k + 1 \in DOMAIN todo /\ Tail(todo)[k] = todo[k + 1]
  BY <1>1
<1> QED BY <1>2, <1>3 DEF todo

(* All threads are right after one of them has moved.                      *)
LEMMA WorkersStep ==
  ASSUME Working, requests \in Nat, requests' \in Nat, requests <= requests',
         Evolves(messages, messages'), cast \subseteq cast',
         NEW w \in Workers, NEW t, ThreadOK(t, messages', requests', cast'),
         worker' = [worker EXCEPT ![w] = t]
  PROVE  Working'
<1>1. worker' \in [Workers -> Thread]
  BY DEF Working, ThreadOK
<1>2. ASSUME NEW v \in Workers PROVE ThreadOK(worker'[v], messages', requests', cast')
  <2>1. ThreadOK(worker[v], messages', requests', cast')
    BY ThreadStays DEF Working
  <2>2. worker'[v] = IF v = w THEN t ELSE worker[v]
    BY DEF Working
  <2> QED BY <2>1, <2>2
<1> QED BY <1>1, <1>2 DEF Working

LEMMA WorkersStay ==
  ASSUME Working, requests \in Nat, requests' \in Nat, requests <= requests',
         Evolves(messages, messages'), cast \subseteq cast', worker' = worker
  PROVE  Working'
BY ThreadStays DEF Working

(* How many threads are about to ask the seats.                            *)
LEMMA AskingStep ==
  ASSUME worker \in [Workers -> Thread], NEW w \in Workers, NEW t,
         worker' = [worker EXCEPT ![w] = t]
  PROVE  /\ IsFiniteSet(Asking(worker))
         /\ Cardinality(Asking(worker)) \in Nat /\ Cardinality(Asking(worker')) \in Nat
         /\ t.does # "ask" => Cardinality(Asking(worker')) <= Cardinality(Asking(worker))
         /\ t.does # "ask" /\ worker[w].does = "ask" =>
              Cardinality(Asking(worker')) = Cardinality(Asking(worker)) - 1
         /\ t.does = "ask" => Cardinality(Asking(worker')) <= Cardinality(Asking(worker)) + 1
<1>1. IsFiniteSet(Asking(worker)) /\ IsFiniteSet(Asking(worker'))
  <2>1. /\ IsFiniteSet(Workers)
        /\ Asking(worker) \subseteq Workers /\ Asking(worker') \subseteq Workers
    BY PurchaseAssumption DEF Asking
  <2> QED BY <2>1, FS_Subset
<1>2. Cardinality(Asking(worker)) \in Nat /\ Cardinality(Asking(worker')) \in Nat
  BY <1>1, FS_CardinalityType
<1>3. ASSUME t.does # "ask"
      PROVE  Cardinality(Asking(worker')) =
               IF worker[w].does = "ask" THEN Cardinality(Asking(worker)) - 1
                                         ELSE Cardinality(Asking(worker))
  <2>1. Asking(worker') = Asking(worker) \ {w}
    BY <1>3 DEF Asking
  <2>2. w \in Asking(worker) <=> worker[w].does = "ask"
    BY DEF Asking
  <2> QED BY <1>1, <2>1, <2>2, FS_RemoveElement
<1>5. ASSUME t.does # "ask"
      PROVE  Cardinality(Asking(worker')) <= Cardinality(Asking(worker))
  <2> DEFINE before == Cardinality(Asking(worker))
             after  == Cardinality(Asking(worker'))
  <2>1. before \in Nat /\ (after = before \/ after = before - 1)
    BY <1>2, <1>3, <1>5
  <2> HIDE DEF before, after
  <2>2. after <= before
    BY <2>1
  <2> QED BY <2>2 DEF before, after
<1>4. ASSUME t.does = "ask"
      PROVE  Cardinality(Asking(worker')) <= Cardinality(Asking(worker)) + 1
  <2>1. Asking(worker') = Asking(worker) \cup {w}
    BY <1>4 DEF Asking
  <2>2. Cardinality(Asking(worker) \cup {w}) =
          IF w \in Asking(worker) THEN Cardinality(Asking(worker))
                                  ELSE Cardinality(Asking(worker)) + 1
    BY <1>1, FS_AddElement
  <2> DEFINE before == Cardinality(Asking(worker))
             after  == Cardinality(Asking(worker'))
  <2>3. after = before \/ after = before + 1
    BY <2>1, <2>2
  <2>4. before \in Nat
    BY <1>2
  <2> HIDE DEF before, after
  <2>5. after <= before + 1
    BY <2>3, <2>4
  <2> QED BY <2>5 DEF before, after
<1> QED BY <1>1, <1>2, <1>3, <1>4, <1>5

-----------------------------------------------------------------------------
(* Steps of the same shape.                                                *)

(* A pump's thread moves on; the table, and the votes on record, may grow. *)
LEMMA PumpKeeps ==
  ASSUME PurchaseInv, NEW w \in Workers, NEW t, t.does # "ask",
         ThreadOK(t, messages', requests, cast'),
         worker' = [worker EXCEPT ![w] = t], waiting' \in {waiting, Nobody},
         PumpUnchanged, faults' \in Nat,
         AllMailed(messages', requests, cast'), Evolves(messages, messages'),
         cast \subseteq cast', cast' \subseteq [corr: 1..requests, seat: Seats, vote: YesNo],
         failed' \subseteq Nat
  PROVE  PurchaseInv'
<1>1. /\ quorum' = quorum /\ bought' = bought /\ ballots' = ballots /\ paid' = paid
      /\ requests' = requests /\ notes' = notes
      /\ phase' = phase /\ agenda' = agenda /\ snapshot' = snapshot
  BY DEF PumpUnchanged
<1>2. requests \in Nat /\ MaxRequests \in Nat
  BY PurchaseAssumption DEF PurchaseInv, Counted
<1>3. Working'
  <2>1. Working /\ requests' \in Nat /\ requests <= requests'
        /\ ThreadOK(t, messages', requests', cast')
    BY <1>1, <1>2 DEF PurchaseInv
  <2> QED BY <1>2, <2>1, WorkersStep
<1>4. Counted'
  <2>1. Cardinality(Asking(worker')) <= Cardinality(Asking(worker))
        /\ Cardinality(Asking(worker)) \in Nat /\ Cardinality(Asking(worker')) \in Nat
    <3>1. worker \in [Workers -> Thread]
      BY DEF PurchaseInv, Working
    <3> QED BY <3>1, AskingStep
  <2>2. Counted' = (/\ requests' \in Nat /\ notes' \in Nat /\ faults' \in Nat
                    /\ requests' + Cardinality(Asking(worker')) <= MaxRequests)
    BY DEF Counted
  <2> QED BY <1>1, <1>2, <2>1, <2>2 DEF PurchaseInv, Counted
<1>5. Beating'
  BY <1>1 DEF PurchaseInv, Beating
<1>6. Stored'
  BY <1>1 DEF PurchaseInv, Stored
<1>7. Recorded'
  BY <1>1 DEF Recorded
<1>8. PurchaseApproved'
  BY <1>1 DEF PurchaseInv, PurchaseApproved, Said
<1>9. AllMailed(messages', requests', cast')
  BY <1>1
<1> QED BY <1>3, <1>4, <1>5, <1>6, <1>7, <1>8, <1>9 DEF PurchaseInv

(* What a role leaves alone, also one that raises.                         *)
RoleRest == UNCHANGED <<requests, notes, phase, agenda, snapshot, cast, failed>>

(* The role's thread moves on; what it stores has its type, and what it    *)
(* pays is approved.                                                       *)
LEMMA RoleKeeps ==
  ASSUME PurchaseInv, NEW w \in Workers, NEW t,
         ThreadOK(t, messages, requests, cast),
         t.does = "ask" => requests + Cardinality(Asking(worker)) < MaxRequests,
         worker' = [worker EXCEPT ![w] = t], waiting' \in {waiting, Nobody},
         RoleUnchanged \/ RoleRest, messages' = messages, faults' \in Nat,
         Stored', PurchaseApproved'
  PROVE  PurchaseInv'
<1>1. /\ requests' = requests /\ notes' = notes /\ cast' = cast /\ failed' = failed
      /\ phase' = phase /\ agenda' = agenda /\ snapshot' = snapshot
  BY DEF RoleUnchanged, RoleRest, history
<1>2. requests \in Nat /\ MaxRequests \in Nat
  BY PurchaseAssumption DEF PurchaseInv, Counted
<1>3. Evolves(messages, messages')
  BY DEF Evolves, SameMail
<1>4. Working'
  <2>1. Working /\ requests' \in Nat /\ requests <= requests' /\ cast \subseteq cast'
        /\ ThreadOK(t, messages', requests', cast')
    BY <1>1, <1>2 DEF PurchaseInv
  <2> QED BY <1>2, <1>3, <2>1, WorkersStep
<1>5. Counted'
  <2>1. /\ t.does # "ask" => Cardinality(Asking(worker')) <= Cardinality(Asking(worker))
        /\ t.does = "ask" => Cardinality(Asking(worker')) <= Cardinality(Asking(worker)) + 1
        /\ Cardinality(Asking(worker)) \in Nat /\ Cardinality(Asking(worker')) \in Nat
    <3>1. worker \in [Workers -> Thread]
      BY DEF PurchaseInv, Working
    <3> QED BY <3>1, AskingStep
  <2>2. Counted' = (/\ requests' \in Nat /\ notes' \in Nat /\ faults' \in Nat
                    /\ requests' + Cardinality(Asking(worker')) <= MaxRequests)
    BY DEF Counted
  <2> QED BY <1>1, <1>2, <2>1, <2>2 DEF PurchaseInv, Counted
<1>6. Beating'
  BY <1>1 DEF PurchaseInv, Beating
<1>7. Recorded'
  BY <1>1 DEF PurchaseInv, Recorded
<1>8. AllMailed(messages', requests', cast')
  BY <1>1 DEF PurchaseInv
<1> QED BY <1>4, <1>5, <1>6, <1>7, <1>8 DEF PurchaseInv

(* Only the table changes, and what the heartbeat is at.                   *)
LEMMA TableKeeps ==
  ASSUME PurchaseInv, AllMailed(messages', requests, cast), Evolves(messages, messages'),
         UNCHANGED <<bought, ballots, paid, requests, worker, cast>>, Stored',
         notes' \in Nat, faults' \in Nat, Beating', failed' \subseteq Nat
  PROVE  PurchaseInv'
<1>1. requests \in Nat /\ requests' = requests /\ cast' = cast /\ worker' = worker
  BY DEF PurchaseInv, Counted
<1>2. Working'
  BY <1>1, WorkersStay DEF PurchaseInv
<1>3. Counted'
  BY <1>1 DEF PurchaseInv, Counted
<1>4. Recorded'
  BY <1>1 DEF PurchaseInv, Recorded
<1>5. PurchaseApproved'
  BY DEF PurchaseInv, PurchaseApproved, Said
<1> QED BY <1>1, <1>2, <1>3, <1>4, <1>5 DEF PurchaseInv

-----------------------------------------------------------------------------
(* The invariant, action by action.                                        *)

LEMMA InitKeeps == Init => PurchaseInv
<1> SUFFICES ASSUME Init PROVE PurchaseInv
  OBVIOUS
<1>1. MaxRequests \in Nat /\ MaxAge \in Nat
  BY PurchaseAssumption, BusAssumption
<1>2. worker = [w \in Workers |-> Idle] /\ messages = <<>> /\ requests = 0 /\ cast = {}
      /\ failed = {} /\ notes = 0 /\ faults = 0 /\ bought = FALSE /\ ballots = {}
      /\ paid = [c \in 1..MaxRequests |-> 0] /\ quorum = None /\ phase = "idle"
      /\ agenda = <<>> /\ snapshot = {} /\ waiting = Nobody
  BY DEF Init
<1>3. Working
  BY <1>2, IdleOK DEF Working
<1>4. Counted
  <2>1. Asking(worker) = {}
    BY <1>2 DEF Asking, Idle
  <2>2. Cardinality(Asking(worker)) = 0
    BY <2>1, FS_EmptySet
  <2> QED BY <1>1, <1>2, <2>2 DEF Counted
<1>5. Stored
  <2>1. quorum \in [corr: 0..MaxRequests, age: 0..MaxAge]
    BY <1>1, <1>2 DEF None
  <2>2. paid \in [1..MaxRequests -> Nat]
    BY <1>2
  <2> QED BY <1>2, <2>1, <2>2 DEF Stored
<1> QED BY <1>2, <1>3, <1>4, <1>5
        DEF PurchaseInv, Beating, Recorded, AllMailed, PurchaseApproved

LEMMA AgendaType ==
  ASSUME NEW agents
  PROVE  Agenda(agents) \in Seq(Call) /\ Pumps(agents) \in Seq(Call)
<1>1. \A a \in Agents : PumpOf(a, agents) \in Seq(Call) /\ RoleOf(a) \in Seq(Call)
  <2> TAKE a \in Agents
  <2>1. [agent |-> a, does |-> "pump"] \in Call /\ [agent |-> a, does |-> "role"] \in Call
    BY DEF Call
  <2>2. \A x \in Call : <<x>> \in Seq(Call)
    OBVIOUS
  <2> QED BY <2>1, <2>2 DEF PumpOf, RoleOf
<1>2. \A i \in 1..4 : Pipeline[i] \in Agents
  BY DEF Pipeline, Agents, Seats
<1>3. \A s, t \in Seq(Call) : s \o t \in Seq(Call)
  BY ConcatProperties
<1>4. \A i \in 1..4 : PumpOf(Pipeline[i], agents) \in Seq(Call) /\ RoleOf(Pipeline[i]) \in Seq(Call)
  BY <1>1, <1>2
<1>5. Pumps(agents) \in Seq(Call)
  BY <1>3, <1>4 DEF Pumps
<1>6. \A i \in 1..4 : PumpOf(Pipeline[i], agents) \o RoleOf(Pipeline[i]) \in Seq(Call)
  BY <1>3, <1>4
<1>7. Agenda(agents) \in Seq(Call)
  BY <1>3, <1>6 DEF Agenda
<1> QED BY <1>5, <1>7

LEMMA StartTickKeeps == PurchaseInv /\ StartTick => PurchaseInv'
<1> SUFFICES ASSUME PurchaseInv, StartTick PROVE PurchaseInv'
  OBVIOUS
<1> DEFINE swept == ExpireDue(Tick(messages))
<1>1. AllMailed(messages, requests, cast) /\ requests \in Nat
  BY DEF PurchaseInv, Counted
<1>2. AllMailed(swept, requests, cast) /\ Evolves(messages, swept)
  BY <1>1, TickEdits, ExpireEdits, EvolvesTrans
<1>3. MaxAge - 1 \in Nat
  BY BusAssumption
<1>4. AllMailed(Prune(swept, MaxAge - 1), requests, cast)
      /\ Evolves(messages, Prune(swept, MaxAge - 1))
  <2> HIDE DEF swept
  <2> QED BY <1>2, <1>3, PruneEdits, EvolvesTrans
<1>5. messages' \in {swept, Prune(swept, MaxAge - 1)}
  BY DEF StartTick
<1>6. AllMailed(messages', requests, cast) /\ Evolves(messages, messages')
  <2> HIDE DEF swept
  <2> QED BY <1>2, <1>4, <1>5
<1>7. Stored'
  <2>1. quorum' = IF quorum = None THEN None ELSE [quorum EXCEPT !.age = Older(@)]
    BY DEF StartTick
  <2>2. quorum \in [corr: 0..MaxRequests, age: 0..MaxAge]
        /\ (quorum # None => quorum.corr \in 1..requests)
    BY DEF PurchaseInv, Stored
  <2>3. quorum # None => Older(quorum.age) \in 0..MaxAge
    BY <2>2, BusAssumption DEF Older
  <2>4. quorum' \in [corr: 0..MaxRequests, age: 0..MaxAge]
        /\ (quorum' # None => quorum'.corr \in 1..requests)
    BY <2>1, <2>2, <2>3
  <2> QED BY <2>4 DEF StartTick, PurchaseInv, Stored, counters
<1>8. Beating'
  <2>1. agenda' = Agenda(snapshot') /\ phase' = "pipeline" /\ waiting' = waiting
        /\ snapshot' = QueuedRecipients(messages')
    BY DEF StartTick
  <2>2. QueuedRecipients(messages') \subseteq Agents
    BY <1>6 DEF QueuedRecipients, AllMailed, Mailed, Row
  <2> QED BY <2>1, <2>2, AgendaType DEF PurchaseInv, Beating
<1>9. /\ UNCHANGED <<bought, ballots, paid, requests, worker, cast>>
      /\ notes' \in Nat /\ faults' \in Nat /\ failed' \subseteq Nat
  BY DEF StartTick, counters, PurchaseInv, Counted
<1> QED BY <1>6, <1>7, <1>8, <1>9, TableKeeps

(* The heartbeat turns to its next call.                                   *)
LEMMA HeartKeeps ==
  ASSUME PurchaseInv, UNCHANGED <<database, requests, notes, history>>,
         worker' = worker, faults' \in Nat, Beating'
  PROVE  PurchaseInv'
<1>1. AllMailed(messages', requests, cast) /\ Evolves(messages, messages')
  BY DEF database, PurchaseInv, Evolves, SameMail
<1>2. /\ UNCHANGED <<bought, ballots, paid, requests, worker, cast>>
      /\ notes' \in Nat /\ failed' \subseteq Nat
  BY DEF database, history, PurchaseInv, Counted, Recorded
<1>3. Stored'
  BY DEF database, PurchaseInv, Stored
<1> QED BY <1>1, <1>2, <1>3, TableKeeps

LEMMA CallNextKeeps == PurchaseInv /\ CallNext => PurchaseInv'
<1> SUFFICES ASSUME PurchaseInv, CallNext PROVE PurchaseInv'
  OBVIOUS
<1>1. PICK w \in Workers : /\ worker[w] = Idle
                           /\ worker' = [worker EXCEPT ![w] = Start(Head(agenda))]
                           /\ waiting' = w
  BY DEF CallNext
<1>2. agenda \in Seq(Call) /\ agenda # <<>> /\ agenda' = Tail(agenda)
  BY DEF PurchaseInv, Beating, CallNext
<1>3. Head(agenda) \in Call /\ agenda' \in Seq(Call)
  BY <1>2
<1> DEFINE t == Start(Head(agenda))
<1>4. t.does \in {"list", "read"} /\ t.todo = <<>> /\ t.agent \in Agents /\ t \in Thread
  BY <1>3, IdleOK DEF Start, Call, Idle, Thread
<1>5. UNCHANGED <<database, counters, phase, snapshot, cast, failed>>
  BY DEF CallNext
<1>6. ThreadOK(t, messages', requests', cast')
  <2> HIDE DEF t
  <2> QED BY <1>4 DEF ThreadOK
<1>7. /\ messages' = messages /\ requests' = requests /\ cast' = cast /\ failed' = failed
      /\ notes' = notes /\ faults' = faults
      /\ quorum' = quorum /\ bought' = bought /\ ballots' = ballots /\ paid' = paid
      /\ phase' = phase /\ snapshot' = snapshot
  BY <1>5 DEF database, counters
<1> HIDE DEF t
<1>8. Working'
  <2>1. Working /\ requests \in Nat /\ requests' \in Nat /\ requests <= requests'
        /\ cast \subseteq cast' /\ Evolves(messages, messages')
        /\ worker' = [worker EXCEPT ![w] = t]
    BY <1>1, <1>7 DEF PurchaseInv, Counted, Evolves, SameMail, t
  <2> QED BY <1>6, <2>1, WorkersStep
<1>9. Counted'
  <2>1. Cardinality(Asking(worker')) <= Cardinality(Asking(worker))
        /\ Cardinality(Asking(worker)) \in Nat /\ Cardinality(Asking(worker')) \in Nat
    <3>1. worker \in [Workers -> Thread] /\ t.does # "ask" /\ worker' = [worker EXCEPT ![w] = t]
      BY <1>1, <1>4 DEF PurchaseInv, Working, t
    <3> QED BY <3>1, AskingStep
  <2>2. requests \in Nat /\ MaxRequests \in Nat
        /\ requests + Cardinality(Asking(worker)) <= MaxRequests
    BY PurchaseAssumption DEF PurchaseInv, Counted
  <2>3. requests + Cardinality(Asking(worker')) <= MaxRequests
    BY <2>1, <2>2
  <2> QED BY <1>7, <2>3 DEF PurchaseInv, Counted
<1>10. Beating'
  BY <1>1, <1>3, <1>7 DEF PurchaseInv, Beating
<1>11. Stored' /\ Recorded' /\ PurchaseApproved' /\ AllMailed(messages', requests', cast')
  BY <1>7 DEF PurchaseInv, Stored, Recorded, PurchaseApproved, Said
<1> QED BY <1>8, <1>9, <1>10, <1>11 DEF PurchaseInv

LEMMA SkipFrozenKeeps == PurchaseInv /\ SkipFrozen => PurchaseInv'
<1> SUFFICES ASSUME PurchaseInv, SkipFrozen PROVE PurchaseInv'
  OBVIOUS
<1>1. agenda \in Seq(Call) /\ agenda # <<>> /\ agenda' = WithoutFirst(agenda)
  BY DEF PurchaseInv, Beating, SkipFrozen
<1>2. agenda' \in Seq(Call)
  <2>1. Tail(agenda) \in Seq(Call)
    BY <1>1
  <2>2. Tail(agenda) # <<>> => Tail(Tail(agenda)) \in Seq(Call)
    BY <2>1
  <2> QED BY <1>1, <2>1, <2>2 DEF WithoutFirst
<1>3. Beating'
  BY <1>2 DEF PurchaseInv, Beating, SkipFrozen
<1>4. faults' \in Nat /\ worker' = worker /\ UNCHANGED <<database, requests, notes, history>>
  BY DEF SkipFrozen, counters, PurchaseInv, Counted
<1> QED BY <1>3, <1>4, HeartKeeps

LEMMA FaultsCounted ==
  ASSUME PurchaseInv, NEW k, GoesWrong(k)
  PROVE  faults' \in Nat
BY DEF PurchaseInv, Counted, GoesWrong

LEMMA TimeOutKeeps == PurchaseInv /\ TimeOut => PurchaseInv'
<1> SUFFICES ASSUME PurchaseInv, TimeOut PROVE PurchaseInv'
  OBVIOUS
<1>1. faults' \in Nat
  BY FaultsCounted DEF TimeOut
<1>2. Beating'
  BY DEF PurchaseInv, Beating, TimeOut
<1>3. worker' = worker /\ UNCHANGED <<database, requests, notes, history>>
  BY DEF TimeOut
<1> QED BY <1>1, <1>2, <1>3, HeartKeeps

LEMMA LateKeeps == PurchaseInv /\ (LatePumps \/ EndTick) => PurchaseInv'
<1> SUFFICES ASSUME PurchaseInv, LatePumps \/ EndTick PROVE PurchaseInv'
  OBVIOUS
<1>1. Beating'
  BY AgendaType DEF PurchaseInv, Beating, LatePumps, EndTick
<1>2. faults' \in Nat /\ worker' = worker /\ UNCHANGED <<database, requests, notes, history>>
  BY DEF LatePumps, EndTick, counters, PurchaseInv, Counted
<1> QED BY <1>1, <1>2, HeartKeeps

LEMMA CrashKeeps == PurchaseInv /\ Crash => PurchaseInv'
<1> SUFFICES ASSUME PurchaseInv, Crash PROVE PurchaseInv'
  OBVIOUS
<1>1. faults' \in Nat
  BY FaultsCounted DEF Crash
<1>2. /\ messages' = messages /\ requests' = requests /\ cast' = cast /\ failed' = failed
      /\ notes' = notes /\ worker' = [w \in Workers |-> Idle]
      /\ quorum' = quorum /\ bought' = bought /\ ballots' = ballots /\ paid' = paid
      /\ phase' = "idle" /\ agenda' = <<>> /\ snapshot' = {} /\ waiting' = Nobody
  BY DEF Crash, database, history
<1>3. Working'
  BY <1>2, IdleOK DEF Working
<1>4. Counted'
  <2>1. Asking(worker') = {}
    BY <1>2 DEF Asking, Idle
  <2>2. Cardinality(Asking(worker')) = 0
    BY <2>1, FS_EmptySet
  <2>3. IsFiniteSet(Asking(worker)) /\ Cardinality(Asking(worker)) \in Nat
    <3>1. IsFiniteSet(Workers) /\ Asking(worker) \subseteq Workers
      BY PurchaseAssumption DEF Asking
    <3>2. IsFiniteSet(Asking(worker))
      BY <3>1, FS_Subset
    <3> QED BY <3>2, FS_CardinalityType
  <2>4. requests \in Nat /\ requests + Cardinality(Asking(worker)) <= MaxRequests
        /\ MaxRequests \in Nat
    BY PurchaseAssumption DEF PurchaseInv, Counted
  <2>5. requests + 0 <= MaxRequests
    BY <2>3, <2>4
  <2> QED BY <1>1, <1>2, <2>2, <2>5 DEF PurchaseInv, Counted
<1>5. Beating'
  BY <1>2 DEF Beating
<1>6. Stored' /\ Recorded' /\ PurchaseApproved' /\ AllMailed(messages', requests', cast')
  BY <1>2 DEF PurchaseInv, Stored, Recorded, PurchaseApproved, Said
<1> QED BY <1>3, <1>4, <1>5, <1>6 DEF PurchaseInv

-----------------------------------------------------------------------------
(* A pump, message by message.                                             *)
LEMMA ListInboxKeeps ==
  ASSUME PurchaseInv, NEW w \in Workers, ListInbox(w)
  PROVE  PurchaseInv'
<1>1. Working /\ AllMailed(messages, requests, cast) /\ Recorded /\ faults \in Nat
  BY DEF PurchaseInv, Counted
<1>2. PICK todo \in Inbox(messages, worker[w].agent) : Continue(w, todo)
  BY DEF ListInbox
<1>3. /\ todo \in Seq(Nat)
      /\ \A k \in DOMAIN todo :
           todo[k] \in DOMAIN messages /\ messages[todo[k]].recipient = worker[w].agent
  BY <1>1, InboxType
<1>4. worker[w] \in Thread
  BY <1>1 DEF Working
<1>5. PICK t : /\ ThreadOK(t, messages, requests, cast) /\ t.does \in {"idle", "handle"}
               /\ worker' = [worker EXCEPT ![w] = t]
               /\ waiting' \in {waiting, Nobody}
  BY <1>2, <1>3, <1>4, ContinueStep
<1>6. /\ messages' = messages /\ cast' = cast /\ failed' = failed /\ faults' = faults
      /\ PumpUnchanged
  BY DEF ListInbox, history
<1>7. Evolves(messages, messages')
  BY <1>6 DEF Evolves, SameMail
<1> QED BY <1>1, <1>5, <1>6, <1>7, PumpKeeps DEF Recorded

(* A pump has dealt with its current message one way or another.           *)
LEMMA DealtWithKeeps ==
  ASSUME PurchaseInv, NEW w \in Workers, worker[w].does \in {"handle", "ack"},
         AllMailed(messages', requests, cast), Evolves(messages, messages'),
         Continue(w, Tail(worker[w].todo)), PumpUnchanged, faults' \in Nat, cast' = cast,
         failed' \subseteq Nat
  PROVE  PurchaseInv'
<1>1. Working /\ Recorded
  BY DEF PurchaseInv
<1>2. /\ Tail(worker[w].todo) \in Seq(Nat)
      /\ \A k \in DOMAIN Tail(worker[w].todo) :
           /\ Tail(worker[w].todo)[k] \in DOMAIN messages'
           /\ messages'[Tail(worker[w].todo)[k]].recipient = worker[w].agent
  BY <1>1, RestOfTodo
<1>3. worker[w] \in Thread
  BY <1>1 DEF Working
<1>4. PICK t : /\ ThreadOK(t, messages', requests, cast) /\ t.does \in {"idle", "handle"}
               /\ worker' = [worker EXCEPT ![w] = t]
               /\ waiting' \in {waiting, Nobody}
  BY <1>2, <1>3, ContinueStep
<1>5. /\ ThreadOK(t, messages', requests, cast') /\ AllMailed(messages', requests, cast')
      /\ cast \subseteq cast' /\ cast' \subseteq [corr: 1..requests, seat: Seats, vote: YesNo]
  BY <1>1, <1>4 DEF Recorded
<1> QED BY <1>4, <1>5, PumpKeeps

LEMMA ReceiveKeeps ==
  ASSUME PurchaseInv, NEW w \in Workers, Receive(w)
  PROVE  PurchaseInv'
<1>1. Working /\ AllMailed(messages, requests, cast) /\ faults \in Nat /\ failed \subseteq Nat
  BY DEF PurchaseInv, Counted, Recorded
<1>2. Current(w) \in DOMAIN messages
  BY <1>1, CurrentRow DEF Receive
<1>3. AllMailed(messages', requests, cast) /\ Evolves(messages, messages')
  BY <1>1, <1>2, AckEdits DEF Receive, Mail
<1>4. Continue(w, Tail(worker[w].todo)) /\ PumpUnchanged /\ faults' = faults
      /\ cast' = cast /\ failed' = failed /\ worker[w].does = "handle"
  BY DEF Receive, history
<1> QED BY <1>1, <1>3, <1>4, DealtWithKeeps

LEMMA AckAnsweredKeeps ==
  ASSUME PurchaseInv, NEW w \in Workers, AckAnswered(w)
  PROVE  PurchaseInv'
<1>1. Working /\ AllMailed(messages, requests, cast) /\ faults \in Nat /\ failed \subseteq Nat
  BY DEF PurchaseInv, Counted, Recorded
<1>2. Current(w) \in DOMAIN messages /\ Answered(Mail(w), cast)
  BY <1>1, CurrentRow DEF AckAnswered
<1>3. AllMailed(messages', requests, cast) /\ Evolves(messages, messages')
  BY <1>1, <1>2, AckEdits DEF AckAnswered, Mail
<1>4. Continue(w, Tail(worker[w].todo)) /\ PumpUnchanged /\ faults' = faults
      /\ cast' = cast /\ failed' = failed /\ worker[w].does = "ack"
  BY DEF AckAnswered, history
<1> QED BY <1>1, <1>3, <1>4, DealtWithKeeps

LEMMA HandlerRaisesKeeps ==
  ASSUME PurchaseInv, NEW w \in Workers, HandlerRaises(w)
  PROVE  PurchaseInv'
<1>1. /\ Working /\ AllMailed(messages, requests, cast)
      /\ failed \subseteq Nat /\ messages \in Seq(Row)
  BY DEF PurchaseInv, Recorded, AllMailed
<1>2. Current(w) \in DOMAIN messages /\ worker[w].does \in {"handle", "ack"}
  BY <1>1, CurrentRow DEF HandlerRaises
<1>3. AllMailed(messages', requests, cast) /\ Evolves(messages, messages')
  BY <1>1, <1>2, FailEdits DEF HandlerRaises
<1>4. faults' \in Nat
  BY FaultsCounted DEF HandlerRaises
<1>5. Continue(w, Tail(worker[w].todo)) /\ PumpUnchanged
      /\ cast' = cast /\ failed' = failed \cup {Current(w)}
  BY DEF HandlerRaises
<1>6. failed' \subseteq Nat
  <2>1. DOMAIN messages \subseteq Nat
    BY <1>1
  <2> QED BY <1>1, <1>2, <1>5, <2>1
<1> QED BY <1>2, <1>3, <1>4, <1>5, <1>6, DealtWithKeeps

(* A seat replies: its vote is on record when the reply is in the table.   *)
LEMMA AnswerVoteKeeps ==
  ASSUME PurchaseInv, NEW w \in Workers, AnswerVote(w)
  PROVE  PurchaseInv'
<1>1. Working /\ AllMailed(messages, requests, cast) /\ Recorded /\ faults \in Nat
      /\ requests \in Nat
  BY DEF PurchaseInv, Counted
<1>2. Current(w) \in DOMAIN messages /\ Mail(w).recipient = worker[w].agent
      /\ worker[w].does = "handle" /\ ExpectsReply(Mail(w))
      /\ worker[w].todo # <<>> /\ worker[w].todo \in Seq(Nat)
  BY <1>1, CurrentRow DEF AnswerVote
<1>3. Mailed(Mail(w), requests, cast)
  BY <1>1, <1>2 DEF AllMailed, Mail
<1> DEFINE said(vote) == [corr |-> Mail(w).corr, seat |-> worker[w].agent, vote |-> vote]
<1>4. PICK vote \in YesNo : /\ messages' = Reply(messages, Current(w), vote)
                            /\ cast' = cast \cup {said(vote)}
  BY DEF AnswerVote, YesNo
<1>5. said(vote) \in [corr: 1..requests, seat: Seats, vote: YesNo]
  BY <1>2, <1>3, <1>4 DEF Mailed
<1>6. cast \subseteq cast' /\ cast' \subseteq [corr: 1..requests, seat: Seats, vote: YesNo]
      /\ said(vote) \in cast'
  BY <1>1, <1>4, <1>5 DEF Recorded
<1>7. AllMailed(messages, requests, cast')
  <2>1. requests <= requests
    BY <1>1
  <2> QED BY <1>1, <1>6, <2>1, TableStays
<1>8. AllMailed(messages', requests, cast') /\ Evolves(messages, messages')
  BY <1>2, <1>4, <1>6, <1>7, ReplyExtends DEF Mail
<1> DEFINE t == [worker[w] EXCEPT !.does = "ack"]
<1>9. ThreadOK(worker[w], messages', requests, cast')
  BY <1>1, <1>6, <1>8, ThreadStays DEF Working
<1>10. t \in Thread /\ t.does = "ack" /\ t.todo = worker[w].todo /\ t.agent = worker[w].agent
  BY <1>1 DEF Working, Thread
<1>11. Answered(messages'[Head(t.todo)], cast')
  <2>1. SameMail(Mail(w), messages'[Current(w)]) /\ Head(t.todo) = Current(w)
    BY <1>2, <1>8, <1>10 DEF Evolves, Mail, Current
  <2>2. said(vote) \in cast' /\ said(vote).corr = Mail(w).corr
        /\ said(vote).seat = Mail(w).recipient
    BY <1>2, <1>6
  <2> HIDE DEF t, said
  <2> QED BY <2>1, <2>2 DEF Answered, SameMail
<1>12. ThreadOK(t, messages', requests, cast')
  <2> HIDE DEF t
  <2> QED BY <1>2, <1>9, <1>10, <1>11 DEF ThreadOK
<1>13. worker' = [worker EXCEPT ![w] = t] /\ waiting' = waiting /\ PumpUnchanged
       /\ faults' = faults /\ failed' = failed
  BY DEF AnswerVote, Goto
<1>14. t.does # "ask" /\ failed' \subseteq Nat /\ faults' \in Nat
  BY <1>1, <1>10, <1>13 DEF Recorded
<1> HIDE DEF t
<1> QED BY <1>6, <1>8, <1>12, <1>13, <1>14, PumpKeeps

-----------------------------------------------------------------------------
(* A thread that goes on to another step, for which it knows enough.       *)
LEMMA GotoStep ==
  ASSUME NEW w \in Workers, worker \in [Workers -> Thread], NEW does, Goto(w, does),
         does \in {"ask", "weigh", "book", "clear"},
         NEW M, NEW n, NEW C, ThreadOK(worker[w], M, n, C),
         does # "ask" => worker[w].corr \in 1..n
  PROVE  \E t : /\ ThreadOK(t, M, n, C) /\ t.does = does
                /\ worker' = [worker EXCEPT ![w] = t] /\ waiting' = waiting
<1> DEFINE t == [worker[w] EXCEPT !.does = does]
<1>1. worker' = [worker EXCEPT ![w] = t] /\ waiting' = waiting
  BY DEF Goto
<1>2. t \in Thread /\ t.does = does /\ t.todo = worker[w].todo /\ t.agent = worker[w].agent
      /\ t.corr = worker[w].corr
  BY DEF Thread
<1>3. ThreadOK(t, M, n, C)
  <2> HIDE DEF t
  <2> QED BY <1>2 DEF ThreadOK
<1> HIDE DEF t
<1> QED BY <1>1, <1>2, <1>3

LEMMA FinishStep ==
  ASSUME NEW w \in Workers, Finish(w), NEW M, NEW n, NEW C
  PROVE  \E t : /\ ThreadOK(t, M, n, C) /\ t.does = "idle"
                /\ worker' = [worker EXCEPT ![w] = t] /\ waiting' \in {waiting, Nobody}
BY IdleOK DEF Finish

(* A role's thread that only moves, and stores nothing.                    *)
LEMMA MoveKeeps ==
  ASSUME PurchaseInv, NEW w \in Workers, RoleUnchanged \/ RoleRest, faults' \in Nat,
         UNCHANGED database,
         NEW t, ThreadOK(t, messages, requests, cast),
         t.does = "ask" => requests + Cardinality(Asking(worker)) < MaxRequests,
         worker' = [worker EXCEPT ![w] = t], waiting' \in {waiting, Nobody}
  PROVE  PurchaseInv'
<1>1. messages' = messages /\ quorum' = quorum /\ bought' = bought /\ ballots' = ballots
      /\ paid' = paid /\ cast' = cast /\ requests' = requests
  BY DEF database, RoleUnchanged, RoleRest, history
<1>2. Stored' /\ PurchaseApproved'
  BY <1>1 DEF PurchaseInv, Stored, PurchaseApproved, Said
<1> QED BY <1>1, <1>2, RoleKeeps

LEMMA RefrainKeeps ==
  ASSUME PurchaseInv, NEW w \in Workers, Refrain(w)
  PROVE  PurchaseInv'
<1>1. faults' \in Nat /\ RoleUnchanged /\ UNCHANGED database
  BY DEF Refrain, PurchaseInv, Counted
<1>2. PICK t : /\ ThreadOK(t, messages, requests, cast) /\ t.does = "idle"
               /\ worker' = [worker EXCEPT ![w] = t] /\ waiting' \in {waiting, Nobody}
  BY FinishStep DEF Refrain
<1> QED BY <1>1, <1>2, MoveKeeps

LEMMA RoleRaisesKeeps ==
  ASSUME PurchaseInv, NEW w \in Workers, RoleRaises(w)
  PROVE  PurchaseInv'
<1>1. faults' \in Nat /\ RoleRest /\ UNCHANGED database
  BY FaultsCounted DEF RoleRaises, RoleRest
<1>2. PICK t : /\ ThreadOK(t, messages, requests, cast) /\ t.does = "idle"
               /\ worker' = [worker EXCEPT ![w] = t] /\ waiting' \in {waiting, Nobody}
  BY FinishStep DEF RoleRaises
<1> QED BY <1>1, <1>2, MoveKeeps

LEMMA ConsiderKeeps ==
  ASSUME PurchaseInv, NEW w \in Workers, Consider(w)
  PROVE  PurchaseInv'
<1>1. faults' \in Nat /\ RoleUnchanged /\ UNCHANGED database
      /\ requests + Cardinality(Asking(worker)) < MaxRequests
  BY DEF Consider, PurchaseInv, Counted, Asking
<1>2. worker \in [Workers -> Thread] /\ ThreadOK(worker[w], messages, requests, cast)
  BY DEF PurchaseInv, Working
<1>3. PICK t : /\ ThreadOK(t, messages, requests, cast) /\ t.does = "ask"
               /\ worker' = [worker EXCEPT ![w] = t] /\ waiting' = waiting
  BY <1>2, GotoStep DEF Consider
<1> QED BY <1>1, <1>3, MoveKeeps

LEMMA GiveUpOrWaitKeeps ==
  ASSUME PurchaseInv, NEW w \in Workers, GiveUpOrWait(w)
  PROVE  PurchaseInv'
<1>1. faults' \in Nat /\ RoleUnchanged /\ UNCHANGED database /\ worker[w].does = "weigh"
      /\ (Goto(w, "clear") \/ Finish(w))
  BY DEF GiveUpOrWait, PurchaseInv, Counted
<1>2. worker \in [Workers -> Thread] /\ ThreadOK(worker[w], messages, requests, cast)
      /\ worker[w].corr \in 1..requests
  BY <1>1 DEF PurchaseInv, Working, ThreadOK
<1>3. PICK t : /\ ThreadOK(t, messages, requests, cast) /\ t.does \in {"clear", "idle"}
               /\ worker' = [worker EXCEPT ![w] = t] /\ waiting' \in {waiting, Nobody}
  <2>1. CASE Goto(w, "clear")
    BY <1>2, <2>1, GotoStep
  <2>2. CASE Finish(w)
    BY <2>2, FinishStep
  <2> QED BY <1>1, <2>1, <2>2
<1> QED BY <1>1, <1>3, MoveKeeps

(* The seats are asked, and the thread has the number of the request.      *)
LEMMA AskSeatsKeeps ==
  ASSUME PurchaseInv, NEW w \in Workers, AskSeats(w)
  PROVE  PurchaseInv'
<1> DEFINE t == [worker[w] EXCEPT !.does = "note", !.corr = requests + 1]
<1>1. /\ worker[w].does = "ask" /\ requests' = requests + 1
      /\ messages' = Request(messages, "operator", QuorumSeats, requests + 1)
      /\ worker' = [worker EXCEPT ![w] = t]
      /\ quorum' = quorum /\ bought' = bought /\ ballots' = ballots /\ paid' = paid
      /\ notes' = notes /\ faults' = faults /\ cast' = cast /\ failed' = failed
      /\ phase' = phase /\ agenda' = agenda /\ snapshot' = snapshot /\ waiting' = waiting
  BY DEF AskSeats, heartbeat, history
<1>2. /\ requests \in Nat /\ MaxRequests \in Nat /\ worker \in [Workers -> Thread]
      /\ ThreadOK(worker[w], messages, requests, cast)
      /\ requests + Cardinality(Asking(worker)) <= MaxRequests
      /\ AllMailed(messages, requests, cast)
  BY PurchaseAssumption DEF PurchaseInv, Counted, Working
<1>3. requests' \in Nat /\ requests <= requests' /\ requests' \in 1..requests'
  BY <1>1, <1>2
<1>4. AllMailed(messages', requests', cast') /\ Evolves(messages, messages')
  BY <1>1, <1>2, RequestExtends
<1>5. t.does # "ask" /\ IsFiniteSet(Asking(worker))
  BY <1>1, <1>2, AskingStep DEF Thread
<1>6. /\ Cardinality(Asking(worker')) = Cardinality(Asking(worker)) - 1
      /\ Cardinality(Asking(worker)) \in Nat /\ Cardinality(Asking(worker')) \in Nat
  <2> HIDE DEF t
  <2> QED BY <1>1, <1>2, <1>5, AskingStep
<1>7. requests' + Cardinality(Asking(worker')) <= MaxRequests /\ requests' <= MaxRequests
  BY <1>1, <1>2, <1>6
<1>8. ThreadOK(worker[w], messages', requests', cast')
  BY <1>1, <1>2, <1>3, <1>4, ThreadStays
<1>9. t \in Thread /\ t.does = "note" /\ t.corr = requests' /\ t.todo = worker[w].todo
      /\ t.agent = worker[w].agent
  <2>1. requests + 1 \in 0..MaxRequests
    BY <1>1, <1>2, <1>7
  <2> QED BY <1>1, <1>2, <2>1 DEF Thread
<1>10. ThreadOK(t, messages', requests', cast')
  <2> HIDE DEF t
  <2> QED BY <1>3, <1>8, <1>9 DEF ThreadOK
<1> HIDE DEF t
<1>11. Working'
  <2>1. Working /\ cast \subseteq cast'
    BY <1>1 DEF PurchaseInv
  <2> QED BY <1>1, <1>2, <1>3, <1>4, <1>10, <2>1, WorkersStep
<1>12. Counted'
  BY <1>1, <1>3, <1>7 DEF PurchaseInv, Counted
<1>13. Beating'
  BY <1>1 DEF PurchaseInv, Beating
<1>14. Stored'
  BY <1>1, <1>2, <1>3 DEF PurchaseInv, Stored
<1>15. Recorded'
  <2>1. cast \subseteq [corr: 1..requests, seat: Seats, vote: YesNo] /\ failed \subseteq Nat
    BY DEF PurchaseInv, Recorded
  <2>2. 1..requests \subseteq 1..requests'
    BY <1>2, <1>3
  <2>3. [corr: 1..requests, seat: Seats, vote: YesNo]
          \subseteq [corr: 1..requests', seat: Seats, vote: YesNo]
    BY <2>2
  <2> QED BY <1>1, <2>1, <2>3 DEF Recorded
<1>16. PurchaseApproved'
  BY <1>1 DEF PurchaseInv, PurchaseApproved, Said
<1> QED BY <1>4, <1>11, <1>12, <1>13, <1>14, <1>15, <1>16 DEF PurchaseInv

(* A role's thread that writes to the store and is done, or goes on.       *)
LEMMA NoteRequestKeeps ==
  ASSUME PurchaseInv, NEW w \in Workers, NoteRequest(w)
  PROVE  PurchaseInv'
<1>1. /\ worker[w].does = "note" /\ faults' = faults /\ RoleUnchanged
      /\ messages' = messages /\ bought' = bought /\ ballots' = ballots /\ paid' = paid
      /\ quorum' = [corr |-> worker[w].corr, age |-> 0] /\ Finish(w)
  BY DEF NoteRequest
<1>2. cast' = cast /\ requests' = requests
  BY <1>1 DEF RoleUnchanged, history
<1>3. worker[w].corr \in 1..requests /\ worker[w].corr \in 0..MaxRequests /\ faults \in Nat
      /\ MaxAge \in Nat
  BY <1>1, BusAssumption DEF PurchaseInv, Working, ThreadOK, Thread, Counted
<1>4. Stored'
  BY <1>1, <1>2, <1>3 DEF PurchaseInv, Stored
<1>5. PurchaseApproved'
  BY <1>1, <1>2 DEF PurchaseInv, PurchaseApproved, Said
<1>6. PICK t : /\ ThreadOK(t, messages, requests, cast) /\ t.does = "idle"
               /\ worker' = [worker EXCEPT ![w] = t] /\ waiting' \in {waiting, Nobody}
  BY <1>1, FinishStep
<1> QED BY <1>1, <1>3, <1>4, <1>5, <1>6, RoleKeeps

LEMMA ClearQuorumKeeps ==
  ASSUME PurchaseInv, NEW w \in Workers, ClearQuorum(w)
  PROVE  PurchaseInv'
<1>1. /\ faults' = faults /\ RoleUnchanged /\ faults \in Nat
      /\ messages' = messages /\ bought' = bought /\ ballots' = ballots /\ paid' = paid
      /\ quorum' = None /\ Finish(w)
  BY DEF ClearQuorum, PurchaseInv, Counted
<1>2. cast' = cast /\ requests' = requests
  BY <1>1 DEF RoleUnchanged, history
<1>3. None \in [corr: 0..MaxRequests, age: 0..MaxAge]
  <2>1. 0 \in 0..MaxRequests /\ 0 \in 0..MaxAge
    BY BusAssumption, PurchaseAssumption
  <2> QED BY <2>1 DEF None
<1>4. Stored'
  BY <1>1, <1>2, <1>3 DEF PurchaseInv, Stored
<1>5. PurchaseApproved'
  BY <1>1, <1>2 DEF PurchaseInv, PurchaseApproved, Said
<1>6. PICK t : /\ ThreadOK(t, messages, requests, cast) /\ t.does = "idle"
               /\ worker' = [worker EXCEPT ![w] = t] /\ waiting' \in {waiting, Nobody}
  BY <1>1, FinishStep
<1> QED BY <1>1, <1>4, <1>5, <1>6, RoleKeeps

LEMMA MarkBoughtKeeps ==
  ASSUME PurchaseInv, NEW w \in Workers, MarkBought(w)
  PROVE  PurchaseInv'
<1>1. /\ faults' = faults /\ RoleUnchanged /\ faults \in Nat /\ worker[w].does = "book"
      /\ messages' = messages /\ quorum' = quorum /\ ballots' = ballots /\ paid' = paid
      /\ bought' = TRUE /\ Goto(w, "clear")
  BY DEF MarkBought, PurchaseInv, Counted
<1>2. cast' = cast /\ requests' = requests
  BY <1>1 DEF RoleUnchanged, history
<1>3. Stored'
  BY <1>1, <1>2 DEF PurchaseInv, Stored
<1>4. PurchaseApproved'
  BY <1>1, <1>2 DEF PurchaseInv, PurchaseApproved, Said
<1>5. worker \in [Workers -> Thread] /\ ThreadOK(worker[w], messages, requests, cast)
      /\ worker[w].corr \in 1..requests
  BY <1>1 DEF PurchaseInv, Working, ThreadOK
<1>6. PICK t : /\ ThreadOK(t, messages, requests, cast) /\ t.does = "clear"
               /\ worker' = [worker EXCEPT ![w] = t] /\ waiting' = waiting
  BY <1>1, <1>5, GotoStep
<1> QED BY <1>1, <1>3, <1>4, <1>6, RoleKeeps

(* Money is spent on a request all of whose votes are on record.           *)
LEMMA DecideKeeps ==
  ASSUME PurchaseInv, NEW w \in Workers, Decide(w)
  PROVE  PurchaseInv'
<1> DEFINE votes == worker[w].votes
           corr  == worker[w].corr
           recorded == {[corr |-> corr, seat |-> s, vote |-> votes[s]] : s \in Seats}
<1>1. /\ worker[w].does = "decide" /\ faults' = faults /\ RoleUnchanged /\ faults \in Nat
      /\ messages' = messages /\ quorum' = quorum /\ bought' = bought
      /\ ballots' = ballots \/ ballots' = ballots \cup recorded
  BY DEF Decide, PurchaseInv, Counted
<1>2. cast' = cast /\ requests' = requests
  BY <1>1 DEF RoleUnchanged, history
<1>3. /\ worker \in [Workers -> Thread] /\ ThreadOK(worker[w], messages, requests, cast)
      /\ corr \in 1..requests /\ corr \in 0..MaxRequests
      /\ \A s \in Seats : votes[s] \in YesNo /\ Said(corr, s, votes[s])
  BY <1>1 DEF PurchaseInv, Working, ThreadOK, Thread, Said
<1>4. requests \in Nat /\ MaxRequests \in Nat
  BY PurchaseAssumption DEF PurchaseInv, Counted
<1>5. corr \in 1..MaxRequests
  BY <1>3, <1>4
<1>6. \/ Approves(votes) /\ paid' = [paid EXCEPT ![corr] = @ + 1] /\ Goto(w, "book")
      \/ paid' = paid /\ Goto(w, "clear")
  BY DEF Decide
<1> HIDE DEF votes, corr
<1>7. Stored'
  <2>1. recorded \subseteq [corr: 1..MaxRequests, seat: Seats, vote: YesNo \cup {"none"}]
    BY <1>3, <1>5
  <2>2. paid' \in [1..MaxRequests -> Nat]
    BY <1>5, <1>6 DEF PurchaseInv, Stored
  <2> HIDE DEF recorded
  <2> QED BY <1>1, <1>2, <2>1, <2>2 DEF PurchaseInv, Stored
<1>8. PurchaseApproved'
  <2>1. CASE paid' = paid
    BY <1>2, <2>1 DEF PurchaseInv, PurchaseApproved, Said
  <2>2. CASE Approves(votes) /\ paid' = [paid EXCEPT ![corr] = @ + 1]
    <3>1. /\ Said(corr, "treasurer", "yes") /\ Said(corr, "director", "yes")
          /\ (Said(corr, "risk", "yes") \/ Said(corr, "risk", "no"))
      BY <1>3, <2>2 DEF Approves, Seats, YesNo
    <3>2. \A c \in 1..MaxRequests : c # corr => paid'[c] = paid[c]
      BY <2>2 DEF PurchaseInv, Stored
    <3> QED BY <1>2, <3>1, <3>2 DEF PurchaseInv, PurchaseApproved, Said
  <2> QED BY <1>6, <2>1, <2>2
<1>9. PICK t : /\ ThreadOK(t, messages, requests, cast) /\ t.does \in {"book", "clear"}
               /\ worker' = [worker EXCEPT ![w] = t] /\ waiting' = waiting
  BY <1>3, <1>6, GotoStep DEF corr
<1> QED BY <1>1, <1>7, <1>8, <1>9, RoleKeeps

(* What the requester reads as votes is on record.                         *)
LEMMA VotesAreCast ==
  ASSUME NEW n, AllMailed(messages, n, cast), NEW c, NEW votes \in VotesOf(c),
         NEW s \in Seats, votes[s] # "none"
  PROVE  [corr |-> c, seat |-> s, vote |-> votes[s]] \in cast
<1> DEFINE said == {i \in Replies(messages, c) : messages[i].sender = s}
           latest == {i \in said : \A k \in said : messages[k].age >= messages[i].age}
<1>1. votes[s] \in IF said = {} THEN {"none"} ELSE {messages[i].vote : i \in latest}
  BY DEF VotesOf
<1>2. PICK i \in said : votes[s] = messages[i].vote
  BY <1>1
<1>3. i \in DOMAIN messages /\ messages[i].corr = c /\ messages[i].status # "deleted"
      /\ messages[i].answers # NoRow /\ messages[i].sender = s
  BY <1>2 DEF Replies, Rows
<1> QED BY <1>2, <1>3 DEF AllMailed, Mailed

LEMMA ReadVotesKeeps ==
  ASSUME PurchaseInv, NEW w \in Workers, ReadVotes(w)
  PROVE  PurchaseInv'
<1>1. /\ faults' = faults /\ RoleUnchanged /\ faults \in Nat /\ UNCHANGED database
      /\ worker[w].does = "read" /\ quorum # None /\ waiting' = waiting
  BY DEF ReadVotes, PurchaseInv, Counted
<1>2. PICK votes \in VotesOf(quorum.corr) :
        worker' = [worker EXCEPT ![w] =
          [@ EXCEPT !.corr = quorum.corr,
                    !.does = IF AllIn(votes) THEN "decide" ELSE "weigh",
                    !.votes = IF AllIn(votes) THEN votes ELSE NoVotes]]
  BY DEF ReadVotes
<1>3. /\ quorum.corr \in 1..requests /\ quorum.corr \in 0..MaxRequests
      /\ AllMailed(messages, requests, cast)
      /\ worker \in [Workers -> Thread] /\ ThreadOK(worker[w], messages, requests, cast)
  BY <1>1 DEF PurchaseInv, Stored, Working
<1>4. votes \in [Seats -> YesNo \cup {"none"}] /\ NoVotes \in [Seats -> YesNo \cup {"none"}]
  BY <1>2 DEF VotesOf, NoVotes
<1> DEFINE does == IF AllIn(votes) THEN "decide" ELSE "weigh"
           kept == IF AllIn(votes) THEN votes ELSE NoVotes
           t == [worker[w] EXCEPT !.corr = quorum.corr, !.does = does, !.votes = kept]
<1>5. worker' = [worker EXCEPT ![w] = t]
  BY <1>2
<1>6. does \in {"decide", "weigh"} /\ kept \in [Seats -> YesNo \cup {"none"}]
  BY <1>4
<1>7. does = "decide" => \A s \in Seats :
        kept[s] \in YesNo /\ [corr |-> quorum.corr, seat |-> s, vote |-> kept[s]] \in cast
  BY <1>3, <1>4, VotesAreCast DEF AllIn
<1> HIDE DEF does, kept
<1>8. t \in Thread /\ t.does = does /\ t.corr = quorum.corr /\ t.votes = kept
      /\ t.todo = worker[w].todo /\ t.agent = worker[w].agent
  BY <1>3, <1>6 DEF Thread
<1>9. ThreadOK(t, messages, requests, cast)
  <2> HIDE DEF t
  <2> QED BY <1>3, <1>6, <1>7, <1>8 DEF ThreadOK
<1> HIDE DEF t
<1> QED BY <1>1, <1>5, <1>6, <1>8, <1>9, MoveKeeps

(* Other agents, and a human at the command line.                          *)
LEMMA NotifyKeeps ==
  ASSUME PurchaseInv, NEW a \in Notified, Notify(a)
  PROVE  PurchaseInv'
<1>1. a \in Agents /\ AllMailed(messages, requests, cast) /\ notes \in Nat /\ faults \in Nat
  BY PurchaseAssumption DEF PurchaseInv, Counted
<1>2. AllMailed(messages', requests, cast) /\ Evolves(messages, messages')
  BY <1>1, SendExtends DEF Notify
<1>3. /\ UNCHANGED <<bought, ballots, paid, requests, worker, cast>>
      /\ notes' \in Nat /\ faults' \in Nat
      /\ quorum' = quorum /\ failed' = failed /\ UNCHANGED heartbeat
  BY <1>1 DEF Notify, history
<1>4. Stored' /\ Beating' /\ failed' \subseteq Nat
  BY <1>3 DEF PurchaseInv, Stored, Beating, Recorded, heartbeat
<1> QED BY <1>2, <1>3, <1>4, TableKeeps

LEMMA PurgeKeeps == PurchaseInv /\ Purge => PurchaseInv'
<1> SUFFICES ASSUME PurchaseInv, Purge PROVE PurchaseInv'
  OBVIOUS
<1>1. PICK ticks \in 0..DeadlineTicks : messages' = Prune(messages, ticks)
  BY DEF Purge
<1>2. ticks \in Nat /\ AllMailed(messages, requests, cast)
  BY <1>1, BusAssumption DEF PurchaseInv
<1>3. AllMailed(messages', requests, cast) /\ Evolves(messages, messages')
  BY <1>1, <1>2, PruneEdits
<1>4. /\ UNCHANGED <<bought, ballots, paid, requests, worker, cast>>
      /\ quorum' = quorum /\ failed' = failed /\ notes' = notes /\ UNCHANGED heartbeat
  BY DEF Purge, history
<1>5. faults' \in Nat
  BY FaultsCounted DEF Purge
<1>6. Stored' /\ Beating' /\ failed' \subseteq Nat /\ notes' \in Nat
  BY <1>4 DEF PurchaseInv, Stored, Beating, Recorded, heartbeat, Counted
<1> QED BY <1>3, <1>4, <1>5, <1>6, TableKeeps

LEMMA RequeueKeeps ==
  ASSUME PurchaseInv, NEW i \in Requeueable(messages), RequeueRow(i)
  PROVE  PurchaseInv'
<1>1. AllMailed(messages, requests, cast)
  BY DEF PurchaseInv
<1>2. AllMailed(messages', requests, cast) /\ Evolves(messages, messages')
  BY <1>1, RequeueEdits DEF RequeueRow
<1>3. /\ UNCHANGED <<bought, ballots, paid, requests, worker, cast>>
      /\ quorum' = quorum /\ failed' = failed /\ notes' = notes /\ UNCHANGED heartbeat
  BY DEF RequeueRow, history
<1>4. faults' \in Nat
  BY FaultsCounted DEF RequeueRow
<1>5. Stored' /\ Beating' /\ failed' \subseteq Nat /\ notes' \in Nat
  BY <1>3 DEF PurchaseInv, Stored, Beating, Recorded, heartbeat, Counted
<1> QED BY <1>2, <1>3, <1>4, <1>5, TableKeeps

LEMMA NextKeeps == PurchaseInv /\ [Next]_vars => PurchaseInv'
<1> SUFFICES ASSUME PurchaseInv, [Next]_vars PROVE PurchaseInv'
  OBVIOUS
<1>1. CASE StartTick
  BY <1>1, StartTickKeeps
<1>2. CASE CallNext
  BY <1>2, CallNextKeeps
<1>3. CASE SkipFrozen
  BY <1>3, SkipFrozenKeeps
<1>4. CASE TimeOut
  BY <1>4, TimeOutKeeps
<1>5. CASE LatePumps \/ EndTick
  BY <1>5, LateKeeps
<1>6. CASE Crash
  BY <1>6, CrashKeeps
<1>7. CASE Purge
  BY <1>7, PurgeKeeps
<1>8. ASSUME NEW w \in Workers, Pump(w) PROVE PurchaseInv'
  BY <1>8, ListInboxKeeps, ReceiveKeeps, AnswerVoteKeeps, AckAnsweredKeeps DEF Pump
<1>9. ASSUME NEW w \in Workers, HandlerRaises(w) PROVE PurchaseInv'
  BY <1>9, HandlerRaisesKeeps
<1>10. ASSUME NEW w \in Workers, Role(w) PROVE PurchaseInv'
  BY <1>10, RefrainKeeps, ConsiderKeeps, AskSeatsKeeps, NoteRequestKeeps, ReadVotesKeeps,
     GiveUpOrWaitKeeps, DecideKeeps, MarkBoughtKeeps, ClearQuorumKeeps DEF Role
<1>11. ASSUME NEW w \in Workers, RoleRaises(w) PROVE PurchaseInv'
  BY <1>11, RoleRaisesKeeps
<1>12. ASSUME NEW a \in Notified, Notify(a) PROVE PurchaseInv'
  BY <1>12, NotifyKeeps
<1>13. ASSUME NEW i \in Requeueable(messages), RequeueRow(i) PROVE PurchaseInv'
  BY <1>13, RequeueKeeps
<1>14. CASE UNCHANGED vars
  <2>1. /\ UNCHANGED <<database, requests, notes, history>> /\ worker' = worker
        /\ UNCHANGED heartbeat /\ faults' = faults
    BY <1>14 DEF vars, counters
  <2>2. faults' \in Nat /\ Beating'
    BY <2>1 DEF PurchaseInv, Counted, Beating, heartbeat
  <2> QED BY <2>1, <2>2, HeartKeeps
<1> QED BY <1>1, <1>2, <1>3, <1>4, <1>5, <1>6, <1>7, <1>8, <1>9, <1>10, <1>11, <1>12, <1>13,
           <1>14 DEF Next

(* The invariant holds in every state, whatever goes wrong.                *)
THEOREM PurchaseInvariant == Spec => []PurchaseInv
BY InitKeeps, NextKeeps, PTL DEF Spec

(* What is torn stays torn.                                                *)
LEMMA TornStays == torn \in BOOLEAN /\ [Next]_vars => torn' \in BOOLEAN /\ (torn => torn')
<1> SUFFICES ASSUME torn \in BOOLEAN, [Next]_vars PROVE torn' \in BOOLEAN /\ (torn => torn')
  OBVIOUS
<1>1. StartTick \/ SkipFrozen \/ TimeOut \/ LatePumps \/ EndTick \/ Purge \/ UNCHANGED vars
        => torn' = torn
  BY DEF StartTick, SkipFrozen, TimeOut, LatePumps, EndTick, Purge, vars, history
<1>2. CASE CallNext
  BY <1>2, Zenon DEF CallNext
<1>3. CASE Crash
  BY <1>3, Zenon DEF Crash
<1>4. ASSUME NEW w \in Workers, Pump(w) \/ HandlerRaises(w) PROVE torn' = torn
  BY <1>4 DEF Pump, HandlerRaises, ListInbox, Receive, AnswerVote, AckAnswered, history
<1>5. ASSUME NEW w \in Workers, Role(w) PROVE torn' = torn
  BY <1>5 DEF Role, Refrain, Consider, AskSeats, NoteRequest, ReadVotes, GiveUpOrWait, Decide,
              MarkBought, ClearQuorum, RoleUnchanged, history
<1>6. ASSUME NEW w \in Workers, RoleRaises(w) PROVE torn' \in BOOLEAN /\ (torn => torn')
  BY <1>6, Zenon DEF RoleRaises
<1>7. ASSUME NEW a \in Notified, Notify(a) PROVE torn' = torn
  BY <1>7 DEF Notify, history
<1>8. ASSUME NEW i \in Requeueable(messages), RequeueRow(i) PROVE torn' = torn
  BY <1>8 DEF RequeueRow, history
<1> QED BY <1>1, <1>2, <1>3, <1>4, <1>5, <1>6, <1>7, <1>8 DEF Next

(* Every variable keeps its type: in particular no message is ever tried   *)
(* again that has no attempt left.                                         *)
THEOREM PurchaseTypes == Spec => []TypeOK
<1>1. PurchaseInv /\ torn \in BOOLEAN => TypeOK
  <2> SUFFICES ASSUME PurchaseInv, torn \in BOOLEAN PROVE TypeOK
    OBVIOUS
  <2>1. /\ messages \in Seq(Row)
        /\ \A i \in DOMAIN messages :
             messages[i].status = "queued" => messages[i].attempts < MaxAttempts
    BY DEF PurchaseInv, AllMailed, Mailed
  <2>2. cast \subseteq [corr: Nat, seat: Seats, vote: YesNo] /\ failed \subseteq Nat
    BY DEF PurchaseInv, Recorded
  <2>3. worker \in [Workers -> Thread]
    BY DEF PurchaseInv, Working
  <2> QED BY <2>1, <2>2, <2>3 DEF PurchaseInv, Counted, Stored, Beating, TypeOK
<1> DEFINE TornTyped == torn \in BOOLEAN
<1>2. Init => TornTyped
  BY DEF Init
<1>3. TornTyped /\ [Next]_vars => TornTyped'
  BY TornStays
<1>4. PurchaseInv /\ TornTyped => TypeOK
  BY <1>1
<1> HIDE DEF TornTyped
<1> QED BY <1>2, <1>3, <1>4, PurchaseInvariant, PTL DEF Spec

(* Nothing is bought on silence: money is only spent on a request that the *)
(* three seats have answered, the treasurer and the director with a yes,   *)
(* for any number of threads, requests, faults and deadlines.              *)
THEOREM MoneyIsApproved == Spec => []PurchaseApproved
<1>1. PurchaseInv => PurchaseApproved
  BY DEF PurchaseInv
<1> QED BY <1>1, PurchaseInvariant, PTL

(* A request counts as handled only when its answer is on record.          *)
THEOREM RequestsAreAnswered == Spec => []DoneMeansAnswered
<1>1. PurchaseInv => DoneMeansAnswered
  BY DEF PurchaseInv, AllMailed, Mailed, Answered, DoneMeansAnswered
<1> QED BY <1>1, PurchaseInvariant, PTL

-----------------------------------------------------------------------------
(* Rows that have ended.                                                   *)

(* Operations that follow one another, and the start of a tick.            *)
LEMMA LastingTrans ==
  ASSUME NEW M, NEW N, NEW O, Lasting(M, N), Lasting(N, O), DOMAIN M \subseteq DOMAIN N
  PROVE  Lasting(M, O)
BY DEF Lasting, Lasts

LEMMA StartTickLasts ==
  ASSUME PurchaseInv, StartTick
  PROVE  Lasting(messages, messages')
<1> DEFINE swept == ExpireDue(Tick(messages))
<1>1. AllMailed(messages, requests, cast) /\ MaxAge - 1 \in Nat
  BY BusAssumption DEF PurchaseInv
<1>2. AllMailed(swept, requests, cast) /\ Lasting(messages, swept)
      /\ DOMAIN messages \subseteq DOMAIN swept
  <2>1. AllMailed(Tick(messages), requests, cast) /\ Lasting(messages, Tick(messages))
        /\ DOMAIN messages \subseteq DOMAIN Tick(messages)
    BY <1>1, TickEdits DEF Evolves
  <2>2. AllMailed(swept, requests, cast) /\ Lasting(Tick(messages), swept)
        /\ DOMAIN Tick(messages) \subseteq DOMAIN swept
    BY <2>1, ExpireEdits DEF Evolves
  <2> HIDE DEF swept
  <2> QED BY <2>1, <2>2, LastingTrans
<1>3. Lasting(messages, Prune(swept, MaxAge - 1))
  <2> HIDE DEF swept
  <2> QED BY <1>1, <1>2, PruneEdits, LastingTrans
<1>4. messages' \in {swept, Prune(swept, MaxAge - 1)}
  BY DEF StartTick
<1> HIDE DEF swept
<1> QED BY <1>2, <1>3, <1>4

(* Whatever a thread does to the table, it takes no row out of the state   *)
(* that the row has ended in.                                              *)
LEMMA ThreadLasts ==
  ASSUME PurchaseInv, NEW w \in Workers,
         Pump(w) \/ HandlerRaises(w) \/ Role(w) \/ RoleRaises(w)
  PROVE  Lasting(messages, messages')
<1>1. AllMailed(messages, requests, cast) /\ Working /\ requests \in Nat
  BY DEF PurchaseInv, Counted
<1>2. CASE messages' = messages
  BY <1>2 DEF Lasting, Lasts
<1>3. CASE Receive(w)
  BY <1>1, <1>3, CurrentRow, AckEdits DEF Receive, Mail
<1>4. CASE AckAnswered(w)
  BY <1>1, <1>4, CurrentRow, AckEdits DEF AckAnswered, Mail
<1>5. CASE HandlerRaises(w)
  BY <1>1, <1>5, CurrentRow, FailEdits DEF HandlerRaises
<1>6. CASE AnswerVote(w)
  <2>1. PICK vote : messages' = Reply(messages, Current(w), vote)
    BY <1>6 DEF AnswerVote
  <2>2. messages \in Seq(Row)
    BY <1>1 DEF AllMailed
  <2> DEFINE r == NewRow("vote_request.reply", messages[Current(w)].recipient,
                         messages[Current(w)].sender, messages[Current(w)].corr, Current(w), vote)
  <2>3. messages' = Append(messages, r)
    BY <2>1 DEF Reply
  <2> HIDE DEF r
  <2> QED BY <2>2, <2>3 DEF Lasting, Lasts
<1>7. CASE AskSeats(w)
  BY <1>1, <1>7, RequestExtends DEF AskSeats
<1>8. Pump(w) => messages' = messages \/ Receive(w) \/ AckAnswered(w) \/ AnswerVote(w)
  BY DEF Pump, ListInbox
<1>9. Role(w) \/ RoleRaises(w) => messages' = messages \/ AskSeats(w)
  BY DEF Role, RoleRaises, Refrain, Consider, NoteRequest, ReadVotes, GiveUpOrWait, Decide,
         MarkBought, ClearQuorum, database
<1> QED BY <1>2, <1>3, <1>4, <1>5, <1>6, <1>7, <1>8, <1>9

(* The step that EndedStaysEnded allows.                                   *)
StaysEnded ==
  \A i \in DOMAIN messages :
    LET before == messages[i].status
        after  == messages'[i].status
    IN  /\ before = "done" => after \in {"done", "deleted"}
        /\ before = "expired" => after \in {"expired", "deleted", "queued"}
        /\ before = "dead" => after \in {"dead", "queued"}
        /\ before \in {"expired", "dead"} /\ after = "queued" => RequeueRow(i)

LEMMA LastingStays ==
  ASSUME Lasting(messages, messages')
  PROVE  StaysEnded
BY DEF Lasting, Lasts, StaysEnded

LEMMA RequeueStays ==
  ASSUME NEW i \in Requeueable(messages), RequeueRow(i), messages \in Seq(Row)
  PROVE  StaysEnded
<1>1. i \in DOMAIN messages /\ messages[i].status \in {"dead", "expired"}
  BY DEF Requeueable
<1> DEFINE q == [messages[i] EXCEPT !.status = "queued", !.attempts = 0]
<1>2. messages' = [messages EXCEPT ![i] = q] /\ messages[i] \in Row
  BY <1>1 DEF RequeueRow, Requeue
<1>3. q.status = "queued"
  BY <1>2 DEF Row
<1> HIDE DEF q
<1>4. \A k \in DOMAIN messages : k # i => messages'[k] = messages[k]
  BY <1>2
<1>5. messages'[i].status = "queued"
  BY <1>1, <1>2, <1>3
<1> QED BY <1>1, <1>4, <1>5 DEF StaysEnded

(* No thread that comes late takes a row out of the state it ended in, for *)
(* any number of abandoned threads: only `--requeue` brings an expired or  *)
(* dead row back, and nothing a done one.                                  *)
THEOREM EndedRowsStay == Spec => EndedStaysEnded
<1>1. PurchaseInv /\ [Next]_vars => [StaysEnded]_vars
  <2> SUFFICES ASSUME PurchaseInv, [Next]_vars PROVE StaysEnded \/ UNCHANGED vars
    OBVIOUS
  <2>1. CASE StartTick
    BY <2>1, StartTickLasts, LastingStays
  <2>2. CASE messages' = messages
    BY <2>2, LastingStays DEF Lasting, Lasts
  <2>3. CallNext \/ SkipFrozen \/ TimeOut \/ LatePumps \/ EndTick \/ Crash => messages' = messages
    BY DEF CallNext, SkipFrozen, TimeOut, LatePumps, EndTick, Crash, database
  <2>4. CASE Purge
    <3>1. PICK ticks \in 0..DeadlineTicks : messages' = Prune(messages, ticks)
      BY <2>4 DEF Purge
    <3>2. ticks \in Nat /\ AllMailed(messages, requests, cast)
      BY BusAssumption DEF PurchaseInv
    <3> QED BY <3>1, <3>2, PruneEdits, LastingStays
  <2>5. ASSUME NEW w \in Workers, Pump(w) \/ HandlerRaises(w) \/ Role(w) \/ RoleRaises(w)
        PROVE  StaysEnded
    BY <2>5, ThreadLasts, LastingStays
  <2>6. ASSUME NEW a \in Notified, Notify(a) PROVE StaysEnded
    <3>1. a \in Agents /\ AllMailed(messages, requests, cast)
      BY PurchaseAssumption DEF PurchaseInv
    <3>2. Lasting(messages, messages')
      BY <2>6, <3>1, SendExtends DEF Notify
    <3> QED BY <3>2, LastingStays
  <2>7. ASSUME NEW i \in Requeueable(messages), RequeueRow(i) PROVE StaysEnded
    BY <2>7, RequeueStays DEF PurchaseInv, AllMailed
  <2> QED BY <2>1, <2>2, <2>3, <2>4, <2>5, <2>6, <2>7 DEF Next
<1> QED BY <1>1, PurchaseInvariant, PTL DEF Spec, EndedStaysEnded, StaysEnded

-----------------------------------------------------------------------------
(* One purchase.  Until a role is lost between the expense and its mark,   *)
(* or begins beside another, roles run one after another.                  *)

(* Nothing was spent, or once on c.                                        *)
NotPaid   == [c \in 1..MaxRequests |-> 0]
PaidOnly(c) == [NotPaid EXCEPT ![c] = 1]

(* One thread at a time is at a role, waited for or abandoned.             *)
OneRole ==
  \A v, w \in Workers :
    worker[v].does \in RoleSteps /\ worker[w].does \in RoleSteps => v = w
(* What was paid is on record, or a thread is about to record it; and no   *)
(* thread is about to ask the seats again.                                 *)
PaidIsNoted ==
  paid # NotPaid =>
    /\ \E c \in 1..MaxRequests : paid = PaidOnly(c)
    /\ bought \/ \E w \in Workers : worker[w].does = "book"
    /\ \A w \in Workers : worker[w].does # "ask"
OnceInv == OneRole /\ PaidIsNoted

(* A thread that is not a role's comes, goes on or ends.                   *)
LEMMA PumpOnce ==
  ASSUME OnceInv, worker \in [Workers -> Thread], NEW w \in Workers, NEW t,
         worker[w].does \notin RoleSteps, t.does \notin RoleSteps,
         worker' = [worker EXCEPT ![w] = t],
         paid' = paid, bought' = bought
  PROVE  OnceInv'
<1>1. \A v \in Workers : worker'[v] = IF v = w THEN t ELSE worker[v]
  OBVIOUS
<1>2. OneRole'
  BY <1>1 DEF OnceInv, OneRole
<1>3. /\ \A v \in Workers : worker[v].does = "book" => worker'[v].does = "book"
      /\ \A v \in Workers : worker'[v].does = "ask" => worker[v].does = "ask"
  BY <1>1 DEF RoleSteps
<1>4. PaidIsNoted'
  <2> SUFFICES ASSUME paid # NotPaid
               PROVE  /\ \E c \in 1..MaxRequests : paid = PaidOnly(c)
                      /\ bought \/ \E v \in Workers : worker'[v].does = "book"
                      /\ \A v \in Workers : worker'[v].does # "ask"
    BY DEF PaidIsNoted
  <2> QED BY <1>3 DEF OnceInv, PaidIsNoted
<1> QED BY <1>2, <1>4 DEF OnceInv

(* The role's thread goes on or ends: no other thread runs the role.       *)
LEMMA RoleOnce ==
  ASSUME OneRole, worker \in [Workers -> Thread], NEW w \in Workers, NEW t,
         worker[w].does \in RoleSteps,
         worker' = [worker EXCEPT ![w] = t],
         paid' # NotPaid =>
           /\ \E c \in 1..MaxRequests : paid' = PaidOnly(c)
           /\ bought' \/ t.does = "book"
           /\ t.does # "ask"
  PROVE  OnceInv'
<1>1. \A v \in Workers : worker'[v] = IF v = w THEN t ELSE worker[v]
  OBVIOUS
<1>2. \A v \in Workers : v # w => worker[v].does \notin RoleSteps
  BY DEF OneRole
<1>3. OneRole'
  BY <1>1, <1>2 DEF OneRole
<1>4. PaidIsNoted'
  <2> SUFFICES ASSUME paid' # NotPaid
               PROVE  /\ \E c \in 1..MaxRequests : paid' = PaidOnly(c)
                      /\ bought' \/ \E v \in Workers : worker'[v].does = "book"
                      /\ \A v \in Workers : worker'[v].does # "ask"
    BY DEF PaidIsNoted
  <2>1. t.does = "book" => worker'[w].does = "book"
    BY <1>1
  <2>2. \A v \in Workers : worker'[v].does # "ask"
    BY <1>1, <1>2 DEF RoleSteps
  <2> QED BY <2>1, <2>2
<1> QED BY <1>3, <1>4 DEF OnceInv

(* Nothing is paid before the role decides, as only its thread could be    *)
(* about to record a payment.                                              *)
LEMMA NothingPaidYet ==
  ASSUME OnceInv, NEW w \in Workers, worker[w].does \in RoleSteps,
         worker[w].does # "book", ~bought
  PROVE  paid = NotPaid
BY DEF OnceInv, OneRole, PaidIsNoted, RoleSteps

LEMMA ContinueOnce ==
  ASSUME OnceInv, worker \in [Workers -> Thread], NEW w \in Workers, NEW todo \in Seq(Nat),
         worker[w].does \notin RoleSteps, Continue(w, todo),
         paid' = paid, bought' = bought
  PROVE  OnceInv'
<1>1. CASE todo = <<>>
  <2>1. worker' = [worker EXCEPT ![w] = Idle] /\ Idle.does \notin RoleSteps
    BY <1>1 DEF Continue, Finish, Idle, RoleSteps
  <2> QED BY <2>1, PumpOnce
<1>2. CASE todo # <<>>
  <2> DEFINE t == [worker[w] EXCEPT !.does = "handle", !.todo = todo]
  <2>1. worker' = [worker EXCEPT ![w] = t] /\ waiting' = waiting
    BY <1>2 DEF Continue
  <2>2. t.does \notin RoleSteps
    BY DEF Thread, RoleSteps
  <2> HIDE DEF t
  <2> QED BY <2>1, <2>2, PumpOnce
<1> QED BY <1>1, <1>2

LEMMA PumpStepOnce ==
  ASSUME PurchaseInv, OnceInv, NEW w \in Workers, Pump(w) \/ HandlerRaises(w)
  PROVE  OnceInv'
<1>1. worker \in [Workers -> Thread] /\ Working /\ AllMailed(messages, requests, cast)
  BY DEF PurchaseInv, Working
<1>2. paid' = paid /\ bought' = bought
  BY DEF Pump, HandlerRaises, ListInbox, Receive, AnswerVote, AckAnswered, PumpUnchanged
<1>3. worker[w].does \in {"list", "handle", "ack"} /\ worker[w].does \notin RoleSteps
  BY DEF Pump, HandlerRaises, ListInbox, Receive, AnswerVote, AckAnswered, RoleSteps
<1>4. CASE ListInbox(w)
  <2>1. PICK todo \in Inbox(messages, worker[w].agent) : Continue(w, todo)
    BY <1>4 DEF ListInbox
  <2>2. todo \in Seq(Nat)
    BY <1>1, InboxType
  <2> QED BY <1>1, <1>2, <1>3, <2>1, <2>2, ContinueOnce
<1>5. CASE AnswerVote(w)
  <2> DEFINE t == [worker[w] EXCEPT !.does = "ack"]
  <2>1. worker' = [worker EXCEPT ![w] = t] /\ waiting' = waiting
    BY <1>5 DEF AnswerVote, Goto
  <2>2. t.does \notin RoleSteps
    BY <1>1 DEF Thread, RoleSteps
  <2> HIDE DEF t
  <2> QED BY <1>1, <1>2, <1>3, <2>1, <2>2, PumpOnce
<1>6. CASE Receive(w) \/ AckAnswered(w) \/ HandlerRaises(w)
  <2>1. worker[w].does \in {"handle", "ack"} /\ Continue(w, Tail(worker[w].todo))
    BY <1>6 DEF Receive, AckAnswered, HandlerRaises
  <2>2. worker[w].todo \in Seq(Nat) /\ worker[w].todo # <<>>
    BY <1>1, <2>1, CurrentRow
  <2>3. Tail(worker[w].todo) \in Seq(Nat)
    BY <2>2
  <2> QED BY <1>1, <1>2, <1>3, <2>1, <2>3, ContinueOnce
<1> QED BY <1>4, <1>5, <1>6 DEF Pump

LEMMA RoleStepOnce ==
  ASSUME PurchaseInv, OnceInv, NEW w \in Workers, Role(w)
  PROVE  OnceInv'
<1>1. worker \in [Workers -> Thread] /\ worker[w] \in Thread /\ OneRole /\ PaidIsNoted
      /\ paid \in [1..MaxRequests -> Nat]
  BY DEF PurchaseInv, Working, OnceInv, Stored
<1>2. worker[w].does \in RoleSteps
  BY DEF Role, Refrain, Consider, AskSeats, NoteRequest, ReadVotes, GiveUpOrWait, Decide,
         MarkBought, ClearQuorum, RoleSteps
<1>3. paid # NotPaid => (\E c \in 1..MaxRequests : paid = PaidOnly(c))
                        /\ (bought \/ worker[w].does = "book")
  <2>1. paid # NotPaid /\ ~bought => worker[w].does = "book"
    BY <1>2, NothingPaidYet
  <2> QED BY <1>1, <2>1 DEF PaidIsNoted
<1> DEFINE to(does) == [worker[w] EXCEPT !.does = does]
<1>4. ASSUME NEW does \in {"ask", "clear", "book"}, Goto(w, does)
      PROVE  worker' = [worker EXCEPT ![w] = to(does)] /\ waiting' = waiting
             /\ to(does).does = does
  BY <1>1, <1>4 DEF Goto, Thread
<1>5. ASSUME Finish(w), paid' = paid, bought' = bought, worker[w].does # "book"
      PROVE  OnceInv'
  <2>1. worker' = [worker EXCEPT ![w] = Idle] /\ Idle.does = "idle"
    BY <1>5 DEF Finish, Idle
  <2> QED BY <1>1, <1>2, <1>3, <1>5, <2>1, RoleOnce
<1>6. ASSUME NEW does \in {"clear"}, Goto(w, does), paid' = paid,
             (bought' = bought /\ worker[w].does # "book") \/ bought' = TRUE
      PROVE  OnceInv'
  <2> DEFINE t == to("clear")
  <2>1. worker' = [worker EXCEPT ![w] = t] /\ waiting' = waiting /\ t.does = "clear"
    BY <1>4, <1>6
  <2>2. paid' # NotPaid => (\E c \in 1..MaxRequests : paid' = PaidOnly(c)) /\ bought' = TRUE
    BY <1>3, <1>6 DEF PurchaseInv, Stored
  <2> HIDE DEF t
  <2> QED BY <1>1, <1>2, <2>1, <2>2, RoleOnce
<1>7. CASE Refrain(w) \/ NoteRequest(w) \/ ClearQuorum(w)
  BY <1>5, <1>7 DEF Refrain, NoteRequest, ClearQuorum, database
<1>8. CASE GiveUpOrWait(w)
  BY <1>5, <1>6, <1>8 DEF GiveUpOrWait, database
<1>9. CASE MarkBought(w)
  BY <1>6, <1>9 DEF MarkBought
<1>10. CASE Consider(w)
  <2>1. paid = NotPaid /\ paid' = paid
    BY <1>2, <1>10, NothingPaidYet DEF Consider, database
  <2>2. worker' = [worker EXCEPT ![w] = to("ask")] /\ waiting' = waiting
    BY <1>4, <1>10 DEF Consider
  <2> HIDE DEF to
  <2> QED BY <1>1, <1>2, <2>1, <2>2, RoleOnce
<1>11. CASE AskSeats(w)
  <2> DEFINE t == [worker[w] EXCEPT !.does = "note", !.corr = requests + 1]
  <2>1. worker' = [worker EXCEPT ![w] = t] /\ waiting' = waiting
        /\ paid' = paid /\ worker[w].does = "ask"
    BY <1>11 DEF AskSeats, heartbeat
  <2>2. paid = NotPaid
    BY <1>1, <2>1 DEF PaidIsNoted
  <2> HIDE DEF t
  <2> QED BY <1>1, <1>2, <2>1, <2>2, RoleOnce
<1>12. CASE ReadVotes(w)
  <2>1. /\ paid' = paid /\ bought' = bought /\ waiting' = waiting /\ worker[w].does = "read"
        /\ \E votes : worker' = [worker EXCEPT ![w] =
              [@ EXCEPT !.corr = quorum.corr,
                        !.does = IF AllIn(votes) THEN "decide" ELSE "weigh",
                        !.votes = IF AllIn(votes) THEN votes ELSE NoVotes]]
    BY <1>12 DEF ReadVotes, database
  <2>2. PICK votes : worker' = [worker EXCEPT ![w] =
              [@ EXCEPT !.corr = quorum.corr,
                        !.does = IF AllIn(votes) THEN "decide" ELSE "weigh",
                        !.votes = IF AllIn(votes) THEN votes ELSE NoVotes]]
    BY <2>1
  <2> DEFINE does == IF AllIn(votes) THEN "decide" ELSE "weigh"
             kept == IF AllIn(votes) THEN votes ELSE NoVotes
             t == [worker[w] EXCEPT !.corr = quorum.corr, !.does = does, !.votes = kept]
  <2>3. worker' = [worker EXCEPT ![w] = t]
    BY <2>2
  <2>4. does # "ask"
    OBVIOUS
  <2> HIDE DEF does, kept
  <2>5. t.does = does
    BY <1>1 DEF Thread
  <2> HIDE DEF t
  <2> QED BY <1>1, <1>2, <1>3, <2>1, <2>3, <2>4, <2>5, RoleOnce
<1>13. CASE Decide(w)
  <2>1. worker[w].does = "decide" /\ bought' = bought
    BY <1>13 DEF Decide
  <2>2. CASE paid' = paid /\ Goto(w, "clear")
    BY <1>6, <2>1, <2>2
  <2>3. CASE ~bought /\ paid' = [paid EXCEPT ![worker[w].corr] = @ + 1] /\ Goto(w, "book")
    <3>1. paid = NotPaid
      BY <1>2, <2>1, <2>3, NothingPaidYet
    <3>2. worker[w].corr \in 1..MaxRequests
      BY <2>1, PurchaseAssumption DEF PurchaseInv, Working, ThreadOK, Thread
    <3>3. paid' = PaidOnly(worker[w].corr)
      <4> DEFINE c == worker[w].corr
      <4>1. paid[c] + 1 = 1
        BY <3>1, <3>2 DEF NotPaid
      <4> HIDE DEF c
      <4>2. paid' = [paid EXCEPT ![c] = 1]
        BY <2>3, <4>1 DEF c
      <4> QED BY <3>1, <4>2 DEF PaidOnly, c
    <3>4. worker' = [worker EXCEPT ![w] = to("book")] /\ waiting' = waiting
          /\ to("book").does = "book"
      BY <1>4, <2>3
    <3> HIDE DEF to
    <3> QED BY <1>1, <1>2, <3>2, <3>3, <3>4, RoleOnce
  <2> QED BY <1>13, <2>2, <2>3 DEF Decide
<1> QED BY <1>7, <1>8, <1>9, <1>10, <1>11, <1>12, <1>13 DEF Role

LEMMA OnceInit == Init => OnceInv
BY DEF Init, OnceInv, OneRole, PaidIsNoted, NotPaid, Idle, RoleSteps

(* A call starts the only role there is, or the tear is noted.             *)
LEMMA CallOnce ==
  ASSUME PurchaseInv, OnceInv, CallNext, ~torn'
  PROVE  OnceInv'
<1>1. worker \in [Workers -> Thread]
  BY DEF PurchaseInv, Working
<1>2. PICK w \in Workers : /\ worker[w] = Idle
                           /\ worker' = [worker EXCEPT ![w] = Start(Head(agenda))]
  BY DEF CallNext
<1>3. paid' = paid /\ bought' = bought
  BY DEF CallNext, database
<1>4. Head(agenda).does = "role" => \A v \in Workers : worker[v].does \notin RoleSteps
  BY Zenon DEF CallNext
<1> DEFINE t == Start(Head(agenda))
<1>5. t.does \in {"list", "read"} /\ (t.does = "read" => Head(agenda).does # "pump")
  BY DEF Start, Idle
<1>6. Head(agenda).does \in {"pump", "role"}
  <2>1. agenda \in Seq(Call) /\ agenda # <<>>
    BY DEF CallNext, PurchaseInv, Beating
  <2>2. Head(agenda) \in Call
    BY <2>1
  <2> QED BY <2>2 DEF Call
<1> HIDE DEF t
<1>7. \A v \in Workers : worker'[v] = IF v = w THEN t ELSE worker[v]
  BY <1>1, <1>2 DEF t
<1>8. t.does # "ask" /\ worker[w].does = "idle"
  BY <1>2, <1>5 DEF Idle
<1>9. OneRole'
  <2>1. CASE t.does = "list"
    BY <1>7, <2>1 DEF OnceInv, OneRole, RoleSteps
  <2>2. CASE t.does = "read"
    BY <1>4, <1>5, <1>6, <1>7, <2>2 DEF OneRole
  <2> QED BY <1>5, <2>1, <2>2
<1>10. PaidIsNoted'
  <2> SUFFICES ASSUME paid # NotPaid
               PROVE  /\ \E c \in 1..MaxRequests : paid = PaidOnly(c)
                      /\ bought \/ \E v \in Workers : worker'[v].does = "book"
                      /\ \A v \in Workers : worker'[v].does # "ask"
    BY <1>3 DEF PaidIsNoted
  <2>1. /\ \A v \in Workers : worker[v].does = "book" => worker'[v].does = "book"
        /\ \A v \in Workers : worker'[v].does = "ask" => worker[v].does = "ask"
    BY <1>7, <1>8
  <2> QED BY <2>1 DEF OnceInv, PaidIsNoted
<1> QED BY <1>9, <1>10 DEF OnceInv

(* A role that raises elsewhere than after an expense leaves nothing half  *)
(* done.                                                                   *)
LEMMA RaiseOnce ==
  ASSUME PurchaseInv, OnceInv, NEW w \in Workers, RoleRaises(w), ~torn'
  PROVE  OnceInv'
<1>1. worker \in [Workers -> Thread] /\ OneRole /\ PaidIsNoted
  BY DEF PurchaseInv, Working, OnceInv
<1>2. worker[w].does # "book"
  BY Zenon DEF RoleRaises
<1>3. /\ worker[w].does \in RoleSteps /\ worker' = [worker EXCEPT ![w] = Idle]
      /\ paid' = paid /\ bought' = bought /\ Idle.does = "idle"
  BY DEF RoleRaises, Finish, database, Idle
<1>4. paid # NotPaid => (\E c \in 1..MaxRequests : paid = PaidOnly(c)) /\ bought
  BY <1>1, <1>2, <1>3, NothingPaidYet DEF PaidIsNoted
<1> QED BY <1>1, <1>3, <1>4, RoleOnce

(* A crash that meets no role after an expense leaves nothing half done.   *)
LEMMA CrashOnce ==
  ASSUME PurchaseInv, OnceInv, Crash, ~torn'
  PROVE  OnceInv'
<1>1. /\ \A w \in Workers : worker'[w].does = "idle"
      /\ paid' = paid /\ bought' = bought
  BY DEF Crash, Idle, database
<1>2. \A w \in Workers : worker[w].does # "book"
  BY Zenon DEF Crash
<1>3. paid # NotPaid => (\E c \in 1..MaxRequests : paid = PaidOnly(c)) /\ bought
  BY <1>2 DEF OnceInv, PaidIsNoted
<1> QED BY <1>1, <1>3 DEF OnceInv, OneRole, PaidIsNoted, RoleSteps

LEMMA OnceKeeps == PurchaseInv /\ OnceInv /\ [Next]_vars /\ ~torn' => OnceInv'
<1> SUFFICES ASSUME PurchaseInv, OnceInv, [Next]_vars, ~torn' PROVE OnceInv'
  OBVIOUS
<1>1. CASE UNCHANGED <<worker, paid, bought>>
  BY <1>1 DEF OnceInv, OneRole, PaidIsNoted
<1>2. StartTick \/ SkipFrozen \/ TimeOut \/ LatePumps \/ EndTick \/ Purge \/ UNCHANGED vars
        => UNCHANGED <<worker, paid, bought>>
  BY DEF StartTick, SkipFrozen, TimeOut, LatePumps, EndTick, Purge, vars, database, heartbeat
<1>3. ASSUME NEW a \in Notified, Notify(a) PROVE UNCHANGED <<worker, paid, bought>>
  BY <1>3 DEF Notify, heartbeat
<1>4. ASSUME NEW i \in Requeueable(messages), RequeueRow(i)
      PROVE  UNCHANGED <<worker, paid, bought>>
  BY <1>4 DEF RequeueRow, heartbeat
<1>5. ASSUME NEW w \in Workers, Pump(w) \/ HandlerRaises(w) PROVE OnceInv'
  BY <1>5, PumpStepOnce
<1>6. ASSUME NEW w \in Workers, Role(w) PROVE OnceInv'
  BY <1>6, RoleStepOnce
<1> QED BY <1>1, <1>2, <1>3, <1>4, <1>5, <1>6, CallOnce, RaiseOnce, CrashOnce DEF Next

(* What holds until the purchase is torn.                                  *)
Once == torn \in BOOLEAN /\ (~torn => OnceInv)

(* Whatever hangs, raises or dies: until the purchase is torn, roles run   *)
(* one at a time, and a payment is recorded before another role reads what *)
(* was bought.                                                             *)
THEOREM OnceInvariant == Spec => []Once
<1>1. Init => Once
  BY OnceInit DEF Init, Once
<1>2. PurchaseInv /\ Once /\ [Next]_vars => Once'
  <2> SUFFICES ASSUME PurchaseInv, Once, [Next]_vars PROVE Once'
    OBVIOUS
  <2>1. torn' \in BOOLEAN /\ (torn => torn')
    BY TornStays DEF Once
  <2>2. ~torn' => OnceInv'
    BY <2>1, OnceKeeps DEF Once
  <2> QED BY <2>1, <2>2 DEF Once
<1> QED BY <1>1, <1>2, PurchaseInvariant, PTL DEF Spec

(* The firm pays for its server once, unless a role is lost between the    *)
(* expense and its mark or begins beside another: any number of requests   *)
(* is decided, but the second purchase finds the first one recorded.       *)
THEOREM ServerIsBoughtOnce == Spec => []BoughtOnce
<1>1. PurchaseInv /\ Once => BoughtOnce
  <2> SUFFICES ASSUME PurchaseInv, OnceInv PROVE SumTo(paid, MaxRequests) <= 1
    BY DEF Once, BoughtOnce
  <2>1. MaxRequests \in Nat
    BY PurchaseAssumption
  <2>2. SumTo(NotPaid, MaxRequests) = 0
    BY <2>1, SumToZeros DEF NotPaid
  <2>3. CASE paid = NotPaid
    BY <2>2, <2>3
  <2>4. CASE paid # NotPaid
    <3>1. PICK c \in 1..MaxRequests : paid = PaidOnly(c)
      BY <2>4 DEF OnceInv, PaidIsNoted
    <3>2. Summable(NotPaid, MaxRequests) /\ Summable(PaidOnly(c), MaxRequests)
          /\ \A i \in 1..MaxRequests : i # c => PaidOnly(c)[i] = NotPaid[i]
      BY DEF Summable, PaidOnly, NotPaid
    <3>3. SumTo(PaidOnly(c), MaxRequests) =
            SumTo(NotPaid, MaxRequests)
              + (IF c \in 1..MaxRequests THEN PaidOnly(c)[c] - NotPaid[c] ELSE 0)
      BY <2>1, <3>2, SumToUpdate
    <3>4. (IF c \in 1..MaxRequests THEN PaidOnly(c)[c] - NotPaid[c] ELSE 0) = 1
      <4>1. PaidOnly(c)[c] = 1 /\ NotPaid[c] = 0
        BY DEF PaidOnly, NotPaid
      <4>2. PaidOnly(c)[c] - NotPaid[c] = 1
        BY <4>1
      <4> QED BY <4>2
    <3>5. SumTo(PaidOnly(c), MaxRequests) = 0 + 1
      BY <2>2, <3>3, <3>4
    <3>6. SumTo(paid, MaxRequests) = 1
      BY <3>1, <3>5
    <3> QED BY <3>6
  <2> QED BY <2>3, <2>4
<1>2. Spec => []PurchaseInv
  BY PurchaseInvariant
<1>3. Spec => []Once
  BY OnceInvariant
<1> QED BY <1>1, <1>2, <1>3, PTL

-----------------------------------------------------------------------------
(* The purchase does what Approval promises.                               *)

(* Every step is one of Approval's, or changes nothing that it sees.       *)
LEMMA PromiseStep ==
  ASSUME PurchaseInv, PurchaseInv', Once, [Next]_vars
  PROVE  [Promise!Next]_(Promise!vars)
<1>1. CASE UNCHANGED <<requests, cast, paid, torn>>
  BY <1>1 DEF Promise!vars
<1>2. StartTick \/ SkipFrozen \/ TimeOut \/ LatePumps \/ EndTick \/ Purge
        \/ UNCHANGED vars => UNCHANGED <<requests, cast, paid, torn>>
  BY DEF StartTick, SkipFrozen, TimeOut, LatePumps, EndTick, Purge, vars,
         database, counters, history
<1>10. ASSUME CallNext \/ Crash \/ \E w \in Workers : RoleRaises(w)
       PROVE  [Promise!Next]_(Promise!vars)
  <2>1. UNCHANGED <<requests, cast, paid>>
    BY <1>10 DEF CallNext, Crash, RoleRaises, database, counters
  <2>2. torn \in BOOLEAN /\ torn' \in BOOLEAN /\ (torn => torn')
    BY TornStays DEF Once
  <2>3. CASE torn' = torn
    BY <2>1, <2>3 DEF Promise!vars
  <2>4. CASE torn' # torn
    <3>1. torn' = TRUE
      BY <2>2, <2>4
    <3>2. Promise!Tear
      BY <2>1, <3>1 DEF Promise!Tear
    <3> QED BY <3>2 DEF Promise!Next
  <2> QED BY <2>3, <2>4
<1>3. ASSUME NEW a \in Notified, Notify(a) PROVE UNCHANGED <<requests, cast, paid, torn>>
  BY <1>3 DEF Notify, history
<1>4. ASSUME NEW i \in Requeueable(messages), RequeueRow(i)
      PROVE  UNCHANGED <<requests, cast, paid, torn>>
  BY <1>4 DEF RequeueRow, history
<1>5. ASSUME NEW w \in Workers,
             ListInbox(w) \/ Receive(w) \/ AckAnswered(w) \/ HandlerRaises(w)
             \/ Refrain(w) \/ Consider(w) \/ NoteRequest(w) \/ ReadVotes(w) \/ GiveUpOrWait(w)
             \/ MarkBought(w) \/ ClearQuorum(w)
      PROVE  UNCHANGED <<requests, cast, paid, torn>>
  BY <1>5 DEF ListInbox, Receive, AckAnswered, HandlerRaises, Refrain, Consider,
              NoteRequest, ReadVotes, GiveUpOrWait, MarkBought, ClearQuorum, PumpUnchanged,
              RoleUnchanged, database, history
<1>6. ASSUME NEW w \in Workers, AnswerVote(w) PROVE Promise!Next
  <2>1. Working /\ AllMailed(messages, requests, cast) /\ requests \in Nat /\ MaxRequests \in Nat
        /\ requests <= MaxRequests
    <3>1. worker \in [Workers -> Thread] /\ worker' = [worker EXCEPT ![w] = worker'[w]]
      BY <1>6 DEF PurchaseInv, Working, AnswerVote, Goto
    <3>2. Cardinality(Asking(worker)) \in Nat
      BY <3>1, AskingStep
    <3> QED BY <3>2, PurchaseAssumption DEF PurchaseInv, Counted
  <2>2. Current(w) \in DOMAIN messages /\ Mail(w).recipient = worker[w].agent
        /\ ExpectsReply(Mail(w))
    BY <1>6, <2>1, CurrentRow DEF AnswerVote
  <2>3. Mail(w).corr \in 1..requests /\ worker[w].agent \in Seats
    BY <2>1, <2>2 DEF AllMailed, Mailed, Mail
  <2>4. PICK vote \in {"yes", "no"} :
          cast' = cast \cup {[corr |-> Mail(w).corr, seat |-> worker[w].agent, vote |-> vote]}
    BY <1>6 DEF AnswerVote, YesNo
  <2>5. requests' = requests /\ paid' = paid /\ torn' = torn
    BY <1>6 DEF AnswerVote, PumpUnchanged
  <2>6. Mail(w).corr \in 1..MaxRequests /\ Mail(w).corr <= requests
    BY <2>1, <2>3
  <2>7. Promise!Say(Mail(w).corr, worker[w].agent, vote)
    BY <2>4, <2>5, <2>6 DEF Promise!Say
  <2> QED BY <2>3, <2>4, <2>6, <2>7 DEF Promise!Next, Promise!Requests
<1>7. ASSUME NEW w \in Workers, AskSeats(w) PROVE Promise!Next
  <2>1. requests' = requests + 1 /\ cast' = cast /\ paid' = paid /\ worker[w].does = "ask"
        /\ torn' = torn
    BY <1>7 DEF AskSeats, history
  <2>2. torn \/ paid = NotPaid
    BY <2>1 DEF Once, OnceInv, PaidIsNoted
  <2>3. requests < MaxRequests
    <3>1. worker \in [Workers -> Thread]
          /\ worker' = [worker EXCEPT ![w] =
               [worker[w] EXCEPT !.does = "note", !.corr = requests + 1]]
      BY <1>7 DEF PurchaseInv, Working, AskSeats
    <3>2. Cardinality(Asking(worker')) \in Nat
      BY <3>1, AskingStep
    <3>3. requests' + Cardinality(Asking(worker')) <= MaxRequests
          /\ requests \in Nat /\ MaxRequests \in Nat
      BY PurchaseAssumption DEF PurchaseInv, Counted
    <3> QED BY <2>1, <3>2, <3>3
  <2>4. Promise!Ask
    BY <2>1, <2>2, <2>3 DEF Promise!Ask, Promise!Nothing, Promise!Requests, NotPaid
  <2> QED BY <2>4 DEF Promise!Next
<1>8. ASSUME NEW w \in Workers, Decide(w), paid' # paid PROVE Promise!Next
  <2> DEFINE votes == worker[w].votes
             corr  == worker[w].corr
  <2>1. worker[w].does = "decide" /\ requests' = requests /\ cast' = cast /\ torn' = torn
    BY <1>8 DEF Decide, RoleUnchanged, history
  <2>2. Approves(votes) /\ ~bought /\ paid' = [paid EXCEPT ![corr] = @ + 1]
    BY <1>8 DEF Decide
  <2>3. torn \/ paid = NotPaid
    BY <2>1, <2>2, NothingPaidYet DEF RoleSteps, Once
  <2>4. ThreadOK(worker[w], messages, requests, cast) /\ requests \in Nat /\ MaxRequests \in Nat
    BY PurchaseAssumption DEF PurchaseInv, Working, Counted
  <2>5. /\ corr \in 1..requests /\ corr \in 0..MaxRequests
        /\ \A s \in Seats : [corr |-> corr, seat |-> s, vote |-> votes[s]] \in cast
    BY <2>1, <2>4 DEF ThreadOK, Thread
  <2>6. corr \in 1..MaxRequests
    BY <2>4, <2>5
  <2> HIDE DEF votes, corr
  <2>9. \A s \in Seats : Promise!Heard(corr, s)
    <3> TAKE s \in Seats
    <3>1. [corr |-> corr, seat |-> s, vote |-> votes[s]] \in cast
      BY <2>5
    <3> QED BY <3>1 DEF Promise!Heard
  <2>10. Promise!Approved(corr, "treasurer") /\ Promise!Approved(corr, "director")
    <3>1. [corr |-> corr, seat |-> "treasurer", vote |-> "yes"] \in cast
          /\ [corr |-> corr, seat |-> "director", vote |-> "yes"] \in cast
      BY <2>2, <2>5 DEF Approves, Seats
    <3> QED BY <3>1 DEF Promise!Approved
  <2>11. Promise!Buy(corr)
    BY <2>1, <2>2, <2>3, <2>9, <2>10
       DEF Promise!Buy, Promise!Nothing, Promise!Requests, NotPaid
  <2> QED BY <2>6, <2>11 DEF Promise!Next, Promise!Requests
<1>9. ASSUME NEW w \in Workers, Decide(w), paid' = paid PROVE UNCHANGED <<requests, cast, paid, torn>>
  BY <1>9 DEF Decide, RoleUnchanged, history
<1> QED BY <1>1, <1>2, <1>3, <1>4, <1>5, <1>6, <1>7, <1>8, <1>9, <1>10 DEF Next, Pump, Role

(* Purchases go as Approval says, whatever goes wrong: each seat speaks    *)
(* only to requests that were made, and money is only spent on a request   *)
(* that all have spoken to and two have said yes to; until a role is torn, *)
(* once, and nobody is asked again afterwards.                             *)
THEOREM PurchaseKeepsPromise == Spec => KeepsPromise
<1>1. Init => Promise!Init
  BY DEF Init, Promise!Init, Promise!Nothing, Promise!Requests
<1>2. PurchaseInv /\ PurchaseInv' /\ Once /\ [Next]_vars => [Promise!Next]_(Promise!vars)
  BY PromiseStep
<1> QED BY <1>1, <1>2, OnceInvariant, PurchaseInvariant, PTL DEF Spec, KeepsPromise, Promise!Spec

-----------------------------------------------------------------------------
(* One attempt per tick.  As long as no pump hangs, one thread pumps at a  *)
(* time, and every agent is pumped once in a tick: with the others, when   *)
(* it had mail as the tick began, or else after them.                      *)

PumpsReturn == "pump_hangs" \notin Faults

PumpSteps == {"list", "handle", "ack"}
PumpAgents(calls) == {calls[k].agent : k \in {j \in DOMAIN calls : calls[j].does = "pump"}}
PumpedOnce(calls) ==
  \A j, k \in DOMAIN calls :
    j < k /\ calls[j].does = "pump" /\ calls[k].does = "pump" => calls[j].agent # calls[k].agent
(* Agents whose pump has had a failure in this tick.                       *)
Tried == {messages[i].recipient : i \in failed}

OnePump == \A w \in Workers : worker[w].does \in PumpSteps => waiting = w
AgendaFresh ==
  /\ PumpedOnce(agenda)
  /\ PumpAgents(agenda) \cap Tried = {}
  /\ phase = "pipeline" => PumpAgents(agenda) \cup Tried \subseteq snapshot
  /\ phase = "idle" => agenda = <<>>
Fresh(t) ==
  t.does \in PumpSteps =>
    /\ phase # "idle"
    /\ t.agent \notin PumpAgents(agenda)
    /\ phase = "pipeline" => t.agent \in snapshot
    /\ t.does = "list" => t.agent \notin Tried
    /\ \A k \in DOMAIN t.todo : t.todo[k] \notin failed
    /\ \A j, k \in DOMAIN t.todo : j # k => t.todo[j] # t.todo[k]
FreshInv ==
  /\ OnePump
  /\ failed \subseteq DOMAIN messages
  /\ AgendaFresh
  /\ \A w \in Workers : Fresh(worker[w])

(* Agendas that are put together.                                          *)
LEMMA ConcatPumps ==
  ASSUME NEW s \in Seq(Call), NEW t \in Seq(Call)
  PROVE  /\ s \o t \in Seq(Call)
         /\ PumpAgents(s \o t) = PumpAgents(s) \cup PumpAgents(t)
         /\ PumpedOnce(s) /\ PumpedOnce(t) /\ PumpAgents(s) \cap PumpAgents(t) = {}
              => PumpedOnce(s \o t)
<1> DEFINE st == s \o t
<1>1. st \in Seq(Call) /\ Len(st) = Len(s) + Len(t)
      /\ \A i \in 1..(Len(s) + Len(t)) : st[i] = IF i <= Len(s) THEN s[i] ELSE t[i - Len(s)]
  BY ConcatProperties
<1>2. DOMAIN s = 1..Len(s) /\ DOMAIN t = 1..Len(t) /\ DOMAIN st = 1..(Len(s) + Len(t))
      /\ Len(s) \in Nat /\ Len(t) \in Nat
  BY <1>1
<1> HIDE DEF st
<1>3. \A i \in DOMAIN s : i \in DOMAIN st /\ st[i] = s[i]
  BY <1>1, <1>2
<1>4. \A i \in DOMAIN t : i + Len(s) \in DOMAIN st /\ st[i + Len(s)] = t[i]
  <2> TAKE i \in DOMAIN t
  <2>1. i \in Nat /\ i + Len(s) \in 1..(Len(s) + Len(t)) /\ ~(i + Len(s) <= Len(s))
        /\ i + Len(s) - Len(s) = i
    BY <1>2
  <2> QED BY <1>1, <1>2, <2>1
<1>5. \A i \in DOMAIN st : \/ i \in DOMAIN s /\ st[i] = s[i]
                           \/ i - Len(s) \in DOMAIN t /\ st[i] = t[i - Len(s)] /\ i > Len(s)
  BY <1>1, <1>2
<1>6. PumpAgents(st) = PumpAgents(s) \cup PumpAgents(t)
  <2>1. PumpAgents(st) \subseteq PumpAgents(s) \cup PumpAgents(t)
    BY <1>5 DEF PumpAgents
  <2>2. PumpAgents(s) \subseteq PumpAgents(st)
    BY <1>3 DEF PumpAgents
  <2>3. PumpAgents(t) \subseteq PumpAgents(st)
    <3> SUFFICES ASSUME NEW i \in DOMAIN t, t[i].does = "pump" PROVE t[i].agent \in PumpAgents(st)
      BY DEF PumpAgents
    <3>1. i + Len(s) \in DOMAIN st /\ st[i + Len(s)] = t[i]
      BY <1>4
    <3> QED BY <3>1 DEF PumpAgents
  <2> QED BY <2>1, <2>2, <2>3
<1>7. ASSUME PumpedOnce(s), PumpedOnce(t), PumpAgents(s) \cap PumpAgents(t) = {}
      PROVE  PumpedOnce(st)
  <2> SUFFICES ASSUME NEW j \in DOMAIN st, NEW k \in DOMAIN st, j < k,
                      st[j].does = "pump", st[k].does = "pump"
               PROVE  st[j].agent # st[k].agent
    BY DEF PumpedOnce
  <2>1. CASE j \in DOMAIN s /\ k \in DOMAIN s
    BY <1>3, <1>7, <2>1 DEF PumpedOnce
  <2>2. CASE j \in DOMAIN s /\ k \notin DOMAIN s
    <3>1. st[j].agent \in PumpAgents(s)
      BY <1>3, <2>2 DEF PumpAgents
    <3>2. k - Len(s) \in DOMAIN t /\ st[k] = t[k - Len(s)]
      BY <1>5, <2>2
    <3>3. st[k].agent \in PumpAgents(t)
      BY <3>2 DEF PumpAgents
    <3> QED BY <1>7, <3>1, <3>3
  <2>3. CASE j \notin DOMAIN s
    <3>1. /\ j - Len(s) \in DOMAIN t /\ st[j] = t[j - Len(s)] /\ j > Len(s)
          /\ k \in Nat /\ j \in Nat /\ k \notin DOMAIN s
      BY <1>2, <1>5, <2>3
    <3>2. k - Len(s) \in DOMAIN t /\ st[k] = t[k - Len(s)]
      BY <1>5, <3>1
    <3>3. j - Len(s) < k - Len(s)
      BY <1>2, <3>1
    <3> QED BY <1>7, <3>1, <3>2, <3>3 DEF PumpedOnce
  <2> QED BY <2>1, <2>2, <2>3
<1> QED BY <1>1, <1>6, <1>7 DEF st

LEMMA CallPumps ==
  ASSUME NEW a \in Agents, NEW agents
  PROVE  /\ PumpOf(a, agents) \in Seq(Call) /\ RoleOf(a) \in Seq(Call)
         /\ PumpAgents(PumpOf(a, agents)) = agents \cap {a} /\ PumpAgents(RoleOf(a)) = {}
         /\ PumpedOnce(PumpOf(a, agents)) /\ PumpedOnce(RoleOf(a))
<1> DEFINE pump == [agent |-> a, does |-> "pump"]
           role == [agent |-> a, does |-> "role"]
<1>1. pump \in Call /\ role \in Call
  BY DEF Call
<1>2. \A x \in Call : <<x>> \in Seq(Call) /\ DOMAIN <<x>> = {1} /\ <<x>>[1] = x
  OBVIOUS
<1>3. <<>> \in Seq(Call) /\ DOMAIN <<>> = {}
  OBVIOUS
<1>4. \A x \in Call : PumpedOnce(<<x>>)
  BY <1>2 DEF PumpedOnce
<1>5. PumpedOnce(<<>>) /\ PumpAgents(<<>>) = {}
  BY <1>3 DEF PumpedOnce, PumpAgents
<1>6. PumpAgents(<<pump>>) = {a} /\ PumpAgents(<<role>>) = {}
  BY <1>1, <1>2 DEF PumpAgents
<1> QED BY <1>1, <1>2, <1>3, <1>4, <1>5, <1>6 DEF PumpOf, RoleOf

(* An agenda pumps each of the agents it is made for, once.                *)
LEMMA AgendaPumps ==
  ASSUME NEW agents
  PROVE  /\ PumpedOnce(Agenda(agents)) /\ PumpAgents(Agenda(agents)) \subseteq agents
         /\ PumpedOnce(Pumps(agents)) /\ PumpAgents(Pumps(agents)) \subseteq agents
<1> DEFINE p(i) == PumpOf(Pipeline[i], agents)
           c(i) == PumpOf(Pipeline[i], agents) \o RoleOf(Pipeline[i])
           Fits(s, A) == s \in Seq(Call) /\ PumpedOnce(s) /\ PumpAgents(s) = agents \cap A
<1>1. Pipeline[1] = "risk" /\ Pipeline[2] = "director"
      /\ Pipeline[3] = "operator" /\ Pipeline[4] = "treasurer"
  BY DEF Pipeline
<1>2. \A i \in 1..4 : Pipeline[i] \in Agents
  BY DEF Pipeline, Agents, Seats
<1>3. ASSUME NEW i \in 1..4 PROVE Fits(p(i), {Pipeline[i]}) /\ Fits(c(i), {Pipeline[i]})
  <2>1. Fits(p(i), {Pipeline[i]}) /\ Fits(RoleOf(Pipeline[i]), {})
    BY <1>2, CallPumps
  <2> HIDE DEF p
  <2>2. c(i) = p(i) \o RoleOf(Pipeline[i])
    BY DEF p
  <2>3. c(i) \in Seq(Call) /\ PumpAgents(c(i)) = agents \cap {Pipeline[i]} /\ PumpedOnce(c(i))
    BY <2>1, <2>2, ConcatPumps
  <2> QED BY <2>1, <2>3
<1>4. ASSUME NEW s, NEW t, NEW A, NEW B, Fits(s, A), Fits(t, B), A \cap B = {}
      PROVE  Fits(s \o t, A \cup B)
  BY <1>4, ConcatPumps
<1> HIDE DEF Fits, p, c
<1>5. Fits(p(1) \o p(2) \o p(3) \o p(4), {"risk", "director", "operator", "treasurer"})
  <2>1. Fits(p(1), {"risk"}) /\ Fits(p(2), {"director"}) /\ Fits(p(3), {"operator"})
        /\ Fits(p(4), {"treasurer"})
    BY <1>1, <1>3
  <2>2. Fits(p(1) \o p(2), {"risk"} \cup {"director"})
    BY <1>4, <2>1
  <2>3. Fits(p(1) \o p(2) \o p(3), ({"risk"} \cup {"director"}) \cup {"operator"})
    BY <1>4, <2>1, <2>2
  <2>4. Fits(p(1) \o p(2) \o p(3) \o p(4),
             (({"risk"} \cup {"director"}) \cup {"operator"}) \cup {"treasurer"})
    BY <1>4, <2>1, <2>3
  <2>5. (({"risk"} \cup {"director"}) \cup {"operator"}) \cup {"treasurer"}
          = {"risk", "director", "operator", "treasurer"}
    OBVIOUS
  <2> QED BY <2>4, <2>5
<1>6. Fits(c(1) \o c(2) \o c(3) \o c(4), {"risk", "director", "operator", "treasurer"})
  <2>1. Fits(c(1), {"risk"}) /\ Fits(c(2), {"director"}) /\ Fits(c(3), {"operator"})
        /\ Fits(c(4), {"treasurer"})
    BY <1>1, <1>3
  <2>2. Fits(c(1) \o c(2), {"risk"} \cup {"director"})
    BY <1>4, <2>1
  <2>3. Fits(c(1) \o c(2) \o c(3), ({"risk"} \cup {"director"}) \cup {"operator"})
    BY <1>4, <2>1, <2>2
  <2>4. Fits(c(1) \o c(2) \o c(3) \o c(4),
             (({"risk"} \cup {"director"}) \cup {"operator"}) \cup {"treasurer"})
    BY <1>4, <2>1, <2>3
  <2>5. (({"risk"} \cup {"director"}) \cup {"operator"}) \cup {"treasurer"}
          = {"risk", "director", "operator", "treasurer"}
    OBVIOUS
  <2> QED BY <2>4, <2>5
<1>7. Pumps(agents) = p(1) \o p(2) \o p(3) \o p(4)
  BY DEF Pumps, p
<1>8. Agenda(agents) = c(1) \o c(2) \o c(3) \o c(4)
  BY DEF Agenda, c
<1> QED BY <1>5, <1>6, <1>7, <1>8 DEF Fits

(* What is left of an agenda pumps no one else.                            *)
LEMMA TailPumps ==
  ASSUME NEW calls \in Seq(Call), calls # <<>>
  PROVE  /\ Tail(calls) \in Seq(Call)
         /\ PumpAgents(Tail(calls)) \subseteq PumpAgents(calls)
         /\ PumpedOnce(calls) => PumpedOnce(Tail(calls))
         /\ PumpedOnce(calls) /\ Head(calls).does = "pump" =>
              Head(calls).agent \notin PumpAgents(Tail(calls))
         /\ Head(calls).does = "pump" => Head(calls).agent \in PumpAgents(calls)
<1> DEFINE rest == Tail(calls)
<1>1. rest \in Seq(Call) /\ 1 \in DOMAIN calls /\ Head(calls) = calls[1]
      /\ \A k \in DOMAIN rest :
           k + 1 \in DOMAIN calls /\ rest[k] = calls[k + 1] /\ k \in Nat /\ k >= 1
  OBVIOUS
<1> HIDE DEF rest
<1>2. PumpAgents(rest) \subseteq PumpAgents(calls)
  <2> SUFFICES ASSUME NEW k \in DOMAIN rest, rest[k].does = "pump"
               PROVE  rest[k].agent \in PumpAgents(calls)
    BY DEF PumpAgents
  <2> QED BY <1>1 DEF PumpAgents
<1>3. PumpedOnce(calls) => PumpedOnce(rest)
  <2> SUFFICES ASSUME PumpedOnce(calls), NEW j \in DOMAIN rest, NEW k \in DOMAIN rest, j < k,
                      rest[j].does = "pump", rest[k].does = "pump"
               PROVE  rest[j].agent # rest[k].agent
    BY DEF PumpedOnce
  <2>1. j + 1 < k + 1 /\ j + 1 \in DOMAIN calls /\ k + 1 \in DOMAIN calls
        /\ rest[j] = calls[j + 1] /\ rest[k] = calls[k + 1]
    BY <1>1
  <2> QED BY <2>1 DEF PumpedOnce
<1>4. PumpedOnce(calls) /\ Head(calls).does = "pump" => Head(calls).agent \notin PumpAgents(rest)
  <2> SUFFICES ASSUME PumpedOnce(calls), calls[1].does = "pump",
                      NEW k \in DOMAIN rest, rest[k].does = "pump"
               PROVE  rest[k].agent # calls[1].agent
    BY <1>1 DEF PumpAgents
  <2>1. 1 < k + 1 /\ k + 1 \in DOMAIN calls /\ rest[k] = calls[k + 1] /\ 1 \in DOMAIN calls
    BY <1>1
  <2> QED BY <2>1 DEF PumpedOnce
<1>5. Head(calls).does = "pump" => Head(calls).agent \in PumpAgents(calls)
  BY <1>1 DEF PumpAgents
<1> QED BY <1>1, <1>2, <1>3, <1>4, <1>5 DEF rest

(* The heartbeat waits for the thread as it did, or was waiting for w and  *)
(* w is done.                                                              *)
Follows(w) == waiting' = waiting \/ (waiting = w /\ waiting' = Nobody)

LEMMA TriedStays ==
  ASSUME failed \subseteq DOMAIN messages, Evolves(messages, messages'), failed' = failed
  PROVE  Tried' = Tried /\ failed' \subseteq DOMAIN messages'
BY DEF Tried, Evolves, SameMail

(* A thread moves on and nothing has failed.                               *)
LEMMA ThreadFresh ==
  ASSUME FreshInv, worker \in [Workers -> Thread], Evolves(messages, messages'),
         UNCHANGED <<phase, agenda, snapshot, failed>>,
         NEW w \in Workers, NEW t, worker' = [worker EXCEPT ![w] = t], Follows(w),
         t.does \in PumpSteps => waiting' = w /\ Fresh(t)
  PROVE  FreshInv'
<1>1. Tried' = Tried /\ failed' \subseteq DOMAIN messages'
  BY TriedStays DEF FreshInv
<1>2. \A v \in Workers : worker'[v] = IF v = w THEN t ELSE worker[v]
  OBVIOUS
<1>3. OnePump'
  BY <1>2 DEF FreshInv, OnePump, Follows
<1>4. AgendaFresh'
  BY <1>1 DEF FreshInv, AgendaFresh
<1>5. ASSUME NEW v \in Workers PROVE Fresh(worker[v])'
  <2>1. worker'[v].does \in PumpSteps => Fresh(worker'[v])
    BY <1>2 DEF FreshInv
  <2>2. phase' = phase /\ agenda' = agenda /\ snapshot' = snapshot /\ failed' = failed
    OBVIOUS
  <2> QED BY <1>1, <2>1, <2>2 DEF Fresh
<1> QED BY <1>1, <1>3, <1>4, <1>5 DEF FreshInv

(* Nothing moves but the table.                                            *)
LEMMA TableFresh ==
  ASSUME FreshInv, Evolves(messages, messages'),
         UNCHANGED <<phase, agenda, snapshot, failed, worker, waiting>>
  PROVE  FreshInv'
<1>1. Tried' = Tried /\ failed' \subseteq DOMAIN messages'
  BY TriedStays DEF FreshInv
<1>2. OnePump' /\ AgendaFresh'
  BY <1>1 DEF FreshInv, OnePump, AgendaFresh
<1>3. ASSUME NEW v \in Workers PROVE Fresh(worker[v])'
  <2>1. Fresh(worker[v])
    BY DEF FreshInv
  <2> QED BY <1>1, <2>1 DEF Fresh
<1> QED BY <1>1, <1>2, <1>3 DEF FreshInv

(* No pump is running: the heartbeat turns to something else.              *)
LEMMA HeartFresh ==
  ASSUME failed' \subseteq DOMAIN messages', AgendaFresh',
         \A w \in Workers : worker'[w].does \notin PumpSteps
  PROVE  FreshInv'
BY DEF FreshInv, OnePump, Fresh

LEMMA NoPumpWhenNobody ==
  ASSUME FreshInv, waiting = Nobody
  PROVE  \A w \in Workers : worker[w].does \notin PumpSteps
BY PurchaseAssumption DEF FreshInv, OnePump, Nobody

LEMMA ContinueMoves ==
  ASSUME worker \in [Workers -> Thread], NEW w \in Workers, NEW todo \in Seq(Nat),
         Continue(w, todo)
  PROVE  \E t : /\ worker' = [worker EXCEPT ![w] = t] /\ Follows(w)
                /\ \/ t.does = "idle"
                   \/ /\ t.does = "handle" /\ t.todo = todo /\ t.agent = worker[w].agent
                      /\ waiting' = waiting
<1>1. CASE todo = <<>>
  <2>1. worker' = [worker EXCEPT ![w] = Idle] /\ Follows(w) /\ Idle.does = "idle"
    BY <1>1 DEF Continue, Finish, Follows, Idle
  <2> QED BY <2>1
<1>2. CASE todo # <<>>
  <2> DEFINE t == [worker[w] EXCEPT !.does = "handle", !.todo = todo]
  <2>1. worker' = [worker EXCEPT ![w] = t] /\ waiting' = waiting
    BY <1>2 DEF Continue
  <2>2. t.does = "handle" /\ t.todo = todo /\ t.agent = worker[w].agent
    BY DEF Thread
  <2> HIDE DEF t
  <2> QED BY <2>1, <2>2 DEF Follows
<1> QED BY <1>1, <1>2

(* Rows of one listing are different rows.                                 *)
LEMMA InboxDistinct ==
  ASSUME NEW M, NEW a, NEW rows \in Inbox(M, a)
  PROVE  \A j, k \in DOMAIN rows : j # k => rows[j] # rows[k]
BY DEF Inbox, SetToSeqs

LEMMA ListInboxFresh ==
  ASSUME PurchaseInv, FreshInv, NEW w \in Workers, ListInbox(w)
  PROVE  FreshInv'
<1>1. worker \in [Workers -> Thread] /\ AllMailed(messages, requests, cast)
      /\ worker[w].does = "list"
  BY DEF PurchaseInv, Working, ListInbox
<1>2. PICK todo \in Inbox(messages, worker[w].agent) : Continue(w, todo)
  BY DEF ListInbox
<1>3. /\ todo \in Seq(Nat)
      /\ \A k \in DOMAIN todo : messages[todo[k]].recipient = worker[w].agent
      /\ \A j, k \in DOMAIN todo : j # k => todo[j] # todo[k]
  BY <1>1, InboxType, InboxDistinct
<1>4. PICK t : /\ worker' = [worker EXCEPT ![w] = t] /\ Follows(w)
               /\ \/ t.does = "idle"
                  \/ /\ t.does = "handle" /\ t.todo = todo /\ t.agent = worker[w].agent
                     /\ waiting' = waiting
  BY <1>1, <1>2, <1>3, ContinueMoves
<1>5. /\ Evolves(messages, messages') /\ UNCHANGED <<phase, agenda, snapshot, failed>>
  BY DEF ListInbox, PumpUnchanged, history, Evolves, SameMail
<1>6. Fresh(worker[w]) /\ waiting = w
  BY <1>1 DEF FreshInv, OnePump, PumpSteps
<1>7. worker[w].agent \notin Tried
  BY <1>1, <1>6 DEF Fresh, PumpSteps
<1>8. \A k \in DOMAIN todo : todo[k] \notin failed
  BY <1>3, <1>7 DEF Tried
<1>9. t.does \in PumpSteps => waiting' = w /\ Fresh(t)
  BY <1>1, <1>3, <1>4, <1>6, <1>8 DEF Fresh, PumpSteps
<1> QED BY <1>1, <1>4, <1>5, <1>9, ThreadFresh

(* The messages behind the current one are others, and have not failed.    *)
LEMMA RestIsFresh ==
  ASSUME PurchaseInv, FreshInv, NEW w \in Workers, worker[w].does \in {"handle", "ack"}
  PROVE  LET rest == Tail(worker[w].todo)
         IN  /\ rest \in Seq(Nat)
             /\ \A k \in DOMAIN rest : rest[k] \notin failed \cup {Current(w)}
             /\ \A j, k \in DOMAIN rest : j # k => rest[j] # rest[k]
<1> DEFINE todo == worker[w].todo
           rest == Tail(todo)
<1>1. todo \in Seq(Nat) /\ todo # <<>>
  BY CurrentRow DEF PurchaseInv
<1>2. /\ \A k \in DOMAIN todo : todo[k] \notin failed
      /\ \A j, k \in DOMAIN todo : j # k => todo[j] # todo[k]
  BY DEF FreshInv, Fresh, PumpSteps
<1>3. Current(w) = Head(todo)
  BY DEF Current
<1> HIDE DEF todo
<1>4. /\ rest \in Seq(Nat) /\ 1 \in DOMAIN todo /\ Head(todo) = todo[1]
      /\ \A k \in DOMAIN rest :
           k + 1 \in DOMAIN todo /\ rest[k] = todo[k + 1] /\ k \in Nat /\ k + 1 # 1
  BY <1>1
<1> HIDE DEF rest
<1>5. \A j, k \in DOMAIN rest : j # k => j + 1 # k + 1
  BY <1>4
<1> QED BY <1>2, <1>3, <1>4, <1>5 DEF todo, rest

LEMMA DealtWithFresh ==
  ASSUME PurchaseInv, FreshInv, NEW w \in Workers, Receive(w) \/ AckAnswered(w)
  PROVE  FreshInv'
<1>1. worker \in [Workers -> Thread] /\ worker[w].does \in {"handle", "ack"}
      /\ AllMailed(messages, requests, cast) /\ Working
  BY DEF PurchaseInv, Working, Receive, AckAnswered
<1>2. Continue(w, Tail(worker[w].todo)) /\ messages' = Ack(messages, Current(w))
      /\ UNCHANGED <<phase, agenda, snapshot, failed>>
  BY DEF Receive, AckAnswered, PumpUnchanged, history
<1>3. Evolves(messages, messages')
  <2>1. Current(w) \in DOMAIN messages
        /\ (ExpectsReply(messages[Current(w)]) => Answered(messages[Current(w)], cast))
    BY <1>1, CurrentRow DEF Receive, AckAnswered, Mail
  <2> QED BY <1>1, <1>2, <2>1, AckEdits
<1> DEFINE rest == Tail(worker[w].todo)
<1>4. /\ rest \in Seq(Nat)
      /\ \A k \in DOMAIN rest : rest[k] \notin failed
      /\ \A j, k \in DOMAIN rest : j # k => rest[j] # rest[k]
  BY <1>1, RestIsFresh
<1> HIDE DEF rest
<1>5. PICK t : /\ worker' = [worker EXCEPT ![w] = t] /\ Follows(w)
               /\ \/ t.does = "idle"
                  \/ /\ t.does = "handle" /\ t.todo = rest /\ t.agent = worker[w].agent
                     /\ waiting' = waiting
  BY <1>1, <1>2, <1>4, ContinueMoves DEF rest
<1>6. Fresh(worker[w]) /\ waiting = w
  BY <1>1 DEF FreshInv, OnePump, PumpSteps
<1>7. t.does \in PumpSteps => waiting' = w /\ Fresh(t)
  BY <1>1, <1>4, <1>5, <1>6 DEF Fresh, PumpSteps
<1> QED BY <1>1, <1>2, <1>3, <1>5, <1>7, ThreadFresh

LEMMA AnswerVoteFresh ==
  ASSUME PurchaseInv, FreshInv, NEW w \in Workers, AnswerVote(w)
  PROVE  FreshInv'
<1>1. worker \in [Workers -> Thread] /\ worker[w].does = "handle"
      /\ AllMailed(messages, requests, cast)
  BY DEF PurchaseInv, Working, AnswerVote
<1> DEFINE t == [worker[w] EXCEPT !.does = "ack"]
<1>2. worker' = [worker EXCEPT ![w] = t] /\ waiting' = waiting
      /\ UNCHANGED <<phase, agenda, snapshot, failed>>
  BY DEF AnswerVote, Goto, PumpUnchanged
<1>3. t.does = "ack" /\ t.todo = worker[w].todo /\ t.agent = worker[w].agent
  BY <1>1 DEF Thread
<1>4. Evolves(messages, messages')
  <2>1. PICK vote : messages' = Reply(messages, Current(w), vote)
    BY DEF AnswerVote
  <2> DEFINE r == NewRow("vote_request.reply", messages[Current(w)].recipient,
                         messages[Current(w)].sender, messages[Current(w)].corr, Current(w), vote)
  <2>2. messages' = Append(messages, r) /\ messages \in Seq(Row)
    BY <1>1, <2>1 DEF Reply, AllMailed
  <2> HIDE DEF r
  <2> QED BY <2>2 DEF Evolves, SameMail
<1> HIDE DEF t
<1>5. Fresh(worker[w]) /\ waiting = w
  BY <1>1 DEF FreshInv, OnePump, PumpSteps
<1>6. Fresh(t)
  BY <1>1, <1>3, <1>5 DEF Fresh, PumpSteps
<1> QED BY <1>1, <1>2, <1>4, <1>5, <1>6, ThreadFresh DEF Follows

(* The message that failed is out of the thread's reach, and its agent has *)
(* had its turn.                                                           *)
LEMMA HandlerRaisesFresh ==
  ASSUME PurchaseInv, FreshInv, NEW w \in Workers, HandlerRaises(w)
  PROVE  FreshInv' /\ Current(w) \notin failed
<1>1. worker \in [Workers -> Thread] /\ worker[w].does \in {"handle", "ack"}
      /\ AllMailed(messages, requests, cast) /\ Working
  BY DEF PurchaseInv, Working, HandlerRaises
<1>2. /\ Continue(w, Tail(worker[w].todo)) /\ messages' = Fail(messages, Current(w))
      /\ failed' = failed \cup {Current(w)}
      /\ phase' = phase /\ agenda' = agenda /\ snapshot' = snapshot
  BY DEF HandlerRaises, PumpUnchanged
<1>3. Current(w) \in DOMAIN messages /\ messages[Current(w)].recipient = worker[w].agent
      /\ worker[w].todo \in Seq(Nat) /\ worker[w].todo # <<>>
  BY <1>1, CurrentRow DEF Mail
<1>4. Evolves(messages, messages')
  BY <1>1, <1>2, <1>3, FailEdits
<1>5. Fresh(worker[w]) /\ waiting = w
  BY <1>1 DEF FreshInv, OnePump, PumpSteps
<1>6. Current(w) \notin failed
  <2>1. 1 \in DOMAIN worker[w].todo /\ Head(worker[w].todo) = worker[w].todo[1]
    BY <1>3
  <2> QED BY <1>1, <1>5, <2>1 DEF Fresh, PumpSteps, Current
<1>7. failed' \subseteq DOMAIN messages' /\ Tried' = Tried \cup {worker[w].agent}
  BY <1>2, <1>3, <1>4 DEF FreshInv, Tried, Evolves, SameMail
<1> DEFINE rest == Tail(worker[w].todo)
<1>8. /\ rest \in Seq(Nat)
      /\ \A k \in DOMAIN rest : rest[k] \notin failed \cup {Current(w)}
      /\ \A j, k \in DOMAIN rest : j # k => rest[j] # rest[k]
  BY <1>1, RestIsFresh
<1> HIDE DEF rest
<1>9. PICK t : /\ worker' = [worker EXCEPT ![w] = t] /\ Follows(w)
               /\ \/ t.does = "idle"
                  \/ /\ t.does = "handle" /\ t.todo = rest /\ t.agent = worker[w].agent
                     /\ waiting' = waiting
  BY <1>1, <1>2, <1>8, ContinueMoves DEF rest
<1>10. \A v \in Workers : worker'[v] = IF v = w THEN t ELSE worker[v]
  BY <1>1, <1>9
<1>11. \A v \in Workers : v # w => worker[v].does \notin PumpSteps
  BY <1>5 DEF FreshInv, OnePump
<1>12. OnePump'
  BY <1>5, <1>9, <1>10, <1>11 DEF OnePump, PumpSteps
<1>13. /\ phase # "idle" /\ worker[w].agent \notin PumpAgents(agenda)
       /\ phase = "pipeline" => worker[w].agent \in snapshot
  BY <1>1, <1>5 DEF Fresh, PumpSteps
<1>14. AgendaFresh'
  BY <1>2, <1>7, <1>13 DEF FreshInv, AgendaFresh
<1>15. ASSUME NEW v \in Workers PROVE Fresh(worker[v])'
  <2>1. CASE v = w /\ t.does = "handle"
    <3>1. worker'[v] = t /\ t.does = "handle" /\ t.todo = rest /\ t.agent = worker[w].agent
      BY <1>9, <1>10, <2>1
    <3> QED BY <1>2, <1>8, <1>13, <3>1 DEF Fresh, PumpSteps
  <2>2. CASE v # w \/ t.does = "idle"
    <3>1. worker'[v].does \notin PumpSteps
      BY <1>10, <1>11, <2>2 DEF PumpSteps
    <3> QED BY <3>1 DEF Fresh
  <2> QED BY <1>9, <2>1, <2>2
<1> QED BY <1>6, <1>7, <1>12, <1>14, <1>15 DEF FreshInv

(* What a role does is no pump's business.                                 *)
LEMMA RoleFresh ==
  ASSUME PurchaseInv, FreshInv, NEW w \in Workers, Role(w) \/ RoleRaises(w)
  PROVE  FreshInv'
<1>1. worker \in [Workers -> Thread] /\ worker[w] \in Thread
      /\ AllMailed(messages, requests, cast) /\ requests \in Nat
  BY DEF PurchaseInv, Working, Counted
<1>2. Evolves(messages, messages') /\ UNCHANGED <<phase, agenda, snapshot, failed>>
  <2>1. CASE AskSeats(w)
    BY <1>1, <2>1, RequestExtends DEF AskSeats, heartbeat, history
  <2>2. CASE ~AskSeats(w)
    <3>1. messages' = messages /\ (RoleUnchanged \/ RoleRest)
      BY <2>2 DEF Role, RoleRaises, RoleRest, Refrain, Consider, NoteRequest, ReadVotes, GiveUpOrWait,
                  Decide, MarkBought, ClearQuorum, database
    <3> QED BY <3>1 DEF RoleUnchanged, RoleRest, history, Evolves, SameMail
  <2> QED BY <2>1, <2>2
<1>3. \E t : worker' = [worker EXCEPT ![w] = t] /\ Follows(w) /\ t.does \notin PumpSteps
  <2>1. CASE Finish(w)
    <3>1. worker' = [worker EXCEPT ![w] = Idle] /\ Follows(w) /\ Idle.does \notin PumpSteps
      BY <2>1 DEF Finish, Follows, Idle, PumpSteps
    <3> QED BY <3>1
  <2>2. ASSUME NEW does \in {"ask", "clear", "book"}, Goto(w, does)
        PROVE  \E t : worker' = [worker EXCEPT ![w] = t] /\ Follows(w) /\ t.does \notin PumpSteps
    <3> DEFINE t == [worker[w] EXCEPT !.does = does]
    <3>1. worker' = [worker EXCEPT ![w] = t] /\ waiting' = waiting
      BY <2>2 DEF Goto
    <3>2. t.does \notin PumpSteps
      BY <1>1 DEF Thread, PumpSteps
    <3> HIDE DEF t
    <3> QED BY <3>1, <3>2 DEF Follows
  <2>3. CASE AskSeats(w)
    <3> DEFINE t == [worker[w] EXCEPT !.does = "note", !.corr = requests + 1]
    <3>1. worker' = [worker EXCEPT ![w] = t] /\ waiting' = waiting
      BY <2>3 DEF AskSeats, heartbeat
    <3>2. t.does \notin PumpSteps
      BY <1>1 DEF Thread, PumpSteps
    <3> HIDE DEF t
    <3> QED BY <3>1, <3>2 DEF Follows
  <2>4. CASE ReadVotes(w)
    <3>1. PICK votes : worker' = [worker EXCEPT ![w] =
              [@ EXCEPT !.corr = quorum.corr,
                        !.does = IF AllIn(votes) THEN "decide" ELSE "weigh",
                        !.votes = IF AllIn(votes) THEN votes ELSE NoVotes]]
      BY <2>4 DEF ReadVotes
    <3> DEFINE does == IF AllIn(votes) THEN "decide" ELSE "weigh"
               kept == IF AllIn(votes) THEN votes ELSE NoVotes
               t == [worker[w] EXCEPT !.corr = quorum.corr, !.does = does, !.votes = kept]
    <3>2. worker' = [worker EXCEPT ![w] = t]
      BY <3>1
    <3>3. does \notin PumpSteps
      BY DEF PumpSteps
    <3> HIDE DEF does, kept
    <3>4. t.does = does
      BY <1>1 DEF Thread
    <3>5. waiting' = waiting
      BY <2>4 DEF ReadVotes
    <3> HIDE DEF t
    <3> QED BY <3>2, <3>3, <3>4, <3>5 DEF Follows
  <2>5. Role(w) \/ RoleRaises(w) => \/ Finish(w) \/ AskSeats(w) \/ ReadVotes(w)
                                   \/ \E does \in {"ask", "clear", "book"} : Goto(w, does)
    BY DEF Role, RoleRaises, Refrain, Consider, NoteRequest, GiveUpOrWait, Decide,
           MarkBought, ClearQuorum
  <2> QED BY <2>1, <2>2, <2>3, <2>4, <2>5
<1> QED BY <1>1, <1>2, <1>3, ThreadFresh

LEMMA FreshInit == Init => FreshInv
<1> SUFFICES ASSUME Init PROVE FreshInv
  OBVIOUS
<1>1. /\ worker = [w \in Workers |-> Idle] /\ messages = <<>> /\ failed = {}
      /\ agenda = <<>> /\ snapshot = {} /\ phase = "idle"
  BY DEF Init
<1>2. \A w \in Workers : worker[w].does \notin PumpSteps
  BY <1>1 DEF Idle, PumpSteps
<1>3. AgendaFresh
  BY <1>1 DEF AgendaFresh, PumpedOnce, PumpAgents, Tried
<1> QED BY <1>1, <1>2, <1>3 DEF FreshInv, OnePump, Fresh

LEMMA StartTickFresh ==
  ASSUME PurchaseInv, FreshInv, StartTick
  PROVE  FreshInv'
<1>1. /\ phase = "idle" /\ phase' = "pipeline" /\ failed' = {} /\ worker' = worker
      /\ agenda' = Agenda(snapshot')
  BY DEF StartTick
<1>2. \A w \in Workers : worker'[w].does \notin PumpSteps
  BY <1>1 DEF FreshInv, Fresh
<1>3. Tried' = {}
  BY <1>1 DEF Tried
<1>4. PumpedOnce(agenda') /\ PumpAgents(agenda') \subseteq snapshot'
  BY <1>1, AgendaPumps
<1>5. AgendaFresh'
  BY <1>1, <1>3, <1>4 DEF AgendaFresh
<1> QED BY <1>1, <1>2, <1>5, HeartFresh

LEMMA CallNextFresh ==
  ASSUME PurchaseInv, FreshInv, CallNext
  PROVE  FreshInv'
<1>1. PICK w \in Workers : /\ worker' = [worker EXCEPT ![w] = Start(Head(agenda))]
                           /\ waiting' = w
  BY DEF CallNext
<1>2. /\ agenda \in Seq(Call) /\ agenda # <<>> /\ agenda' = Tail(agenda) /\ waiting = Nobody
      /\ messages' = messages /\ failed' = failed /\ phase' = phase /\ snapshot' = snapshot
      /\ worker \in [Workers -> Thread]
  BY DEF PurchaseInv, Beating, Working, CallNext, database, history
<1>3. \A v \in Workers : worker[v].does \notin PumpSteps
  BY <1>2, NoPumpWhenNobody
<1> DEFINE call == Head(agenda)
           t == Start(call)
<1>4. /\ t.does = IF call.does = "pump" THEN "list" ELSE "read"
      /\ t.agent = call.agent /\ t.todo = <<>>
  BY DEF Start, Idle
<1>5. /\ PumpAgents(agenda') \subseteq PumpAgents(agenda) /\ PumpedOnce(agenda')
      /\ call.does = "pump" => call.agent \notin PumpAgents(agenda')
      /\ call.does = "pump" => call.agent \in PumpAgents(agenda)
  BY <1>2, TailPumps DEF FreshInv, AgendaFresh
<1> HIDE DEF t, call
<1>6. Tried' = Tried /\ failed' \subseteq DOMAIN messages'
  BY <1>2 DEF FreshInv, Tried
<1>7. AgendaFresh /\ phase # "idle"
  BY <1>2 DEF FreshInv, AgendaFresh
<1>8. AgendaFresh'
  BY <1>2, <1>5, <1>6, <1>7 DEF AgendaFresh
<1>9. \A v \in Workers : worker'[v] = IF v = w THEN t ELSE worker[v]
  BY <1>1, <1>2 DEF t, call
<1>10. OnePump'
  BY <1>1, <1>3, <1>9 DEF OnePump
<1>11. ASSUME NEW v \in Workers PROVE Fresh(worker[v])'
  <2>1. CASE v = w /\ call.does = "pump"
    <3>1. worker'[v] = t /\ t.does = "list" /\ t.agent = call.agent /\ t.todo = <<>>
      BY <1>4, <1>9, <2>1
    <3>2. /\ call.agent \notin PumpAgents(agenda') /\ call.agent \notin Tried'
          /\ phase' = "pipeline" => call.agent \in snapshot'
      BY <1>2, <1>5, <1>6, <1>7, <2>1 DEF AgendaFresh
    <3> QED BY <1>2, <1>7, <3>1, <3>2 DEF Fresh
  <2>2. CASE v # w \/ call.does # "pump"
    <3>1. worker'[v].does \notin PumpSteps
      BY <1>3, <1>4, <1>9, <2>2 DEF PumpSteps
    <3> QED BY <3>1 DEF Fresh
  <2> QED BY <2>1, <2>2
<1> QED BY <1>6, <1>8, <1>10, <1>11 DEF FreshInv

LEMMA SkipFrozenFresh ==
  ASSUME PurchaseInv, FreshInv, SkipFrozen
  PROVE  FreshInv'
<1>1. /\ agenda \in Seq(Call) /\ agenda # <<>> /\ agenda' = WithoutFirst(agenda)
      /\ waiting = Nobody /\ worker' = worker
      /\ messages' = messages /\ failed' = failed /\ phase' = phase /\ snapshot' = snapshot
  BY DEF PurchaseInv, Beating, SkipFrozen, database, history
<1>2. \A v \in Workers : worker'[v].does \notin PumpSteps
  BY <1>1, NoPumpWhenNobody
<1>3. PumpAgents(agenda') \subseteq PumpAgents(agenda) /\ PumpedOnce(agenda')
  <2> DEFINE rest == Tail(agenda)
  <2>1. rest \in Seq(Call) /\ PumpAgents(rest) \subseteq PumpAgents(agenda) /\ PumpedOnce(rest)
    BY <1>1, TailPumps DEF FreshInv, AgendaFresh
  <2>2. agenda' = rest \/ (rest # <<>> /\ agenda' = Tail(rest))
    BY <1>1 DEF WithoutFirst
  <2> HIDE DEF rest
  <2>3. rest # <<>> => PumpAgents(Tail(rest)) \subseteq PumpAgents(rest) /\ PumpedOnce(Tail(rest))
    BY <2>1, TailPumps
  <2> QED BY <2>1, <2>2, <2>3
<1>4. Tried' = Tried /\ failed' \subseteq DOMAIN messages'
  BY <1>1 DEF FreshInv, Tried
<1>5. AgendaFresh /\ phase # "idle"
  BY <1>1 DEF FreshInv, AgendaFresh
<1>6. AgendaFresh'
  BY <1>1, <1>3, <1>4, <1>5 DEF AgendaFresh
<1> QED BY <1>2, <1>4, <1>6, HeartFresh

(* Late mail is for agents whose turn has not come: the others were in the *)
(* snapshot.                                                               *)
LEMMA LateFresh ==
  ASSUME PurchaseInv, FreshInv, LatePumps \/ EndTick
  PROVE  FreshInv'
<1>1. /\ agenda = <<>> /\ waiting = Nobody /\ worker' = worker /\ messages' = messages
      /\ failed' = failed
  BY DEF LatePumps, EndTick, database, history
<1>2. \A v \in Workers : worker'[v].does \notin PumpSteps
  BY <1>1, NoPumpWhenNobody
<1>3. Tried' = Tried /\ failed' \subseteq DOMAIN messages'
  BY <1>1 DEF FreshInv, Tried
<1>4. CASE LatePumps
  <2> DEFINE late == QueuedRecipients(messages) \ snapshot
  <2>1. phase = "pipeline" /\ phase' = "late" /\ agenda' = Pumps(late)
    BY <1>4 DEF LatePumps
  <2>2. PumpedOnce(agenda') /\ PumpAgents(agenda') \subseteq late
    BY <2>1, AgendaPumps
  <2>3. Tried \subseteq snapshot
    BY <2>1 DEF FreshInv, AgendaFresh
  <2>4. AgendaFresh'
    BY <1>3, <2>1, <2>2, <2>3 DEF AgendaFresh
  <2> QED BY <1>2, <1>3, <2>4, HeartFresh
<1>5. CASE EndTick
  <2>1. phase' = "idle" /\ agenda' = <<>>
    BY <1>1, <1>5 DEF EndTick
  <2>2. AgendaFresh'
    BY <1>3, <2>1 DEF AgendaFresh, PumpedOnce, PumpAgents
  <2> QED BY <1>2, <1>3, <2>2, HeartFresh
<1> QED BY <1>4, <1>5

LEMMA FreshKeeps == PumpsReturn /\ PurchaseInv /\ FreshInv /\ [Next]_vars => FreshInv'
<1> SUFFICES ASSUME PumpsReturn, PurchaseInv, FreshInv, [Next]_vars PROVE FreshInv'
  OBVIOUS
<1>1. AllMailed(messages, requests, cast) /\ requests \in Nat
  BY DEF PurchaseInv, Counted
<1>2. CASE TimeOut
  <2>1. waiting # Nobody /\ worker' = worker /\ messages' = messages /\ failed' = failed
        /\ phase' = phase /\ agenda' = agenda /\ snapshot' = snapshot
    BY <1>2 DEF TimeOut, database, history
  <2>2. worker[waiting].does \notin PumpSteps
    BY <1>2 DEF TimeOut, GoesWrong, PumpsReturn, PumpSteps
  <2>3. \A v \in Workers : worker'[v].does \notin PumpSteps
    BY <2>1, <2>2 DEF FreshInv, OnePump
  <2>4. Tried' = Tried /\ failed' \subseteq DOMAIN messages'
    BY <2>1 DEF FreshInv, Tried
  <2>5. AgendaFresh'
    BY <2>1, <2>4 DEF FreshInv, AgendaFresh
  <2> QED BY <2>3, <2>4, <2>5, HeartFresh
<1>3. CASE Crash
  <2>1. /\ worker' = [w \in Workers |-> Idle] /\ agenda' = <<>> /\ phase' = "idle"
        /\ messages' = messages /\ failed' = failed
    BY <1>3 DEF Crash, database, history
  <2>2. \A v \in Workers : worker'[v].does \notin PumpSteps
    BY <2>1 DEF Idle, PumpSteps
  <2>3. failed' \subseteq DOMAIN messages'
    BY <2>1 DEF FreshInv
  <2>4. AgendaFresh'
    BY <2>1 DEF AgendaFresh, PumpedOnce, PumpAgents
  <2> QED BY <2>2, <2>3, <2>4, HeartFresh
<1>4. CASE Purge
  <2>1. PICK ticks \in 0..DeadlineTicks : messages' = Prune(messages, ticks)
    BY <1>4 DEF Purge
  <2>2. ticks \in Nat
    BY BusAssumption
  <2>3. Evolves(messages, messages')
    BY <1>1, <2>1, <2>2, PruneEdits
  <2>4. UNCHANGED <<phase, agenda, snapshot, failed, worker, waiting>>
    BY <1>4 DEF Purge, heartbeat, history
  <2> QED BY <2>3, <2>4, TableFresh
<1>5. ASSUME NEW a \in Notified, Notify(a) PROVE FreshInv'
  <2>1. a \in Agents
    BY PurchaseAssumption
  <2>2. Evolves(messages, messages')
    BY <1>1, <1>5, <2>1, SendExtends DEF Notify
  <2>3. UNCHANGED <<phase, agenda, snapshot, failed, worker, waiting>>
    BY <1>5 DEF Notify, heartbeat, history
  <2> QED BY <2>2, <2>3, TableFresh
<1>6. ASSUME NEW i \in Requeueable(messages), RequeueRow(i) PROVE FreshInv'
  <2>1. Evolves(messages, messages')
    BY <1>1, <1>6, RequeueEdits DEF RequeueRow
  <2>2. UNCHANGED <<phase, agenda, snapshot, failed, worker, waiting>>
    BY <1>6 DEF RequeueRow, heartbeat, history
  <2> QED BY <2>1, <2>2, TableFresh
<1>7. CASE UNCHANGED vars
  <2>1. UNCHANGED <<phase, agenda, snapshot, failed, worker, waiting>> /\ messages' = messages
    BY <1>7 DEF vars, database, heartbeat, history
  <2>2. Evolves(messages, messages')
    BY <2>1 DEF Evolves, SameMail
  <2> QED BY <2>1, <2>2, TableFresh
<1>8. ASSUME NEW w \in Workers, Pump(w) \/ HandlerRaises(w) PROVE FreshInv'
  BY <1>8, ListInboxFresh, DealtWithFresh, AnswerVoteFresh, HandlerRaisesFresh DEF Pump
<1>9. ASSUME NEW w \in Workers, Role(w) \/ RoleRaises(w) PROVE FreshInv'
  BY <1>9, RoleFresh
<1>10. CASE StartTick \/ CallNext \/ SkipFrozen \/ LatePumps \/ EndTick
  BY <1>10, StartTickFresh, CallNextFresh, SkipFrozenFresh, LateFresh
<1> QED BY <1>2, <1>3, <1>4, <1>5, <1>6, <1>7, <1>8, <1>9, <1>10 DEF Next

(* As long as no pump hangs, pumps run one at a time, and the messages     *)
(* that the running pump, or a pump still to come, will attempt have not   *)
(* failed in this tick.                                                    *)
THEOREM FreshInvariant == PumpsReturn /\ Spec => []FreshInv
<1>1. CASE PumpsReturn
  <2>1. PurchaseInv /\ FreshInv /\ [Next]_vars => FreshInv'
    BY <1>1, FreshKeeps
  <2> QED BY <2>1, FreshInit, PurchaseInvariant, PTL DEF Spec
<1>2. CASE ~PumpsReturn
  BY <1>2
<1> QED BY <1>1, <1>2

(* As long as no pump hangs, a message is attempted once per tick: a       *)
(* passing trouble never uses up the attempts of a message at once, also   *)
(* when threads of roles are abandoned, the process dies, or rows are      *)
(* requeued in the middle of a tick.                                       *)
THEOREM RetriesWaitATick == PumpsReturn /\ Spec => OneAttemptPerTick
<1>1. PurchaseInv /\ FreshInv
        => [\A w \in Workers : HandlerRaises(w) => Current(w) \notin failed]_vars
  BY HandlerRaisesFresh
<1>2. Spec => []PurchaseInv
  BY PurchaseInvariant
<1>3. PumpsReturn /\ Spec => []FreshInv
  BY FreshInvariant
<1> QED BY <1>1, <1>2, <1>3, PTL DEF OneAttemptPerTick
=============================================================================
