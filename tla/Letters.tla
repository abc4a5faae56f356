------------------------------ MODULE Letters -------------------------------
(***************************************************************************)
(* Mail of the firm: sovereign/channels/mail.py and transports.py, the     *)
(* loop of engine/heartbeat.py over new letters and the poll of courier(). *)
(*                                                                         *)
(* Out: send() writes a row, sends, and writes how it went, under a lock   *)
(* that all processes share.  In: a letter is a JSON file in the inbox; it *)
(* gets a row, the file moves away, and the heartbeat acts on the row.     *)
(* Letters at a provider become such files once.                           *)
(***************************************************************************)
EXTENDS Integers, FiniteSets

CONSTANTS
  Keys,        (* outgoing mail that is about a job: its job and kind       *)
  Senders,     (* threads and processes that send                           *)
  Drops,       (* incoming letters                                          *)
  MaxRows      (* bound: rows of a letter, one for each time it is read     *)

ASSUME LettersAssumption == MaxRows \in Nat

VARIABLES
  steady,    (* no poll is cut short, and the provider answers every call   *)
  row,       (* the row of each key                                         *)
  send,      (* what each sender does, and for which key                    *)
  left,      (* history: how often the mail of a key left the firm          *)
  place,     (* where each incoming letter is                               *)
  labelled,  (* the letters the provider shows as processed                 *)
  seen,      (* agentmail_seen_ids                                          *)
  unread,    (* the rows of each letter that were not acted upon            *)
  acted,     (* history: the letters that were acted upon                   *)
  reader,    (* the heartbeat among the letters                             *)
  poll       (* the courier's poll: what it fetched, what it wrote          *)

outVars     == <<row, send, left>>
inVars      == <<steady, place, labelled, seen, unread, acted, reader, poll>>
lettersVars == <<outVars, inVars>>

NoKey    == "none"
Unsent   == [at |-> "idle", key |-> NoKey]
NoReader == [at |-> "idle", files |-> {}, batch |-> {}, now |-> NoKey]
NoPoll   == [at |-> "idle", fetched |-> {}, wrote |-> {}]

LettersInit ==
  /\ steady \in BOOLEAN
  /\ row = [k \in Keys |-> "none"]
  /\ send = [s \in Senders |-> Unsent]
  /\ left = [k \in Keys |-> 0]
  /\ place = [d \in Drops |-> "away"]
  /\ labelled = {} /\ seen = {}
  /\ unread = [d \in Drops |-> 0]
  /\ acted = {}
  /\ reader = NoReader
  /\ poll = NoPoll

LettersTypeOK ==
  /\ steady \in BOOLEAN
  /\ row \in [Keys -> {"none", "queued", "sent"}]
  /\ send \in [Senders -> [at: {"idle", "locked", "queued", "answered"},
                           key: Keys \cup {NoKey}]]
  /\ left \in [Keys -> Nat]
  /\ place \in [Drops -> {"away", "remote", "inbox", "kept"}]
  /\ labelled \cup seen \cup acted \subseteq Drops
  /\ unread \in [Drops -> Nat]
  /\ reader \in [at: {"idle", "files", "moving", "acting"}, files: SUBSET Drops,
                 batch: SUBSET Drops, now: Drops \cup {NoKey}]
  /\ poll \in [at: {"idle", "pages", "writing"}, fetched: SUBSET Drops,
               wrote: SUBSET Drops]

-----------------------------------------------------------------------------
(* send().                                                                 *)

Sending(s, from, to) == /\ send[s].at = from
                        /\ send' = [send EXCEPT ![s].at = to]

(* The lock is free; a key that has a row is answered with it.             *)
LockOutbox(s, k) ==
  /\ send[s] = Unsent
  /\ \A o \in Senders : send[o] = Unsent
  /\ row[k] = "none"
  /\ send' = [send EXCEPT ![s] = [at |-> "locked", key |-> k]]
  /\ UNCHANGED <<row, left, inVars>>

(* Mutant: the row is written with the outcome, not before.                *)
Enqueue_Later(s) ==
  /\ Sending(s, "locked", "queued")
  /\ UNCHANGED <<row, left, inVars>>

Enqueue(s) ==
  /\ Sending(s, "locked", "queued")
  /\ row' = [row EXCEPT ![send[s].key] = "queued"]
  /\ UNCHANGED <<left, inVars>>

(* The transport took it, whatever it answers; or it did not.              *)
Transmit(s) ==
  /\ Sending(s, "queued", "answered")
  /\ \/ left' = [left EXCEPT ![send[s].key] = @ + 1]
     \/ UNCHANGED left
  /\ UNCHANGED <<row, inVars>>

(* An error, also one after the mail left, leaves the row queued.          *)
NoteOutcome(s) ==
  /\ send[s].at = "answered"
  /\ \/ left[send[s].key] > 0 /\ row' = [row EXCEPT ![send[s].key] = "sent"]
     \/ row' = [row EXCEPT ![send[s].key] = "queued"]
  /\ send' = [send EXCEPT ![s] = Unsent]
  /\ UNCHANGED <<left, inVars>>

SenderDies(s) ==
  /\ send[s] # Unsent
  /\ send' = [send EXCEPT ![s] = Unsent]
  /\ UNCHANGED <<row, left, inVars>>

-----------------------------------------------------------------------------
(* Letters arrive as files in the inbox or at the provider.                *)
Arrive(d) ==
  /\ place[d] = "away"
  /\ \E p \in {"inbox", "remote"} : place' = [place EXCEPT ![d] = p]
  /\ UNCHANGED <<outVars, steady, labelled, seen, unread, acted, reader, poll>>

(* poll(): each letter is fetched and labelled.                            *)
StartPoll ==
  /\ poll = NoPoll
  /\ poll' = [NoPoll EXCEPT !.at = "pages"]
  /\ UNCHANGED <<outVars, steady, place, labelled, seen, unread, acted, reader>>

Fetch(d) ==
  /\ poll.at = "pages"
  /\ place[d] = "remote" /\ d \notin seen \cup labelled
  /\ labelled' = labelled \cup {d}
  /\ \/ poll' = [poll EXCEPT !.fetched = @ \cup {d}]
     \/ ~steady /\ UNCHANGED poll       (* the answer to the label is lost   *)
  /\ UNCHANGED <<outVars, steady, place, seen, unread, acted, reader>>

(* A page that cannot be listed, a file that cannot be written, a crash.   *)
PollStops ==
  /\ ~steady /\ poll # NoPoll
  /\ poll' = NoPoll
  /\ UNCHANGED <<outVars, steady, place, labelled, seen, unread, acted, reader>>

EndPages ==
  /\ poll.at = "pages"
  /\ poll' = [poll EXCEPT !.at = "writing"]
  /\ UNCHANGED <<outVars, steady, place, labelled, seen, unread, acted, reader>>

(* ingest_remote_inbound(): a file for each, then the ids all at once.     *)
WriteDropin(d) ==
  /\ poll.at = "writing" /\ d \in poll.fetched \ (seen \cup poll.wrote)
  /\ place' = [place EXCEPT ![d] = "inbox"]
  /\ poll' = [poll EXCEPT !.wrote = @ \cup {d}]
  /\ UNCHANGED <<outVars, steady, labelled, seen, unread, acted, reader>>

SaveSeen ==
  /\ poll.at = "writing" /\ poll.fetched \subseteq poll.wrote \cup seen
  /\ seen' = seen \cup poll.wrote
  /\ poll' = NoPoll
  /\ UNCHANGED <<outVars, steady, place, labelled, unread, acted, reader>>

-----------------------------------------------------------------------------
(* ingest_dropins() and the loop of step().                                *)

Inbox == {d \in Drops : place[d] = "inbox"}

OpenInbox ==
  /\ reader = NoReader /\ Inbox # {}
  /\ reader' = [NoReader EXCEPT !.at = "files", !.files = Inbox]
  /\ UNCHANGED <<outVars, steady, place, labelled, seen, unread, acted, poll>>

EnterRow(d) ==
  /\ reader.at = "files" /\ d \in reader.files
  /\ unread[d] < MaxRows
  /\ unread' = [unread EXCEPT ![d] = @ + 1]
  /\ reader' = [reader EXCEPT !.at = "moving", !.now = d, !.files = @ \ {d}]
  /\ UNCHANGED <<outVars, steady, place, labelled, seen, acted, poll>>

MoveAway ==
  /\ reader.at = "moving"
  /\ place' = [place EXCEPT ![reader.now] = "kept"]
  /\ reader' = [reader EXCEPT !.at = "files", !.now = NoKey, !.batch = @ \cup {reader.now}]
  /\ UNCHANGED <<outVars, steady, labelled, seen, unread, acted, poll>>

EndFiles ==
  /\ reader.at = "files" /\ reader.files = {}
  /\ reader' = [reader EXCEPT !.at = "acting"]
  /\ UNCHANGED <<outVars, steady, place, labelled, seen, unread, acted, poll>>

(* Accepted, rejected, noted, ignored or refused: the row says so.         *)
ActOn(d) ==
  /\ reader.at = "acting" /\ d \in reader.batch
  /\ acted' = acted \cup {d}
  /\ unread' = [unread EXCEPT ![d] = @ - 1]
  /\ reader' = IF reader.batch = {d} THEN NoReader
               ELSE [reader EXCEPT !.batch = @ \ {d}]
  /\ UNCHANGED <<outVars, steady, place, labelled, seen, poll>>

(* The daemon dies; or a letter raises what the loop does not catch, and   *)
(* the rest of the batch stays unread.                                     *)
ReaderStops ==
  /\ reader # NoReader
  /\ reader' = NoReader
  /\ poll' = IF steady THEN poll ELSE NoPoll
  /\ UNCHANGED <<outVars, steady, place, labelled, seen, unread, acted>>

LettersNext ==
  \/ \E s \in Senders : \/ Enqueue(s) \/ Transmit(s) \/ NoteOutcome(s) \/ SenderDies(s)
                        \/ \E k \in Keys : LockOutbox(s, k)
  \/ \E d \in Drops : Arrive(d) \/ Fetch(d) \/ WriteDropin(d) \/ EnterRow(d) \/ ActOn(d)
  \/ StartPoll \/ PollStops \/ EndPages \/ SaveSeen
  \/ OpenInbox \/ MoveAway \/ EndFiles \/ ReaderStops

LettersSpec == LettersInit /\ [][LettersNext]_lettersVars
-----------------------------------------------------------------------------
(* Properties.                                                             *)

(* The mail about a job leaves at most once for each kind, wherever        *)
(* senders die, and a row that says "sent" is right.                       *)
LeavesOnce ==
  \A k \in Keys : left[k] <= 1 /\ (row[k] = "sent" => left[k] = 1)

(* A letter never vanishes: while its file is not in the inbox any more    *)
(* the database has a row of it, read or unread.                           *)
LetterOnRecord ==
  \A d \in Drops : place[d] = "kept" => unread[d] > 0 \/ d \in acted

(* What the provider shows as processed has reached the inbox, once a poll *)
(* is over; this needs a poll that is not cut short.                       *)
ProcessedIsHere ==
  steady /\ poll = NoPoll => \A d \in labelled : place[d] # "remote"

(* No mail leaves twice, and none that came is lost.                       *)
MailIsSafe == LeavesOnce /\ LetterOnRecord /\ ProcessedIsHere
=============================================================================
