----------------------------- MODULE WorkProofs -----------------------------
(***************************************************************************)
(* Theorems of ten parts around  the core, each by itself: a backup that   *)
(* verifies is whole, mail leaves once and letters are not lost, no        *)
(* connection to a server runs on, no reply of the operator is lost, a     *)
(* login of the browser is kept, money that is spent is there, a playbook  *)
(* is judged on enough uses, the operator is told of incidents in time,    *)
(* the sources of the market are tried on time, and what the firm asks of  *)
(* its models is bounded.                                                  *)
(***************************************************************************)
EXTENDS Backup, Letters, Bridge, HumanInbox, Balances, Browsing,
        Trials, Alerts, Market, Router, FiniteSetTheorems,
        WellFoundedInduction, TLAPS

-----------------------------------------------------------------------------
(* Backup.                                                                 *)

(* The manifest is a sequence of one set.                                  *)
Sealed == seal = <<>> \/ (copy.at = "done" /\ seal = <<copy.files>>)

(* A row has its file from before its commit on: the invoice that is being *)
(* issued has no row, so its file may go.                                  *)
RowsHaveFiles ==
  /\ rows \subseteq files
  /\ issue.at # "idle" => issue.paper \in Papers /\ issue.paper \notin rows
  /\ issue.at = "file" => issue.paper \in files

(* Whatever the backup still lacks is on its list.                         *)
CopyCovers ==
  /\ copy.at = "tree" => copy.rows \subseteq rows
  /\ copy.at = "files" => copy.rows \subseteq copy.files \cup copy.todo
  /\ copy.at \in {"seal", "done"} => copy.rows \subseteq copy.files /\ Stray \notin copy.files

BackupInv == BackupTypeOK /\ Sealed /\ RowsHaveFiles /\ CopyCovers

LEMMA BackupStarts == BackupInit => BackupInv
BY DEF BackupInit, BackupInv, BackupTypeOK, Sealed, RowsHaveFiles, CopyCovers, NoIssue, NoCopy

(* The engine's steps leave the copy alone.                                *)
LEMMA IssueKeeps ==
  ASSUME BackupInv,
         (\E p \in Papers : OpenIssue(p)) \/ WriteFile \/ CommitIssue \/ UndoIssue \/ EngineDies
  PROVE  BackupInv'
<1> USE DEF BackupInv, BackupTypeOK, Sealed, RowsHaveFiles, CopyCovers, NoIssue
<1>1. CASE \E p \in Papers : OpenIssue(p)
  BY <1>1 DEF OpenIssue
<1>2. CASE WriteFile
  <2> USE <1>2 DEF WriteFile
  <2>1. BackupTypeOK'
    <3>1. issue' \in [at: {"idle", "row", "file", "undo"}, paper: Papers \cup {"none"},
                      old: BOOLEAN]
      <4>1. issue' = [at |-> "file", paper |-> issue.paper, old |-> issue.paper \in files]
        OBVIOUS
      <4>2. issue.paper \in Papers \cup {"none"} /\ (issue.paper \in files) \in BOOLEAN
        OBVIOUS
      <4> QED BY <4>1, <4>2, Zenon
    <3> QED BY <3>1
  <2>2. RowsHaveFiles' OBVIOUS
  <2> QED BY <2>1, <2>2
<1>3. CASE CommitIssue
  BY <1>3 DEF CommitIssue
<1>4. CASE UndoIssue
  <2> USE <1>4 DEF UndoIssue
  <2>1. BackupTypeOK'
    <3>1. issue' \in [at: {"idle", "row", "file", "undo"}, paper: Papers \cup {"none"},
                      old: BOOLEAN]
      <4>1. CASE issue' = NoIssue
        BY <4>1
      <4>2. CASE issue' = [issue EXCEPT !.at = "undo"]
        <5>1. issue' = [at |-> "undo", paper |-> issue.paper, old |-> issue.old]
          BY <4>2
        <5>2. issue.paper \in Papers \cup {"none"} /\ issue.old \in BOOLEAN
          OBVIOUS
        <5> QED BY <5>1, <5>2, Zenon
      <4> QED BY <4>1, <4>2
    <3>2. files' \subseteq Papers \cup {Stray}
      OBVIOUS
    <3> QED BY <3>1, <3>2
  <2>2. RowsHaveFiles' OBVIOUS
  <2> QED BY <2>1, <2>2
<1>5. CASE EngineDies
  BY <1>5 DEF EngineDies
<1> QED BY <1>1, <1>2, <1>3, <1>4, <1>5

(* The backup's steps leave the engine alone.                              *)
LEMMA CopyKeeps ==
  ASSUME BackupInv,
         \/ \E f \in Papers \cup {Stray} : CopyFile(f)
         \/ SnapshotDb \/ ListTree \/ Scrub \/ SealBackup \/ BackupDies \/ NextBackup
  PROVE  BackupInv'
<1> USE DEF BackupInv, BackupTypeOK, Sealed, RowsHaveFiles, CopyCovers
<1>1. CASE \E f \in Papers \cup {Stray} : CopyFile(f)
  <2> PICK f \in Papers \cup {Stray} : CopyFile(f)
    BY <1>1
  <2> USE DEF CopyFile
  <2>1. CASE f \in files
    BY <2>1
  <2>2. CASE f \notin files
    BY <2>2
  <2> QED BY <2>1, <2>2
<1>2. CASE SnapshotDb
  BY <1>2 DEF SnapshotDb
<1>3. CASE ListTree
  BY <1>3 DEF ListTree
<1>4. CASE Scrub
  BY <1>4 DEF Scrub
<1>5. CASE SealBackup
  BY <1>5 DEF SealBackup
<1>6. CASE BackupDies
  BY <1>6 DEF BackupDies
<1>7. CASE NextBackup
  BY <1>7 DEF NextBackup, NoCopy
<1> QED BY <1>1, <1>2, <1>3, <1>4, <1>5, <1>6, <1>7

(* For any invoices: wherever the engine and the backup are, BackupInv     *)
(* holds.                                                                  *)
THEOREM BackupInvariant == BackupSpec => []BackupInv
<1>1. BackupInv /\ [BackupNext]_backupVars => BackupInv'
  <2> SUFFICES ASSUME BackupInv, [BackupNext]_backupVars PROVE BackupInv'
    OBVIOUS
  <2>1. CASE UNCHANGED backupVars
    BY <2>1 DEF backupVars, BackupInv, BackupTypeOK, Sealed, RowsHaveFiles, CopyCovers
  <2>2. CASE BackupNext
    BY <2>2, IssueKeeps, CopyKeeps DEF BackupNext
  <2> QED BY <2>1, <2>2
<1> QED BY BackupStarts, <1>1, PTL DEF BackupSpec

(* A backup that verifies holds the file of every invoice its database     *)
(* knows, and no master key, for any invoices and any interleaving with    *)
(* the engine.                                                             *)
THEOREM BackupsAreWhole == BackupSpec => []BackupIsWhole
<1>1. BackupInv => BackupIsWhole
  BY DEF BackupInv, BackupIsWhole, Verified, Sealed, CopyCovers
<1> QED BY BackupInvariant, <1>1, PTL

-----------------------------------------------------------------------------
(* Letters: outgoing mail.                                                 *)

OutTypes ==
  /\ row \in [Keys -> {"none", "queued", "sent"}]
  /\ send \in [Senders -> [at: {"idle", "locked", "queued", "answered"},
                           key: Keys \cup {NoKey}]]
  /\ left \in [Keys -> Nat]

(* One sender at a time holds the lock.                                    *)
OneSends ==
  /\ \A s \in Senders : send[s].at = "idle" => send[s] = Unsent
  /\ \A s \in Senders : send[s].at # "idle" => send[s].key \in Keys
  /\ \A s, o \in Senders : send[s].at # "idle" /\ send[o].at # "idle" => s = o

(* A row is there before the mail leaves: what has no row has not left,    *)
(* and what is about to leave has not left either.                         *)
RowFirst ==
  /\ \A k \in Keys : left[k] <= 1
  /\ \A k \in Keys : row[k] = "none" => left[k] = 0
  /\ \A k \in Keys : row[k] = "sent" => left[k] = 1
  /\ \A s \in Senders : send[s].at = "locked" => row[send[s].key] = "none"
  /\ \A s \in Senders : send[s].at = "queued" =>
       row[send[s].key] = "queued" /\ left[send[s].key] = 0
  /\ \A s \in Senders : send[s].at = "answered" => row[send[s].key] = "queued"

OutInv == OutTypes /\ OneSends /\ RowFirst

LEMMA SendKeeps ==
  ASSUME OutInv,
         NEW s \in Senders,
         \/ Enqueue(s) \/ Transmit(s) \/ NoteOutcome(s) \/ SenderDies(s)
         \/ \E k \in Keys : LockOutbox(s, k)
  PROVE  OutInv'
<1> USE DEF OutInv, OutTypes, OneSends, RowFirst, Unsent, Sending
<1>1. CASE Enqueue(s)
  BY <1>1 DEF Enqueue
<1>2. CASE Transmit(s)
  BY <1>2 DEF Transmit
<1>3. CASE NoteOutcome(s)
  BY <1>3 DEF NoteOutcome
<1>4. CASE SenderDies(s)
  BY <1>4 DEF SenderDies
<1>5. CASE \E k \in Keys : LockOutbox(s, k)
  BY <1>5 DEF LockOutbox
<1> QED BY <1>1, <1>2, <1>3, <1>4, <1>5

-----------------------------------------------------------------------------
(* Letters: incoming mail.                                                 *)

InTypes ==
  /\ steady \in BOOLEAN
  /\ place \in [Drops -> {"away", "remote", "inbox", "kept"}]
  /\ labelled \subseteq Drops /\ seen \subseteq Drops /\ acted \subseteq Drops
  /\ unread \in [Drops -> Nat]
  /\ reader \in [at: {"idle", "files", "moving", "acting"}, files: SUBSET Drops,
                 batch: SUBSET Drops, now: Drops \cup {NoKey}]
  /\ poll \in [at: {"idle", "pages", "writing"}, fetched: SUBSET Drops,
               wrote: SUBSET Drops]

(* A letter that the reader moves, has moved or will act on has a row, and *)
(* so has a letter that was moved by whomever.                             *)
RowsOfLetters ==
  /\ reader.at = "moving" => reader.now \in Drops /\ unread[reader.now] > 0
  /\ \A d \in reader.batch : unread[d] > 0
  /\ LetterOnRecord

(* What the provider shows as processed is here, or with the poll, which   *)
(* will write it; what the poll wrote is here.                             *)
Here(d)   == place[d] \in {"inbox", "kept"}
Polled(d) == poll.at # "idle" /\ d \in poll.fetched \ (poll.wrote \cup seen)
PollHolds ==
  /\ poll.at = "idle" => poll = NoPoll
  /\ \A d \in seen \cup poll.wrote : Here(d)
  /\ \A d \in labelled : place[d] # "away"
  /\ steady => \A d \in labelled : place[d] # "remote" \/ Polled(d)

InInv == InTypes /\ RowsOfLetters /\ PollHolds

(* The poll.                                                               *)
LEMMA PollKeeps ==
  ASSUME InInv,
         \/ \E d \in Drops : Arrive(d) \/ Fetch(d) \/ WriteDropin(d)
         \/ StartPoll \/ PollStops \/ EndPages \/ SaveSeen
  PROVE  InInv'
<1> USE DEF InInv, InTypes, RowsOfLetters, LetterOnRecord, PollHolds, Here, Polled, NoPoll
<1>1. ASSUME NEW d \in Drops, Arrive(d) PROVE InInv'
  <2> USE <1>1 DEF Arrive
  <2>1. InTypes'
    OBVIOUS
  <2>2. RowsOfLetters'
    OBVIOUS
  <2>3. PollHolds'
    OBVIOUS
  <2> QED BY <2>1, <2>2, <2>3
<1>2. ASSUME NEW d \in Drops, Fetch(d) PROVE InInv'
  BY <1>2 DEF Fetch
<1>3. ASSUME NEW d \in Drops, WriteDropin(d) PROVE InInv'
  BY <1>3 DEF WriteDropin
<1>4. CASE StartPoll
  BY <1>4 DEF StartPoll
<1>5. CASE PollStops
  BY <1>5 DEF PollStops
<1>6. CASE EndPages
  BY <1>6 DEF EndPages
<1>7. CASE SaveSeen
  BY <1>7 DEF SaveSeen
<1> QED BY <1>1, <1>2, <1>3, <1>4, <1>5, <1>6, <1>7

(* A row more for the letter that the reader moves next.                   *)
LEMMA EnterRowKeeps ==
  ASSUME InInv, NEW d \in Drops, EnterRow(d)
  PROVE  InInv'
<1> DEFINE Readers == [at: {"idle", "files", "moving", "acting"}, files: SUBSET Drops,
                       batch: SUBSET Drops, now: Drops \cup {NoKey}]
<1>1. unread \in [Drops -> Nat] /\ reader \in Readers
  BY DEF InInv, InTypes
<1>2. UNCHANGED <<steady, place, labelled, seen, acted, poll>>
  BY DEF EnterRow
<1>3. unread' = [unread EXCEPT ![d] = unread[d] + 1]
  BY DEF EnterRow
<1>4. reader' = [reader EXCEPT !.at = "moving", !.now = d, !.files = reader.files \ {d}]
  BY DEF EnterRow
<1>5. /\ unread' \in [Drops -> Nat] /\ unread'[d] > 0
      /\ \A e \in Drops : unread[e] > 0 => unread'[e] > 0
  BY <1>1, <1>3
<1>6. /\ reader' \in Readers
      /\ reader'.batch = reader.batch /\ reader'.now = d
  BY <1>1, <1>4
<1>7. InTypes'
  BY <1>2, <1>5, <1>6 DEF InInv, InTypes
<1>8. RowsOfLetters'
  BY <1>1, <1>2, <1>5, <1>6 DEF InInv, RowsOfLetters, LetterOnRecord
<1>9. PollHolds'
  BY <1>2 DEF InInv, PollHolds, Here, Polled, NoPoll
<1> QED BY <1>7, <1>8, <1>9 DEF InInv

(* The reader.                                                             *)
LEMMA ReaderKeeps ==
  ASSUME InInv,
         \/ \E d \in Drops : EnterRow(d) \/ ActOn(d)
         \/ OpenInbox \/ MoveAway \/ EndFiles \/ ReaderStops
  PROVE  InInv'
<1> USE DEF InInv, InTypes, RowsOfLetters, LetterOnRecord, PollHolds, Here, Polled, NoReader
<1>1. ASSUME NEW d \in Drops, EnterRow(d) PROVE InInv'
  BY <1>1, EnterRowKeeps
<1>2. ASSUME NEW d \in Drops, ActOn(d) PROVE InInv'
  BY <1>2 DEF ActOn
<1>3. CASE OpenInbox
  BY <1>3 DEF OpenInbox, Inbox
<1>4. CASE MoveAway
  BY <1>4 DEF MoveAway
<1>5. CASE EndFiles
  BY <1>5 DEF EndFiles
<1>6. CASE ReaderStops
  BY <1>6 DEF ReaderStops, NoPoll
<1> QED BY <1>1, <1>2, <1>3, <1>4, <1>5, <1>6

LettersInv == OutInv /\ InInv

(* For any number of senders, keys and letters: the row comes first, and   *)
(* what the provider shows as processed is here or with the poll.          *)
THEOREM LettersInvariant == LettersSpec => []LettersInv
<1>1. LettersInit => LettersInv
  BY DEF LettersInit, LettersInv, OutInv, OutTypes, OneSends, RowFirst, InInv, InTypes,
         RowsOfLetters, LetterOnRecord, PollHolds, Here, Polled, NoPoll, NoReader, Unsent
<1>2. LettersInv /\ [LettersNext]_lettersVars => LettersInv'
  <2> SUFFICES ASSUME LettersInv, [LettersNext]_lettersVars PROVE LettersInv'
    OBVIOUS
  <2>1. ASSUME UNCHANGED inVars PROVE InInv'
    BY <2>1 DEF LettersInv, inVars, InInv, InTypes, RowsOfLetters, LetterOnRecord,
                PollHolds, Here, Polled
  <2>2. ASSUME UNCHANGED outVars PROVE OutInv'
    BY <2>2 DEF LettersInv, outVars, OutInv, OutTypes, OneSends, RowFirst
  <2>3. CASE \E s \in Senders : \/ Enqueue(s) \/ Transmit(s) \/ NoteOutcome(s) \/ SenderDies(s)
                                \/ \E k \in Keys : LockOutbox(s, k)
    <3>1. OutInv'
      BY <2>3, SendKeeps DEF LettersInv
    <3>2. UNCHANGED inVars
      BY <2>3 DEF Enqueue, Transmit, NoteOutcome, SenderDies, LockOutbox
    <3> QED BY <3>1, <3>2, <2>1 DEF LettersInv
  <2>4. CASE \/ \E d \in Drops : Arrive(d) \/ Fetch(d) \/ WriteDropin(d)
             \/ StartPoll \/ PollStops \/ EndPages \/ SaveSeen
    <3>1. InInv'
      BY <2>4, PollKeeps DEF LettersInv
    <3>2. UNCHANGED outVars
      BY <2>4 DEF Arrive, Fetch, WriteDropin, StartPoll, PollStops, EndPages, SaveSeen
    <3> QED BY <3>1, <3>2, <2>2 DEF LettersInv
  <2>5. CASE \/ \E d \in Drops : EnterRow(d) \/ ActOn(d)
             \/ OpenInbox \/ MoveAway \/ EndFiles \/ ReaderStops
    <3>1. InInv'
      BY <2>5, ReaderKeeps DEF LettersInv
    <3>2. UNCHANGED outVars
      BY <2>5 DEF EnterRow, ActOn, OpenInbox, MoveAway, EndFiles, ReaderStops
    <3> QED BY <3>1, <3>2, <2>2 DEF LettersInv
  <2>6. CASE UNCHANGED lettersVars
    BY <2>6, <2>1, <2>2 DEF lettersVars, LettersInv
  <2> QED BY <2>3, <2>4, <2>5, <2>6 DEF LettersNext
<1> QED BY <1>1, <1>2, PTL DEF LettersSpec

(* For any number of senders, keys and letters, and wherever they die: no  *)
(* mail about a job leaves twice, no letter that left the inbox is without *)
(* a row, and a steady poll brings what it labels.                         *)
THEOREM MailIsKept == LettersSpec => []MailIsSafe
<1>1. LettersInv => MailIsSafe
  BY DEF LettersInv, OutInv, RowFirst, InInv, InTypes, RowsOfLetters, PollHolds, Polled, NoPoll,
         MailIsSafe, LeavesOnce, ProcessedIsHere
<1> QED BY LettersInvariant, <1>1, PTL

-----------------------------------------------------------------------------
(* Bridge.                                                                 *)

Tasks == {"none", "connects", "open", "over"}
Places == {"", "find", "make", "use", "wait", "stop", "submit"}
TransportFields == [lock: Users \cup {None}, closed: BOOLEAN, loop: BOOLEAN,
                    session: BOOLEAN, tools: BOOLEAN]

UserFields == [at: Places, server: Servers \cup {None}, on: 0..MaxBuilt, kind: {"list", "call"}]
AtTransport == {"use", "wait", "stop", "submit"}

BridgeTypes ==
  /\ built \in 0..MaxBuilt
  /\ client \in [Servers -> 0..MaxBuilt]
  /\ transport \in [Transports -> TransportFields]
  /\ task \in [Transports -> Tasks]
  /\ user \in [Users -> UserFields]
  /\ closing \subseteq Transports

(* A role at a transport has one, one in the registry has a server.        *)
UsersAt ==
  \A u \in Users :
    /\ user[u].at = "" => user[u] = Absent
    /\ user[u].at # "" => user[u].server \in Servers
    /\ user[u].at \in AtTransport => user[u].on \in Transports

(* The end of a tick meets no role, unless one was left behind; so a role  *)
(* is alone, and the client it uses is the registry's.                     *)
Alone ==
  ~late =>
    /\ \A u, v \in Users : user[u].at # "" /\ user[v].at # "" => u = v
    /\ ~inTick => \A u \in Users : user[u].at = ""
    /\ \A u \in Users :
         /\ user[u].at = "make" => client[user[u].server] = None
         /\ user[u].at \in AtTransport => client[user[u].server] = user[u].on

Registered(i) == i \in closing \/ \E s \in Servers : client[s] = i

(* What runs is not closed, and the end of the tick will close it.         *)
RunsOwned ==
  /\ inTick => closing = {}
  /\ \A i \in Transports : Runs(i) => ~transport[i].closed
  /\ ~late => \A i \in Transports : Runs(i) => Registered(i)

BridgeInv == BridgeTypes /\ UsersAt /\ Alone /\ RunsOwned

LEMMA BridgeStarts == BridgeInit => BridgeInv
<1> SUFFICES ASSUME BridgeInit PROVE BridgeInv
  OBVIOUS
<1>1. Unconnected \in TransportFields
  BY DEF Unconnected, TransportFields
<1>2. 0 \in 0..MaxBuilt /\ Absent \in UserFields
  BY BridgeAssumption DEF Absent, UserFields, Places, None
<1>3. BridgeTypes
  BY <1>1, <1>2 DEF BridgeInit, BridgeTypes, Tasks, None
<1>4. UsersAt /\ Alone
  BY DEF BridgeInit, UsersAt, Alone, Absent, AtTransport
<1>5. RunsOwned
  BY DEF BridgeInit, RunsOwned, Runs
<1> QED BY <1>3, <1>4, <1>5 DEF BridgeInv

(* Updates of a role's place and of a transport.                           *)
LEMMA PlaceUpdates ==
  ASSUME NEW r \in UserFields, NEW p \in Places
  PROVE  /\ [r EXCEPT !.at = p] \in UserFields
         /\ [r EXCEPT !.at = p].at = p
         /\ [r EXCEPT !.at = p].server = r.server /\ [r EXCEPT !.at = p].on = r.on
BY DEF UserFields

LEMMA TransportTaken ==
  ASSUME NEW r \in UserFields, NEW i \in 0..MaxBuilt
  PROVE  /\ [r EXCEPT !.at = "use", !.on = i] \in UserFields
         /\ [r EXCEPT !.at = "use", !.on = i].at = "use"
         /\ [r EXCEPT !.at = "use", !.on = i].on = i
         /\ [r EXCEPT !.at = "use", !.on = i].server = r.server
BY DEF UserFields, Places

LEMMA AbsentFields == Absent \in UserFields /\ Absent.at = ""
BY BridgeAssumption DEF Absent, UserFields, Places, None

(* What a step does to a transport t.                                      *)
SameClosed(t, r) == r \in TransportFields /\ r.closed = t.closed

LEMMA TransportUpdates ==
  ASSUME NEW t \in TransportFields, NEW w \in Users \cup {None}
  PROVE  /\ SameClosed(t, [t EXCEPT !.lock = w])
         /\ SameClosed(t, [t EXCEPT !.lock = w, !.loop = TRUE])
         /\ SameClosed(t, [t EXCEPT !.session = TRUE])
         /\ SameClosed(t, [t EXCEPT !.tools = TRUE])
         /\ SameClosed(t, Cleared(t))
BY DEF SameClosed, TransportFields, Cleared

(* A role that does something is alone, or roles are left behind.          *)
Lonely(u) == ~late => inTick /\ \A v \in Users \ {u} : user[v].at = ""

LEMMA ActorsLonely ==
  ASSUME BridgeInv, NEW u \in Users, user[u].at # "" \/ Turn(u)
  PROVE  Lonely(u)
BY AbsentFields DEF BridgeInv, Alone, Lonely, Turn, Unused

(* A role goes from one place to another.                                  *)
LEMMA RoleMoves ==
  ASSUME BridgeInv, NEW u \in Users, Lonely(u),
         NEW r \in UserFields, user' = [user EXCEPT ![u] = r],
         UNCHANGED <<late, inTick>>,
         r.at = "" => r = Absent,
         r.at # "" => r.server \in Servers,
         r.at \in AtTransport => r.on \in Transports,
         ~late => /\ r.at = "make" => client'[r.server] = None
                  /\ r.at \in AtTransport => client'[r.server] = r.on
  PROVE  user' \in [Users -> UserFields] /\ UsersAt' /\ Alone'
<1>1. /\ user' \in [Users -> UserFields] /\ user'[u] = r
      /\ \A v \in Users \ {u} : user'[v] = user[v]
  BY DEF BridgeInv, BridgeTypes
<1>2. UsersAt'
  BY <1>1 DEF BridgeInv, UsersAt
<1>3. Alone'
  BY <1>1 DEF Lonely, Alone, AtTransport
<1> QED BY <1>1, <1>2, <1>3

(* Connections that end, or begin at an open transport of the registry.    *)
LEMMA RunsStayOwned ==
  ASSUME BridgeInv, UNCHANGED <<late, inTick, closing>>,
         \A i \in Transports : transport'[i].closed = transport[i].closed,
         \A i \in Transports : Registered(i) => Registered(i)' \/ late,
         \A i \in Transports : Runs(i)' => \/ Runs(i)
                                           \/ ~transport[i].closed /\ (late \/ Registered(i))
  PROVE  RunsOwned'
BY DEF BridgeInv, RunsOwned

-----------------------------------------------------------------------------
(* The registry's part of a role.                                          *)
LEMMA AskKeeps ==
  ASSUME BridgeInv, NEW u \in Users, NEW s \in Servers, AskCall(u, s) \/ AskList(u, s)
  PROVE  BridgeInv'
<1>1. PICK r \in UserFields : /\ user' = [user EXCEPT ![u] = r]
                              /\ r.at = "find" /\ r.server = s
  <2> DEFINE r(k) == [at |-> "find", server |-> s, on |-> None, kind |-> k]
  <2>1. \A k \in {"list", "call"} : r(k) \in UserFields /\ r(k).at = "find" /\ r(k).server = s
    BY BridgeAssumption DEF UserFields, Places, None
  <2>2. user' = [user EXCEPT ![u] = r("call")] \/ user' = [user EXCEPT ![u] = r("list")]
    BY DEF AskCall, AskList, Absent
  <2> QED BY <2>1, <2>2
<1>2. Turn(u) /\ UNCHANGED <<late, inTick, closing, client, built, transport, task>>
  BY DEF AskCall, AskList, given, registry, wires, ending
<1>3. Lonely(u)
  BY <1>2, ActorsLonely
<1>4. user' \in [Users -> UserFields] /\ UsersAt' /\ Alone'
  BY <1>1, <1>2, <1>3, RoleMoves DEF AtTransport
<1>5. BridgeTypes'
  BY <1>2, <1>4 DEF BridgeInv, BridgeTypes
<1>6. RunsOwned'
  BY <1>2 DEF BridgeInv, RunsOwned, Runs, Registered
<1> QED BY <1>4, <1>5, <1>6 DEF BridgeInv

LEMMA FindKeeps ==
  ASSUME BridgeInv, NEW u \in Users, FindClient(u)
  PROVE  BridgeInv'
<1> DEFINE s == user[u].server
<1>1. /\ user[u] \in UserFields /\ user[u].at = "find" /\ s \in Servers
      /\ client[s] \in 0..MaxBuilt
  BY DEF BridgeInv, BridgeTypes, UsersAt, FindClient
<1>2. UNCHANGED <<late, inTick, closing, client, built, transport, task>>
  BY DEF FindClient, given, registry, wires, ending
<1>3. Lonely(u)
  BY <1>1, ActorsLonely
<1>4. user' \in [Users -> UserFields] /\ UsersAt' /\ Alone'
  <2>1. CASE Leave(u)
    BY <2>1, <1>2, <1>3, AbsentFields, RoleMoves DEF Leave, AtTransport
  <2>2. CASE client[s] # None /\ user' = [user EXCEPT ![u].at = "use", ![u].on = client[s]]
    <3> DEFINE r == [user[u] EXCEPT !.at = "use", !.on = client[s]]
    <3>1. user' = [user EXCEPT ![u] = r]
      BY <2>2, <1>1
    <3>2. r \in UserFields /\ r.at = "use" /\ r.on = client[s] /\ r.server = s
      BY <1>1, TransportTaken, Zenon
    <3>3. r.on \in Transports
      BY <2>2, <1>1, <3>2, BridgeAssumption DEF Transports, None
    <3> HIDE DEF r
    <3> QED BY <1>1, <1>2, <1>3, <3>1, <3>2, <3>3, RoleMoves
  <2>3. CASE client[s] = None /\ Step(u, "make")
    <3> DEFINE r == [user[u] EXCEPT !.at = "make"]
    <3>1. user' = [user EXCEPT ![u] = r]
      BY <2>3, <1>1 DEF Step
    <3>2. r \in UserFields /\ r.at = "make" /\ r.server = s
      <4>1. "make" \in Places
        BY DEF Places
      <4> QED BY <1>1, <4>1, PlaceUpdates, Zenon
    <3> HIDE DEF r
    <3> QED BY <1>1, <1>2, <1>3, <2>3, <3>1, <3>2, RoleMoves DEF AtTransport
  <2> QED BY <2>1, <2>2, <2>3 DEF FindClient
<1>5. BridgeTypes'
  BY <1>2, <1>4 DEF BridgeInv, BridgeTypes
<1>6. RunsOwned'
  BY <1>2 DEF BridgeInv, RunsOwned, Runs, Registered
<1> QED BY <1>4, <1>5, <1>6 DEF BridgeInv

(* A client made anew takes the place of none, unless roles are late.      *)
LEMMA MakeKeeps ==
  ASSUME BridgeInv, NEW u \in Users, MakeClient(u)
  PROVE  BridgeInv'
<1> DEFINE s == user[u].server
<1>1. /\ user[u] \in UserFields /\ user[u].at = "make" /\ s \in Servers
      /\ client \in [Servers -> 0..MaxBuilt] /\ built \in 0..MaxBuilt
  BY DEF BridgeInv, BridgeTypes, UsersAt, MakeClient
<1>2. UNCHANGED <<late, inTick, closing, transport, task>>
  BY DEF MakeClient, given, wires, ending
<1>3. Lonely(u)
  BY <1>1, ActorsLonely
<1>4. CASE UNCHANGED <<client, built>> /\ Leave(u)
  <2>1. user' \in [Users -> UserFields] /\ UsersAt' /\ Alone'
    BY <1>4, <1>2, <1>3, AbsentFields, RoleMoves DEF Leave, AtTransport
  <2>2. BridgeTypes'
    BY <1>2, <1>4, <2>1 DEF BridgeInv, BridgeTypes
  <2>3. RunsOwned'
    BY <1>2, <1>4 DEF BridgeInv, RunsOwned, Runs, Registered
  <2> QED BY <2>1, <2>2, <2>3 DEF BridgeInv
<1>5. CASE /\ built < MaxBuilt /\ built' = built + 1
           /\ client' = [client EXCEPT ![s] = built']
           /\ user' = [user EXCEPT ![u].at = "use", ![u].on = built']
  <2> DEFINE r == [user[u] EXCEPT !.at = "use", !.on = built']
  <2>1. built' \in 0..MaxBuilt /\ built' \in Transports
    BY <1>1, <1>5, BridgeAssumption DEF Transports
  <2>2. user' = [user EXCEPT ![u] = r]
    BY <1>1, <1>5
  <2>3. r \in UserFields /\ r.at = "use" /\ r.on = built' /\ r.server = s
    BY <1>1, <2>1, TransportTaken, Zenon
  <2>4. client' \in [Servers -> 0..MaxBuilt] /\ client'[s] = built'
    BY <1>1, <1>5, <2>1
  <2>5. user' \in [Users -> UserFields] /\ UsersAt' /\ Alone'
    <3> HIDE DEF r
    <3> QED BY <1>1, <1>2, <1>3, <2>1, <2>2, <2>3, <2>4, RoleMoves
  <2>6. BridgeTypes'
    BY <1>2, <2>1, <2>4, <2>5 DEF BridgeInv, BridgeTypes
  <2>7. RunsOwned'
    <3>1. ~late => client[s] = None
      BY <1>1 DEF BridgeInv, Alone
    <3>2. ASSUME NEW i \in Transports, Registered(i), ~late PROVE Registered(i)'
      BY <1>1, <1>2, <1>5, <3>1, <3>2, BridgeAssumption DEF Registered, Transports, None
    <3> QED BY <1>2, <3>2, RunsStayOwned DEF Runs
  <2> QED BY <2>5, <2>6, <2>7 DEF BridgeInv
<1> QED BY <1>4, <1>5 DEF MakeClient

-----------------------------------------------------------------------------
(* The transport's part of a role.                                         *)

(* A role with a transport i that it goes on to use, or leaves.            *)
LEMMA RoleGoesOn ==
  ASSUME BridgeInv, NEW u \in Users, user[u].at \in AtTransport,
         UNCHANGED <<late, inTick, client>>,
         Leave(u) \/ \E p \in AtTransport : Step(u, p)
  PROVE  user' \in [Users -> UserFields] /\ UsersAt' /\ Alone'
<1>1. /\ user[u] \in UserFields /\ user[u].server \in Servers /\ user[u].on \in Transports
      /\ Lonely(u)
      /\ ~late => client[user[u].server] = user[u].on
  BY ActorsLonely DEF BridgeInv, BridgeTypes, UsersAt, Alone, AtTransport
<1>2. CASE Leave(u)
  BY <1>1, <1>2, AbsentFields, RoleMoves DEF Leave, AtTransport
<1>3. ASSUME NEW p \in AtTransport, Step(u, p)
      PROVE  user' \in [Users -> UserFields] /\ UsersAt' /\ Alone'
  <2> DEFINE r == [user[u] EXCEPT !.at = p]
  <2>1. user' = [user EXCEPT ![u] = r]
    BY <1>3 DEF Step
  <2>2. p \in Places /\ p \notin {"", "make"}
    BY DEF Places, AtTransport
  <2>3. r \in UserFields /\ r.at = p /\ r.server = user[u].server /\ r.on = user[u].on
    BY <1>1, <2>2, PlaceUpdates, Zenon
  <2> HIDE DEF r
  <2> QED BY <1>1, <2>1, <2>2, <2>3, RoleMoves
<1> QED BY <1>2, <1>3

(* Transports that stay as open or closed as they are.                     *)
SameWires == /\ transport' \in [Transports -> TransportFields]
             /\ \A j \in Transports : transport'[j].closed = transport[j].closed

(* What connects is open and will be closed at the end of the tick.        *)
OwnedStart ==
  \A j \in Transports : Runs(j)' =>
    Runs(j) \/ (~transport[j].closed /\ (late \/ Registered(j)))

LEMMA WiresKeep ==
  ASSUME BridgeInv, SameWires,
         UNCHANGED <<late, inTick, client, built, closing>>,
         user' \in [Users -> UserFields], task' \in [Transports -> Tasks], OwnedStart
  PROVE  BridgeTypes' /\ RunsOwned'
<1>1. BridgeTypes'
  BY DEF BridgeInv, BridgeTypes, SameWires
<1>2. \A j : Registered(j)' <=> Registered(j)
  BY DEF Registered
<1>3. RunsOwned'
  BY <1>2, RunsStayOwned DEF SameWires, OwnedStart
<1> QED BY <1>1, <1>3

LEMMA UseKeeps ==
  ASSUME BridgeInv, NEW u \in Users, Ensure(u) \/ Waited(u) \/ Stopped(u) \/ Submit(u)
  PROVE  BridgeInv'
<1> DEFINE i == user[u].on
           t == transport[i]
<1>1. user[u].at \in AtTransport /\ UNCHANGED <<late, inTick, client, built, closing>>
  BY DEF Ensure, Waited, Stopped, Submit, AtTransport, given, registry, ending
<1>2. Leave(u) \/ \E p \in AtTransport : Step(u, p)
  BY DEF Ensure, Waited, Stopped, Submit, AtTransport
<1>3. /\ i \in Transports /\ t \in TransportFields
      /\ transport \in [Transports -> TransportFields] /\ task \in [Transports -> Tasks]
  BY <1>1 DEF BridgeInv, BridgeTypes, UsersAt
<1>4. user' \in [Users -> UserFields] /\ UsersAt' /\ Alone'
  BY <1>1, <1>2, RoleGoesOn
<1>5. /\ SameClosed(t, t)
      /\ \A w \in Users \cup {None} : /\ SameClosed(t, [t EXCEPT !.lock = w])
                                      /\ SameClosed(t, [t EXCEPT !.lock = w, !.loop = TRUE])
      /\ SameClosed(t, [t EXCEPT !.tools = TRUE]) /\ SameClosed(t, Cleared(t))
  BY <1>3, TransportUpdates DEF SameClosed
<1>6. late \/ Registered(i)
  BY <1>1 DEF BridgeInv, Alone, UsersAt, Registered, AtTransport
<1>7. ASSUME NEW r, SameClosed(t, r), transport' = [transport EXCEPT ![i] = r]
      PROVE  SameWires
  BY <1>3, <1>7 DEF SameWires, SameClosed
<1>8. CASE UNCHANGED wires
  <2>1. SameWires /\ task' = task
    BY <1>3, <1>8 DEF SameWires, wires
  <2>2. OwnedStart
    <3> SUFFICES ASSUME NEW j \in Transports, Runs(j)'
                 PROVE  Runs(j) \/ (~transport[j].closed /\ (late \/ Registered(j)))
      BY DEF OwnedStart
    <3>1. Runs(j)
      BY <2>1 DEF Runs
    <3> QED BY <3>1
  <2>3. BridgeTypes' /\ RunsOwned'
    BY <1>1, <1>3, <1>4, <2>1, <2>2, WiresKeep
  <2> QED BY <1>4, <2>3 DEF BridgeInv
<1>9. CASE Ensure(u) /\ ~UNCHANGED wires
  <2> DEFINE r == [t EXCEPT !.lock = u, !.loop = TRUE]
  <2>1. /\ transport' = [transport EXCEPT ![i] = r]
        /\ task' = [task EXCEPT ![i] = "connects"] /\ ~t.closed
    BY <1>9, <1>3 DEF Ensure, MayConnect
  <2>2. SameWires
    BY <1>5, <1>7, <2>1
  <2>3. /\ task' \in [Transports -> Tasks]
        /\ \A j \in Transports \ {i} : task'[j] = task[j]
    BY <1>3, <2>1 DEF Tasks
  <2>4. OwnedStart
    <3>1. SUFFICES ASSUME NEW j \in Transports, Runs(j)'
                   PROVE  Runs(j) \/ (~transport[j].closed /\ (late \/ Registered(j)))
      BY DEF OwnedStart
    <3>2. CASE j = i
      BY <1>6, <2>1, <3>2
    <3>3. CASE j # i
      BY <2>3, <3>1, <3>3 DEF Runs
    <3> QED BY <3>2, <3>3
  <2>5. BridgeTypes' /\ RunsOwned'
    BY <1>1, <1>4, <2>2, <2>3, <2>4, WiresKeep
  <2> QED BY <1>4, <2>5 DEF BridgeInv
<1>10. CASE Waited(u) \/ Stopped(u) \/ Submit(u)
  <2>1. SameWires
    <3>1. CASE Waited(u)
      BY <1>3, <1>5, <1>7, <3>1 DEF Waited
    <3>2. CASE Stopped(u)
      BY <1>3, <1>5, <1>7, <3>2 DEF Stopped
    <3>3. CASE Submit(u)
      <4>1. CASE UNCHANGED transport
        BY <1>3, <4>1 DEF SameWires
      <4>2. CASE ~UNCHANGED transport
        BY <1>3, <1>5, <1>7, <3>3, <4>2 DEF Submit
      <4> QED BY <4>1, <4>2
    <3> QED BY <1>10, <3>1, <3>2, <3>3
  <2>2. /\ task' \in [Transports -> Tasks]
        /\ \A j \in Transports : task'[j] \in {task[j], "over"}
    BY <1>3, <1>10 DEF Waited, Stopped, Submit, Tasks
  <2>3. OwnedStart
    <3> SUFFICES ASSUME NEW j \in Transports, Runs(j)'
                 PROVE  Runs(j) \/ (~transport[j].closed /\ (late \/ Registered(j)))
      BY DEF OwnedStart
    <3>1. Runs(j)
      BY <2>2 DEF Runs
    <3> QED BY <3>1
  <2>4. BridgeTypes' /\ RunsOwned'
    BY <1>1, <1>4, <2>1, <2>2, <2>3, WiresKeep
  <2> QED BY <1>4, <2>4 DEF BridgeInv
<1> QED BY <1>8, <1>9, <1>10

-----------------------------------------------------------------------------
(* The loop's thread.                                                      *)
LEMMA LoopKeeps ==
  ASSUME BridgeInv, NEW i \in Transports, Connected(i) \/ Refused(i)
  PROVE  BridgeInv'
<1> DEFINE t == transport[i]
           r == [t EXCEPT !.session = TRUE]
<1>1. /\ t \in TransportFields /\ transport \in [Transports -> TransportFields]
      /\ task \in [Transports -> Tasks] /\ user \in [Users -> UserFields]
  BY DEF BridgeInv, BridgeTypes
<1>2. UNCHANGED <<late, inTick, client, built, closing, user>>
  BY DEF Connected, Refused, given, registry, ending
<1>3. SameClosed(t, r)
  BY <1>1, None \in Users \cup {None}, TransportUpdates
<1>4. SameWires
  <2>1. transport' = [transport EXCEPT ![i] = r] \/ UNCHANGED transport
    BY <1>1 DEF Connected, Refused
  <2> HIDE DEF r
  <2> QED BY <1>1, <1>3, <2>1 DEF SameWires, SameClosed
<1>5. task' \in [Transports -> Tasks]
  BY <1>1 DEF Connected, Refused, Tasks
<1>6. OwnedStart
  <2> SUFFICES ASSUME NEW j \in Transports, Runs(j)'
                 PROVE  Runs(j) \/ (~transport[j].closed /\ (late \/ Registered(j)))
    BY DEF OwnedStart
  <2>1. Runs(j)
    BY <1>1 DEF Connected, Refused, Runs
  <2> QED BY <2>1
<1>7. BridgeTypes' /\ RunsOwned'
  BY <1>1, <1>2, <1>4, <1>5, <1>6, WiresKeep
<1>8. UsersAt' /\ Alone'
  BY <1>2 DEF BridgeInv, UsersAt, Alone
<1> QED BY <1>7, <1>8 DEF BridgeInv

-----------------------------------------------------------------------------
(* The end of the tick.                                                    *)
LEMMA CloseTransportKeeps ==
  ASSUME BridgeInv, NEW i \in Transports, CloseTransport(i)
  PROVE  BridgeInv'
<1> DEFINE t == transport[i]
           r == [Cleared(t) EXCEPT !.closed = TRUE]
<1>1. /\ t \in TransportFields /\ transport \in [Transports -> TransportFields]
      /\ task \in [Transports -> Tasks] /\ closing # {}
  BY DEF BridgeInv, BridgeTypes, CloseTransport
<1>2. UNCHANGED <<late, inTick, client, built, user>> /\ closing' = closing \ {i}
  BY DEF CloseTransport, given, registry
<1>3. r \in TransportFields
  BY <1>1 DEF TransportFields, Cleared
<1>4. /\ transport' \in [Transports -> TransportFields]
      /\ \A j \in Transports \ {i} : transport'[j] = transport[j]
  <2>1. transport' = [transport EXCEPT ![i] = r]
    BY <1>1 DEF CloseTransport
  <2> HIDE DEF r
  <2> QED BY <1>1, <1>3, <2>1
<1>5. /\ task' \in [Transports -> Tasks] /\ ~Runs(i)'
      /\ \A j \in Transports \ {i} : task'[j] = task[j]
  BY <1>1 DEF CloseTransport, Tasks, Runs
<1>6. BridgeTypes'
  BY <1>2, <1>4, <1>5 DEF BridgeInv, BridgeTypes
<1>7. UsersAt' /\ Alone'
  BY <1>2 DEF BridgeInv, UsersAt, Alone
<1>8. RunsOwned'
  <2>1. inTick' => closing' = {}
    BY <1>1, <1>2 DEF BridgeInv, RunsOwned
  <2>2. ASSUME NEW j \in Transports, Runs(j)'
        PROVE  ~transport'[j].closed /\ (late' \/ Registered(j)')
    <3>1. j # i
      BY <1>5, <2>2
    <3>2. Runs(j) /\ transport'[j] = transport[j]
      BY <1>4, <1>5, <2>2, <3>1 DEF Runs
    <3> QED BY <1>2, <3>1, <3>2 DEF BridgeInv, RunsOwned, Registered
  <2> QED BY <2>1, <2>2 DEF RunsOwned
<1> QED BY <1>6, <1>7, <1>8 DEF BridgeInv

LEMMA CloseRegistryKeeps ==
  ASSUME BridgeInv, CloseRegistry
  PROVE  BridgeInv'
<1>1. /\ UNCHANGED <<late, built, transport, task, user>> /\ inTick' = FALSE
      /\ client' = [s \in Servers |-> None]
      /\ closing' = {client[s] : s \in Servers} \ {None}
      /\ late \/ Unused
  BY DEF CloseRegistry, given, wires
<1>2. inTick /\ closing = {} /\ client \in [Servers -> 0..MaxBuilt]
  BY DEF CloseRegistry, BridgeInv, BridgeTypes, RunsOwned
<1>3. \A s \in Servers : client[s] \in Transports \cup {None}
  BY <1>2, BridgeAssumption DEF Transports, None
<1>4. BridgeTypes'
  BY <1>1, <1>3, BridgeAssumption DEF BridgeInv, BridgeTypes, None
<1>5. UsersAt'
  BY <1>1 DEF BridgeInv, UsersAt
<1>6. Alone'
  <2>1. ~late => \A u \in Users : user[u].at = ""
    BY <1>1, AbsentFields DEF Unused
  <2> QED BY <1>1, <2>1 DEF Alone, AtTransport
<1>7. RunsOwned'
  <2>1. ASSUME NEW j \in Transports, Runs(j)'
        PROVE  ~transport'[j].closed /\ (late' \/ Registered(j)')
    <3>1. Runs(j)
      BY <1>1, <2>1 DEF Runs
    <3>2. ~transport[j].closed /\ (late \/ \E s \in Servers : client[s] = j)
      BY <1>2, <3>1 DEF BridgeInv, RunsOwned, Registered
    <3>3. j # None
      BY BridgeAssumption DEF Transports, None
    <3> QED BY <1>1, <3>2, <3>3 DEF Registered
  <2> QED BY <1>1, <2>1 DEF RunsOwned
<1> QED BY <1>4, <1>5, <1>6, <1>7 DEF BridgeInv

LEMMA NextTickKeeps ==
  ASSUME BridgeInv, NextTick
  PROVE  BridgeInv'
<1>1. /\ UNCHANGED <<late, client, built, transport, task, user, closing>>
      /\ closing = {} /\ inTick' = TRUE
  BY DEF NextTick, given, wires
<1>2. BridgeTypes' /\ UsersAt'
  BY <1>1 DEF BridgeInv, BridgeTypes, UsersAt
<1>3. Alone' /\ RunsOwned'
  BY <1>1 DEF BridgeInv, Alone, RunsOwned, Runs, Registered
<1> QED BY <1>2, <1>3 DEF BridgeInv

(* For any number of servers, roles and transports: a role that was not    *)
(* left behind is alone and uses the registry's client, and what runs is   *)
(* the registry's.                                                         *)
THEOREM BridgeInvariant == BridgeSpec => []BridgeInv
<1>1. BridgeInv /\ [BridgeNext]_bridgeVars => BridgeInv'
  <2> SUFFICES ASSUME BridgeInv, [BridgeNext]_bridgeVars PROVE BridgeInv'
    OBVIOUS
  <2>1. CASE UNCHANGED bridgeVars
    BY <2>1 DEF bridgeVars, given, registry, wires, ending, BridgeInv, BridgeTypes, UsersAt,
                Alone, RunsOwned, Registered, Runs
  <2>2. CASE BridgeNext
    BY <2>2, AskKeeps, FindKeeps, MakeKeeps, UseKeeps, LoopKeeps, CloseTransportKeeps,
       CloseRegistryKeeps, NextTickKeeps
    DEF BridgeNext
  <2> QED BY <2>1, <2>2
<1> QED BY BridgeStarts, <1>1, PTL DEF BridgeSpec

(* For any number of servers, roles and transports: a closed transport     *)
(* never connects, and without roles left behind every connection belongs  *)
(* to a client that the end of the tick closes.                            *)
THEOREM ConnectionsEnd == BridgeSpec => []NothingRunsOn
<1>1. BridgeInv => NothingRunsOn
  BY DEF BridgeInv, RunsOwned, Registered, NothingRunsOn, InUse
<1> QED BY BridgeInvariant, <1>1, PTL

-----------------------------------------------------------------------------
(* Requests to the human.                                                  *)

(* A request of the file: what is open has no reply, what is consumed has  *)
(* none any more, and only the others hold one.                            *)
GoodItem(r) ==
  /\ r \in Item
  /\ r.consumed => r.status = "filled" /\ r.reply = Vaulted

(* A reply to service s that the consumer has not yet taken out of the     *)
(* file.                                                                   *)
Waits(r, s)     == r.service = s /\ r.status = "filled" /\ ~r.consumed
(* The reply the operator meant is in request i, the last that was filled. *)
Carries(i, s) ==
  /\ Waits(items[i], s) /\ items[i].reply = meant[s]
  /\ \A o \in DOMAIN items : o > i => ~Waits(items[o], s)

(* What the operator meant last for s is in the vault, or it waits in the  *)
(* file.                                                                   *)
Meant(s) ==
  \/ meant[s] = stored[s] /\ \A i \in DOMAIN items : ~Waits(items[i], s)
  \/ \E i \in DOMAIN items : Carries(i, s)

(* What the consumer works on is a copy: of the requests it has still to   *)
(* store as they are in the file, of the others with the value wiped; and  *)
(* what it has stored is what was meant.                                   *)
Copies ==
  /\ consumer.items \in Seq(Item) /\ Len(consumer.items) = Len(items)
  /\ consumer.left \subseteq Filled
  /\ \A a \in consumer.left, b \in Filled : b >= a => b \in consumer.left
  /\ \A i \in DOMAIN items :
       /\ i \in consumer.left \/ i \notin Filled => consumer.items[i] = items[i]
       /\ i \in Filled \ consumer.left =>
            /\ consumer.items[i].consumed /\ consumer.items[i].reply = Vaulted
            /\ consumer.items[i].status = "filled"
            /\ consumer.items[i].service = items[i].service
       /\ \A s \in Services : Carries(i, s) /\ i \notin consumer.left => stored[s] = meant[s]

(* The inductive invariant: the file, the vault and the copy of the        *)
(* consumer agree on what was meant.                                       *)
HumanInv ==
  /\ items \in Seq(Item) /\ \A i \in DOMAIN items : GoodItem(items[i])
  /\ stored \in [Services -> Replies] /\ meant \in [Services -> Replies]
  /\ consumer.at \in {"idle", "storing"}
  /\ consumer.at = "storing" => Copies
  /\ \A s \in Services : Meant(s)

(* An empty file and an empty vault, with nothing meant yet.               *)
LEMMA HumanStarts == HumanInit => HumanInv
BY DEF HumanInit, HumanInv, NoConsumer, Meant, Replies, Waits

(* A set of positions has a first one.                                     *)
LEMMA FirstIsFirst ==
  ASSUME NEW places, places \subseteq Nat, places # {}
  PROVE  First(places) \in places /\ \A o \in places : First(places) <= o
<1>1. PICK i \in places : \A o \in places : ~(<<o, i>> \in OpToRel(<, Nat))
  BY NatLessThanWellFounded, WFMin
<1>2. \A o \in places : ~(o < i)
  BY <1>1 DEF OpToRel
<1>3. \A o \in places : i <= o
  BY <1>2
<1> QED BY <1>3 DEF First

(* A new request is open, so it carries no reply and covers none.          *)
LEMMA AskKeepsInbox ==
  ASSUME HumanInv, NEW s \in Services, Ask(s)
  PROVE  HumanInv'
<1> DEFINE new == [service |-> s, status |-> "open", consumed |-> FALSE, reply |-> Nothing]
<1>1. /\ items \in Seq(Item) /\ Len(items) \in Nat /\ DOMAIN items = 1..Len(items)
      /\ \A i \in DOMAIN items : GoodItem(items[i])
  BY DEF HumanInv
<1>2. GoodItem(new) /\ new \in Item /\ \A t : ~Waits(new, t)
  BY DEF GoodItem, Item, Replies, Waits
<1>3. items' = Append(items, new) /\ UNCHANGED <<consumer, stored, meant>>
      /\ consumer.at = "idle"
  BY DEF Ask, Unlocked
<1> HIDE DEF new
<1>4. /\ items' \in Seq(Item) /\ DOMAIN items' = 1..Len(items) + 1
      /\ \A i \in DOMAIN items : items'[i] = items[i]
      /\ items'[Len(items) + 1] = new
  BY <1>1, <1>2, <1>3
<1>5. \A i \in DOMAIN items' : i \in DOMAIN items \/ i = Len(items) + 1
  BY <1>1, <1>4
<1>6. DOMAIN items \subseteq DOMAIN items'
  BY <1>1, <1>4
<1>7. ASSUME NEW t \in Services PROVE Meant(t)'
  <2>1. Meant(t)
    BY DEF HumanInv
  <2>2. ASSUME meant[t] = stored[t], \A i \in DOMAIN items : ~Waits(items[i], t)
        PROVE  Meant(t)'
    BY <1>2, <1>3, <1>4, <1>5, <2>2 DEF Meant, Waits
  <2>3. ASSUME NEW i \in DOMAIN items, Carries(i, t) PROVE Carries(i, t)'
    BY <1>2, <1>3, <1>4, <1>5, <1>6, <2>3 DEF Carries, Waits
  <2> QED BY <1>6, <2>1, <2>2, <2>3 DEF Meant
<1>8. \A i \in DOMAIN items' : GoodItem(items'[i])
  BY <1>1, <1>2, <1>4, <1>5
<1> QED BY <1>3, <1>4, <1>7, <1>8 DEF HumanInv

(* The operator replies to the last request of its service: that reply     *)
(* becomes the last, whatever waited before it.                            *)
LEMMA ReplyKeepsInbox ==
  ASSUME HumanInv, Tidy, NEW i \in 1..MaxItems, NEW v \in Values, Reply(i, v),
         NEW s, s = items[i].service
  PROVE  HumanInv'
<1> DEFINE new == [items[i] EXCEPT !.reply = v, !.status = "filled"]
<1>1. /\ items \in Seq(Item) /\ Len(items) \in Nat /\ DOMAIN items = 1..Len(items)
      /\ \A k \in DOMAIN items : GoodItem(items[k])
      /\ i \in DOMAIN items /\ ~items[i].consumed
      /\ \A o \in i + 1..Len(items) : items[o].service # s
  BY DEF HumanInv, Reply
<1>2. items[i] \in Item /\ s \in Services
  BY <1>1 DEF Item, GoodItem
<1>3. /\ GoodItem(new) /\ new \in Item /\ new.reply = v
      /\ \A t : Waits(new, t) <=> t = s
  BY <1>1, <1>2 DEF GoodItem, Item, Replies, Waits
<1>4. /\ items' = [items EXCEPT ![i] = new] /\ meant' = [meant EXCEPT ![s] = v]
      /\ UNCHANGED <<consumer, stored>> /\ consumer.at = "idle"
  BY <1>1 DEF Reply, Unlocked
<1> HIDE DEF new
<1>5. /\ items' \in Seq(Item) /\ DOMAIN items' = DOMAIN items
      /\ \A k \in DOMAIN items : k # i => items'[k] = items[k]
      /\ items'[i] = new
  BY <1>1, <1>3, <1>4
<1>6. /\ meant' \in [Services -> Replies] /\ meant'[s] = v
      /\ \A t \in Services : t # s => meant'[t] = meant[t]
  BY <1>2, <1>4 DEF HumanInv, Replies
<1>7. Carries(i, s)'
  <2>1. Waits(items'[i], s) /\ items'[i].reply = v
    BY <1>3, <1>5
  <2>2. ASSUME NEW o \in DOMAIN items', o > i PROVE items'[o].service # s
    BY <1>1, <1>5, <2>2
  <2>3. \A o \in DOMAIN items' : o > i => ~Waits(items'[o], s)
    BY <2>2 DEF Waits
  <2> QED BY <1>6, <2>1, <2>3 DEF Carries
<1>8. ASSUME NEW t \in Services, t # s PROVE Meant(t)'
  <2>1. Meant(t) /\ meant'[t] = meant[t] /\ stored'[t] = stored[t]
    BY <1>4, <1>6, <1>8 DEF HumanInv
  <2>2. \A k \in DOMAIN items : Waits(items'[k], t) => items'[k] = items[k]
    BY <1>3, <1>5, <1>8
  <2>3. ~Waits(items[i], t)
    BY <1>8 DEF Waits
  <2>4. ASSUME NEW k \in DOMAIN items, Carries(k, t) PROVE Carries(k, t)'
    <3>1. k # i
      BY <2>3, <2>4 DEF Carries
    <3>2. \A o \in DOMAIN items' : o > k => ~Waits(items'[o], t)
      BY <1>5, <2>2, <2>4 DEF Carries
    <3>3. items'[k] = items[k]
      BY <1>5, <3>1
    <3> QED BY <2>1, <2>4, <3>2, <3>3 DEF Carries
  <2>5. ASSUME meant[t] = stored[t], \A k \in DOMAIN items : ~Waits(items[k], t)
        PROVE  Meant(t)'
    BY <1>5, <2>1, <2>2, <2>5 DEF Meant
  <2> QED BY <1>5, <2>1, <2>4, <2>5 DEF Meant
<1>9. \A t \in Services : Meant(t)'
  <2>1. Meant(s)'
    BY <1>1, <1>5, <1>7 DEF Meant
  <2> QED BY <1>8, <2>1
<1>10. \A k \in DOMAIN items' : GoodItem(items'[k])
  BY <1>1, <1>3, <1>5
<1>11. /\ stored' \in [Services -> Replies]
       /\ consumer'.at \in {"idle", "storing"} /\ consumer'.at # "storing"
  BY <1>4 DEF HumanInv
<1> QED BY <1>5, <1>6, <1>9, <1>10, <1>11 DEF HumanInv

(* What the file says does not change while credentials are stored.        *)
LEMMA SameFile ==
  ASSUME HumanInv, UNCHANGED <<items, meant>>
  PROVE  /\ items' \in Seq(Item) /\ \A i \in DOMAIN items' : GoodItem(items'[i])
         /\ meant' \in [Services -> Replies] /\ Filled' = Filled
         /\ \A i, s : Carries(i, s)' = Carries(i, s)
BY DEF HumanInv, Filled, Carries

(* consume_secrets starts with a copy of the whole file.                   *)
LEMMA ConsumeKeeps ==
  ASSUME HumanInv, Consume
  PROVE  HumanInv'
<1>1. /\ UNCHANGED <<items, stored, meant>>
      /\ consumer' = [at |-> "storing", left |-> Filled, items |-> items]
  BY DEF Consume
<1>2. \A i, s : Carries(i, s) /\ i \in DOMAIN items => i \in Filled
  BY DEF Carries, Waits, Filled
<1>3. Copies'
  BY <1>1, <1>2, SameFile DEF Copies, HumanInv
<1>4. \A s \in Services : Meant(s)'
  BY <1>1, SameFile DEF HumanInv, Meant
<1> QED BY <1>1, <1>3, <1>4, SameFile DEF HumanInv

(* Credentials are stored in the order of the file: a later reply is still *)
(* on the list when an earlier one is stored.                              *)
LEMMA PutKeeps ==
  ASSUME HumanInv, PutCredential
  PROVE  HumanInv'
<1> DEFINE i    == First(consumer.left)
           s    == items[i].service
           mine == consumer.items
           new  == [mine[i] EXCEPT !.consumed = TRUE, !.reply = Vaulted]
<1>1. /\ UNCHANGED <<items, meant>> /\ consumer.at = "storing" /\ consumer.left # {}
      /\ Copies
  BY DEF PutCredential, HumanInv
<1>2. /\ Len(items) \in Nat /\ DOMAIN items = 1..Len(items) /\ DOMAIN mine = DOMAIN items
      /\ mine \in Seq(Item)
  BY <1>1 DEF HumanInv, Copies
<1>3. i \in consumer.left /\ \A o \in consumer.left : i <= o
  <2>1. consumer.left \subseteq Nat
    BY <1>1, <1>2 DEF Copies, Filled
  <2> QED BY <1>1, <2>1, FirstIsFirst
<1> HIDE DEF i
<1>4. i \in Filled /\ i \in DOMAIN items /\ mine[i] = items[i] /\ items[i] \in Item
      /\ Waits(items[i], s) /\ s \in Services
  <2>1. i \in Filled /\ i \in DOMAIN items
    BY <1>1, <1>3 DEF Copies, Filled
  <2>2. items[i] \in Item
    BY <2>1 DEF HumanInv
  <2> QED BY <1>1, <1>3, <2>1, <2>2 DEF Copies, Filled, Waits, Item
<1>5. /\ stored' = [stored EXCEPT ![s] = items[i].reply]
      /\ consumer' = [consumer EXCEPT !.left = @ \ {i}, !.items[i] = new]
  BY <1>4 DEF PutCredential, i
<1>6. /\ new.consumed /\ new.reply = Vaulted /\ new.status = "filled"
      /\ new.service = s /\ new \in Item
  BY <1>4 DEF Item, Replies, Waits
<1> HIDE DEF new
<1>7. /\ consumer'.left = consumer.left \ {i} /\ consumer'.at = "storing"
      /\ consumer'.items = [mine EXCEPT ![i] = new]
  BY <1>1, <1>5
<1>8. /\ consumer'.items \in Seq(Item) /\ Len(consumer'.items) = Len(items)
      /\ consumer'.items[i] = new
      /\ \A k \in DOMAIN items : k # i => consumer'.items[k] = mine[k]
  BY <1>1, <1>2, <1>4, <1>6, <1>7 DEF Copies
<1>9. /\ stored' \in [Services -> Replies] /\ stored'[s] = items[i].reply
      /\ \A t \in Services : t # s => stored'[t] = stored[t]
  BY <1>4, <1>5 DEF HumanInv, Item
<1>10. ASSUME NEW k \in DOMAIN items, NEW t \in Services, Carries(k, t),
              k \notin consumer.left \ {i}
       PROVE  stored'[t] = meant[t]
  <2>1. CASE k = i
    BY <1>9, <1>10, <2>1 DEF Carries, Waits
  <2>2. CASE k # i /\ t # s
    BY <1>1, <1>9, <1>10, <2>2 DEF Copies
  <2>3. CASE k # i /\ t = s
    <3>1. k \in Filled /\ ~(i > k)
      BY <1>4, <1>10, <2>3 DEF Carries, Waits, Filled
    <3>2. k >= i
      BY <1>2, <1>4, <3>1
    <3>3. k \in consumer.left
      BY <1>1, <1>3, <3>1, <3>2 DEF Copies
    <3> QED BY <1>10, <2>3, <3>3
  <2> QED BY <2>1, <2>2, <2>3
<1>11. \A a \in consumer'.left, b \in Filled : b >= a => b \in consumer'.left
  <2>1. ASSUME NEW a \in consumer.left \ {i}, NEW b \in Filled, b >= a
        PROVE  b \in consumer.left \ {i}
    <3>1. b \in consumer.left
      BY <1>1, <2>1 DEF Copies
    <3>2. a > i /\ b # i
      BY <1>1, <1>2, <1>3, <1>4, <2>1 DEF Copies, Filled
    <3> QED BY <3>1, <3>2
  <2> QED BY <1>7, <2>1
<1>12. Copies'
  <2>1. ASSUME NEW k \in DOMAIN items, k \in consumer'.left \/ k \notin Filled
        PROVE  consumer'.items[k] = items[k]
    BY <1>1, <1>4, <1>7, <1>8, <2>1 DEF Copies
  <2>2. ASSUME NEW k \in DOMAIN items, k \in Filled \ consumer'.left
        PROVE  /\ consumer'.items[k].consumed /\ consumer'.items[k].reply = Vaulted
               /\ consumer'.items[k].status = "filled"
               /\ consumer'.items[k].service = items[k].service
    <3>1. CASE k = i
      BY <1>6, <1>8, <3>1
    <3>2. CASE k # i
      BY <1>1, <1>7, <1>8, <2>2, <3>2 DEF Copies
    <3> QED BY <3>1, <3>2
  <2>3. consumer'.left \subseteq Filled
    BY <1>1, <1>7 DEF Copies
  <2>4. /\ consumer'.items \in Seq(Item) /\ Len(consumer'.items) = Len(items')
        /\ DOMAIN items' = DOMAIN items /\ items' = items /\ meant' = meant
    BY <1>1, <1>8
  <2>5. \A k \in DOMAIN items, t \in Services :
           Carries(k, t) /\ k \notin consumer'.left => stored'[t] = meant[t]
    BY <1>7, <1>10
  <2> QED BY <1>11, <2>1, <2>2, <2>3, <2>4, <2>5, SameFile DEF Copies
<1>13. ASSUME NEW t \in Services PROVE Meant(t)'
  <2>1. Meant(t)
    BY DEF HumanInv
  <2>2. CASE \A k \in DOMAIN items : ~Waits(items[k], t)
    <3>1. t # s /\ meant[t] = stored[t]
      BY <1>4, <2>1, <2>2 DEF Meant, Carries
    <3> QED BY <1>1, <1>9, <2>2, <3>1 DEF Meant
  <2>3. CASE \E k \in DOMAIN items : Carries(k, t)
    BY <1>1, <2>3, SameFile DEF Meant
  <2> QED BY <2>1, <2>2, <2>3 DEF Meant
<1> QED BY <1>1, <1>7, <1>9, <1>12, <1>13, SameFile DEF HumanInv

(* The file is written only when everything it holds is stored.            *)
LEMMA WriteKeeps ==
  ASSUME HumanInv, WriteInbox
  PROVE  HumanInv'
<1> DEFINE mine == consumer.items
<1>1. /\ UNCHANGED <<stored, meant>> /\ consumer.left = {} /\ Copies
      /\ items' = mine /\ consumer' = NoConsumer
  BY DEF WriteInbox, HumanInv
<1>2. items' \in Seq(Item) /\ DOMAIN items' = DOMAIN items
  BY <1>1 DEF HumanInv, Copies
<1>3. ASSUME NEW k \in DOMAIN items
      PROVE  GoodItem(items'[k]) /\ \A s : ~Waits(items'[k], s)
  <2>1. GoodItem(items[k]) /\ items'[k] \in Item
    BY <1>2 DEF HumanInv
  <2>2. CASE k \in Filled
    BY <1>1, <2>1, <2>2 DEF Copies, GoodItem, Waits
  <2>3. CASE k \notin Filled
    BY <1>1, <2>1, <2>3 DEF Copies, GoodItem, Waits, Filled
  <2> QED BY <2>2, <2>3
<1>4. ASSUME NEW s \in Services PROVE meant'[s] = stored'[s]
  <2>1. \A k \in DOMAIN items : Carries(k, s) => stored[s] = meant[s]
    BY <1>1 DEF Copies
  <2> QED BY <1>1, <2>1 DEF HumanInv, Meant
<1>5. \A s \in Services : Meant(s)'
  BY <1>2, <1>3, <1>4 DEF Meant
<1> QED BY <1>1, <1>2, <1>3, <1>5 DEF HumanInv, NoConsumer

(* The inbox file and the vault together always hold what the operator     *)
(* meant.                                                                  *)
THEOREM HumanInvariant == Tidy /\ HumanSpec => []HumanInv
<1>1. ASSUME Tidy, HumanInv, [HumanNext]_humanVars PROVE HumanInv'
  <2>1. CASE UNCHANGED humanVars
    <3>1. UNCHANGED items /\ UNCHANGED meant /\ UNCHANGED stored /\ UNCHANGED consumer
      BY <2>1 DEF humanVars
    <3>2. ASSUME NEW s \in Services PROVE Meant(s)'
      <4>1. Meant(s)
        BY <1>1 DEF HumanInv
      <4> QED BY <3>1, <4>1 DEF Meant, Carries
    <3>3. Copies => Copies'
      BY <3>1 DEF Copies, Carries, Filled
    <3> QED BY <1>1, <3>1, <3>2, <3>3 DEF HumanInv
  <2>2. CASE ConsumerStops
    <3>1. UNCHANGED <<items, meant, stored>> /\ consumer' = NoConsumer
      BY <2>2 DEF ConsumerStops
    <3> QED BY <1>1, <3>1, SameFile DEF HumanInv, NoConsumer, Meant
  <2> QED BY <1>1, <2>1, <2>2, AskKeepsInbox, ReplyKeepsInbox, ConsumeKeeps, PutKeeps, WriteKeeps
          DEF HumanNext
<1>2. CASE Tidy
  BY <1>1, <1>2, HumanStarts, PTL DEF HumanSpec
<1>3. CASE ~Tidy
  BY <1>3
<1> QED BY <1>2, <1>3

(* No reply is lost and none stays behind.                                 *)
THEOREM RepliesAreVaulted == Tidy /\ HumanSpec => []ReplyIsVaulted
<1>1. HumanInv => ReplyIsVaulted
  BY DEF HumanInv, GoodItem, Meant, Carries, Waits, ReplyIsVaulted
<1>2. CASE Tidy
  BY <1>1, <1>2, HumanInvariant, PTL
<1>3. CASE ~Tidy
  BY <1>3
<1> QED BY <1>2, <1>3

-----------------------------------------------------------------------------
(* The sessions of the browser.                                            *)

(* The agents visit one site a tick, and the operator waits for them.      *)
InTurns == {"one site", "turns"} \subseteq Manners

(* What the sites know of the logins, what a browser or a vault file       *)
(* holds, and the type of every variable.                                  *)
Logins == [Sites -> Nat]
Jars   == {<<>>} \cup {<<c>> : c \in Logins}

BrowsingTypes ==
  /\ login \in Logins /\ browser \in Jars
  /\ file \in [Sites -> Jars]
  /\ DOMAIN opened \subseteq Sites
  /\ saving \in [at: {"idle", "state", "index"}, left: SUBSET Sites,
                 site: Sites \cup {Forbidden}]
  /\ saving.left \subseteq DOMAIN opened

(* The vault has the login of s, in its file and its index.                *)
Stored(s) == file[s] # <<>> /\ file[s][1][s] = login[s]
Listed(s) == Stored(s) /\ s \in index

(* A login that is not in the vault is in the browser, until it is saved.  *)
LoginsKept ==
  \A s \in Sites \ cut : login[s] > 0 =>
    /\ s \notin DOMAIN opened => Listed(s)
    /\ s \in DOMAIN opened => browser[1][s] = login[s]
    /\ s \in DOMAIN opened \ saving.left /\ saving.at # "idle" => Listed(s)
    /\ saving.at = "index" /\ s = saving.site => Stored(s)

(* The inductive invariant: a dead browser has nothing open, and the       *)
(* agents have one site open at a time.                                    *)
BrowsingInv ==
  /\ BrowsingTypes
  /\ browser = <<>> => DOMAIN opened = {} /\ saving.at = "idle"
  /\ \A s, t \in DOMAIN opened : s = t
  /\ LoginsKept

(* Nobody has logged in anywhere.                                          *)
LEMMA BrowsingStarts == BrowsingInit => BrowsingInv
<1> SUFFICES ASSUME BrowsingInit PROVE BrowsingInv
  OBVIOUS
<1>1. /\ login = NoLogins /\ NoLogins \in Logins /\ browser = <<>> /\ browser \in Jars
      /\ file = [s \in Sites |-> <<>>] /\ DOMAIN opened = {} /\ saving = NotSaving
  BY DEF BrowsingInit, NoLogins, Logins, Jars
<1>2. file \in [Sites -> Jars]
  BY <1>1 DEF Jars
<1>3. \A s \in Sites : login[s] = 0
  BY <1>1 DEF NoLogins
<1> QED BY <1>1, <1>2, <1>3 DEF BrowsingInv, BrowsingTypes, LoginsKept, NotSaving

(* A site that is called is the only one that is open, with the login the  *)
(* vault has of it; where the site renews the login, the browser has it.   *)
LEMMA CallKeeps ==
  ASSUME BrowsingInv, InTurns, NEW s \in Sites, Call(s)
  PROVE  BrowsingInv'
<1> DEFINE context == Context(s)[1]
<1>1. /\ UNCHANGED <<file, index, saving, cut>> /\ saving.at = "idle"
      /\ DOMAIN opened \subseteq {s}
  BY DEF Call, NotClosing, InTurns
<1>2. context \in Logins
  <2>1. CASE s \in DOMAIN opened
    <3>1. browser # <<>> /\ browser \in Jars /\ Context(s) = browser
      BY <2>1 DEF BrowsingInv, BrowsingTypes, Context
    <3> QED BY <3>1 DEF Jars
  <2>2. CASE s \notin DOMAIN opened
    <3>1. file[s] \in Jars /\ browser \in Jars /\ NoLogins \in Logins
      BY DEF BrowsingInv, BrowsingTypes, NoLogins, Logins
    <3> QED BY <2>2, <3>1 DEF Context, Loaded, Jars
  <2> QED BY <2>1, <2>2
<1>3. ASSUME s \notin cut, login[s] > 0 PROVE context[s] = login[s]
  <2>1. CASE s \in DOMAIN opened
    BY <1>3, <2>1 DEF BrowsingInv, LoginsKept, Context
  <2>2. CASE s \notin DOMAIN opened
    <3>1. Stored(s)
      BY <1>3, <2>2 DEF BrowsingInv, LoginsKept, Listed
    <3> QED BY <2>2, <3>1 DEF Stored, Context, Loaded
  <2> QED BY <2>1, <2>2
<1>4. DOMAIN opened' = {s}
  BY <1>1 DEF Call, Session
<1> HIDE DEF context
<1>5. /\ login' \in Logins /\ browser' \in Jars /\ browser' # <<>>
      /\ \A t \in Sites \ {s} : login'[t] = login[t]
      /\ s \notin cut /\ login'[s] > 0 => browser'[1][s] = login'[s]
  <2>1. login \in Logins /\ <<context>> \in Jars /\ <<context>> # <<>>
    BY <1>2 DEF BrowsingInv, BrowsingTypes, Jars
  <2>2. CASE browser' = <<context>> /\ UNCHANGED login
    BY <1>3, <2>1, <2>2
  <2>3. CASE /\ context[s] = login[s] /\ login' = [login EXCEPT ![s] = @ + 1]
             /\ browser' = <<[context EXCEPT ![s] = @ + 1]>>
    <3>1. login' \in Logins /\ login'[s] = login[s] + 1 /\ login[s] \in Nat
          /\ \A t \in Sites \ {s} : login'[t] = login[t]
      BY <2>1, <2>3 DEF Logins
    <3>2. [context EXCEPT ![s] = @ + 1] \in Logins
          /\ [context EXCEPT ![s] = @ + 1][s] = login[s] + 1
      BY <1>2, <2>3 DEF Logins
    <3> QED BY <2>3, <3>1, <3>2 DEF Jars
  <2>4. \/ browser' = <<context>> /\ UNCHANGED login
        \/ /\ context[s] = login[s] /\ login' = [login EXCEPT ![s] = @ + 1]
           /\ browser' = <<[context EXCEPT ![s] = @ + 1]>>
    BY <1>4 DEF Call, context
  <2> QED BY <2>2, <2>3, <2>4
<1>6. BrowsingTypes'
  <2>1. saving.left = {} \/ saving.left \subseteq DOMAIN opened'
    BY <1>1, <1>4 DEF BrowsingInv, BrowsingTypes
  <2> QED BY <1>1, <1>4, <1>5, <2>1 DEF BrowsingInv, BrowsingTypes
<1>7. LoginsKept'
  <2> SUFFICES ASSUME NEW t \in Sites \ cut, login'[t] > 0
               PROVE  /\ t # s => Listed(t)'
                      /\ t = s => browser'[1][t] = login'[t]
    BY <1>1, <1>4 DEF LoginsKept
  <2>1. ASSUME t # s PROVE Listed(t)'
    <3>1. login'[t] = login[t] /\ t \notin DOMAIN opened
      BY <1>1, <1>5, <2>1
    <3>2. Listed(t)
      BY <3>1 DEF BrowsingInv, LoginsKept
    <3> QED BY <1>1, <3>1, <3>2 DEF Listed, Stored
  <2> QED BY <1>5, <2>1
<1> QED BY <1>4, <1>5, <1>6, <1>7 DEF BrowsingInv

(* A call that opens nothing starts a browser at most.                     *)
LEMMA OpenFailsKeeps ==
  ASSUME BrowsingInv, NEW s \in Sites, OpenFails(s)
  PROVE  BrowsingInv'
<1>1. /\ UNCHANGED <<login, file, index, opened, saving, cut>> /\ saving.at = "idle"
      /\ browser' \in {browser, IF browser = <<>> THEN <<NoLogins>> ELSE browser}
  BY DEF OpenFails, NotClosing
<1>2. NoLogins \in Logins /\ <<NoLogins>> \in Jars /\ <<NoLogins>> # <<>>
  BY DEF NoLogins, Logins, Jars
<1>3. browser' \in Jars /\ (browser' = <<>> => browser = <<>>)
      /\ (browser # <<>> => browser' = browser)
  BY <1>1, <1>2 DEF BrowsingInv, BrowsingTypes
<1>4. BrowsingTypes'
  BY <1>1, <1>3 DEF BrowsingInv, BrowsingTypes
<1>5. LoginsKept'
  BY <1>1, <1>3 DEF BrowsingInv, LoginsKept, Listed, Stored
<1> QED BY <1>1, <1>3, <1>4, <1>5 DEF BrowsingInv

(* Closing saves every open site, first its state, then its entry; a site  *)
(* that cannot be saved is given up.                                       *)
LEMMA CloseKeeps ==
  ASSUME BrowsingInv,
         \/ StartClose \/ (\E s \in Sites : SaveState(s)) \/ SaveIndex \/ SaveFails
         \/ EndClose \/ BrowserDies
  PROVE  BrowsingInv'
<1>1. CASE StartClose
  BY <1>1 DEF StartClose, NotClosing, BrowsingInv, BrowsingTypes, LoginsKept, Listed, Stored
<1>2. ASSUME NEW s \in Sites, SaveState(s) PROVE BrowsingInv'
  <2>1. /\ UNCHANGED <<login, index, browser, opened, cut>> /\ browser # <<>>
        /\ file' = [file EXCEPT ![s] = browser] /\ s \in saving.left /\ s \in DOMAIN opened
        /\ saving'.at = "index" /\ saving'.site = s /\ saving'.left = saving.left
    BY <1>2 DEF SaveState, BrowsingInv, BrowsingTypes
  <2>2. /\ file' \in [Sites -> Jars] /\ file'[s] = browser
        /\ \A t \in Sites \ {s} : file'[t] = file[t]
    BY <2>1 DEF BrowsingInv, BrowsingTypes
  <2>3. LoginsKept'
    <3> SUFFICES ASSUME NEW t \in Sites \ cut, login[t] > 0
                 PROVE  /\ t \notin DOMAIN opened => Listed(t)'
                        /\ t \in DOMAIN opened => browser[1][t] = login[t]
                        /\ t \in DOMAIN opened \ saving.left => Listed(t)'
                        /\ t = s => Stored(t)'
      BY <2>1 DEF LoginsKept
    <3>1. t # s => (Listed(t) => Listed(t)')
      BY <2>1, <2>2 DEF Listed, Stored
    <3>2. /\ t \notin DOMAIN opened => Listed(t)
          /\ t \in DOMAIN opened => browser[1][t] = login[t]
          /\ t \in DOMAIN opened \ saving.left => Listed(t)
      BY <1>2 DEF BrowsingInv, LoginsKept, SaveState
    <3> QED BY <2>1, <2>2, <3>1, <3>2 DEF Stored
  <2>4. saving' \in [at: {"idle", "state", "index"}, left: SUBSET Sites,
                    site: Sites \cup {Forbidden}]
    <3>1. saving' = [saving EXCEPT !.at = "index", !.site = s]
      BY <1>2 DEF SaveState
    <3> QED BY <3>1 DEF BrowsingInv, BrowsingTypes
  <2> QED BY <2>1, <2>2, <2>3, <2>4 DEF BrowsingInv, BrowsingTypes
<1>3. CASE SaveIndex
  <2>1. /\ UNCHANGED <<login, file, browser, opened, cut>> /\ saving.at = "index"
        /\ index' = index \cup {saving.site} /\ saving'.at = "state"
        /\ saving'.left = saving.left \ {saving.site}
    BY <1>3 DEF SaveIndex
  <2>2. LoginsKept'
    BY <2>1 DEF BrowsingInv, LoginsKept, Listed, Stored
  <2>3. saving' \in [at: {"idle", "state", "index"}, left: SUBSET Sites,
                    site: Sites \cup {Forbidden}]
    <3>1. saving' = [at |-> "state", left |-> saving.left \ {saving.site}, site |-> Forbidden]
      BY <1>3 DEF SaveIndex
    <3> QED BY <3>1 DEF BrowsingInv, BrowsingTypes
  <2> QED BY <2>1, <2>2, <2>3 DEF BrowsingInv, BrowsingTypes
<1>4. CASE EndClose
  <2>1. /\ UNCHANGED <<login, file, index, cut>> /\ saving.at = "state" /\ saving.left = {}
        /\ saving' = NotSaving /\ browser' = <<>> /\ DOMAIN opened' = {}
    BY <1>4 DEF EndClose
  <2>2. LoginsKept'
    BY <2>1 DEF BrowsingInv, LoginsKept, Listed, Stored, NotSaving
  <2> QED BY <2>1, <2>2 DEF BrowsingInv, BrowsingTypes, NotSaving, Jars
<1>5. CASE BrowserDies
  <2>1. /\ UNCHANGED <<login, file, index>> /\ cut' = cut \cup DOMAIN opened
        /\ saving' = NotSaving /\ browser' = <<>> /\ DOMAIN opened' = {}
    BY <1>5 DEF BrowserDies
  <2>2. LoginsKept'
    BY <2>1 DEF BrowsingInv, LoginsKept, Listed, Stored, NotSaving
  <2> QED BY <2>1, <2>2 DEF BrowsingInv, BrowsingTypes, NotSaving, Jars
<1>6. CASE SaveFails
  <2>1. PICK s \in saving.left :
          /\ saving.at = "index" => s = saving.site
          /\ saving' = [at |-> "state", left |-> saving.left \ {s}, site |-> Forbidden]
          /\ cut' = cut \cup {s}
          /\ UNCHANGED <<login, file, index, browser, opened>>
    BY <1>6 DEF SaveFails
  <2>2. /\ saving'.at = "state" /\ saving'.left = saving.left \ {s}
        /\ saving' \in [at: {"idle", "state", "index"}, left: SUBSET Sites,
                       site: Sites \cup {Forbidden}]
    BY <2>1 DEF BrowsingInv, BrowsingTypes
  <2>3. browser # <<>>
    BY <2>1 DEF BrowsingInv, BrowsingTypes
  <2>4. saving.at # "idle"
    BY <1>6 DEF SaveFails
  <2>5. LoginsKept'
    BY <2>1, <2>2, <2>4 DEF BrowsingInv, LoginsKept, Listed, Stored
  <2> QED BY <2>1, <2>2, <2>3, <2>5 DEF BrowsingInv, BrowsingTypes
<1> QED BY <1>1, <1>2, <1>3, <1>4, <1>5, <1>6

(* The operator logs in, or deletes a session, while the browser is down,  *)
(* so the file that is written is not written over by a close.             *)
LEMMA OperatorKeeps ==
  ASSUME BrowsingInv, InTurns, NEW s \in Sites, WebLogin(s) \/ DeleteSession(s)
  PROVE  BrowsingInv'
<1>1. /\ browser = <<>> /\ DOMAIN opened = {} /\ saving.at = "idle"
      /\ UNCHANGED <<browser, opened, saving>>
  BY DEF WebLogin, DeleteSession, OperatorMay, InTurns, BrowsingInv
<1>2. /\ login \in Logins /\ file \in [Sites -> Jars] /\ <<>> \in Jars
      /\ \A t \in Sites \ cut : login[t] > 0 => Listed(t)
  BY <1>1 DEF BrowsingInv, BrowsingTypes, LoginsKept, Jars
<1> SUFFICES /\ login' \in Logins /\ file' \in [Sites -> Jars]
             /\ \A t \in Sites \ cut' : login'[t] > 0 => Listed(t)'
  BY <1>1 DEF BrowsingInv, BrowsingTypes, LoginsKept
<1>3. CASE WebLogin(s)
  <2> DEFINE own == [NoLogins EXCEPT ![s] = login[s] + 1]
  <2>1. own \in Logins /\ own[s] = login[s] + 1
    BY <1>2 DEF Logins, NoLogins
  <2>2. /\ login' = [login EXCEPT ![s] = @ + 1] /\ file' = [file EXCEPT ![s] = <<own>>]
        /\ index' = index \cup {s} /\ cut' = cut \ {s}
    BY <1>3 DEF WebLogin
  <2> HIDE DEF own
  <2>3. /\ login' \in Logins /\ login'[s] = login[s] + 1
        /\ \A t \in Sites \ {s} : login'[t] = login[t]
    BY <1>2, <2>2 DEF Logins
  <2>4. <<own>> \in Jars
    BY <2>1 DEF Jars
  <2>5. /\ file' \in [Sites -> Jars] /\ file'[s] = <<own>>
        /\ \A t \in Sites \ {s} : file'[t] = file[t]
    BY <1>2, <2>2, <2>4
  <2>6. ASSUME NEW t \in Sites \ cut', login'[t] > 0 PROVE Listed(t)'
    <3>1. CASE t = s
      BY <2>1, <2>2, <2>3, <2>5, <3>1 DEF Listed, Stored
    <3>2. CASE t # s
      BY <1>2, <2>2, <2>3, <2>5, <2>6, <3>2 DEF Listed, Stored
    <3> QED BY <3>1, <3>2
  <2> QED BY <2>3, <2>5, <2>6
<1>4. CASE DeleteSession(s)
  <2>1. /\ login' = login /\ file' = [file EXCEPT ![s] = <<>>] /\ index' = index \ {s}
        /\ cut' = cut \cup {s}
    BY <1>4 DEF DeleteSession
  <2>2. file' \in [Sites -> Jars] /\ \A t \in Sites \ {s} : file'[t] = file[t]
    BY <1>2, <2>1
  <2>3. ASSUME NEW t \in Sites \ cut', login'[t] > 0 PROVE Listed(t)'
    BY <1>2, <2>1, <2>2, <2>3 DEF Listed, Stored
  <2> QED BY <1>2, <2>1, <2>2, <2>3
<1> QED BY <1>3, <1>4

(* By induction on the steps of the agents, of the operator and of the     *)
(* browser that dies.                                                      *)
THEOREM BrowsingInvariant == InTurns /\ BrowsingSpec => []BrowsingInv
<1>1. ASSUME InTurns, BrowsingInv, [BrowsingNext]_browsingVars PROVE BrowsingInv'
  <2>1. CASE UNCHANGED browsingVars
    BY <1>1, <2>1 DEF browsingVars, BrowsingInv, BrowsingTypes, LoginsKept, Listed, Stored
  <2> QED BY <1>1, <2>1, CallKeeps, OpenFailsKeeps, CloseKeeps, OperatorKeeps
        DEF BrowsingNext
<1>2. CASE InTurns
  BY <1>1, <1>2, BrowsingStarts, PTL DEF BrowsingSpec
<1>3. CASE ~InTurns
  BY <1>3
<1> QED BY <1>2, <1>3

(* Where the agents visit one site a tick and the operator takes turns     *)
(* with them, a login that is not lost with a browser, to a save that      *)
(* failed or to a deletion is in the vault, or in the browser and on its   *)
(* way there, so the next visit has it.                                    *)
THEOREM LoginsAreKept == InTurns /\ BrowsingSpec => []LoginKept
<1>1. BrowsingInv => LoginKept
  BY DEF BrowsingInv, LoginsKept, Listed, Stored, LoginKept
<1>2. CASE InTurns
  BY <1>1, <1>2, BrowsingInvariant, PTL
<1>3. CASE ~InTurns
  BY <1>3
<1> QED BY <1>2, <1>3

-----------------------------------------------------------------------------
(* The cash of the ledger.                                                 *)

(* One thread uses the ledger.                                             *)
OneCaller == \E t : Callers = {t}

(* What the rows add up to, those of the open transaction included.        *)
Total == cash + tx.sum

(* A version of the database: the revision of this engine and the commits  *)
(* of others.                                                              *)
Versions == Nat \X Nat
(* Version v was that of the database once, and is so still only if it is  *)
(* the last.                                                               *)
Past(v) == v \in Versions /\ v[1] <= revision /\ v[2] <= external

(* Where a call to balances() stands, and what it has read.                *)
CallPlaces == {"idle", "cached?", "before", "sum", "after", "keep", "stamp", "decide", "post"}

Calls  == [at: CallPlaces, pays: BOOLEAN, before: Versions, after: Versions, sum: Int, tries: Int]

(* The types of the variables; no transaction, no sum of its own.          *)
BalancesTypes ==
  /\ cash \in Nat /\ revision \in Nat /\ external \in Nat
  /\ tx \in [of: Callers \cup {"nobody"}, sum: Nat]
  /\ tx.of = "nobody" => tx.sum = 0
  /\ cache = Unknown \/ cache \in {<<n>> : n \in Int}
  /\ stamp = Unknown \/ stamp \in {<<v>> : v \in Versions}
  /\ call \in [Callers -> Calls]

(* A sum is stamped with a version only if it was that version's.          *)
SumSound(t) ==
  /\ Past(call[t].before) /\ Past(call[t].after)
  /\ call[t].at = "idle" => ~call[t].pays
  /\ call[t].pays => tx.of = "nobody"
  /\ call[t].at = "cached?" /\ cache # Unknown /\ stamp = <<call[t].before>> => cache[1] <= Total
  /\ call[t].at = "cached?" /\ stamp = <<Version>> => call[t].before = Version
  /\ call[t].at \in {"before", "sum", "after", "keep", "stamp"} => stamp # <<Version>>
  /\ call[t].at \in {"after", "keep", "stamp", "decide"} => call[t].sum <= Total
  /\ call[t].at = "after" /\ call[t].before = Version => call[t].sum = Total
  /\ call[t].at \in {"keep", "stamp"} /\ call[t].after = Version => call[t].sum = Total
  /\ call[t].at = "stamp" => cache = <<call[t].sum>>
  /\ call[t].at \notin {"stamp"} => (cache = Unknown <=> stamp = Unknown)
  /\ call[t].at = "post" /\ call[t].pays => cash >= 1

(* A cached sum that is stamped with the current version is the sum of the *)
(* rows.                                                                   *)
StampSound ==
  /\ stamp # Unknown => Past(stamp[1])
  /\ cache # Unknown /\ stamp = <<Version>> => cache[1] = Total

(* The inductive invariant: types, the cache, and every call on its way.   *)
CashInv == BalancesTypes /\ StampSound /\ \A t \in Callers : SumSound(t)

(* A thread that is idle.                                                  *)
LEMMA NoCallIsOne ==
  NoCall \in Calls /\ NoCall.before = <<0, 0>> /\ NoCall.after = <<0, 0>>
BY DEF NoCall, Calls, CallPlaces, Versions

(* No cache, no call, no transaction.                                      *)
LEMMA CashStarts == BalancesInit => CashInv
<1> SUFFICES ASSUME BalancesInit PROVE CashInv
  OBVIOUS
<1>1. /\ cash \in Nat /\ tx = NoTx /\ revision = 0 /\ external = 0
      /\ cache = Unknown /\ stamp = Unknown /\ \A t \in Callers : call[t] = NoCall
  BY BalancesAssumption DEF BalancesInit
<1>2. NoCall \in Calls
  BY DEF NoCall, Calls, CallPlaces, Versions
<1>3. call \in [Callers -> Calls]
  BY <1>2 DEF BalancesInit
<1>4. ASSUME NEW t \in Callers PROVE SumSound(t)
  <2>1. Past(NoCall.before) /\ Past(NoCall.after) /\ NoCall.at = "idle" /\ ~NoCall.pays
    BY <1>1 DEF NoCall, Past, Versions
  <2> QED BY <1>1, <2>1 DEF SumSound
<1> QED BY <1>1, <1>3, <1>4 DEF CashInv, BalancesTypes, StampSound, NoTx

(* The only thread, and its call.                                          *)
LEMMA OneCall ==
  ASSUME NEW c, Callers = {c}, CashInv
  PROVE  /\ call[c] \in Calls /\ SumSound(c) /\ Version \in Versions
         /\ \A r \in Calls : /\ [call EXCEPT ![c] = r] \in [Callers -> Calls]
                            /\ [call EXCEPT ![c] = r][c] = r
         /\ Total \in Nat /\ (tx = NoTx <=> tx.of = "nobody") /\ tx.of \in {c, "nobody"}
         /\ Sum(c) = Total /\ c # "nobody"
<1>1. call \in [Callers -> Calls] /\ cash \in Nat /\ revision \in Nat /\ external \in Nat
      /\ tx \in [of: {c, "nobody"}, sum: Nat] /\ (tx.of = "nobody" => tx.sum = 0)
  BY DEF CashInv, BalancesTypes
<1>2. c # "nobody"
  BY BalancesAssumption
<1>3. tx = NoTx <=> tx.of = "nobody"
  BY <1>1, <1>2 DEF NoTx
<1>4. Total \in Nat /\ Sum(c) = Total
  BY <1>1, <1>2 DEF Total, Sum
<1> QED BY <1>1, <1>2, <1>3, <1>4 DEF CashInv, Version, Versions

(* Transactions of the thread, and what other processes commit.            *)
LEMMA TxKeeps ==
  ASSUME NEW c, Callers = {c}, CashInv, OpenTx(c) \/ CommitTx(c) \/ Rollback(c) \/ OtherProcess
  PROVE  CashInv'
<1>1. /\ call[c] \in Calls /\ SumSound(c) /\ Total \in Nat
      /\ (tx = NoTx <=> tx.of = "nobody") /\ c # "nobody"
      /\ UNCHANGED <<cache, stamp, call>>
  BY OneCall DEF OpenTx, CommitTx, Rollback, OtherProcess
<1>2. /\ cash \in Nat /\ revision \in Nat /\ external \in Nat
      /\ tx \in [of: {c, "nobody"}, sum: Nat] /\ (tx.of = "nobody" => tx.sum = 0)
      /\ StampSound
  BY DEF CashInv, BalancesTypes
<1>3. CASE OpenTx(c) \/ CommitTx(c)
  <2>1. /\ UNCHANGED <<revision, external>> /\ call[c].at = "idle" /\ Total' = Total
        /\ cash' \in Nat /\ tx' \in [of: {c, "nobody"}, sum: Nat]
        /\ (tx'.of = "nobody" => tx'.sum = 0)
    BY <1>2, <1>3 DEF OpenTx, CommitTx, NoTx, Total
  <2>2. BalancesTypes' /\ StampSound'
    BY <1>1, <1>2, <2>1 DEF CashInv, BalancesTypes, StampSound, Past, Version
  <2>3. SumSound(c)'
    BY <1>1, <1>2, <2>1 DEF SumSound, Past
  <2> QED BY <2>2, <2>3 DEF CashInv
<1>4. CASE Rollback(c)
  <2>1. /\ revision' = revision + 1 /\ external' = external /\ call[c].at = "idle"
        /\ cash' = cash /\ tx' = NoTx
    BY <1>4 DEF Rollback
  <2>2. Version' # Version /\ \A v : Past(v) => Past(v)' /\ v # Version'
    BY <1>2, <2>1 DEF Past, Versions, Version
  <2>3. stamp # <<Version'>>
    BY <1>2, <2>2 DEF StampSound, Unknown
  <2>4. BalancesTypes'
    BY <1>1, <1>2, <2>1 DEF CashInv, BalancesTypes, NoTx
  <2>5. StampSound'
    BY <1>1, <1>2, <2>1, <2>2, <2>3 DEF StampSound
  <2>6. SumSound(c)'
    BY <1>1, <1>2, <2>1, <2>2 DEF SumSound
  <2> QED BY <2>4, <2>5, <2>6 DEF CashInv
<1>5. CASE OtherProcess
  <2>1. /\ external' = external + 1 /\ revision' = revision /\ tx' = tx /\ tx.sum = 0
        /\ cash' = cash + 1 /\ Total' = Total + 1
    BY <1>1, <1>2, <1>5 DEF OtherProcess, Total
  <2>2. Version' # Version /\ \A v : Past(v) => Past(v)' /\ v # Version'
    BY <1>2, <2>1 DEF Past, Versions, Version
  <2>3. BalancesTypes'
    BY <1>1, <1>2, <2>1, <2>2 DEF CashInv, BalancesTypes
  <2>4. \A n \in Int : n <= Total => n <= Total'
    BY <1>1, <2>1
  <2>5. cache # Unknown => cache[1] \in Int
    BY DEF CashInv, BalancesTypes
  <2>6. call[c].sum \in Int
    BY <1>1 DEF Calls
  <2>7. stamp # <<Version'>>
    BY <1>2, <2>2 DEF StampSound, Unknown
  <2>8. cash >= 1 => cash' >= 1
    BY <1>2, <2>1
  <2>9. StampSound'
    BY <1>1, <1>2, <2>1, <2>2, <2>7 DEF StampSound
  <2>10. SumSound(c)'
    <3>1. call[c].before # Version' /\ call[c].after # Version'
      BY <1>1, <2>2 DEF SumSound
    <3> DEFINE n == call[c].sum
               k == cache[1]
    <3>2. (n <= Total => n <= Total') /\ (cache # Unknown /\ k <= Total => k <= Total')
      BY <2>4, <2>5, <2>6
    <3> HIDE DEF n, k
    <3> QED BY <1>1, <2>1, <2>2, <2>7, <2>8, <3>1, <3>2 DEF SumSound, n, k
  <2> QED BY <2>3, <2>9, <2>10 DEF CashInv
<1> QED BY <1>3, <1>4, <1>5

(* post(): nothing is cached while a row is inserted.                      *)
LEMMA PostKeeps ==
  ASSUME NEW c, Callers = {c}, CashInv, StartPost(c) \/ FinishPost(c)
  PROVE  CashInv'
<1>1. /\ call[c] \in Calls /\ SumSound(c) /\ Total \in Nat
      /\ (tx = NoTx <=> tx.of = "nobody") /\ c # "nobody" /\ tx.of \in {c, "nobody"}
      /\ \A r \in Calls : /\ [call EXCEPT ![c] = r] \in [Callers -> Calls]
                         /\ [call EXCEPT ![c] = r][c] = r
  BY OneCall
<1>2. /\ cash \in Nat /\ revision \in Nat /\ external \in Nat
      /\ tx \in [of: {c, "nobody"}, sum: Nat] /\ (tx.of = "nobody" => tx.sum = 0)
      /\ StampSound
  BY DEF CashInv, BalancesTypes
<1>3. CASE StartPost(c)
  <2> DEFINE r == [call[c] EXCEPT !.at = "post"]
  <2>1. /\ call' = [call EXCEPT ![c] = r] /\ call[c].at = "idle" /\ cache' = Unknown
        /\ stamp' = Unknown /\ UNCHANGED <<cash, tx, revision, external>>
    BY <1>1, <1>3 DEF StartPost, Goes, Calls
  <2>2. r \in Calls /\ r.at = "post" /\ r.pays = call[c].pays
        /\ r.before = call[c].before /\ r.after = call[c].after
    BY <1>1 DEF Calls, CallPlaces
  <2> HIDE DEF r
  <2>3. call' \in [Callers -> Calls] /\ call'[c] = r
    BY <1>1, <2>1, <2>2
  <2>4. BalancesTypes' /\ StampSound'
    BY <2>1, <2>3 DEF CashInv, BalancesTypes, StampSound
  <2>5. ~r.pays
    BY <1>1, <2>1, <2>2 DEF SumSound
  <2>6. SumSound(c)'
    BY <1>1, <2>1, <2>2, <2>3, <2>5 DEF SumSound, Past
  <2> QED BY <2>4, <2>6 DEF CashInv
<1>4. CASE FinishPost(c)
  <2>1. /\ call' = [call EXCEPT ![c] = NoCall] /\ call[c].at = "post"
        /\ UNCHANGED <<external, cache, stamp>> /\ revision' = revision + 1
        /\ Insert(c, IF call[c].pays THEN -1 ELSE 1)
    BY <1>4 DEF FinishPost, Insert
  <2>2. NoCall \in Calls /\ NoCall.at = "idle" /\ ~NoCall.pays /\ NoCall.before = <<0, 0>>
        /\ NoCall.after = <<0, 0>>
    BY DEF NoCall, Calls, CallPlaces, Versions
  <2>3. call' \in [Callers -> Calls] /\ call'[c] = NoCall
    BY <1>1, <2>1, <2>2
  <2>4. Version' # Version /\ (\A v : Past(v) => Past(v)' /\ v # Version') /\ Past(<<0, 0>>)'
    BY <1>2, <2>1 DEF Past, Versions, Version
  <2>5. /\ cash' \in Nat /\ tx' \in [of: {c, "nobody"}, sum: Nat]
        /\ (tx'.of = "nobody" => tx'.sum = 0)
    <3>1. CASE call[c].pays
      <4>1. tx.of = "nobody" /\ cash >= 1
        BY <1>1, <2>1, <3>1 DEF SumSound
      <4>2. cash' = cash + (-1) /\ tx' = tx
        BY <1>1, <2>1, <3>1, <4>1 DEF Insert
      <4> QED BY <1>2, <4>1, <4>2
    <3>2. CASE ~call[c].pays /\ tx.of = c
      <4>1. tx' = [tx EXCEPT !.sum = @ + 1] /\ cash' = cash
        BY <2>1, <3>2 DEF Insert
      <4> QED BY <1>1, <1>2, <3>2, <4>1
    <3>3. CASE ~call[c].pays /\ tx.of # c
      <4>1. tx' = tx /\ cash' = cash + 1
        BY <2>1, <3>3 DEF Insert
      <4> QED BY <1>2, <4>1
    <3> QED BY <3>1, <3>2, <3>3
  <2>6. BalancesTypes' /\ StampSound'
    <3>1. stamp # <<Version'>>
      BY <1>2, <2>4 DEF StampSound, Unknown
    <3>2. BalancesTypes'
      BY <1>2, <2>1, <2>3, <2>5 DEF CashInv, BalancesTypes
    <3>3. StampSound'
      BY <1>2, <2>1, <2>4, <3>1 DEF StampSound
    <3> QED BY <3>2, <3>3
  <2>7. cache = Unknown <=> stamp = Unknown
    BY <1>1, <2>1 DEF SumSound
  <2>8. SumSound(c)'
    BY <2>1, <2>2, <2>3, <2>4, <2>7 DEF SumSound
  <2> QED BY <2>6, <2>8 DEF CashInv
<1> QED BY <1>3, <1>4

(* balances(): the call reads, and the database is left alone.             *)
LEMMA ReadKeeps ==
  ASSUME NEW c, Callers = {c}, CashInv, UNCHANGED <<cash, tx, revision, external>>,
         \/ \E pays \in BOOLEAN : AskBalance(c, pays)
         \/ TryCache(c) \/ ReadBefore(c) \/ ReadSum(c) \/ ReadAfter(c)
         \/ KeepSum(c) \/ StampSum(c) \/ Decide(c)
  PROVE  CashInv'
<1>1. /\ call[c] \in Calls /\ SumSound(c) /\ Total \in Nat /\ Version \in Versions
      /\ (tx = NoTx <=> tx.of = "nobody") /\ c # "nobody" /\ tx.of \in {c, "nobody"}
      /\ Sum(c) = Total
      /\ \A r \in Calls : /\ [call EXCEPT ![c] = r] \in [Callers -> Calls]
                         /\ [call EXCEPT ![c] = r][c] = r
  BY OneCall
<1>2. /\ BalancesTypes /\ StampSound /\ Total' = Total /\ Version' = Version
      /\ Past(Version) /\ Past(<<0, 0>>) /\ <<0, 0>> \in Versions
      /\ \A v : Past(v)' <=> Past(v)
  BY DEF CashInv, Total, Version, Past, BalancesTypes, Versions
<1>3. /\ call[c].pays \in BOOLEAN /\ call[c].sum \in Int /\ call[c].tries \in Int
      /\ call[c].before \in Versions /\ call[c].after \in Versions
  BY <1>1 DEF Calls
<1>4. ASSUME NEW r \in Calls, call' = [call EXCEPT ![c] = r],
             UNCHANGED <<cache, stamp>>
      PROVE  /\ BalancesTypes' /\ StampSound' /\ call'[c] = r
             /\ call[c].at # "stamp" => (cache = Unknown <=> stamp = Unknown)
  BY <1>1, <1>2, <1>4 DEF BalancesTypes, StampSound, SumSound
<1>5. ASSUME NEW pays \in BOOLEAN, AskBalance(c, pays) PROVE CashInv'
  <2> DEFINE r == [NoCall EXCEPT !.at = "cached?", !.pays = pays, !.before = Version]
  <2>1. /\ r \in Calls /\ r.at = "cached?" /\ r.pays = pays /\ r.before = Version
        /\ r.after = <<0, 0>> /\ call' = [call EXCEPT ![c] = r] /\ UNCHANGED <<cache, stamp>>
        /\ (pays => tx = NoTx) /\ call[c].at = "idle"
    <3>1. /\ r \in Calls /\ r.at = "cached?" /\ r.pays = pays /\ r.before = Version
          /\ r.after = <<0, 0>>
      BY <1>1, NoCallIsOne DEF Calls, CallPlaces
    <3>2. /\ call' = [call EXCEPT ![c] = r] /\ UNCHANGED <<cache, stamp>>
          /\ (pays => tx = NoTx) /\ call[c].at = "idle"
      BY <1>5 DEF AskBalance
    <3> QED BY <3>1, <3>2
  <2> HIDE DEF r
  <2>2. cache # Unknown /\ stamp = <<Version>> => cache[1] <= Total
    BY <1>1, <1>2 DEF StampSound
  <2>3. BalancesTypes' /\ StampSound' /\ call'[c] = r
        /\ (cache = Unknown <=> stamp = Unknown)
    BY <1>4, <2>1
  <2>4. SumSound(c)'
    BY <1>1, <1>2, <2>1, <2>2, <2>3 DEF SumSound
  <2> QED BY <2>3, <2>4 DEF CashInv
<1> DEFINE Told(n) == [NoCall EXCEPT !.at = "decide", !.sum = n, !.pays = call[c].pays]
<1>6. ASSUME NEW n \in Int
      PROVE  /\ Told(n) \in Calls /\ Told(n).at = "decide" /\ Told(n).sum = n
             /\ Told(n).pays = call[c].pays
             /\ Told(n).before = <<0, 0>> /\ Told(n).after = <<0, 0>>
  <2> DEFINE p == call[c].pays
  <2> HIDE DEF p
  <2> SUFFICES ASSUME NEW r, r = [NoCall EXCEPT !.at = "decide", !.sum = n, !.pays = p]
               PROVE  /\ r \in Calls /\ r.at = "decide" /\ r.sum = n /\ r.pays = p
                      /\ r.before = <<0, 0>> /\ r.after = <<0, 0>>
    BY DEF p
  <2> QED BY <1>3, NoCallIsOne DEF Calls, CallPlaces, p
<1>7. \A n : Answer(c, n) <=> call' = [call EXCEPT ![c] = Told(n)]
  BY DEF Answer
<1> HIDE DEF Told
<1>8. CASE TryCache(c)
  <2>1. call[c].at = "cached?" /\ UNCHANGED <<cache, stamp>>
    BY <1>8 DEF TryCache
  <2>2. CASE cache # Unknown /\ stamp = <<call[c].before>>
    <3>1. call' = [call EXCEPT ![c] = Told(cache[1])] /\ cache[1] \in Int /\ cache[1] <= Total
      BY <1>1, <1>2, <1>7, <1>8, <2>1, <2>2 DEF TryCache, BalancesTypes, SumSound
    <3> DEFINE n == cache[1]
    <3> HIDE DEF n
    <3>2. BalancesTypes' /\ StampSound' /\ call'[c] = Told(n)
          /\ (cache = Unknown <=> stamp = Unknown)
      BY <1>4, <1>6, <2>1, <3>1 DEF n
    <3>3. SumSound(c)'
      BY <1>1, <1>2, <1>6, <2>1, <3>1, <3>2 DEF SumSound, n
    <3> QED BY <3>2, <3>3 DEF CashInv
  <2>3. CASE ~(cache # Unknown /\ stamp = <<call[c].before>>)
    <3> DEFINE r == [call[c] EXCEPT !.at = "before"]
    <3>1. /\ r \in Calls /\ r.at = "before" /\ r.pays = call[c].pays
          /\ r.before = call[c].before /\ r.after = call[c].after
          /\ call' = [call EXCEPT ![c] = r]
      BY <1>1, <1>8, <2>3 DEF TryCache, Goes, Calls, CallPlaces
    <3> HIDE DEF r
    <3>2. BalancesTypes' /\ StampSound' /\ call'[c] = r
          /\ (cache = Unknown <=> stamp = Unknown)
      BY <1>4, <2>1, <3>1
    <3>3. stamp # <<Version>>
      <4>1. stamp = <<Version>> => stamp = <<call[c].before>> /\ stamp # Unknown
        BY <1>1, <2>1 DEF SumSound, Unknown
      <4> QED BY <2>3, <3>2, <4>1
    <3>4. SumSound(c)'
      BY <1>1, <1>2, <2>1, <3>1, <3>2, <3>3 DEF SumSound
    <3> QED BY <3>2, <3>4 DEF CashInv
  <2> QED BY <2>2, <2>3
<1>9. CASE ReadBefore(c)
  <2> DEFINE r == [call[c] EXCEPT !.at = "sum", !.before = Version]
  <2>1. /\ r \in Calls /\ r.at = "sum" /\ r.pays = call[c].pays
        /\ r.before = Version /\ r.after = call[c].after
        /\ call' = [call EXCEPT ![c] = r] /\ call[c].at = "before" /\ UNCHANGED <<cache, stamp>>
    BY <1>1, <1>9 DEF ReadBefore, Calls, CallPlaces
  <2> HIDE DEF r
  <2>2. BalancesTypes' /\ StampSound' /\ call'[c] = r
        /\ (cache = Unknown <=> stamp = Unknown)
    BY <1>4, <2>1
  <2>3. SumSound(c)'
    BY <1>1, <1>2, <2>1, <2>2 DEF SumSound
  <2> QED BY <2>2, <2>3 DEF CashInv
<1>10. CASE ReadSum(c)
  <2> DEFINE r == [call[c] EXCEPT !.at = "after", !.sum = Total]
  <2>1. /\ r \in Calls /\ r.at = "after" /\ r.pays = call[c].pays /\ r.sum = Total
        /\ r.before = call[c].before /\ r.after = call[c].after
        /\ call' = [call EXCEPT ![c] = r] /\ call[c].at = "sum" /\ UNCHANGED <<cache, stamp>>
    <3>1. Total \in Int
      BY <1>1
    <3> QED BY <1>1, <1>10, <3>1 DEF ReadSum, Calls, CallPlaces
  <2> HIDE DEF r
  <2>2. BalancesTypes' /\ StampSound' /\ call'[c] = r
        /\ (cache = Unknown <=> stamp = Unknown)
    BY <1>4, <2>1
  <2>3. SumSound(c)'
    BY <1>1, <1>2, <2>1, <2>2 DEF SumSound
  <2> QED BY <2>2, <2>3 DEF CashInv
<1>11. CASE ReadAfter(c)
  <2>1. call[c].at = "after"
    BY <1>11 DEF ReadAfter
  <2>2. CASE Version = call[c].before /\ UNCHANGED <<cache, stamp>>
             /\ call' = [call EXCEPT ![c].at = "keep", ![c].after = Version]
    <3> DEFINE r == [call[c] EXCEPT !.at = "keep", !.after = Version]
    <3>1. /\ r \in Calls /\ r.at = "keep" /\ r.pays = call[c].pays /\ r.sum = call[c].sum
          /\ r.before = call[c].before /\ r.after = Version
          /\ call' = [call EXCEPT ![c] = r]
      BY <1>1, <2>2 DEF Calls, CallPlaces
    <3> HIDE DEF r
    <3>2. BalancesTypes' /\ StampSound' /\ call'[c] = r
          /\ (cache = Unknown <=> stamp = Unknown)
      BY <1>4, <2>1, <2>2, <3>1
    <3>3. SumSound(c)'
      BY <1>1, <1>2, <2>1, <2>2, <3>1, <3>2 DEF SumSound
    <3> QED BY <3>2, <3>3 DEF CashInv
  <2>3. CASE /\ UNCHANGED <<cache, stamp>>
             /\ call' = [call EXCEPT ![c].at = "before", ![c].tries = @ + 1]
    <3> DEFINE r == [call[c] EXCEPT !.at = "before", !.tries = @ + 1]
    <3>1. /\ r \in Calls /\ r.at = "before" /\ r.pays = call[c].pays
          /\ r.before = call[c].before /\ r.after = call[c].after
          /\ call' = [call EXCEPT ![c] = r]
      BY <1>1, <1>3, <2>3 DEF Calls, CallPlaces
    <3> HIDE DEF r
    <3>2. BalancesTypes' /\ StampSound' /\ call'[c] = r
          /\ (cache = Unknown <=> stamp = Unknown)
      BY <1>4, <2>1, <2>3, <3>1
    <3>3. SumSound(c)'
      BY <1>1, <1>2, <2>1, <2>3, <3>1, <3>2 DEF SumSound
    <3> QED BY <3>2, <3>3 DEF CashInv
  <2>4. CASE cache' = Unknown /\ stamp' = Unknown /\ Answer(c, call[c].sum)
    <3> DEFINE n == call[c].sum
    <3>1. call' = [call EXCEPT ![c] = Told(n)] /\ n \in Int /\ n <= Total
      BY <1>1, <1>3, <1>7, <2>1, <2>4 DEF SumSound
    <3> HIDE DEF n
    <3>2. call' \in [Callers -> Calls] /\ call'[c] = Told(n)
      BY <1>1, <1>6, <3>1
    <3>3. BalancesTypes' /\ StampSound'
      BY <1>2, <2>4, <3>2 DEF BalancesTypes, StampSound
    <3>4. SumSound(c)'
      BY <1>1, <1>2, <1>6, <2>4, <3>1, <3>2 DEF SumSound
    <3> QED BY <3>3, <3>4 DEF CashInv
  <2> QED BY <1>11, <2>2, <2>3, <2>4 DEF ReadAfter
<1>12. CASE KeepSum(c)
  <2> DEFINE r == [call[c] EXCEPT !.at = "stamp"]
  <2>1. /\ r \in Calls /\ r.at = "stamp" /\ r.pays = call[c].pays /\ r.sum = call[c].sum
        /\ r.before = call[c].before /\ r.after = call[c].after
        /\ call' = [call EXCEPT ![c] = r] /\ call[c].at = "keep"
        /\ cache' = <<call[c].sum>> /\ stamp' = stamp
    BY <1>1, <1>12 DEF KeepSum, Goes, Calls, CallPlaces
  <2> HIDE DEF r
  <2>2. call' \in [Callers -> Calls] /\ call'[c] = r
    BY <1>1, <2>1
  <2>3. stamp # <<Version>>
    BY <1>1, <2>1 DEF SumSound
  <2>4. BalancesTypes' /\ StampSound'
    BY <1>2, <1>3, <2>1, <2>2, <2>3 DEF BalancesTypes, StampSound
  <2>5. SumSound(c)'
    BY <1>1, <1>2, <2>1, <2>2, <2>3 DEF SumSound
  <2> QED BY <2>4, <2>5 DEF CashInv
<1>13. CASE StampSum(c)
  <2> DEFINE n == call[c].sum
             v == call[c].after
  <2>1. call' = [call EXCEPT ![c] = Told(n)] /\ stamp' = <<v>> /\ cache' = cache
        /\ call[c].at = "stamp"
    BY <1>7, <1>13 DEF StampSum
  <2>2. cache = <<n>> /\ n \in Int /\ n <= Total /\ v \in Versions /\ Past(v)
        /\ (v = Version => n = Total)
    BY <1>1, <1>3, <2>1 DEF SumSound
  <2> HIDE DEF n, v
  <2>3. call' \in [Callers -> Calls] /\ call'[c] = Told(n)
    BY <1>1, <1>6, <2>1, <2>2
  <2>4. BalancesTypes' /\ StampSound'
    BY <1>2, <2>1, <2>2, <2>3 DEF BalancesTypes, StampSound
  <2>5. cache' # Unknown /\ stamp' # Unknown
    BY <2>1, <2>2 DEF Unknown
  <2>6. SumSound(c)'
    BY <1>1, <1>2, <1>6, <2>2, <2>3, <2>5 DEF SumSound
  <2> QED BY <2>4, <2>6 DEF CashInv
<1>14. CASE Decide(c)
  <2>1. call[c].at = "decide" /\ call[c].sum <= Total
    BY <1>1, <1>14 DEF Decide, SumSound
  <2>2. CASE call[c].pays /\ call[c].sum >= 1 /\ call' = [call EXCEPT ![c].at = "post"]
             /\ cache' = Unknown /\ stamp' = Unknown
    <3> DEFINE r == [call[c] EXCEPT !.at = "post"]
    <3>1. /\ r \in Calls /\ r.at = "post" /\ r.pays = call[c].pays
          /\ r.before = call[c].before /\ r.after = call[c].after
          /\ call' = [call EXCEPT ![c] = r]
      BY <1>1, <2>2 DEF Calls, CallPlaces
    <3> HIDE DEF r
    <3>2. call' \in [Callers -> Calls] /\ call'[c] = r
      BY <1>1, <3>1
    <3>3. BalancesTypes' /\ StampSound'
      BY <1>2, <2>2, <3>2 DEF BalancesTypes, StampSound
    <3>4. cash >= 1
      <4>1. tx.of = "nobody"
        BY <1>1, <2>2 DEF SumSound
      <4>2. Total = cash
        BY <1>2, <4>1 DEF Total, BalancesTypes
      <4> QED BY <1>1, <1>3, <2>1, <2>2, <4>2
    <3>5. SumSound(c)'
      BY <1>1, <1>2, <2>2, <3>1, <3>2, <3>4 DEF SumSound
    <3> QED BY <3>3, <3>5 DEF CashInv
  <2>3. CASE call' = [call EXCEPT ![c] = NoCall] /\ UNCHANGED <<cache, stamp>>
    <3>1. /\ NoCall \in Calls /\ NoCall.at = "idle" /\ ~NoCall.pays
          /\ Past(NoCall.before) /\ Past(NoCall.after)
      BY <1>2 DEF NoCall, Calls, CallPlaces, Versions, Past, BalancesTypes
    <3>2. BalancesTypes' /\ StampSound' /\ call'[c] = NoCall
          /\ (cache = Unknown <=> stamp = Unknown)
      BY <1>4, <2>1, <2>3, <3>1
    <3>3. SumSound(c)'
      BY <1>1, <1>2, <2>3, <3>1, <3>2 DEF SumSound
    <3> QED BY <3>2, <3>3 DEF CashInv
  <2> QED BY <1>14, <2>2, <2>3 DEF Decide
<1> QED BY <1>5, <1>8, <1>9, <1>10, <1>11, <1>12, <1>13, <1>14

(* By induction on the steps of the one thread and of the other engines    *)
(* that commit to the same database.                                       *)
THEOREM CashInvariant == OneCaller /\ BalancesSpec => []CashInv
<1>1. ASSUME OneCaller, CashInv, [BalancesNext]_balancesVars PROVE CashInv'
  <2>1. PICK c : Callers = {c}
    BY <1>1 DEF OneCaller
  <2>2. CASE UNCHANGED balancesVars
    BY <1>1, <2>2 DEF balancesVars, CashInv, BalancesTypes, StampSound, SumSound, Past,
                      Total, Version
  <2>3. CASE BalancesNext
    <3>1. /\ ReadBefore(c) \/ ReadSum(c) \/ ReadAfter(c) \/ KeepSum(c) \/ StampSum(c)
             \/ Decide(c) \/ TryCache(c) \/ (\E pays \in BOOLEAN : AskBalance(c, pays))
             => UNCHANGED <<cash, tx, revision, external>>
      BY DEF AskBalance, TryCache, ReadBefore, ReadSum, ReadAfter, KeepSum, StampSum, Decide
    <3> QED BY <1>1, <2>1, <2>3, <3>1, TxKeeps, PostKeeps, ReadKeeps DEF BalancesNext
  <2> QED BY <1>1, <2>2, <2>3
<1>2. CASE OneCaller
  BY <1>1, <1>2, CashStarts, PTL DEF BalancesSpec
<1>3. CASE ~OneCaller
  BY <1>3
<1> QED BY <1>2, <1>3

(* With one thread using the ledger, the money a spend was decided on is   *)
(* there when its rows are posted, and a cached sum that would be used is  *)
(* the sum of the rows.                                                    *)
THEOREM CashIsThere == OneCaller /\ BalancesSpec => []CashIsReal
<1>1. ASSUME OneCaller, CashInv PROVE CashIsReal
  <2>1. PICK c : Callers = {c}
    BY <1>1 DEF OneCaller
  <2>2. (tx = NoTx <=> tx.of = "nobody") /\ cash \in Nat /\ StampSound
        /\ tx.sum \in Nat /\ (tx.of = "nobody" => tx.sum = 0)
    BY <1>1, <2>1, OneCall DEF CashInv, BalancesTypes
  <2>3. Total = cash + (IF tx = NoTx THEN 0 ELSE tx.sum)
    BY <2>2 DEF Total
  <2> QED BY <2>2, <2>3 DEF StampSound, CashIsReal, CacheSound, Solvent
<1>2. CASE OneCaller
  BY <1>1, <1>2, CashInvariant, PTL
<1>3. CASE ~OneCaller
  BY <1>3
<1> QED BY <1>2, <1>3

-----------------------------------------------------------------------------
(* Trials of a playbook.                                                   *)

(* The measures of a row.                                                  *)
Sides    == {"control", "trial"}
UseRow   == [uses: [Sides -> Nat], usd: [Sides -> Nat]]
Drafts   == [at: {"", "count", "draft", "credit", "accept", "unlink", "reset"},
             offer: Offers \cup {0}, text: Nat,
             row: [state: {"open", "applied", "accepted"}, variant: {"none"} \cup Sides],
             ab: UseRow]

(* The types of the variables.                                             *)
TrialsTypes ==
  /\ trial \in Nat /\ written \in Nat /\ control \in Nat
  /\ ab \in UseRow /\ fair \in [Sides -> Nat]
  /\ offer \in [Offers -> [state: {"open", "applied", "accepted"},
                           variant: {"none"} \cup Sides]]
  /\ firm \in Drafts /\ desk \in Drafts

(* No more uses of a playbook are in m than it had since the trial came,   *)
(* unless it had enough.                                                   *)
Earned(m) == \A v \in Sides : fair[v] >= Uses \/ m.uses[v] <= fair[v]

(* While no reset was lost: every copy of the row counts true uses, and    *)
(* without a trial, and without a reset to come, none.                     *)
Measures ==
  /\ Earned(ab)
  /\ firm.at \in {"count", "credit"} => Earned(firm.ab)
  /\ desk.at = "credit" => Earned(desk.ab)
  /\ trial = 0 /\ firm.at # "reset" =>
       /\ ab.uses = Zero.uses
       /\ firm.at = "credit" => firm.ab.uses = Zero.uses
       /\ desk.at = "credit" => desk.ab.uses = Zero.uses
  /\ firm.at = "unlink" => fair.control >= Uses /\ fair.trial >= Uses

(* The inductive invariant.                                                *)
TrialsInv ==
  /\ TrialsTypes
  /\ firm.at = "count" => trial # 0
  /\ ~torn => Measures

(* No uses.                                                                *)
LEMMA ZeroIsRow ==
  /\ Zero \in UseRow /\ Zero.uses \in [Sides -> Nat]
  /\ \A v \in Sides : Zero.uses[v] = 0
BY DEF Zero, UseRow, Sides

(* A playbook without a trial, and no uses.                                *)
LEMMA TrialsStarts == TrialsInit => TrialsInv
<1> SUFFICES ASSUME TrialsInit PROVE TrialsInv
  OBVIOUS
<1>1. Zero \in UseRow /\ Free \in Drafts /\ Free.at = ""
  BY DEF Zero, UseRow, Sides, Free, Drafts, Untried
<1>2. offer \in [Offers -> [state: {"open", "applied", "accepted"},
                            variant: {"none"} \cup Sides]]
  BY DEF TrialsInit, Untried
<1>3. TrialsTypes
  BY <1>1, <1>2 DEF TrialsInit, TrialsTypes, UseRow
<1>4. Earned(ab)
  <2>1. ab.uses = fair /\ \A v \in Sides : fair[v] \in Nat
    BY <1>3 DEF TrialsInit, TrialsTypes
  <2> QED BY <2>1 DEF Earned
<1> QED BY <1>1, <1>3, <1>4 DEF TrialsInit, TrialsInv, Measures

(* The closer reads its playbook and counts the use.                       *)
LEMMA DraftKeeps ==
  ASSUME TrialsInv, (\E o \in Offers : StartDraft(o)) \/ CountUse \/ Propose
  PROVE  TrialsInv'
<1>1. TrialsTypes /\ Free \in Drafts /\ Free.at = ""
  BY DEF TrialsInv, Free, Drafts, Untried, Zero, UseRow, Sides
<1>2. ASSUME NEW o \in Offers, StartDraft(o) PROVE TrialsInv'
  <2>1. /\ UNCHANGED <<control, trial, ab, offer, desk, written, fair, troubles, torn>>
        /\ firm = Free
    BY <1>2 DEF StartDraft, records, noted
  <2>2. /\ firm' \in Drafts
        /\ \/ firm'.at = "draft"
           \/ (firm'.at = "count" /\ trial # 0 /\ firm'.ab = ab)
    <3> DEFINE n == IF Variant(o) = "trial" THEN trial ELSE control
               c == [Free EXCEPT !.at = "count", !.offer = o, !.ab = ab, !.text = n]
               d == [Free EXCEPT !.at = "draft", !.offer = o, !.text = control]
    <3>1. n \in Nat
      BY <1>1 DEF TrialsTypes
    <3> HIDE DEF n
    <3>2. c \in Drafts /\ c.at = "count" /\ c.ab = ab
      BY <1>1, <3>1 DEF TrialsTypes, Drafts
    <3>3. d \in Drafts /\ d.at = "draft"
      BY <1>1 DEF TrialsTypes, Drafts
    <3>4. CASE trial = 0
      <4>1. firm' = d
        BY <1>2, <3>4 DEF StartDraft
      <4> HIDE DEF d
      <4> QED BY <3>3, <4>1
    <3>5. CASE trial # 0
      <4>1. firm' = c
        BY <1>2, <3>5 DEF StartDraft, n
      <4> HIDE DEF c
      <4> QED BY <3>2, <3>5, <4>1
    <3> QED BY <3>4, <3>5
  <2> QED BY <1>1, <2>1, <2>2 DEF TrialsInv, TrialsTypes, Measures, Earned
<1>3. CASE CountUse
  <2> DEFINE v == Variant(firm.offer)
             m == [firm.ab EXCEPT !.uses[v] = @ + 1]
             f == [fair EXCEPT ![v] = IF @ < Uses THEN @ + 1 ELSE @]
             h == [firm EXCEPT !.at = "draft", !.ab = Zero]
  <2>1. v \in Sides /\ firm.ab \in UseRow /\ fair \in [Sides -> Nat] /\ Uses \in Nat
    BY <1>1, TrialsAssumption DEF Variant, Sides, TrialsTypes, Drafts
  <2>2. firm.at = "count" /\ trial # 0
    BY <1>3 DEF CountUse, TrialsInv
  <2> HIDE DEF v
  <2>3. m \in UseRow /\ m.uses[v] = firm.ab.uses[v] + 1
        /\ \A w \in Sides : w # v => m.uses[w] = firm.ab.uses[w]
    BY <2>1 DEF UseRow
  <2>4. f \in [Sides -> Nat] /\ f[v] = (IF fair[v] < Uses THEN fair[v] + 1 ELSE fair[v])
        /\ \A w \in Sides : w # v => f[w] = fair[w]
    BY <2>1
  <2>5. h \in Drafts /\ h.at = "draft"
    <3>1. Zero \in UseRow /\ firm \in Drafts
      BY <1>1, ZeroIsRow DEF TrialsTypes
    <3> QED BY <3>1 DEF Drafts
  <2>6. /\ ab' = m /\ fair' = f /\ firm' = h
        /\ UNCHANGED <<control, trial, offer, desk, written, troubles, torn>>
    BY <1>3 DEF CountUse, v
  <2> HIDE DEF m, f, h
  <2>7. TrialsTypes'
    BY <1>1, <2>3, <2>4, <2>5, <2>6 DEF TrialsTypes
  <2>8. ASSUME ~torn PROVE Earned(ab)'
    <3>1. Earned(firm.ab)
      BY <2>2, <2>8 DEF TrialsInv, Measures
    <3>2. \A w \in Sides : firm.ab.uses[w] \in Nat /\ fair[w] \in Nat
      BY <2>1 DEF UseRow
    <3>3. ASSUME NEW w \in Sides PROVE fair'[w] >= Uses \/ ab'.uses[w] <= fair'[w]
      <4>1. fair[w] >= Uses \/ firm.ab.uses[w] <= fair[w]
        BY <3>1 DEF Earned
      <4>2. CASE w = v
        BY <2>1, <2>3, <2>4, <2>6, <3>2, <4>1, <4>2
      <4>3. CASE w # v
        BY <2>3, <2>4, <2>6, <4>1, <4>3
      <4> QED BY <4>2, <4>3
    <3> QED BY <3>3 DEF Earned
  <2>9. ASSUME ~torn, desk.at = "credit" PROVE Earned(desk.ab)'
    <3>1. Earned(desk.ab)
      BY <2>9 DEF TrialsInv, Measures
    <3>2. \A w \in Sides : desk.ab.uses[w] \in Nat /\ fair[w] \in Nat
      BY <1>1, <2>1 DEF TrialsTypes, Drafts, UseRow
    <3> QED BY <2>1, <2>4, <2>6, <3>1, <3>2 DEF Earned
  <2>10. ASSUME ~torn PROVE Measures'
    BY <2>2, <2>5, <2>6, <2>8, <2>9, <2>10 DEF Measures
  <2> QED BY <2>5, <2>6, <2>7, <2>10 DEF TrialsInv
<1>4. CASE Propose
  <2>1. /\ UNCHANGED <<control, trial, ab, desk, written, fair, troubles, torn>>
        /\ firm' = Free /\ firm.at = "draft"
    BY <1>4 DEF Propose
  <2>2. offer' \in [Offers -> [state: {"open", "applied", "accepted"},
                               variant: {"none"} \cup Sides]]
    <3> DEFINE o == firm.offer
               r == [state |-> "applied",
                     variant |-> IF trial # 0 /\ firm.text = trial THEN "trial" ELSE "control"]
    <3>1. r \in [state: {"open", "applied", "accepted"}, variant: {"none"} \cup Sides]
      BY DEF Sides
    <3>2. offer' = offer \/ offer' = [offer EXCEPT ![o] = r]
      BY <1>4 DEF Propose
    <3> HIDE DEF r, o
    <3> QED BY <1>1, <3>1, <3>2 DEF TrialsTypes
  <2> QED BY <1>1, <2>1, <2>2 DEF TrialsInv, TrialsTypes, Measures, Earned
<1> QED BY <1>2, <1>3, <1>4

(* An acceptance takes a copy of the row of the playbook and of the job's. *)
LEMMA AcceptanceTaken ==
  ASSUME TrialsTypes, NEW o \in Offers
  PROVE  Acceptance(o) \in Drafts /\ Acceptance(o).at = "credit" /\ Acceptance(o).ab = ab
BY DEF Acceptance, TrialsTypes, Drafts, Free, Untried, Zero, UseRow, Sides

(* The credit changes what was earned, not how often it was used.          *)
LEMMA CreditGives ==
  ASSUME TrialsTypes, NEW h \in Drafts, Credit(h)
  PROVE  /\ ab' \in UseRow
         /\ ab' = ab \/ ab'.uses = h.ab.uses
         /\ UNCHANGED <<control, trial, offer, written, fair, troubles, torn>>
<1>1. CASE h.row.variant = "none"
  BY <1>1 DEF Credit, noted, TrialsTypes
<1>2. CASE h.row.variant # "none"
  <2> DEFINE v == h.row.variant
  <2>1. v \in Sides /\ h.ab \in UseRow
    BY <1>2 DEF Drafts
  <2>2. ab' = [h.ab EXCEPT !.usd[v] = @ + 1]
    BY <1>2 DEF Credit, Credited
  <2> HIDE DEF v
  <2>3. ab' \in UseRow /\ ab'.uses = h.ab.uses
    BY <2>1, <2>2 DEF UseRow
  <2> QED BY <2>3 DEF Credit, noted
<1> QED BY <1>1, <1>2

(* The operator accepts an offer from another process, and credits the     *)
(* variant that wrote it.                                                  *)
LEMMA AcceptKeeps ==
  ASSUME TrialsInv,
         \/ \E o \in Offers : LetterAccepts(o) \/ OperatorAccepts(o)
         \/ LetterCredits \/ OperatorCredits \/ LetterEnds \/ OperatorEnds
  PROVE  TrialsInv'
<1>1. TrialsTypes /\ Free \in Drafts /\ Free.at = ""
  BY DEF TrialsInv, Free, Drafts, Untried, Zero, UseRow, Sides
<1>2. ASSUME NEW o \in Offers, LetterAccepts(o) PROVE TrialsInv'
  <2>1. /\ UNCHANGED <<control, trial, ab, offer, desk, written, fair, troubles, torn>>
        /\ firm' = Acceptance(o) /\ firm = Free
    BY <1>2 DEF LetterAccepts, records, noted
  <2> QED BY <1>1, <2>1, AcceptanceTaken DEF TrialsInv, TrialsTypes, Measures, Earned
<1>3. ASSUME NEW o \in Offers, OperatorAccepts(o) PROVE TrialsInv'
  <2>1. /\ UNCHANGED <<control, trial, ab, offer, firm, written, fair, torn>>
        /\ desk' = Acceptance(o)
    BY <1>3 DEF OperatorAccepts, records
  <2> QED BY <1>1, <2>1, AcceptanceTaken DEF TrialsInv, TrialsTypes, Measures, Earned
<1>4. ASSUME NEW h \in Drafts, h.at = "credit", [h EXCEPT !.at = "accept"] \in Drafts
      PROVE  [h EXCEPT !.at = "accept"].at = "accept"
  BY <1>4 DEF Drafts
<1>5. \A h \in Drafts : [h EXCEPT !.at = "accept"] \in Drafts
  BY DEF Drafts
<1>6. CASE LetterCredits
  <2>1. /\ firm.at = "credit" /\ UNCHANGED desk
        /\ firm' \in Drafts /\ firm'.at = "accept" /\ Credit(firm)
    BY <1>1, <1>4, <1>5, <1>6 DEF LetterCredits, Credit, TrialsTypes
  <2>2. /\ ab' \in UseRow /\ (ab' = ab \/ ab'.uses = firm.ab.uses)
        /\ UNCHANGED <<control, trial, offer, written, fair, troubles, torn>>
    BY <1>1, <2>1, CreditGives DEF TrialsTypes
  <2> QED BY <1>1, <2>1, <2>2 DEF TrialsInv, TrialsTypes, Measures, Earned
<1>7. CASE OperatorCredits
  <2>1. /\ desk.at = "credit" /\ UNCHANGED firm
        /\ desk' \in Drafts /\ desk'.at = "accept" /\ Credit(desk)
    BY <1>1, <1>4, <1>5, <1>7 DEF OperatorCredits, Credit, TrialsTypes
  <2>2. /\ ab' \in UseRow /\ (ab' = ab \/ ab'.uses = desk.ab.uses)
        /\ UNCHANGED <<control, trial, offer, written, fair, troubles, torn>>
    BY <1>1, <2>1, CreditGives DEF TrialsTypes
  <2> QED BY <1>1, <2>1, <2>2 DEF TrialsInv, TrialsTypes, Measures, Earned
<1>8. ASSUME NEW h \in Drafts, Accept(h), UNCHANGED firm \/ (firm' = Free /\ firm = h),
             UNCHANGED desk \/ desk' = Free
      PROVE  TrialsInv'
  <2>1. UNCHANGED <<control, trial, ab, written, fair, troubles, torn>>
    BY <1>8 DEF Accept, noted
  <2>2. offer' \in [Offers -> [state: {"open", "applied", "accepted"},
                               variant: {"none"} \cup Sides]]
    BY <1>1, <1>8 DEF Accept, TrialsTypes, Drafts
  <2>3. firm' = firm \/ (firm'.at = "" /\ firm' \in Drafts /\ firm.at = "accept")
    BY <1>1, <1>8 DEF Accept
  <2>4. desk' = desk \/ (desk'.at = "" /\ desk' \in Drafts)
    BY <1>1, <1>8
  <2>5. TrialsTypes'
    BY <1>1, <2>1, <2>2, <2>3, <2>4 DEF TrialsTypes
  <2>6. Measures => Measures'
    BY <2>1, <2>3, <2>4 DEF Measures, Earned
  <2>7. firm'.at = "count" => trial' # 0
    BY <2>1, <2>3 DEF TrialsInv
  <2>8. ~torn' => Measures'
    BY <2>1, <2>6 DEF TrialsInv
  <2> QED BY <2>5, <2>7, <2>8 DEF TrialsInv
<1>9. firm \in Drafts /\ desk \in Drafts
  BY <1>1 DEF TrialsTypes
<1>10. CASE LetterEnds
  <2>1. Accept(firm) /\ firm' = Free /\ UNCHANGED desk
    BY <1>10 DEF LetterEnds
  <2> QED BY <1>8, <1>9, <2>1
<1>11. CASE OperatorEnds
  <2>1. Accept(desk) /\ desk' = Free /\ UNCHANGED firm
    BY <1>11 DEF OperatorEnds
  <2> QED BY <1>8, <1>9, <2>1
<1> QED BY <1>2, <1>3, <1>6, <1>7, <1>10, <1>11

(* Enough uses in the row are enough since the trial came.                 *)
LEMMA JudgedWell ==
  ASSUME TrialsInv, ~torn, Measured(ab)
  PROVE  fair.control >= Uses /\ fair.trial >= Uses
<1>1. Earned(ab) /\ ab \in UseRow /\ fair \in [Sides -> Nat] /\ Uses \in Nat
      /\ "control" \in Sides /\ "trial" \in Sides
  BY TrialsAssumption DEF TrialsInv, Measures, TrialsTypes, Sides
<1>2. \A v \in Sides : ab.uses[v] \in Nat /\ fair[v] \in Nat
  BY <1>1 DEF UseRow
<1>3. \A v \in Sides : ab.uses[v] >= Uses => fair[v] >= Uses
  BY <1>1, <1>2 DEF Earned
<1> QED BY <1>1, <1>3 DEF Measured

(* improver(): a judgement rests on enough uses of both; the reset leaves  *)
(* no uses to the next trial, or was cut off.                              *)
LEMMA JudgeKeeps ==
  ASSUME TrialsInv, Judge \/ Unlink \/ Reset \/ WriteTrial
  PROVE  TrialsInv'
<1>1. TrialsTypes /\ Free \in Drafts /\ Free.at = ""
  BY DEF TrialsInv, Free, Drafts, Untried, Zero, UseRow, Sides
<1>2. CASE Judge
  <2>1. /\ UNCHANGED <<ab, offer, desk, written, fair, troubles, torn>>
        /\ firm = Free /\ trial # 0 /\ Measured(ab)
    BY <1>2 DEF Judge, noted
  <2>2. \/ control' = trial /\ firm' = [Free EXCEPT !.at = "unlink"] /\ UNCHANGED trial
        \/ trial' = 0 /\ firm' = [Free EXCEPT !.at = "reset"] /\ UNCHANGED control
    BY <1>2 DEF Judge
  <2>3. /\ firm' \in Drafts /\ firm'.at \in {"unlink", "reset"}
        /\ firm'.at = "unlink" => trial' = trial
        /\ control' \in Nat /\ trial' \in Nat
    <3> DEFINE u == [Free EXCEPT !.at = "unlink"]
               r == [Free EXCEPT !.at = "reset"]
    <3>1. u \in Drafts /\ u.at = "unlink" /\ r \in Drafts /\ r.at = "reset"
      BY <1>1 DEF Drafts
    <3>2. control \in Nat /\ trial \in Nat
      BY <1>1 DEF TrialsTypes
    <3>3. \/ control' = trial /\ firm' = u /\ trial' = trial
          \/ trial' = 0 /\ firm' = r /\ control' = control
      BY <2>2
    <3> HIDE DEF u, r
    <3> QED BY <3>1, <3>2, <3>3
  <2>4. ~torn => fair.control >= Uses /\ fair.trial >= Uses
    BY <2>1, JudgedWell
  <2> QED BY <1>1, <2>1, <2>3, <2>4 DEF TrialsInv, TrialsTypes, Measures, Earned
<1>3. CASE Unlink
  <2>1. /\ UNCHANGED <<control, ab, offer, desk, written, fair, troubles, torn>>
        /\ trial' = 0 /\ firm' = [firm EXCEPT !.at = "reset"]
    BY <1>3 DEF Unlink, noted
  <2>2. firm' \in Drafts /\ firm'.at = "reset"
    BY <1>1, <2>1 DEF TrialsTypes, Drafts
  <2> QED BY <1>1, <2>1, <2>2 DEF TrialsInv, TrialsTypes, Measures, Earned
<1>4. CASE Reset
  <2>1. /\ UNCHANGED <<control, trial, offer, desk, written, fair, troubles>>
        /\ ab' = Zero /\ firm' = Free /\ (~torn' => ~torn /\ desk.at # "credit")
    BY <1>4 DEF Reset
  <2>2. Zero \in UseRow /\ \A v \in Sides : Zero.uses[v] = 0 /\ fair[v] \in Nat
    BY <1>1, ZeroIsRow DEF TrialsTypes
  <2>3. Earned(ab)'
    BY <2>1, <2>2 DEF Earned
  <2> QED BY <1>1, <2>1, <2>2, <2>3 DEF TrialsInv, TrialsTypes, Measures
<1>5. CASE WriteTrial
  <2>1. /\ UNCHANGED <<control, ab, offer, firm, desk, troubles, torn>>
        /\ firm = Free /\ trial = 0 /\ trial' = written + 1 /\ written' = written + 1
        /\ fair' = Zero.uses
    BY <1>5 DEF WriteTrial
  <2>2. \A v \in Sides : Zero.uses[v] = 0
    BY DEF Zero, Sides
  <2>3. fair' \in [Sides -> Nat] /\ trial' \in Nat /\ trial' # 0 /\ written' \in Nat
    <3>1. written \in Nat
      BY <1>1 DEF TrialsTypes
    <3>2. trial' \in Nat /\ trial' # 0 /\ written' \in Nat
      BY <2>1, <3>1
    <3> QED BY <2>1, <3>2, ZeroIsRow
  <2>4. ASSUME ~torn PROVE Measures'
    <3>1. ab.uses = Zero.uses /\ (desk.at = "credit" => desk.ab.uses = Zero.uses)
      BY <1>1, <2>1, <2>4 DEF TrialsInv, Measures
    <3>2. Earned(ab)' /\ (desk.at = "credit" => Earned(desk.ab)')
      BY <2>1, <2>2, <3>1 DEF Earned
    <3> QED BY <1>1, <2>1, <2>3, <3>2 DEF Measures
  <2> QED BY <1>1, <2>1, <2>3, <2>4 DEF TrialsInv, TrialsTypes
<1> QED BY <1>2, <1>3, <1>4, <1>5

(* Who dies keeps nothing; a reset that dies is a lost one.                *)
LEMMA DeathKeeps ==
  ASSUME TrialsInv, FirmDies \/ DeskDies
  PROVE  TrialsInv'
<1>1. TrialsTypes /\ Free \in Drafts /\ Free.at = ""
  BY DEF TrialsInv, Free, Drafts, Untried, Zero, UseRow, Sides
<1>2. CASE FirmDies
  <2>1. /\ UNCHANGED <<control, trial, ab, offer, desk, written, fair>>
        /\ firm' = Free /\ (~torn' => ~torn /\ firm.at # "reset")
    BY <1>2 DEF FirmDies, records
  <2> QED BY <1>1, <2>1 DEF TrialsInv, TrialsTypes, Measures, Earned
<1>3. CASE DeskDies
  <2>1. /\ UNCHANGED <<control, trial, ab, offer, firm, written, fair, torn>>
        /\ desk' = Free
    BY <1>3 DEF DeskDies, records
  <2> QED BY <1>1, <2>1 DEF TrialsInv, TrialsTypes, Measures, Earned
<1> QED BY <1>2, <1>3

(* By induction on the steps of the firm, of the operator and of the firm  *)
(* that dies.                                                              *)
THEOREM TrialsInvariant == TrialsSpec => []TrialsInv
<1>1. TrialsInv /\ [TrialsNext]_trialsVars => TrialsInv'
  <2> SUFFICES ASSUME TrialsInv, [TrialsNext]_trialsVars PROVE TrialsInv'
    OBVIOUS
  <2>1. CASE UNCHANGED trialsVars
    BY <2>1 DEF trialsVars, records, noted, TrialsInv, TrialsTypes, Measures, Earned
  <2> QED BY <2>1, DraftKeeps, AcceptKeeps, JudgeKeeps, DeathKeeps DEF TrialsNext
<1> QED BY <1>1, TrialsStarts, PTL DEF TrialsSpec

(* A playbook replaces another only after both were used often enough      *)
(* since the trial came, unless a crash fell between the end of a trial    *)
(* and its reset.                                                          *)
THEOREM TrialsAreJudgedOnUse == TrialsSpec => JudgedOnUse
<1> DEFINE Judged == trial # 0 /\ (trial' = 0 \/ control' # control) /\ ~torn
                       => fair.control >= Uses /\ fair.trial >= Uses
<1>1. TrialsInv /\ [TrialsNext]_trialsVars => [Judged]_trialsVars
  <2> SUFFICES ASSUME TrialsInv, TrialsNext, trial # 0, trial' = 0 \/ control' # control, ~torn
               PROVE  fair.control >= Uses /\ fair.trial >= Uses
    OBVIOUS
  <2>1. CASE Judge
    BY <2>1, JudgedWell DEF Judge, TrialsInv
  <2>2. CASE Unlink
    BY <2>2 DEF Unlink, TrialsInv, Measures
  <2>3. ASSUME NEW o \in Offers, StartDraft(o) \/ LetterAccepts(o) \/ OperatorAccepts(o)
        PROVE  UNCHANGED <<trial, control>>
    BY <2>3 DEF StartDraft, LetterAccepts, OperatorAccepts, records
  <2>4. CASE CountUse \/ Propose \/ FirmDies \/ DeskDies \/ Reset
    BY <2>4 DEF CountUse, Propose, FirmDies, DeskDies, Reset, records
  <2>5. CASE LetterCredits \/ LetterEnds \/ OperatorCredits \/ OperatorEnds
    BY <2>5 DEF LetterCredits, LetterEnds, OperatorCredits, OperatorEnds, Credit, Accept
  <2>6. CASE WriteTrial
    BY <2>6 DEF WriteTrial
  <2> QED BY <2>1, <2>2, <2>3, <2>4, <2>5, <2>6 DEF TrialsNext
<1> QED BY <1>1, TrialsInvariant, PTL DEF TrialsSpec, JudgedOnUse

-----------------------------------------------------------------------------
(* Alerts.                                                                 *)

(* A moment, or none.                                                      *)
Times == {Never} \cup {<<t>> : t \in 0..MaxClock}

(* Of each kind the mark is no older than the last message, unless that    *)
(* one got none; of a webhook it is no younger, since only what left is    *)
(* marked.                                                                 *)
Marked(k) ==
  /\ told[k] # Never => told[k][1] <= clock
  /\ marks[k] # Never => marks[k][1] <= clock
  /\ k \notin unmarked /\ told[k] # Never => marks[k] # Never /\ told[k][1] <= marks[k][1]
  /\ channel = "webhook" /\ marks[k] # Never => told[k] # Never /\ marks[k][1] <= told[k][1]

(* What a dispatch by webhook has been through was told of, or failed; and *)
(* what it is about to mark has just left.                                 *)
Covered ==
  /\ dispatch.at = "sent" =>
       /\ dispatch.now \in dispatch.left
       /\ channel = "webhook" => told[dispatch.now] = <<clock>>
  /\ channel = "webhook" =>
       \A k \in dispatch.all \ dispatch.left : Within(told[k]) \/ k \in missed

(* The types of the variables.                                             *)
AlertsTypes ==
  /\ clock \in 0..MaxClock
  /\ raised \subseteq Kinds
  /\ marks \in [Kinds -> Times] /\ told \in [Kinds -> Times]
  /\ dispatch \in [at: {"idle", "kinds", "sent"}, all: SUBSET Kinds, left: SUBSET Kinds,
                   now: Kinds \cup {"none"}]

(* The inductive invariant: the marks tell what the operator was told.     *)
AlertsInv ==
  /\ AlertsTypes
  /\ \A k \in Kinds : Marked(k)
  /\ Covered

(* Times are in the past.                                                  *)
LEMMA NowIsLast ==
  ASSUME AlertsTypes
  PROVE  /\ clock \in Nat /\ <<clock>> \in Times /\ <<clock>> # Never /\ <<clock>>[1] = clock
         /\ \A t \in Times : t # Never => t[1] \in Nat
BY AlertsAssumption DEF AlertsTypes, Times, Never

(* Nothing raised, nothing marked, nobody told.                            *)
LEMMA AlertsStarts == AlertsInit => AlertsInv
<1> SUFFICES ASSUME AlertsInit PROVE AlertsInv
  OBVIOUS
<1>1. NoDispatch \in [at: {"idle", "kinds", "sent"}, all: SUBSET Kinds, left: SUBSET Kinds,
                      now: Kinds \cup {"none"}]
  BY DEF NoDispatch
<1>2. AlertsTypes
  BY <1>1, AlertsAssumption DEF AlertsInit, AlertsTypes, Times
<1>3. \A k \in Kinds : told[k] = Never /\ marks[k] = Never
  BY DEF AlertsInit
<1> QED BY <1>2, <1>3 DEF AlertsInit, AlertsInv, Marked, Covered, NoDispatch

(* Between two dispatches time may pass.                                   *)
LEMMA RestKeeps ==
  ASSUME AlertsInv, (\E k \in Kinds : Incident(k)) \/ TickEnds \/ EndDispatch \/ AlertsDie
  PROVE  AlertsInv'
<1>1. AlertsTypes /\ MaxClock \in Nat /\ NoDispatch.all = {} /\ NoDispatch.at = "idle"
      /\ NoDispatch \in [at: {"idle", "kinds", "sent"}, all: SUBSET Kinds,
                         left: SUBSET Kinds, now: Kinds \cup {"none"}]
  BY AlertsAssumption DEF AlertsInv, NoDispatch
<1>2. CASE \E k \in Kinds : Incident(k)
  <2>1. /\ raised' \subseteq Kinds
        /\ UNCHANGED <<channel, clock, marks, dispatch, told, missed, unmarked>>
    BY <1>1, <1>2 DEF Incident, AlertsTypes
  <2> QED BY <1>1, <2>1 DEF AlertsInv, AlertsTypes, Marked, Covered, Within
<1>3. CASE TickEnds
  <2>1. /\ UNCHANGED <<channel, raised, marks, told, unmarked>> /\ clock' \in 0..MaxClock
        /\ clock' = clock + 1
        /\ dispatch'.left = dispatch'.all /\ dispatch'.at # "sent"
        /\ dispatch' \in [at: {"idle", "kinds", "sent"}, all: SUBSET Kinds,
                          left: SUBSET Kinds, now: Kinds \cup {"none"}]
    BY <1>1, <1>3 DEF TickEnds, AlertsTypes, NoDispatch
  <2>2. \A k \in Kinds : Marked(k)'
    <3>1. clock \in Nat /\ \A k \in Kinds : Marked(k) /\ marks[k] \in Times /\ told[k] \in Times
      BY <1>1, NowIsLast DEF AlertsInv, AlertsTypes
    <3>2. \A t \in Times : t # Never => t[1] \in Nat
      BY <1>1, NowIsLast
    <3> QED BY <2>1, <3>1, <3>2 DEF Marked
  <2> QED BY <1>1, <2>1, <2>2 DEF AlertsInv, AlertsTypes, Covered
<1>4. CASE EndDispatch \/ AlertsDie
  <2>1. UNCHANGED <<channel, clock, raised, marks, told, missed, unmarked>> /\ dispatch' = NoDispatch
    BY <1>4 DEF EndDispatch, AlertsDie
  <2> QED BY <1>1, <2>1 DEF AlertsInv, AlertsTypes, Marked, Covered
<1> QED BY <1>2, <1>3, <1>4

(* A dispatch goes through its kinds.                                      *)
LEMMA DispatchKeeps ==
  ASSUME AlertsInv, Window > 0,
         (\E k \in Kinds : Throttled(k) \/ SendAlert(k)) \/ MarkSent
  PROVE  AlertsInv'
<1> DEFINE Dispatches == [at: {"idle", "kinds", "sent"}, all: SUBSET Kinds, left: SUBSET Kinds,
                          now: Kinds \cup {"none"}]
<1>1. /\ AlertsTypes /\ clock \in Nat /\ <<clock>> \in Times /\ <<clock>> # Never
      /\ <<clock>>[1] = clock /\ dispatch \in Dispatches /\ Window \in Nat
      /\ \A t \in Times : t # Never => t[1] \in Nat
      /\ \A k \in Kinds : marks[k] \in Times /\ told[k] \in Times
  BY NowIsLast, AlertsAssumption DEF AlertsInv, AlertsTypes
<1>2. ASSUME NEW k \in Kinds, Throttled(k) PROVE AlertsInv'
  <2>1. /\ UNCHANGED <<channel, clock, raised, marks, told, missed, unmarked>>
        /\ dispatch.at = "kinds" /\ dispatch' = [dispatch EXCEPT !.left = @ \ {k}]
        /\ Within(marks[k])
    BY <1>2 DEF Throttled
  <2>2. dispatch' \in Dispatches /\ dispatch'.at = "kinds" /\ dispatch'.all = dispatch.all
        /\ dispatch'.left = dispatch.left \ {k}
    BY <1>1, <2>1
  <2>3. channel = "webhook" => Within(told[k])
    BY <1>1, <2>1 DEF Within, AlertsInv, Marked
  <2> QED BY <1>1, <2>1, <2>2, <2>3 DEF AlertsInv, AlertsTypes, Marked, Covered, Within
<1>3. ASSUME NEW k \in Kinds, SendAlert(k) PROVE AlertsInv'
  <2>1. PICK out \in BOOLEAN, says \in BOOLEAN :
          (channel = "webhook" /\ says => out) /\ SendOut(k, out, says)
    BY <1>3 DEF SendAlert
  <2>2. /\ UNCHANGED <<channel, clock, raised, marks>>
        /\ dispatch.at = "kinds" /\ k \in dispatch.left
    BY <2>1 DEF SendOut
  <2>3. \/ /\ out /\ told' = [told EXCEPT ![k] = <<clock>>]
           /\ unmarked' = unmarked \cup {k} /\ missed' = missed
        \/ ~out /\ missed' = missed \cup {k} /\ told' = told /\ unmarked' = unmarked
    BY <2>1 DEF SendOut
  <2>4. /\ dispatch' \in Dispatches /\ dispatch'.all = dispatch.all
        /\ \/ says /\ dispatch'.at = "sent" /\ dispatch'.now = k /\ dispatch'.left = dispatch.left
           \/ ~says /\ dispatch'.at = "kinds" /\ dispatch'.left = dispatch.left \ {k}
    BY <1>1, <2>1 DEF SendOut
  <2>5. /\ told' \in [Kinds -> Times] /\ (out => told'[k] = <<clock>>)
        /\ \A o \in Kinds : o # k => told'[o] = told[o]
    BY <1>1, <2>3 DEF AlertsTypes
  <2>6. AlertsTypes'
    BY <1>1, <2>2, <2>4, <2>5 DEF AlertsTypes
  <2>7. ASSUME NEW o \in Kinds PROVE Marked(o)'
    <3>1. Marked(o) /\ marks[o] \in Times
      BY <1>1 DEF AlertsInv
    <3>2. CASE out /\ o = k
      <4>1. k \in unmarked' /\ marks' = marks /\ told'[k] = <<clock>> /\ clock' = clock
            /\ channel' = channel
        BY <2>2, <2>3, <2>5, <3>2
      <4>2. marks[k] # Never => marks[k][1] <= clock
        BY <3>1, <3>2 DEF Marked
      <4> QED BY <1>1, <3>2, <4>1, <4>2 DEF Marked
    <3>3. CASE ~(out /\ o = k)
      <4>1. told'[o] = told[o] /\ marks'[o] = marks[o] /\ clock' = clock /\ channel' = channel
            /\ (o \notin unmarked' => o \notin unmarked)
        BY <2>2, <2>3, <2>5, <3>3
      <4> QED BY <3>1, <4>1 DEF Marked
    <3> QED BY <3>2, <3>3
  <2>8. ASSUME channel = "webhook", NEW o \in dispatch.all \ dispatch'.left
        PROVE  Within(told[o])' \/ o \in missed'
    <3>1. o \in Kinds /\ (o # k => o \in dispatch.all \ dispatch.left)
      BY <1>1, <2>4, <2>8
    <3>2. CASE o = k
      BY <1>1, <2>2, <2>3, <2>5, <3>2 DEF Within
    <3>3. CASE o # k
      <4>1. Within(told[o]) \/ o \in missed
        BY <2>8, <3>1, <3>3 DEF AlertsInv, Covered
      <4> QED BY <2>2, <2>3, <2>5, <3>1, <3>3, <4>1 DEF Within
    <3> QED BY <3>2, <3>3
  <2>9. Covered'
    <3>1. dispatch'.at = "sent" => dispatch'.now \in dispatch'.left
            /\ (channel' = "webhook" => told'[dispatch'.now] = <<clock'>>)
      BY <2>1, <2>2, <2>4, <2>5
    <3>2. channel' = channel /\ dispatch'.all = dispatch.all
      BY <2>2, <2>4
    <3> QED BY <2>8, <3>1, <3>2 DEF Covered
  <2> QED BY <2>6, <2>7, <2>9 DEF AlertsInv
<1>4. CASE MarkSent
  <2> DEFINE k == dispatch.now
  <2>1. /\ UNCHANGED <<channel, clock, raised, told, missed>> /\ dispatch.at = "sent"
        /\ marks' = [marks EXCEPT ![k] = <<clock>>] /\ unmarked' = unmarked \ {k}
        /\ dispatch' = [dispatch EXCEPT !.at = "kinds", !.left = @ \ {k}, !.now = "none"]
    BY <1>4 DEF MarkSent
  <2>2. k \in dispatch.left /\ k \in Kinds /\ (channel = "webhook" => told[k] = <<clock>>)
    BY <1>1, <2>1 DEF AlertsInv, Covered
  <2> HIDE DEF k
  <2>3. dispatch' \in Dispatches /\ dispatch'.at = "kinds" /\ dispatch'.all = dispatch.all
        /\ dispatch'.left = dispatch.left \ {k}
    BY <1>1, <2>1
  <2>4. marks' \in [Kinds -> Times] /\ marks'[k] = <<clock>>
        /\ \A o \in Kinds : o # k => marks'[o] = marks[o]
    BY <1>1, <2>1, <2>2 DEF AlertsTypes
  <2>5. AlertsTypes'
    BY <1>1, <2>1, <2>3, <2>4 DEF AlertsTypes
  <2>6. ASSUME NEW o \in Kinds PROVE Marked(o)'
    <3>1. Marked(o) /\ told[o] \in Times
      BY <1>1 DEF AlertsInv
    <3>2. CASE o = k
      <4>1. told[k] # Never => told[k][1] <= clock
        BY <3>1, <3>2 DEF Marked
      <4> QED BY <1>1, <2>1, <2>2, <2>4, <3>2, <4>1 DEF Marked
    <3>3. CASE o # k
      BY <2>1, <2>4, <3>1, <3>3 DEF Marked
    <3> QED BY <3>2, <3>3
  <2>7. Covered'
    <3>1. \A o : Within(told[o])' <=> Within(told[o])
      BY <2>1 DEF Within
    <3>2. channel = "webhook" => Within(told[k])
      BY <1>1, <2>2 DEF Within
    <3> QED BY <2>1, <2>3, <3>1, <3>2 DEF AlertsInv, Covered
  <2> QED BY <2>5, <2>6, <2>7 DEF AlertsInv
<1> QED BY <1>2, <1>3, <1>4

(* By induction on the incidents, on a dispatch that may die between a     *)
(* message and its mark, and on the clock.                                 *)
THEOREM AlertsInvariant == Window > 0 /\ AlertsSpec => []AlertsInv
<1> DEFINE H == Window > 0
<1>1. ASSUME H, AlertsInv, [AlertsNext]_alertsVars PROVE AlertsInv'
  <2>1. CASE UNCHANGED alertsVars
    BY <1>1, <2>1 DEF alertsVars, AlertsInv, AlertsTypes, Marked, Covered, Within
  <2> QED BY <1>1, <2>1, RestKeeps, DispatchKeeps DEF AlertsNext
<1> HIDE DEF H
<1>2. CASE H
  BY <1>1, <1>2, AlertsStarts, PTL DEF AlertsSpec
<1>3. CASE ~H
  BY <1>3 DEF H
<1> QED BY <1>2, <1>3

(* alerts.dispatch: an incident is told of again only when the last        *)
(* message of its kind is old or got no mark, because the dispatch was cut *)
(* off or the webhook did not confirm what it took; and a dispatch by      *)
(* webhook leaves no incident untold without an attempt to tell of it.     *)
(* With a window of no minutes nothing is ever told lately, so the window  *)
(* is positive.                                                            *)
THEOREM OperatorIsTold == Window > 0 /\ AlertsSpec => ToldInTime
<1> DEFINE H == Window > 0
           Told == /\ \A k \in Kinds : told'[k] # told[k] => ~Within(told[k]) \/ k \in unmarked
                   /\ channel = "webhook" /\ dispatch.left = {} /\ dispatch' = NoDispatch
                        => \A k \in dispatch.all : Within(told[k]) \/ k \in missed
<1>1. AlertsInv /\ [AlertsNext]_alertsVars => [Told]_alertsVars
  <2> SUFFICES ASSUME AlertsInv, AlertsNext PROVE Told
    OBVIOUS
  <2>1. ASSUME NEW k \in Kinds, told'[k] # told[k] PROVE ~Within(told[k]) \/ k \in unmarked
    <3>1. PICK o \in Kinds : SendAlert(o)
      BY <2>1 DEF AlertsNext, Incident, TickEnds, Throttled, MarkSent, EndDispatch, AlertsDie
    <3>2. o = k /\ ~Within(marks[k])
      <4>1. PICK out \in BOOLEAN, says \in BOOLEAN : SendOut(o, out, says)
        BY <3>1 DEF SendAlert
      <4>2. told' = told \/ told' = [told EXCEPT ![o] = <<clock>>]
        BY <4>1 DEF SendOut
      <4>3. ~Within(marks[o])
        BY <4>1 DEF SendOut
      <4> QED BY <2>1, <4>2, <4>3 DEF AlertsInv, AlertsTypes
    <3>3. Marked(k) /\ clock \in Nat /\ Window \in Nat
          /\ told[k] \in Times /\ marks[k] \in Times
          /\ \A t \in Times : t # Never => t[1] \in Nat
      BY NowIsLast, AlertsAssumption DEF AlertsInv, AlertsTypes
    <3> QED BY <3>2, <3>3 DEF Within, Marked
  <2>2. channel = "webhook" /\ dispatch.left = {} /\ dispatch' = NoDispatch
          => \A k \in dispatch.all : Within(told[k]) \/ k \in missed
    BY DEF AlertsInv, Covered
  <2> QED BY <2>1, <2>2
<1> HIDE DEF H
<1>2. CASE H
  <2>1. AlertsSpec => []AlertsInv
    BY <1>2, AlertsInvariant DEF H
  <2> QED BY <1>1, <2>1, PTL DEF AlertsSpec, ToldInTime
<1>3. CASE ~H
  BY <1>3 DEF H
<1> QED BY <1>2, <1>3

-----------------------------------------------------------------------------
(* The sources of the market.                                              *)

(* The two things that load_prices and ensure_certified ask for.           *)
Sources == {"market_prices", "market_certification"}

(* What the schedule has of k is what was tried last: when, and after a    *)
(* failure when again.                                                     *)
Follows(k, again) ==
  /\ tried[k].kind = entry[k].kind
  /\ tried[k].kind = "last" => entry[k].at = tried[k].at
  /\ tried[k].kind = "next" => entry[k].at = tried[k].at + again

(* The inductive invariant: the schedule agrees with the history.          *)
MarketInv ==
  /\ MarketTypeOK /\ Sources \subseteq Entries
  /\ tried \in [Sources -> [kind: {"never", "last", "next"}, at: Nat]]
  /\ Follows("market_prices", PriceAgain)
  /\ Follows("market_certification", CertAgain)
  /\ step \in {"fetch", "refetch"} => tried["market_prices"] = [kind |-> "last", at |-> now]
  /\ step \in {"reload", "refetch", "prove"}
       => tried["market_certification"] = [kind |-> "last", at |-> now]

(* A claim and a failure, in the schedule and in the history.              *)
LEMMA ClaimFollows ==
  ASSUME MarketInv, NEW k \in Sources, NEW again \in Nat, Mark(k), Trying(k)
  PROVE  /\ entry' \in [Entries -> [kind: {"never", "last", "next"}, at: Nat]]
         /\ tried' \in [Sources -> [kind: {"never", "last", "next"}, at: Nat]]
         /\ tried'[k] = [kind |-> "last", at |-> now] /\ Follows(k, again)'
         /\ \A o \in Sources : o # k => tried'[o] = tried[o] /\ entry'[o] = entry[o]
<1>1. /\ now \in Nat /\ k \in Entries /\ Sources \subseteq Entries
      /\ entry \in [Entries -> [kind: {"never", "last", "next"}, at: Nat]]
      /\ tried \in [Sources -> [kind: {"never", "last", "next"}, at: Nat]]
  BY CadenceAssumption DEF MarketInv, MarketTypeOK, CadenceTypeOK
<1> DEFINE e == [kind |-> "last", at |-> now]
<1>2. e \in [kind: {"never", "last", "next"}, at: Nat] /\ e.kind = "last" /\ e.at = now
  BY <1>1
<1>3. entry' = [entry EXCEPT ![k] = e] /\ tried' = [tried EXCEPT ![k] = e]
  BY DEF Mark, Trying
<1> HIDE DEF e
<1>4. entry'[k] = e /\ tried'[k] = e
  BY <1>1, <1>3
<1> QED BY <1>1, <1>2, <1>3, <1>4 DEF Follows, e

(* What failed is due again after its failure delay.                       *)
LEMMA FailureFollows ==
  ASSUME MarketInv, NEW k \in Sources, NEW again \in Nat,
         tried[k] = [kind |-> "last", at |-> now], RetryAfter(k, again), Failing(k)
  PROVE  /\ entry' \in [Entries -> [kind: {"never", "last", "next"}, at: Nat]]
         /\ tried' \in [Sources -> [kind: {"never", "last", "next"}, at: Nat]]
         /\ tried'[k].kind = "next" /\ tried'[k].at = now /\ Follows(k, again)'
         /\ \A o \in Sources : o # k => tried'[o] = tried[o] /\ entry'[o] = entry[o]
<1>1. /\ now \in Nat /\ k \in Entries /\ Sources \subseteq Entries
      /\ entry \in [Entries -> [kind: {"never", "last", "next"}, at: Nat]]
      /\ tried \in [Sources -> [kind: {"never", "last", "next"}, at: Nat]]
  BY CadenceAssumption DEF MarketInv, MarketTypeOK, CadenceTypeOK
<1> DEFINE e == [kind |-> "next", at |-> now + again]
           f == [tried[k] EXCEPT !.kind = "next"]
<1>2. /\ e \in [kind: {"never", "last", "next"}, at: Nat] /\ e.kind = "next"
      /\ e.at = now + again
      /\ f \in [kind: {"never", "last", "next"}, at: Nat] /\ f.kind = "next" /\ f.at = now
  BY <1>1
<1>3. entry' = [entry EXCEPT ![k] = e] /\ tried' = [tried EXCEPT ![k] = f]
  BY DEF RetryAfter, Failing
<1> HIDE DEF e, f
<1>4. entry'[k] = e /\ tried'[k] = f
  BY <1>1, <1>3
<1> QED BY <1>1, <1>2, <1>3, <1>4 DEF Follows

(* Nothing was tried.                                                      *)
LEMMA MarketStarts == MarketInit => MarketInv
<1> SUFFICES ASSUME MarketInit PROVE MarketInv
  OBVIOUS
<1>1. Blank \in [kind: {"never", "last", "next"}, at: Nat] /\ Blank.kind = "never"
  BY DEF Blank
<1>2. /\ now = 0 /\ entry = [k \in Entries |-> Blank] /\ step = "idle"
      /\ closes = FALSE /\ certified = "empty" /\ reports = "empty"
      /\ tried = [k \in Sources |-> Blank]
  BY DEF MarketInit, CadenceInit, Sources
<1>3. entry \in [Entries -> [kind: {"never", "last", "next"}, at: Nat]] /\ now \in 0..MaxTime
  BY <1>1, <1>2, CadenceAssumption
<1>4. MarketTypeOK
  BY <1>2, <1>3 DEF MarketTypeOK, CadenceTypeOK
<1>5. Sources \subseteq Entries
  BY MarketAssumption DEF Sources
<1> QED BY <1>1, <1>2, <1>4, <1>5 DEF MarketInv, Follows, Sources

(* A tick asks for what is due, and time passes between two ticks.         *)
LEMMA MarketKeeps ==
  ASSUME MarketInv, [MarketNext]_marketVars
  PROVE  MarketInv'
<1>1. /\ {PriceEvery, PriceAgain, CertEvery, CertFirst, CertAgain} \subseteq Nat
      /\ "market_prices" \in Sources /\ "market_certification" \in Sources
      /\ "market_prices" # "market_certification"
  BY MarketAssumption DEF Sources
<1>2. CASE UNCHANGED marketVars
  BY <1>2 DEF marketVars, MarketInv, MarketTypeOK, CadenceTypeOK, Follows
<1>3. CASE TickMarket \/ Recertify
  BY <1>3 DEF TickMarket, Recertify, MarketInv, MarketTypeOK, CadenceTypeOK, Follows
<1>4. CASE ClaimPrices
  <2>1. /\ UNCHANGED <<now, closes, certified, reports>>
        /\ AfterLoad \in {"certify", "prove"}
        /\ AfterLoad = "prove" => step \in {"reload", "refetch"}
        /\ step = "prices" \/ step = "reload"
    BY <1>4 DEF ClaimPrices, AfterLoad
  <2>2. CASE /\ Mark("market_prices") /\ Trying("market_prices")
             /\ step' = IF step = "prices" THEN "fetch" ELSE "refetch"
    <3>1. /\ Follows("market_prices", PriceAgain)'
          /\ tried'["market_prices"] = [kind |-> "last", at |-> now]
          /\ entry' \in [Entries -> [kind: {"never", "last", "next"}, at: Nat]]
          /\ tried' \in [Sources -> [kind: {"never", "last", "next"}, at: Nat]]
          /\ tried'["market_certification"] = tried["market_certification"]
          /\ entry'["market_certification"] = entry["market_certification"]
      BY <1>1, <2>2, ClaimFollows
    <3> QED BY <2>1, <2>2, <3>1 DEF MarketInv, MarketTypeOK, CadenceTypeOK, Follows
  <2>3. CASE step' = AfterLoad /\ UNCHANGED <<entry, tried>>
    BY <2>1, <2>3 DEF MarketInv, MarketTypeOK, CadenceTypeOK, Follows
  <2> QED BY <1>4, <2>2, <2>3 DEF ClaimPrices, Claim
<1>5. CASE FetchPrices
  <2>1. /\ UNCHANGED <<now, certified, reports>> /\ closes' \in BOOLEAN
        /\ (step = "fetch" /\ step' = "certify") \/ (step = "refetch" /\ step' = "prove")
    <3>1. step \in {"fetch", "refetch"} /\ step' = AfterLoad /\ UNCHANGED <<now, certified, reports>>
      BY <1>5 DEF FetchPrices
    <3>2. closes' \in BOOLEAN
      <4>1. closes \in BOOLEAN
        BY DEF MarketInv, MarketTypeOK
      <4> QED BY <1>5, <4>1 DEF FetchPrices
    <3> QED BY <3>1, <3>2 DEF AfterLoad
  <2>2. CASE UNCHANGED <<entry, tried>>
    BY <2>1, <2>2 DEF MarketInv, MarketTypeOK, CadenceTypeOK, Follows
  <2>3. CASE RetryAfter("market_prices", PriceAgain) /\ Failing("market_prices")
    <3>1. Follows("market_prices", PriceAgain)'
          /\ entry' \in [Entries -> [kind: {"never", "last", "next"}, at: Nat]]
          /\ tried' \in [Sources -> [kind: {"never", "last", "next"}, at: Nat]]
          /\ tried'["market_certification"] = tried["market_certification"]
          /\ entry'["market_certification"] = entry["market_certification"]
      BY <1>1, <2>1, <2>3, FailureFollows DEF MarketInv
    <3> QED BY <2>1, <2>3, <3>1 DEF MarketInv, MarketTypeOK, CadenceTypeOK, Follows
  <2> QED BY <1>5, <2>2, <2>3 DEF FetchPrices
<1>6. CASE ClaimCertification
  <2>1. UNCHANGED <<now, closes, certified, reports>>
    BY <1>6 DEF ClaimCertification
  <2>2. CASE Mark("market_certification") /\ Trying("market_certification") /\ step' = "reload"
    <3>1. Follows("market_certification", CertAgain)'
          /\ tried'["market_certification"] = [kind |-> "last", at |-> now]
          /\ entry' \in [Entries -> [kind: {"never", "last", "next"}, at: Nat]]
          /\ tried' \in [Sources -> [kind: {"never", "last", "next"}, at: Nat]]
          /\ tried'["market_prices"] = tried["market_prices"]
          /\ entry'["market_prices"] = entry["market_prices"]
      BY <1>1, <2>2, ClaimFollows
    <3> QED BY <2>1, <2>2, <3>1 DEF MarketInv, MarketTypeOK, CadenceTypeOK, Follows
  <2>3. CASE step' = "idle" /\ UNCHANGED <<entry, tried>>
    BY <2>1, <2>3 DEF MarketInv, MarketTypeOK, CadenceTypeOK, Follows
  <2> QED BY <1>6, <2>2, <2>3 DEF ClaimCertification, Claim
<1>7. CASE Certify
  <2>1. /\ UNCHANGED now /\ UNCHANGED closes /\ step' = "idle" /\ step = "prove"
        /\ {certified', reports'} \subseteq {"empty", "failed", "passed"}
    BY <1>7 DEF Certify, MarketInv, MarketTypeOK
  <2>2. CASE UNCHANGED <<entry, tried>>
    BY <2>1, <2>2 DEF MarketInv, MarketTypeOK, CadenceTypeOK, Follows
  <2>3. CASE RetryAfter("market_certification", CertAgain) /\ Failing("market_certification")
    <3>1. Follows("market_certification", CertAgain)'
          /\ entry' \in [Entries -> [kind: {"never", "last", "next"}, at: Nat]]
          /\ tried' \in [Sources -> [kind: {"never", "last", "next"}, at: Nat]]
          /\ tried'["market_prices"] = tried["market_prices"]
          /\ entry'["market_prices"] = entry["market_prices"]
      BY <1>1, <2>1, <2>3, FailureFollows DEF MarketInv
    <3> QED BY <2>1, <2>3, <3>1 DEF MarketInv, MarketTypeOK, CadenceTypeOK, Follows
  <2> QED BY <1>7, <2>2, <2>3 DEF Certify
<1>8. CASE MarketDies
  BY <1>8 DEF MarketDies, MarketInv, MarketTypeOK, CadenceTypeOK, Follows
<1>9. CASE TimeOfMarket
  <2>1. UNCHANGED <<entry, step, closes, certified, reports, tried>> /\ now' \in 0..MaxTime
        /\ step \in {"idle", "down"}
    BY <1>9, CadenceAssumption DEF TimeOfMarket, MarketInv, MarketTypeOK, CadenceTypeOK
  <2> QED BY <2>1 DEF MarketInv, MarketTypeOK, CadenceTypeOK, Follows
<1> QED BY <1>2, <1>3, <1>4, <1>5, <1>6, <1>7, <1>8, <1>9 DEF MarketNext

(* By induction on the steps of the ticks, which may die.                  *)
THEOREM MarketInvariant == MarketSpec => []MarketInv
BY MarketStarts, MarketKeeps, PTL DEF MarketSpec

(* What is due has rested; what is not is fresh.                           *)
LEMMA DueIsRested ==
  ASSUME MarketInv, NEW k \in Sources, NEW every \in Nat, NEW again \in Nat, Follows(k, again)
  PROVE  /\ Due(k, every) => Rested(k, every, again)
         /\ ~Due(k, every) => Fresh(k, every, again)
<1>1. /\ now \in Nat /\ k \in Entries
      /\ entry[k] \in [kind: {"never", "last", "next"}, at: Nat]
      /\ tried[k] \in [kind: {"never", "last", "next"}, at: Nat]
  BY CadenceAssumption DEF MarketInv, MarketTypeOK, CadenceTypeOK
<1> QED BY <1>1 DEF Due, Rested, Fresh, Rest, Follows

(* What was tried this very minute has not rested.                         *)
LEMMA JustTriedIsFresh ==
  ASSUME NEW time \in Nat, NEW at, at = time, NEW broke \in BOOLEAN,
         NEW every \in Nat \ {0}, NEW again \in Nat \ {0}
  PROVE  time - at < (IF broke THEN again ELSE every)
OBVIOUS

(* load_prices and ensure_certified: what is tried has rested for its      *)
(* period, or for its failure delay if it broke, and a tick that has gone *)
(* by a source leaves it fresh.                                            *)
THEOREM SourcesTriedOnTime == MarketSpec => TriedOnTime
<1> DEFINE OnTime ==
             /\ step \in {"prices", "reload"} /\ step' \in {"fetch", "refetch"}
                  => Rested("market_prices", PriceEvery, PriceAgain)
             /\ step = "certify" /\ step' = "reload"
                  => Rested("market_certification", Wait, CertAgain)
             /\ (step \in {"prices", "fetch", "reload", "refetch"}
                  /\ step' \in {"certify", "prove"})
                  => Fresh("market_prices", PriceEvery, PriceAgain)'
             /\ step \in {"certify", "prove"} /\ step' = "idle"
                  => Fresh("market_certification", Wait, CertAgain)'
<1>1. MarketInv /\ [MarketNext]_marketVars => [OnTime]_marketVars
  <2> SUFFICES ASSUME MarketInv, MarketNext PROVE OnTime
    OBVIOUS
  <2>1. /\ {PriceEvery, PriceAgain, CertEvery, CertFirst, CertAgain} \subseteq Nat \ {0}
        /\ "market_prices" \in Sources /\ "market_certification" \in Sources
        /\ Wait \in Nat \ {0} /\ Wait' \in Nat \ {0} /\ now \in Nat
    BY MarketAssumption, CadenceAssumption
       DEF Sources, Wait, MarketInv, MarketTypeOK, CadenceTypeOK
  <2>2. /\ Due("market_prices", PriceEvery) => Rested("market_prices", PriceEvery, PriceAgain)
        /\ ~Due("market_prices", PriceEvery) => Fresh("market_prices", PriceEvery, PriceAgain)
        /\ Due("market_certification", Wait)
             => Rested("market_certification", Wait, CertAgain)
        /\ ~Due("market_certification", Wait)
             => Fresh("market_certification", Wait, CertAgain)
    BY <2>1, DueIsRested DEF MarketInv
  <2>3. MarketInv'
    BY MarketKeeps
  <2>4. ASSUME NEW k \in Sources, NEW every \in Nat \ {0}, NEW again \in Nat \ {0},
               tried'[k].at = now', tried'[k].kind # "never"
        PROVE  tried'[k].kind # "never"
                 /\ now' - tried'[k].at < (IF tried'[k].kind = "next" THEN again ELSE every)
    <3>1. now' \in Nat
      <4>1. now' \in 0..MaxTime
        BY <2>3 DEF MarketInv, MarketTypeOK, CadenceTypeOK
      <4> QED BY <4>1, CadenceAssumption
    <3> QED BY <2>4, <3>1, JustTriedIsFresh
  <2>5. CASE ClaimPrices
    BY <2>2, <2>5 DEF ClaimPrices, Claim, Fresh, Rest, AfterLoad
  <2>6. CASE FetchPrices
    <3>1. /\ tried["market_prices"] = [kind |-> "last", at |-> now] /\ now' = now
          /\ step \in {"fetch", "refetch"} /\ step' \in {"certify", "prove"}
      BY <2>6 DEF FetchPrices, MarketInv, AfterLoad
    <3>2. CASE UNCHANGED tried
      BY <2>1, <2>4, <3>1, <3>2 DEF Fresh, Rest
    <3>3. CASE RetryAfter("market_prices", PriceAgain) /\ Failing("market_prices")
      <4>1. tried'["market_prices"].kind = "next" /\ tried'["market_prices"].at = now
        BY <2>1, <3>1, <3>3, FailureFollows
      <4> QED BY <2>1, <2>4, <3>1, <4>1 DEF Fresh, Rest
    <3> QED BY <2>6, <3>2, <3>3 DEF FetchPrices
  <2>7. CASE ClaimCertification
    <3>1. step = "certify" /\ UNCHANGED <<now, certified>>
      BY <2>7 DEF ClaimCertification
    <3>2. CASE Due("market_certification", Wait) /\ step' = "reload"
      BY <2>2, <3>1, <3>2
    <3>3. CASE ~Due("market_certification", Wait) /\ step' = "idle" /\ UNCHANGED tried
      <4>1. Fresh("market_certification", Wait, CertAgain)'
        BY <2>2, <3>1, <3>3 DEF Fresh, Rest, Wait
      <4> QED BY <3>1, <3>3, <4>1
    <3> QED BY <2>7, <3>2, <3>3 DEF ClaimCertification, Claim
  <2>8. CASE Certify
    <3>1. tried["market_certification"] = [kind |-> "last", at |-> now] /\ step' = "idle"
          /\ now' = now /\ step = "prove"
      BY <2>8 DEF Certify, MarketInv
    <3>2. CASE UNCHANGED tried
      <4>1. Fresh("market_certification", Wait, CertAgain)'
        BY <2>1, <2>4, <3>1, <3>2 DEF Fresh, Rest
      <4> QED BY <3>1, <4>1
    <3>3. CASE RetryAfter("market_certification", CertAgain) /\ Failing("market_certification")
      <4>1. tried'["market_certification"].kind = "next"
            /\ tried'["market_certification"].at = now
        BY <2>1, <3>1, <3>3, FailureFollows
      <4>2. Fresh("market_certification", Wait, CertAgain)'
        BY <2>1, <2>4, <3>1, <4>1 DEF Fresh, Rest
      <4> QED BY <3>1, <4>2
    <3> QED BY <2>8, <3>2, <3>3 DEF Certify
  <2>9. CASE TickMarket \/ Recertify \/ MarketDies \/ TimeOfMarket
    <3>1. (step \in {"idle", "down"} /\ step' \in {"prices", "certify", "idle", "down"})
            \/ step' = "down"
      BY <2>9 DEF TickMarket, Recertify, MarketDies, TimeOfMarket
    <3> QED BY <3>1
  <2> QED BY <2>5, <2>6, <2>7, <2>8, <2>9 DEF MarketNext
<1> QED BY <1>1, MarketInvariant, PTL DEF MarketSpec, TriedOnTime

-----------------------------------------------------------------------------
(* The model router.                                                       *)

(* The threads, the largest estimate, the bound on what a day uses, and    *)
(* the schedule's entry for the retries of the crafter.                    *)
Count == Cardinality(Askers)
Most  == CHOOSE s \in Sizes : \A o \in Sizes : o <= s
Bound == Budget + Count * MaxReply + (Count - 1) * Most
Craft == entry["craft_provider_retry"]

(* The calls under way, and those of them that began today.                *)
Underway == {t \in Askers : asking[t].at # "idle"}
OfToday  == {t \in Underway : asking[t].day = Today}

(* The types of the variables.                                             *)
RouterTypes ==
  /\ now \in Nat
  /\ entry \in [Entries -> [kind: {"never", "last", "next"}, at: Nat]]
  /\ setup \in {"claude", "claude+api", "api"}
  /\ router \in Routers /\ saved \in Routers
  /\ asking \in [Askers -> [at: {"idle", "claude", "api"}, size: Sizes \cup {0},
                            day: Nat, tool: BOOLEAN]]
  /\ used \in Nat /\ failed \in Nat /\ chances \in Nat

(* The router counts what was used; nothing is of a day to come.           *)
Accounts ==
  /\ router.day <= Today /\ saved.day <= Today
  /\ \A t \in Askers : asking[t].day <= Today
  /\ Rolled(router).tokens = used /\ Rolled(saved).tokens <= used

(* Room for what is under way: the last call that was let go knew of what  *)
(* was used then, and at most n - 1 others were under way.                 *)
Room(t) == used + asking[t].size + MaxReply
             + Cardinality(Underway \ {t}) * (Most + MaxReply) <= Bound
Spending ==
  /\ used <= Bound
  /\ \A t \in Underway : asking[t].size \in Sizes
  /\ Underway # {} => \E t \in Underway : Room(t)

(* A degraded router lets no call go; one that is not has not failed since *)
(* its last chance.                                                        *)
Rounds ==
  /\ OfToday # {} => router.day = Today
  /\ Rolled(router).degraded => failed + Cardinality(OfToday) <= Count * (1 + chances)
  /\ ~Rolled(router).degraded => failed <= Count * chances

(* The chances of a day lie an hour apart, and the entry of the schedule   *)
(* is the last.                                                            *)
Spaced ==
  /\ Craft.kind \in {"never", "last"}
  /\ Craft.kind = "last" => Craft.at <= now
  /\ chances > 0 => /\ Craft.kind = "last"
                    /\ Today * DayLength + (chances - 1) * CraftEvery <= Craft.at

(* The inductive invariant.                                                *)
RouterInv == RouterTypes /\ Accounts /\ Spending /\ Rounds /\ Spaced

(* What the assumption says of the constants and what is made from them.   *)
LEMMA RouterConstants ==
  /\ Count \in Nat /\ Count > 0 /\ IsFiniteSet(Askers)
  /\ Most \in Sizes /\ Most \in Nat /\ \A o \in Sizes : o \in Nat /\ o > 0 /\ o <= Most
  /\ Budget \in Nat /\ MaxReply \in Nat
  /\ DayLength \in Nat /\ DayLength > 0 /\ CraftEvery \in Nat /\ CraftEvery > 0
  /\ Bound \in Nat /\ Bound >= Budget
<1>1. IsFiniteSet(Askers) /\ Askers # {}
  BY RouterAssumption
<1>2. Count \in Nat /\ Count > 0
  BY <1>1, FS_CardinalityType, FS_EmptySet DEF Count
<1>3. Most \in Sizes /\ \A o \in Sizes : o <= Most
  BY RouterAssumption DEF Most
<1>4. Budget \in Nat /\ MaxReply \in Nat /\ Sizes \subseteq Nat \ {0}
      /\ DayLength \in Nat \ {0} /\ CraftEvery \in Nat \ {0}
  BY RouterAssumption
<1>5. Count - 1 \in Nat /\ Most \in Nat
  BY <1>2, <1>3, <1>4
<1>6. \A a \in Nat, b \in Nat : a * b \in Nat
  OBVIOUS
<1>7. Count * MaxReply \in Nat /\ (Count - 1) * Most \in Nat
  BY <1>2, <1>4, <1>5, <1>6
<1> HIDE DEF Most, Count
<1>8. Bound \in Nat /\ Bound >= Budget
  BY <1>4, <1>7 DEF Bound
<1> QED BY <1>1, <1>2, <1>3, <1>4, <1>8

(* The day of a time.                                                      *)
LEMMA DayOf ==
  ASSUME NEW a \in Nat
  PROVE  /\ a \div DayLength \in Nat
         /\ (a \div DayLength) * DayLength <= a
         /\ a < (a \div DayLength) * DayLength + DayLength
BY RouterConstants

(* The day of now.                                                         *)
LEMMA TodayIs ==
  ASSUME now \in Nat
  PROVE  Today \in Nat /\ Today * DayLength <= now /\ now < Today * DayLength + DayLength
BY DayOf DEF Today

(* _roll_day() leaves a router of today alone and starts any other afresh. *)
LEMMA RolledIs ==
  ASSUME Today \in Nat, NEW r \in Routers
  PROVE  /\ Rolled(r) \in Routers /\ Rolled(r).day = Today
         /\ r.day = Today => Rolled(r) = r
         /\ r.day # Today => Rolled(r).tokens = 0 /\ Rolled(r).degraded = FALSE
BY DEF Rolled, Routers

(* _queue() degrades and counts nothing.                                   *)
LEMMA QueuedIs ==
  ASSUME NEW r \in Routers, NEW why \in {"budget", "provider"}
  PROVE  /\ Queued(r, why) \in Routers /\ Queued(r, why).day = r.day
         /\ Queued(r, why).tokens = r.tokens /\ Queued(r, why).degraded = TRUE
BY DEF Queued, Routers

(* No more calls than threads.                                             *)
LEMMA CardBounds ==
  ASSUME RouterTypes
  PROVE  /\ IsFiniteSet(Underway) /\ Cardinality(Underway) \in Nat /\ Cardinality(Underway) <= Count
         /\ IsFiniteSet(OfToday) /\ Cardinality(OfToday) \in Nat
         /\ Cardinality(OfToday) <= Count
<1>1. Underway \subseteq Askers /\ OfToday \subseteq Askers
  BY DEF Underway, OfToday
<1> QED BY <1>1, RouterConstants, FS_Subset, FS_CardinalityType DEF Count

-----------------------------------------------------------------------------
(* What is under way.                                                      *)

(* While the clock stands a router rolls to the same.                      *)
LEMMA SameDay ==
  ASSUME UNCHANGED now
  PROVE  Today' = Today /\ Rolled(router)' = Rolled(router') /\ Rolled(saved)' = Rolled(saved')
BY DEF Today, Rolled

(* A thread at rest calls.                                                 *)
LEMMA CallStarts ==
  ASSUME RouterTypes, NEW t \in Askers, asking[t].at = "idle", NEW c, c.at # "idle",
         asking' = [asking EXCEPT ![t] = c], UNCHANGED now
  PROVE  /\ t \notin Underway /\ Underway' = Underway \cup {t} /\ asking'[t] = c
         /\ \A u \in Underway : asking'[u] = asking[u] /\ u # t
         /\ c.day = Today => OfToday' = OfToday \cup {t}
BY SameDay DEF RouterTypes, Underway, OfToday

(* A call comes back.                                                      *)
LEMMA CallEnds ==
  ASSUME RouterTypes, NEW t \in Underway, asking' = [asking EXCEPT ![t] = NotAsking],
         UNCHANGED now
  PROVE  /\ Underway' = Underway \ {t}
         /\ \A u \in Underway : u # t => asking'[u] = asking[u]
         /\ OfToday' = OfToday \ {t}
<1>1. NotAsking.at = "idle"
  BY DEF NotAsking
<1> QED BY <1>1, SameDay DEF RouterTypes, Underway, OfToday

(* Estimates of calls under way.                                           *)
LEMMA SizesBelow ==
  ASSUME RouterInv
  PROVE  \A u \in Underway : asking[u].size \in Nat /\ asking[u].size > 0 /\ asking[u].size <= Most
BY RouterConstants DEF RouterInv, Spending

(* A product of naturals.                                                  *)
LEMMA OneMoreTimes ==
  ASSUME NEW a \in Nat, NEW b \in Nat
  PROVE  /\ a * b \in Nat /\ (a + 1) * b = a * b + b
         /\ \A c \in Nat : c <= a => c * b <= a * b
<1>1. ASSUME NEW c \in Nat, c <= a PROVE c * b <= a * b
  <2>1. PICK d \in Nat : a = c + d
    <3>1. a - c \in Nat /\ a = c + (a - c)
      BY <1>1
    <3> QED BY <3>1
  <2>2. a * b = c * b + d * b /\ d * b \in Nat /\ c * b \in Nat
    BY <2>1
  <2> QED BY <2>2
<1> QED BY <1>1

(* A call that is let go with what is used now.                            *)
LEMMA StartKeepsSpending ==
  ASSUME RouterInv, NEW t \in Askers, asking[t].at = "idle", NEW c, c.at # "idle",
         c.size \in Sizes, asking' = [asking EXCEPT ![t] = c], UNCHANGED <<now, used>>,
         used + c.size <= Budget
  PROVE  Spending'
<1>1. /\ t \notin Underway /\ Underway' = Underway \cup {t} /\ asking'[t] = c
      /\ \A u \in Underway : asking'[u] = asking[u]
  BY CallStarts DEF RouterInv
<1>2. Underway' \ {t} = Underway /\ Underway \subseteq Askers \ {t}
  BY <1>1 DEF Underway
<1>3. Cardinality(Underway) \in Nat /\ Cardinality(Underway) <= Count - 1
  <2>1. IsFiniteSet(Askers \ {t}) /\ Cardinality(Askers \ {t}) = Count - 1
    BY RouterConstants, FS_RemoveElement DEF Count
  <2> QED BY <1>2, <2>1, FS_Subset, FS_CardinalityType
<1> DEFINE k == Cardinality(Underway)
           m == Count - 1
<1>4. m \in Nat /\ k \in Nat /\ k <= m /\ Most \in Nat /\ MaxReply \in Nat /\ used \in Nat
      /\ Budget \in Nat /\ Count = m + 1 /\ c.size \in Nat
  <2>1. used \in Nat
    BY DEF RouterInv, RouterTypes
  <2>2. /\ Count \in Nat /\ Count > 0 /\ Most \in Nat /\ MaxReply \in Nat
        /\ Budget \in Nat /\ c.size \in Nat
    BY RouterConstants
  <2> HIDE DEF Count, Most
  <2> QED BY <1>3, <2>1, <2>2
<1>5. k * (Most + MaxReply) <= m * (Most + MaxReply)
  BY <1>4, OneMoreTimes
<1>6. /\ m * (Most + MaxReply) = m * Most + m * MaxReply
      /\ Count * MaxReply = m * MaxReply + MaxReply
      /\ m * Most \in Nat /\ m * MaxReply \in Nat /\ k * (Most + MaxReply) \in Nat
  BY <1>4, OneMoreTimes
<1>7. Bound = Budget + Count * MaxReply + m * Most
  BY DEF Bound
<1> HIDE DEF m, k, Bound, Count, Most
<1>8. used + c.size + MaxReply + k * (Most + MaxReply) <= Bound /\ used <= Bound
  BY <1>4, <1>5, <1>6, <1>7
<1>9. Room(t)'
  BY <1>1, <1>2, <1>8 DEF Room, k, Bound, Count, Most
<1> QED BY <1>1, <1>8, <1>9 DEF RouterInv, Spending, Bound, Count, Most

(* A call that ends, with the answer counted or without.                   *)
LEMMA EndKeepsSpending ==
  ASSUME RouterInv, NEW t \in Underway, asking' = [asking EXCEPT ![t] = NotAsking],
         UNCHANGED now, used' \in Nat, used' <= used + asking[t].size + MaxReply
  PROVE  Spending'
<1> DEFINE K == Most + MaxReply
<1>1. /\ Underway' = Underway \ {t}
      /\ \A u \in Underway : u # t => asking'[u] = asking[u]
  BY CallEnds DEF RouterInv
<1>2. /\ IsFiniteSet(Underway) /\ K \in Nat /\ used \in Nat /\ MaxReply \in Nat /\ Bound \in Nat
      /\ \A u \in Underway : asking[u].size \in Nat /\ asking[u].size <= Most
      /\ Most \in Nat
  BY CardBounds, RouterConstants, SizesBelow DEF RouterInv, RouterTypes
<1>3. PICK w \in Underway : Room(w)
  BY DEF RouterInv, Spending
<1> DEFINE c == Cardinality(Underway \ {w})
<1>4. c \in Nat /\ c * K \in Nat
      /\ used + asking[w].size + MaxReply + c * K <= Bound
  <2>1. IsFiniteSet(Underway \ {w})
    BY <1>2, FS_Subset
  <2>2. c \in Nat
    BY <2>1, FS_CardinalityType
  <2> QED BY <1>2, <1>3, <2>2, OneMoreTimes DEF Room
<1>5. ASSUME NEW v \in Underway, v # t
      PROVE  /\ Cardinality((Underway \ {t}) \ {v}) \in Nat
             /\ Cardinality((Underway \ {t}) \ {v}) + 1 = c
  <2>1. /\ IsFiniteSet(Underway \ {t}) /\ Cardinality(Underway \ {t}) = Cardinality(Underway) - 1
        /\ c = Cardinality(Underway) - 1
    BY <1>2, FS_RemoveElement
  <2>2. /\ v \in Underway \ {t}
        /\ Cardinality((Underway \ {t}) \ {v}) = Cardinality(Underway \ {t}) - 1
    BY <1>5, <2>1, FS_RemoveElement
  <2>3. IsFiniteSet((Underway \ {t}) \ {v})
    BY <2>1, FS_Subset
  <2>4. Cardinality((Underway \ {t}) \ {v}) \in Nat
    BY <2>3, FS_CardinalityType
  <2> HIDE DEF c
  <2> QED BY <1>4, <2>1, <2>2, <2>4
<1> HIDE DEF K, c, Bound, Most
<1>6. used' <= Bound
  <2>1. CASE t = w
    BY <1>2, <1>4, <2>1
  <2>2. CASE t # w
    <3> DEFINE d == Cardinality((Underway \ {t}) \ {w})
    <3>1. d \in Nat /\ d + 1 = c
      BY <1>5, <2>2
    <3> HIDE DEF d
    <3>2. c * K = d * K + K /\ d * K \in Nat
      BY <1>2, <3>1, OneMoreTimes
    <3> QED BY <1>2, <1>4, <3>2 DEF K
  <2> QED BY <2>1, <2>2
<1>7. Underway' # {} => \E v \in Underway' : Room(v)'
  <2> SUFFICES ASSUME Underway' # {} PROVE \E v \in Underway' : Room(v)'
    OBVIOUS
  <2>1. PICK v \in Underway : v # t /\ (t # w => v = w)
    BY <1>1
  <2> DEFINE d == Cardinality((Underway \ {t}) \ {v})
  <2>2. d \in Nat /\ d + 1 = c
    BY <1>5, <2>1
  <2>3. Underway' \ {v} = (Underway \ {t}) \ {v} /\ asking'[v] = asking[v] /\ v \in Underway'
    BY <1>1, <2>1
  <2>4. Cardinality(Underway' \ {v}) = d
    BY <2>3
  <2> HIDE DEF d
  <2>5. c * K = d * K + K /\ d * K \in Nat
    BY <1>2, <2>2, OneMoreTimes
  <2>6. used' + asking[v].size + MaxReply + d * K <= Bound
    <3>1. CASE t = w
      BY <1>2, <1>4, <2>5, <3>1 DEF K
    <3>2. CASE t # w
      BY <1>2, <1>4, <2>1, <2>5, <3>2 DEF K
    <3> QED BY <3>1, <3>2
  <2>7. Room(v)'
    BY <2>3, <2>4, <2>6 DEF Room, K, Bound, Most
  <2> QED BY <2>3, <2>7
<1>8. \A u \in Underway' : asking'[u].size \in Sizes
  BY <1>1 DEF RouterInv, Spending
<1> QED BY <1>6, <1>7, <1>8 DEF Spending, Bound, Most, Count

(* Nothing starts and nothing ends.                                        *)
LEMMA CallsStand ==
  ASSUME RouterInv, UNCHANGED <<asking, used>>
  PROVE  Underway' = Underway /\ Spending'
<1>1. Underway' = Underway
  BY DEF Underway
<1> QED BY <1>1 DEF RouterInv, Spending, Room

-----------------------------------------------------------------------------
(* Rounds of failing calls, and the chances between them.                  *)

(* No call fails and none starts.                                          *)
LEMMA RoundsKept ==
  ASSUME RouterInv, UNCHANGED <<now, failed, chances>>, OfToday' \subseteq OfToday,
         router'.day = Today \/ router'.day = router.day,
         Rolled(router).degraded => Rolled(router').degraded
  PROVE  Rounds'
<1>1. /\ Cardinality(OfToday') \in Nat /\ Cardinality(OfToday') <= Cardinality(OfToday)
      /\ Cardinality(OfToday) \in Nat /\ Cardinality(OfToday) <= Count
  BY CardBounds, FS_Subset, FS_CardinalityType DEF RouterInv
<1>2. Count \in Nat /\ failed \in Nat /\ chances \in Nat
  BY RouterConstants DEF RouterInv, RouterTypes
<1> DEFINE p == Count * chances
<1>3. p \in Nat /\ Count * (1 + chances) = p + Count
  BY <1>2, OneMoreTimes
<1>4. (Count * (1 + chances))' = Count * (1 + chances) /\ (Count * chances)' = p
  BY DEF Count
<1> HIDE DEF p, Count
<1>5. OfToday # {} => router.day = Today
  BY DEF RouterInv, Rounds
<1>6. /\ Rolled(router).degraded => failed + Cardinality(OfToday) <= p + Count
      /\ ~Rolled(router).degraded => failed <= p
  BY <1>3 DEF RouterInv, Rounds, p
<1>7. Rolled(router').degraded => failed + Cardinality(OfToday') <= p + Count
  BY <1>1, <1>2, <1>3, <1>6
<1>8. ~Rolled(router').degraded => failed <= p
  BY <1>6
<1>9. OfToday' # {} => router'.day = Today'
  BY <1>5, SameDay
<1> QED BY <1>3, <1>4, <1>7, <1>8, <1>9, SameDay DEF Rounds

(* A call of today fails, and the router is degraded.                      *)
LEMMA RoundsFail ==
  ASSUME RouterInv, NEW t \in OfToday, OfToday' = OfToday \ {t}, UNCHANGED <<now, chances>>,
         failed' = failed + 1, router'.day = Today, Rolled(router').degraded = TRUE
  PROVE  Rounds'
<1>1. /\ IsFiniteSet(OfToday) /\ Cardinality(OfToday) \in Nat /\ Cardinality(OfToday) <= Count
      /\ Cardinality(OfToday') = Cardinality(OfToday) - 1
  BY CardBounds, FS_RemoveElement DEF RouterInv
<1>2. Count \in Nat /\ failed \in Nat /\ chances \in Nat
  BY RouterConstants DEF RouterInv, RouterTypes
<1> DEFINE p == Count * chances
<1>3. p \in Nat /\ Count * (1 + chances) = p + Count
  BY <1>2, OneMoreTimes
<1>4. (Count * (1 + chances))' = Count * (1 + chances)
  BY DEF Count
<1> HIDE DEF p, Count
<1>5. /\ Rolled(router).degraded => failed + Cardinality(OfToday) <= p + Count
      /\ ~Rolled(router).degraded => failed <= p
  BY <1>3 DEF RouterInv, Rounds, p
<1>6. failed' + Cardinality(OfToday') <= p + Count
  BY <1>1, <1>2, <1>3, <1>5
<1> QED BY <1>3, <1>4, <1>6, SameDay DEF Rounds

(* A degraded router gets another chance.                                  *)
LEMMA RoundsAgain ==
  ASSUME RouterInv, UNCHANGED <<now, failed>>, OfToday' = OfToday, Rolled(router).degraded,
         chances' = chances + 1, router'.day = Today, Rolled(router').degraded = FALSE
  PROVE  Rounds'
<1>1. Cardinality(OfToday) \in Nat
  BY CardBounds DEF RouterInv
<1>2. Count \in Nat /\ failed \in Nat /\ chances \in Nat
  BY RouterConstants DEF RouterInv, RouterTypes
<1>3. Count * chances' = Count * (1 + chances) /\ Count * (1 + chances) \in Nat
  BY <1>2, OneMoreTimes
<1>4. (Count * chances)' = Count * chances'
  BY DEF Count
<1>5. failed + Cardinality(OfToday) <= Count * (1 + chances)
  BY DEF RouterInv, Rounds
<1> HIDE DEF Count
<1>6. failed <= Count * (1 + chances)
  BY <1>1, <1>2, <1>3, <1>5
<1> QED BY <1>3, <1>4, <1>6, SameDay DEF Rounds

(* The entry of the retries, and what a mark makes of it.                  *)
LEMMA CraftIsEntry ==
  ASSUME RouterTypes
  PROVE  /\ Craft \in [kind: {"never", "last", "next"}, at: Nat]
         /\ Mark("craft_provider_retry") =>
              /\ Craft' = [kind |-> "last", at |-> now]
              /\ entry' \in [Entries -> [kind: {"never", "last", "next"}, at: Nat]]
<1>1. "craft_provider_retry" \in Entries
  BY RouterAssumption
<1>2. Craft \in [kind: {"never", "last", "next"}, at: Nat]
  BY <1>1 DEF RouterTypes, Craft
<1>3. ASSUME Mark("craft_provider_retry")
      PROVE  /\ Craft' = [kind |-> "last", at |-> now]
             /\ entry' \in [Entries -> [kind: {"never", "last", "next"}, at: Nat]]
  <2> DEFINE e == [kind |-> "last", at |-> now]
  <2>1. e \in [kind: {"never", "last", "next"}, at: Nat]
    BY DEF RouterTypes
  <2>2. entry' = [entry EXCEPT !["craft_provider_retry"] = e]
    BY <1>3 DEF Mark
  <2> HIDE DEF e
  <2>3. Craft' = e /\ entry' \in [Entries -> [kind: {"never", "last", "next"}, at: Nat]]
    BY <1>1, <2>1, <2>2 DEF RouterTypes, Craft
  <2> QED BY <2>3 DEF e
<1> QED BY <1>2, <1>3

(* A mark only moves the entry to now.                                     *)
LEMMA SpacedKept ==
  ASSUME RouterInv, NEW tool, MarkCraft(tool), UNCHANGED <<now, chances>>
  PROVE  Spaced' /\ entry' \in [Entries -> [kind: {"never", "last", "next"}, at: Nat]]
<1>1. RouterTypes /\ Spaced /\ now \in Nat /\ chances \in Nat
  BY DEF RouterInv, RouterTypes
<1>2. CASE UNCHANGED entry
  BY <1>1, <1>2, SameDay DEF Spaced, Craft, RouterTypes
<1>3. CASE Mark("craft_provider_retry")
  <2>1. Craft'.kind = "last" /\ Craft'.at = now
        /\ entry' \in [Entries -> [kind: {"never", "last", "next"}, at: Nat]]
    BY <1>1, <1>3, CraftIsEntry
  <2>2. Craft.at \in Nat
    BY <1>1, CraftIsEntry
  <2> DEFINE p == Today * DayLength + (chances - 1) * CraftEvery
  <2>3. p \in Int
    BY <1>1, TodayIs, RouterConstants
  <2>4. chances > 0 => p <= Craft.at /\ Craft.at <= now
    BY <1>1 DEF Spaced
  <2>5. chances' > 0 => p <= now
    <3> HIDE DEF p
    <3> QED BY <1>1, <2>2, <2>3, <2>4
  <2>6. p' = p
    BY SameDay
  <2> QED BY <1>1, <2>1, <2>5, <2>6 DEF Spaced
<1> QED BY <1>2, <1>3 DEF MarkCraft

(* The schedule gives a chance when the last is an hour old.               *)
LEMMA SpacedAgain ==
  ASSUME RouterInv, Claim("craft_provider_retry", CraftEvery), UNCHANGED now,
         chances' = chances \/ chances' = chances + 1
  PROVE  Spaced' /\ entry' \in [Entries -> [kind: {"never", "last", "next"}, at: Nat]]
<1>1. RouterTypes /\ Spaced /\ now \in Nat /\ chances \in Nat
  BY DEF RouterInv, RouterTypes
<1>2. Craft'.kind = "last" /\ Craft'.at = now
      /\ entry' \in [Entries -> [kind: {"never", "last", "next"}, at: Nat]]
  BY <1>1, CraftIsEntry DEF Claim
<1>3. Craft.at \in Nat /\ (Craft.kind = "last" => now - Craft.at >= CraftEvery)
  BY <1>1, CraftIsEntry DEF Claim, Due, Craft
<1> DEFINE a == Today * DayLength
           p == (chances - 1) * CraftEvery
           q == (chances' - 1) * CraftEvery
<1>4. a \in Nat /\ a <= now /\ CraftEvery \in Nat
  BY <1>1, TodayIs, RouterConstants
<1>5. chances > 0 => a + p <= Craft.at /\ Craft.kind = "last"
  BY <1>1 DEF Spaced
<1>6. p \in Int /\ q \in Int /\ q <= p + CraftEvery
  BY <1>1, <1>4
<1>7. chances = 0 /\ chances' > 0 => q = 0
  <2>1. SUFFICES ASSUME chances = 0, chances' > 0 PROVE q = 0
    OBVIOUS
  <2>2. chances' = 1
    BY <2>1
  <2> QED BY <1>4, <2>2
<1> HIDE DEF a, p, q
<1>8. chances' > 0 => a + q <= now
  BY <1>1, <1>3, <1>4, <1>5, <1>6, <1>7
<1>9. a' = a
  BY SameDay DEF a
<1> QED BY <1>1, <1>2, <1>8, <1>9 DEF Spaced, a, q

-----------------------------------------------------------------------------
(* The steps.                                                              *)

(* While the day lasts: what a router that has rolled is to the invariant. *)
LEMMA AccountsKept ==
  ASSUME RouterInv, UNCHANGED <<now, saved>>, router' \in Routers, router'.day <= Today,
         used' \in Nat, used' >= used, Rolled(router').tokens = used',
         \A t \in Askers : asking'[t].day <= Today
  PROVE  Accounts'
<1>1. Rolled(saved).tokens <= used /\ saved.day <= Today /\ used \in Nat
      /\ Rolled(saved).tokens \in Nat
  BY TodayIs, RolledIs DEF RouterInv, Accounts, RouterTypes, Routers
<1>2. Rolled(saved').tokens <= used'
  BY <1>1
<1> QED BY <1>1, <1>2, SameDay DEF Accounts

(* What the invariant says of the router.                                  *)
LEMMA RouterNow ==
  ASSUME RouterInv
  PROVE  /\ RouterTypes /\ Today \in Nat /\ used \in Nat /\ failed \in Nat /\ chances \in Nat
         /\ router \in Routers /\ saved \in Routers
         /\ Rolled(router) \in Routers /\ Rolled(router).day = Today
         /\ Rolled(Rolled(router)) = Rolled(router)
         /\ Rolled(router).tokens = used
         /\ router.day = Today => Rolled(router) = router
         /\ router.day \in Nat /\ router.day <= Today
         /\ \A t \in Askers : asking[t].day \in Nat /\ asking[t].day <= Today
<1>1. RouterTypes /\ Today \in Nat
  BY TodayIs DEF RouterInv, RouterTypes
<1>2. /\ Rolled(router) \in Routers /\ Rolled(router).day = Today
      /\ router.day = Today => Rolled(router) = router
  BY <1>1, RolledIs DEF RouterTypes
<1>3. Rolled(Rolled(router)) = Rolled(router)
  BY <1>1, <1>2, RolledIs
<1>4. \A t \in Askers : asking[t].day \in Nat
  BY <1>1 DEF RouterTypes
<1> QED BY <1>1, <1>2, <1>3, <1>4 DEF RouterInv, RouterTypes, Accounts, Routers

(* complete() refuses, queues or sends.                                    *)
LEMMA AskModelKeeps ==
  ASSUME RouterInv, NEW t \in Askers, NEW size \in Sizes, NEW tool \in BOOLEAN,
         AskModel(t, size, tool)
  PROVE  RouterInv'
<1> DEFINE r == Rolled(router)
<1>1. RouterTypes /\ Today \in Nat /\ r \in Routers /\ r.day = Today /\ Rolled(r) = r
      /\ r.tokens = used /\ used \in Nat /\ failed \in Nat /\ chances \in Nat
  BY RouterNow
<1>2. UNCHANGED <<now, setup, saved, used, failed, chances>> /\ asking[t] = NotAsking
  BY DEF AskModel
<1>3. CASE UNCHANGED asking /\ MarkCraft(tool)
           /\ (router' = Queued(r, "budget") \/ router' = Queued(r, "provider")
                \/ (r.degraded /\ router' = r))
  <2>1. /\ router' \in Routers /\ router'.day = Today /\ router'.tokens = used
        /\ router'.degraded = TRUE
    <3> HIDE DEF r
    <3>1. CASE router' = Queued(r, "budget")
      BY <1>1, <3>1, QueuedIs
    <3>2. CASE router' = Queued(r, "provider")
      BY <1>1, <3>2, QueuedIs
    <3>3. CASE r.degraded /\ router' = r
      BY <1>1, <3>3 DEF Routers
    <3> QED BY <1>3, <3>1, <3>2, <3>3
  <2>2. Rolled(router') = router'
    BY <1>1, <2>1, RolledIs
  <2> HIDE DEF r
  <2>3. Spaced' /\ entry' \in [Entries -> [kind: {"never", "last", "next"}, at: Nat]]
    BY <1>2, <1>3, SpacedKept
  <2>4. Accounts'
    BY <1>1, <1>2, <1>3, <2>1, <2>2, RouterNow, AccountsKept
  <2>5. Underway' = Underway /\ OfToday' = OfToday /\ Spending'
    BY <1>2, <1>3, CallsStand, SameDay DEF OfToday
  <2>6. Rounds'
    BY <1>2, <2>1, <2>2, <2>5, RoundsKept
  <2>7. RouterTypes'
    BY <1>1, <1>2, <1>3, <2>1, <2>3 DEF RouterTypes
  <2> QED BY <2>3, <2>4, <2>5, <2>6, <2>7 DEF RouterInv
<1>4. ASSUME size <= Remaining(r), ~r.degraded, router' = r, NEW at \in {"claude", "api"},
             asking' = [asking EXCEPT ![t] =
                          [at |-> at, size |-> size, day |-> Today, tool |-> tool]],
             UNCHANGED entry
      PROVE  RouterInv'
  <2> DEFINE c == [at |-> at, size |-> size, day |-> Today, tool |-> tool]
  <2>1. /\ c.at # "idle" /\ c.size = size /\ c.day = Today
        /\ c \in [at: {"idle", "claude", "api"}, size: Sizes \cup {0}, day: Nat, tool: BOOLEAN]
    BY <1>1
  <2>2. asking' = [asking EXCEPT ![t] = c]
    BY <1>4
  <2> HIDE DEF c, r
  <2>3. asking[t].at = "idle"
    BY <1>2 DEF NotAsking
  <2>4. /\ Underway' = Underway \cup {t} /\ OfToday' = OfToday \cup {t} /\ asking'[t] = c
        /\ \A u \in Askers : u # t => asking'[u] = asking[u]
    <3>1. \A u \in Askers : u # t => asking'[u] = asking[u]
      BY <1>1, <2>2 DEF RouterTypes
    <3> QED BY <1>1, <1>2, <2>1, <2>2, <2>3, <3>1, CallStarts
  <2>5. used + size <= Budget
    <3>1. Budget \in Nat /\ size \in Nat /\ size > 0
      BY RouterConstants
    <3> QED BY <1>1, <1>4, <3>1 DEF Remaining
  <2>6. Spending'
    BY <1>2, <2>1, <2>2, <2>3, <2>5, StartKeepsSpending
  <2>7. Accounts'
    <3>1. \A u \in Askers : asking'[u].day <= Today
      BY <1>1, <2>1, <2>4, RouterNow
    <3> QED BY <1>1, <1>2, <1>4, <3>1, AccountsKept
  <2>8. RouterTypes'
    BY <1>1, <1>2, <1>4, <2>1, <2>2 DEF RouterTypes
  <2>9. Spaced'
    BY <1>1, <1>2, <1>4, SpacedKept DEF MarkCraft
  <2>10. Rounds'
    <3>1. Rolled(router') = r /\ ~r.degraded /\ Rolled(router) = r
      BY <1>1, <1>4 DEF r
    <3>2. failed <= Count * chances
      BY <3>1 DEF RouterInv, Rounds
    <3>3. (Count * chances)' = Count * chances
      BY <1>2 DEF Count
    <3> QED BY <1>1, <1>2, <1>4, <3>1, <3>2, <3>3, SameDay DEF Rounds
  <2> QED BY <2>6, <2>7, <2>8, <2>9, <2>10 DEF RouterInv
<1> QED BY <1>3, <1>4 DEF AskModel

(* An answer is counted for the day it comes on.                           *)
LEMMA AnswerKeeps ==
  ASSUME RouterInv, NEW t \in Askers, NEW n \in {0, MaxReply}, Answered(t, n)
  PROVE  RouterInv'
<1> DEFINE r == Rolled(router)
<1>1. RouterTypes /\ Today \in Nat /\ r \in Routers /\ r.day = Today /\ Rolled(r) = r
      /\ r.tokens = used /\ used \in Nat
  BY RouterNow
<1>2. UNCHANGED <<now, entry, setup, saved, failed, chances>> /\ t \in Underway
      /\ used' = used + asking[t].size + n
      /\ asking' = [asking EXCEPT ![t] = NotAsking]
      /\ router' = [r EXCEPT !.tokens = @ + (asking[t].size + n)]
  BY DEF Answered, Underway, Counted
<1>3. asking[t].size \in Nat /\ n \in Nat /\ n <= MaxReply /\ MaxReply \in Nat
  BY <1>2, SizesBelow, RouterConstants
<1> HIDE DEF r
<1>4. used' \in Nat /\ used' >= used /\ used' <= used + asking[t].size + MaxReply
  BY <1>1, <1>2, <1>3
<1>5. router' = [r EXCEPT !.tokens = used']
  <2>1. PICK v \in Nat : v = asking[t].size + n
    BY <1>3
  <2>2. router' = [r EXCEPT !.tokens = @ + v]
    BY <1>2, <2>1
  <2>3. used' = used + v
    BY <1>1, <1>2, <1>3, <2>1
  <2>4. router' = [r EXCEPT !.tokens = r.tokens + v]
    BY <1>1, <2>2 DEF Routers
  <2> QED BY <1>1, <2>3, <2>4
<1>6. /\ router' \in Routers /\ router'.day = Today /\ router'.tokens = used'
      /\ router'.degraded = r.degraded
  BY <1>1, <1>4, <1>5 DEF Routers
<1>7. Rolled(router') = router'
  BY <1>1, <1>6, RolledIs
<1>8. Underway' = Underway \ {t} /\ OfToday' = OfToday \ {t}
  BY <1>1, <1>2, CallEnds
<1>9. Spending'
  BY <1>2, <1>4, EndKeepsSpending
<1>10. NotAsking.day = 0 /\ NotAsking \in [at: {"idle", "claude", "api"}, size: Sizes \cup {0},
                                          day: Nat, tool: BOOLEAN]
  BY DEF NotAsking
<1>11. Accounts'
  <2>1. \A u \in Askers : asking'[u].day <= Today
    BY <1>1, <1>2, <1>10, RouterNow DEF RouterTypes
  <2>2. router'.day <= Today /\ Rolled(router').tokens = used' /\ router' \in Routers
    BY <1>1, <1>6, <1>7
  <2> QED BY <1>2, <1>4, <2>1, <2>2, AccountsKept
<1>12. Rounds'
  BY <1>2, <1>6, <1>7, <1>8, RoundsKept DEF r
<1>13. Spaced'
  BY <1>2, SpacedKept DEF MarkCraft
<1>14. RouterTypes'
  BY <1>1, <1>2, <1>4, <1>6, <1>10 DEF RouterTypes
<1> QED BY <1>9, <1>11, <1>12, <1>13, <1>14 DEF RouterInv

(* A failure falls back to the API, or is queued and degrades.             *)
LEMMA FailKeeps ==
  ASSUME RouterInv, NEW t \in Askers, Failed(t)
  PROVE  RouterInv'
<1>1. RouterTypes /\ Today \in Nat /\ router \in Routers /\ used \in Nat /\ failed \in Nat
      /\ t \in Underway
  BY RouterNow DEF Failed, Underway
<1>2. UNCHANGED <<now, setup, saved, used, chances>>
  BY DEF Failed
<1>3. CASE asking' = [asking EXCEPT ![t].at = "api"] /\ UNCHANGED <<entry, router, failed>>
  <2>1. /\ asking' \in [Askers -> [at: {"idle", "claude", "api"}, size: Sizes \cup {0},
                                   day: Nat, tool: BOOLEAN]]
        /\ \A u \in Askers : /\ asking'[u].day = asking[u].day
                             /\ asking'[u].size = asking[u].size
                             /\ asking'[u].at = "idle" <=> asking[u].at = "idle"
    BY <1>1, <1>3 DEF RouterTypes, Underway
  <2>2. Underway' = Underway
    BY <2>1 DEF Underway
  <2>3. OfToday' = OfToday
    BY <1>2, <2>1, <2>2, SameDay DEF OfToday, Underway
  <2>4. Spending'
    BY <1>2, <2>1, <2>2 DEF RouterInv, Spending, Room, Underway
  <2>5. Accounts'
    BY <1>1, <1>2, <1>3, <2>1, SameDay DEF RouterInv, Accounts
  <2>6. Rounds'
    BY <1>2, <1>3, <2>3, RoundsKept
  <2>7. Spaced'
    BY <1>2, <1>3, SpacedKept DEF MarkCraft
  <2>8. RouterTypes'
    BY <1>1, <1>2, <1>3, <2>1 DEF RouterTypes
  <2> QED BY <2>4, <2>5, <2>6, <2>7, <2>8 DEF RouterInv
<1>4. CASE /\ asking' = [asking EXCEPT ![t] = NotAsking]
           /\ router' = Queued(router, "provider") /\ MarkCraft(asking[t].tool)
           /\ failed' = failed + (IF asking[t].day = Today THEN 1 ELSE 0)
  <2>1. /\ router' \in Routers /\ router'.day = router.day /\ router'.tokens = router.tokens
        /\ router'.degraded = TRUE
    BY <1>1, <1>4, QueuedIs
  <2>2. Underway' = Underway \ {t} /\ OfToday' = OfToday \ {t}
    BY <1>1, <1>2, <1>4, CallEnds
  <2>3. Spending'
    <3>1. asking[t].size \in Nat /\ MaxReply \in Nat
      BY <1>1, SizesBelow, RouterConstants
    <3>2. used' \in Nat /\ used' <= used + asking[t].size + MaxReply
      BY <1>1, <1>2, <3>1
    <3> QED BY <1>1, <1>2, <1>4, <3>2, EndKeepsSpending
  <2>4. Spaced' /\ entry' \in [Entries -> [kind: {"never", "last", "next"}, at: Nat]]
    BY <1>2, <1>4, SpacedKept
  <2>5. NotAsking.day = 0 /\ NotAsking \in [at: {"idle", "claude", "api"}, size: Sizes \cup {0},
                                            day: Nat, tool: BOOLEAN]
    BY DEF NotAsking
  <2>6. /\ router.day = Today => Rolled(router') = router' /\ Rolled(router) = router
        /\ router.day # Today => /\ Rolled(router').tokens = 0 /\ Rolled(router).tokens = 0
                                 /\ Rolled(router).degraded = FALSE
    BY <1>1, <2>1, RolledIs
  <2>7. Accounts'
    <3>1. \A u \in Askers : asking'[u].day <= Today
      BY <1>1, <1>4, <2>5, RouterNow DEF RouterTypes
    <3>2. Rolled(router').tokens = used'
      BY <1>2, <2>1, <2>6, RouterNow
    <3> QED BY <1>1, <1>2, <2>1, <3>1, <3>2, RouterNow, AccountsKept
  <2>8. Rounds'
    <3>1. CASE asking[t].day = Today
      <4>1. t \in OfToday /\ router.day = Today
        BY <1>1, <3>1 DEF OfToday, RouterInv, Rounds
      <4> QED BY <1>2, <1>4, <2>1, <2>2, <2>6, <3>1, <4>1, RoundsFail
    <3>2. CASE asking[t].day # Today
      <4>1. failed' = failed
        BY <1>1, <1>4, <3>2
      <4>2. Rolled(router).degraded => Rolled(router').degraded
        BY <2>1, <2>6
      <4> QED BY <1>2, <2>1, <2>2, <4>1, <4>2, RoundsKept
    <3> QED BY <3>1, <3>2
  <2>9. failed' \in Nat
    BY <1>1, <1>4
  <2>10. RouterTypes'
    BY <1>1, <1>2, <1>4, <2>1, <2>4, <2>5, <2>9 DEF RouterTypes
  <2> QED BY <2>3, <2>4, <2>7, <2>8, <2>10 DEF RouterInv
<1> QED BY <1>3, <1>4 DEF Failed

(* The crafter's retry.                                                    *)
LEMMA TryAgainKeeps ==
  ASSUME RouterInv, TryAgain
  PROVE  RouterInv'
<1> DEFINE r == Rolled(router)
<1>1. RouterTypes /\ Today \in Nat /\ r \in Routers /\ r.day = Today /\ Rolled(r) = r
      /\ r.tokens = used /\ used \in Nat /\ chances \in Nat
  BY RouterNow
<1>2. /\ UNCHANGED <<now, setup, saved, asking, used, failed>> /\ r.degraded
      /\ Claim("craft_provider_retry", CraftEvery)
  BY DEF TryAgain
<1>3. \/ router' = [r EXCEPT !.degraded = FALSE, !.why = ""] /\ chances' = chances + 1
      \/ router' = r /\ chances' = chances
  BY DEF TryAgain
<1> HIDE DEF r
<1>4. /\ router' \in Routers /\ router'.day = Today /\ router'.tokens = used
      /\ chances' = chances + 1 => router'.degraded = FALSE
      /\ chances' = chances => router' = r
  <2>1. chances + 1 # chances
    BY <1>1
  <2>2. CASE router' = [r EXCEPT !.degraded = FALSE, !.why = ""] /\ chances' = chances + 1
    <3>1. router' \in Routers /\ router'.day = r.day /\ router'.tokens = r.tokens
          /\ router'.degraded = FALSE
      BY <1>1, <2>2 DEF Routers
    <3> QED BY <1>1, <2>1, <2>2, <3>1
  <2>3. CASE router' = r /\ chances' = chances
    BY <1>1, <2>1, <2>3
  <2> QED BY <1>3, <2>2, <2>3
<1>5. Rolled(router') = router'
  BY <1>1, <1>4, RolledIs
<1>6. Underway' = Underway /\ OfToday' = OfToday /\ Spending'
  BY <1>2, CallsStand, SameDay DEF OfToday
<1>7. Spaced' /\ entry' \in [Entries -> [kind: {"never", "last", "next"}, at: Nat]]
  BY <1>2, <1>3, SpacedAgain
<1>8. Accounts'
  BY <1>1, <1>2, <1>4, <1>5, RouterNow, AccountsKept
<1>9. Rounds'
  <2>1. CASE chances' = chances + 1
    BY <1>2, <1>4, <1>5, <1>6, <2>1, RoundsAgain DEF r
  <2>2. CASE chances' = chances
    BY <1>1, <1>2, <1>4, <1>6, <2>2, RoundsKept DEF r
  <2> QED BY <1>3, <2>1, <2>2
<1>10. RouterTypes'
  BY <1>1, <1>2, <1>3, <1>4, <1>7 DEF RouterTypes
<1> QED BY <1>6, <1>7, <1>8, <1>9, <1>10 DEF RouterInv

(* The snapshot at the end of a tick.                                      *)
LEMMA SaveKeeps ==
  ASSUME RouterInv, SaveRouter
  PROVE  RouterInv'
<1> DEFINE r == Rolled(router)
<1>1. RouterTypes /\ Today \in Nat /\ r \in Routers /\ r.day = Today /\ Rolled(r) = r
      /\ r.tokens = used /\ used \in Nat
  BY RouterNow
<1>2. router' = r /\ saved' = r /\ UNCHANGED <<now, entry, setup, asking, used, failed, chances>>
  BY DEF SaveRouter
<1>3. Underway' = Underway /\ OfToday' = OfToday /\ Spending'
  BY <1>2, CallsStand, SameDay DEF OfToday
<1>4. Rounds'
  BY <1>1, <1>2, <1>3, RoundsKept
<1>5. Spaced'
  BY <1>2, SpacedKept DEF MarkCraft
<1> HIDE DEF r
<1>6. Accounts'
  BY <1>1, <1>2, RouterNow, SameDay DEF Accounts
<1>7. RouterTypes'
  BY <1>1, <1>2 DEF RouterTypes
<1> QED BY <1>3, <1>4, <1>5, <1>6, <1>7 DEF RouterInv

(* A restart: with nothing lost it goes on, else the account of the day    *)
(* starts again with what was saved.                                       *)
LEMMA RestoreKeeps ==
  ASSUME RouterInv, RestoreRouter
  PROVE  RouterInv'
<1> DEFINE r == Rolled(saved)
<1>1. RouterTypes /\ Today \in Nat /\ saved \in Routers /\ used \in Nat
  BY RouterNow
<1>2. r \in Routers /\ r.day = Today /\ Rolled(r) = r
  BY <1>1, RolledIs
<1>3. r.tokens <= used /\ r.tokens \in Nat
  BY <1>2 DEF RouterInv, Accounts, Routers
<1>4. /\ router' = r /\ UNCHANGED <<now, entry, setup, saved>>
      /\ asking' = [t \in Askers |-> NotAsking]
      /\ used' = (IF Forgets THEN r.tokens ELSE used)
      /\ failed' = (IF Forgets THEN 0 ELSE failed)
      /\ chances' = (IF Forgets THEN 0 ELSE chances)
  BY DEF RestoreRouter, Restart
<1>5. NotAsking.at = "idle" /\ NotAsking.day = 0
      /\ NotAsking \in [at: {"idle", "claude", "api"}, size: Sizes \cup {0},
                        day: Nat, tool: BOOLEAN]
  BY DEF NotAsking
<1>6. Underway' = {} /\ OfToday' = {}
  BY <1>4, <1>5 DEF Underway, OfToday
<1>7. ~Forgets => Rolled(router) = r
  BY DEF Forgets
<1>8. used' = r.tokens /\ used' <= used /\ used' \in Nat
  BY <1>1, <1>3, <1>4, <1>7, RouterNow
<1> HIDE DEF r
<1>9. Spending'
  <2>1. used <= Bound /\ Bound \in Nat
    BY RouterConstants DEF RouterInv, Spending
  <2>2. used' <= Bound
    BY <1>1, <1>8, <2>1
  <2>3. Bound' = Bound
    BY DEF Bound, Count, Most
  <2> QED BY <1>6, <2>2, <2>3 DEF Spending
<1>10. Accounts'
  <2>1. \A u \in Askers : asking'[u].day = 0
    BY <1>4, <1>5
  <2>2. Rolled(saved)' = r /\ Rolled(router)' = r /\ Today' = Today
    BY <1>2, <1>4, SameDay DEF r
  <2>3. saved.day <= Today
    BY DEF RouterInv, Accounts
  <2> QED BY <1>1, <1>2, <1>3, <1>4, <1>8, <2>1, <2>2, <2>3 DEF Accounts
<1>11. Rounds' /\ Spaced'
  <2>1. CASE Forgets
    <3>1. failed' = 0 /\ chances' = 0 /\ UNCHANGED <<now, entry>>
      BY <1>4, <2>1
    <3>2. Cardinality(OfToday') = 0
      BY <1>6, FS_EmptySet
    <3>3. (Count * chances)' = 0 /\ (Count * (1 + chances))' = Count /\ Count \in Nat
      <4>1. Count' = Count /\ Count \in Nat
        BY RouterConstants DEF Count
      <4> HIDE DEF Count
      <4> QED BY <3>1, <4>1
    <3>4. Rounds'
      BY <1>6, <3>1, <3>2, <3>3 DEF Rounds
    <3>5. Spaced'
      BY <3>1, SameDay DEF Spaced, Craft, RouterInv
    <3> QED BY <3>4, <3>5
  <2>2. CASE ~Forgets
    <3>1. UNCHANGED <<failed, chances>>
      BY <1>4, <2>2
    <3>2. Rounds'
      BY <1>2, <1>4, <1>6, <1>7, <2>2, <3>1, RoundsKept
    <3>3. Spaced'
      BY <1>4, <3>1, SpacedKept DEF MarkCraft
    <3> QED BY <3>2, <3>3
  <2> QED BY <2>1, <2>2
<1>12. RouterTypes'
  <2>1. failed' \in Nat /\ chances' \in Nat
    BY <1>4, RouterNow
  <2> QED BY <1>1, <1>2, <1>4, <1>5, <1>8, <2>1 DEF RouterTypes
<1> QED BY <1>9, <1>10, <1>11, <1>12 DEF RouterInv

(* The day of a later time is no earlier.                                  *)
LEMMA DaysPass ==
  ASSUME NEW a \in Nat
  PROVE  a \div DayLength <= (a + 1) \div DayLength
<1> DEFINE d == a \div DayLength
           e == (a + 1) \div DayLength
<1>1. d \in Nat /\ e \in Nat /\ d * DayLength <= a /\ a + 1 < e * DayLength + DayLength
  BY DayOf
<1> HIDE DEF d, e
<1>2. DayLength \in Nat
  BY RouterConstants
<1>3. CASE e + 1 <= d
  <2>1. (e + 1) * DayLength <= d * DayLength /\ (e + 1) * DayLength = e * DayLength + DayLength
        /\ e * DayLength \in Nat /\ d * DayLength \in Nat
    BY <1>1, <1>2, <1>3, OneMoreTimes
  <2> QED BY <1>1, <1>2, <2>1
<1> QED BY <1>1, <1>3 DEF d, e

(* The clock goes on, perhaps into a new day.                              *)
LEMMA TimeKeeps ==
  ASSUME RouterInv, TimeOfRouter
  PROVE  RouterInv'
<1>1. RouterTypes /\ Today \in Nat /\ now \in Nat /\ now' = now + 1 /\ Today <= Today'
      /\ Today' = (now + 1) \div DayLength /\ Today' \in Nat
      /\ UNCHANGED <<entry, setup, router, saved, asking>>
  BY RouterNow, DaysPass, DayOf DEF TimeOfRouter, Today, RouterTypes
<1>2. Underway' = Underway
  BY <1>1 DEF Underway
<1>3. CASE Today' = Today
  <2>1. UNCHANGED <<used, failed, chances>>
    BY <1>1, <1>3 DEF TimeOfRouter
  <2>2. Rolled(router)' = Rolled(router) /\ Rolled(saved)' = Rolled(saved)
    BY <1>1, <1>3 DEF Rolled
  <2>3. OfToday' = OfToday
    BY <1>1, <1>2, <1>3 DEF OfToday
  <2>4. Accounts'
    BY <1>1, <1>3, <2>1, <2>2 DEF RouterInv, Accounts
  <2>5. Spending'
    BY <1>1, <2>1, CallsStand
  <2>6. Rounds'
    BY <1>1, <1>3, <2>1, <2>2, <2>3 DEF RouterInv, Rounds, Count
  <2>7. Spaced'
    <3>1. Craft' = Craft /\ Craft.at \in Nat
      BY <1>1, CraftIsEntry DEF Craft
    <3> QED BY <1>1, <1>3, <2>1, <3>1 DEF RouterInv, Spaced
  <2>8. RouterTypes'
    BY <1>1, <2>1 DEF RouterTypes
  <2> QED BY <2>4, <2>5, <2>6, <2>7, <2>8 DEF RouterInv
<1>4. CASE Today' # Today
  <2>1. used' = 0 /\ failed' = 0 /\ chances' = 0
    BY <1>1, <1>4 DEF TimeOfRouter
  <2>2. /\ router.day # Today' /\ saved.day # Today'
        /\ \A t \in Askers : asking[t].day # Today'
    <3>1. Today < Today'
      BY <1>1, <1>4
    <3>2. /\ router.day <= Today /\ saved.day <= Today
          /\ \A t \in Askers : asking[t].day <= Today
      BY DEF RouterInv, Accounts
    <3>3. /\ router.day \in Nat /\ saved.day \in Nat
          /\ \A t \in Askers : asking[t].day \in Nat
      BY <1>1 DEF RouterTypes, Routers
    <3>4. \A d \in Nat : d <= Today => d # Today'
      BY <1>1, <3>1
    <3> QED BY <3>2, <3>3, <3>4
  <2>3. /\ Rolled(router)'.tokens = 0 /\ Rolled(router)'.degraded = FALSE
        /\ Rolled(saved)'.tokens = 0
    BY <1>1, <2>2 DEF Rolled
  <2>4. OfToday' = {}
    BY <1>1, <1>2, <2>2 DEF OfToday, Underway
  <2>5. Accounts'
    <3>1. /\ router.day \in Nat /\ saved.day \in Nat /\ \A t \in Askers : asking[t].day \in Nat
      BY <1>1 DEF RouterTypes, Routers
    <3>2. /\ router.day <= Today' /\ saved.day <= Today'
          /\ \A t \in Askers : asking[t].day <= Today'
      BY <1>1, <3>1 DEF RouterInv, Accounts
    <3> QED BY <1>1, <2>1, <2>3, <3>2 DEF Accounts
  <2>6. Spending'
    <3>1. used \in Nat /\ Bound \in Nat /\ Bound' = Bound /\ MaxReply \in Nat /\ Most \in Nat
      BY RouterNow, RouterConstants DEF Bound, Count, Most
    <3>2. ASSUME NEW t \in Underway, Room(t) PROVE Room(t)'
      <4> DEFINE k == Cardinality(Underway \ {t}) * (Most + MaxReply)
      <4>1. Cardinality(Underway \ {t}) \in Nat
        BY <1>1, CardBounds, FS_Subset, FS_CardinalityType
      <4>2. k \in Nat /\ asking[t].size \in Nat
        BY <3>1, <4>1, <3>2, OneMoreTimes, SizesBelow
      <4>3. used + asking[t].size + MaxReply + k <= Bound
        BY <3>2 DEF Room
      <4> HIDE DEF k, Bound
      <4>4. 0 + asking[t].size + MaxReply + k <= Bound
        BY <3>1, <4>2, <4>3
      <4>5. k' = k
        BY <1>2 DEF k, Most
      <4> QED BY <1>1, <1>2, <2>1, <3>1, <4>4, <4>5 DEF Room, k
    <3>3. Underway # {} => \E t \in Underway : Room(t)
      BY DEF RouterInv, Spending
    <3>4. \A t \in Underway : asking[t].size \in Sizes
      BY DEF RouterInv, Spending
    <3> HIDE DEF Bound
    <3> QED BY <1>1, <1>2, <2>1, <3>1, <3>2, <3>3, <3>4 DEF Spending
  <2>7. Rounds'
    <3>1. Count' = Count /\ Count \in Nat
      BY RouterConstants DEF Count
    <3> HIDE DEF Count
    <3>2. (Count * chances)' = 0
      BY <2>1, <3>1
    <3> QED BY <2>1, <2>3, <2>4, <3>2 DEF Rounds
  <2>8. Spaced'
    <3>1. Craft' = Craft /\ Craft.at \in Nat
      BY <1>1, CraftIsEntry DEF Craft
    <3> QED BY <1>1, <2>1, <3>1 DEF RouterInv, Spaced
  <2>9. RouterTypes'
    BY <1>1, <2>1 DEF RouterTypes
  <2> QED BY <2>5, <2>6, <2>7, <2>8, <2>9 DEF RouterInv
<1> QED BY <1>3, <1>4

(* Nothing used and nothing asked.                                         *)
LEMMA RouterStarts == RouterInit => RouterInv
<1> SUFFICES ASSUME RouterInit PROVE RouterInv
  OBVIOUS
<1>1. /\ now = 0 /\ entry = [k \in Entries |-> Blank] /\ used = 0 /\ failed = 0 /\ chances = 0
      /\ setup \in {"claude", "claude+api", "api"} /\ saved = router
      /\ router = [tokens |-> 0, day |-> 0, degraded |-> FALSE, why |-> ""]
      /\ asking = [t \in Askers |-> NotAsking]
  BY DEF RouterInit, CadenceInit
<1>2. Blank \in [kind: {"never", "last", "next"}, at: Nat] /\ Blank.kind = "never"
  BY DEF Blank
<1>3. NotAsking.at = "idle" /\ NotAsking.day = 0
      /\ NotAsking \in [at: {"idle", "claude", "api"}, size: Sizes \cup {0},
                        day: Nat, tool: BOOLEAN]
  BY DEF NotAsking
<1>4. router \in Routers /\ router.day = 0 /\ router.tokens = 0 /\ router.degraded = FALSE
  BY <1>1 DEF Routers
<1>5. RouterTypes
  BY <1>1, <1>2, <1>3, <1>4 DEF RouterTypes
<1>6. Today = 0
  <2>1. Today \in Nat /\ Today * DayLength <= 0 /\ DayLength \in Nat /\ DayLength > 0
    BY <1>1, TodayIs, RouterConstants
  <2>2. Today > 0 => Today * DayLength >= 1 * DayLength
    BY <2>1, OneMoreTimes
  <2> QED BY <2>1, <2>2
<1>7. Rolled(router) = router
  BY <1>4, <1>6 DEF Rolled
<1>8. Underway = {} /\ OfToday = {}
  BY <1>1, <1>3 DEF Underway, OfToday
<1>9. used = 0 /\ failed = 0 /\ chances = 0
  BY <1>1
<1>10. saved = router
  BY <1>1
<1>11. \A t \in Askers : asking[t].day = 0
  BY <1>1, <1>3
<1>12. 0 <= 0 /\ ~(0 > 0)
  OBVIOUS
<1>13. Accounts
  <2>1. router.day <= Today /\ saved.day <= Today
    BY <1>10, <1>4, <1>6, <1>12
  <2>2. \A t \in Askers : asking[t].day <= Today
    BY <1>11, <1>6, <1>12
  <2>3. Rolled(router).tokens = used /\ Rolled(saved) = Rolled(router)
    BY <1>9, <1>10, <1>4, <1>7
  <2>4. Rolled(saved).tokens <= used
    BY <1>9, <1>10, <1>4, <1>7, <1>12
  <2> QED BY <2>1, <2>2, <2>3, <2>4 DEF Accounts
<1>14. Spending
  <2>1. Bound \in Nat
    BY RouterConstants
  <2> HIDE DEF Bound
  <2>2. used <= Bound
    BY <1>9, <2>1
  <2> QED BY <1>8, <2>2 DEF Spending
<1>15. Rounds
  <2>1. Count \in Nat
    BY RouterConstants
  <2> HIDE DEF Count
  <2>2. Count * chances = 0
    BY <1>9, <2>1
  <2>3. failed <= Count * chances
    BY <1>9, <2>2, <1>12
  <2> QED BY <1>4, <1>7, <1>8, <2>3 DEF Rounds
<1>16. Spaced
  <2>1. "craft_provider_retry" \in Entries
    BY RouterAssumption
  <2>2. Craft = Blank
    BY <1>1, <2>1 DEF Craft
  <2>3. Craft.kind = "never"
    BY <1>2, <2>2
  <2>4. ~(chances > 0)
    BY <1>9, <1>12
  <2> QED BY <2>3, <2>4 DEF Spaced
<1> QED BY <1>5, <1>13, <1>14, <1>15, <1>16 DEF RouterInv

(* Every step keeps the invariant.                                         *)
LEMMA RouterKeeps == RouterInv /\ [RouterNext]_routerVars => RouterInv'
<1> SUFFICES ASSUME RouterInv, [RouterNext]_routerVars PROVE RouterInv'
  OBVIOUS
<1>1. CASE UNCHANGED routerVars
  <2>1. UNCHANGED <<now, entry, setup, router, saved, asking, used, failed, chances>>
    BY <1>1 DEF routerVars
  <2>2. Underway' = Underway /\ OfToday' = OfToday /\ Spending'
    BY <2>1, CallsStand, SameDay DEF OfToday
  <2>3. Rounds' /\ Spaced'
    BY <2>1, <2>2, RoundsKept, SpacedKept DEF MarkCraft
  <2>4. Accounts' /\ RouterTypes'
    BY <2>1, SameDay DEF RouterInv, Accounts, RouterTypes
  <2> QED BY <2>2, <2>3, <2>4 DEF RouterInv
<1> QED BY <1>1, AskModelKeeps, AnswerKeeps, FailKeeps, TryAgainKeeps, SaveKeeps, RestoreKeeps,
           TimeKeeps DEF RouterNext

(* By induction: of the calls under way one was let go last, and it knew   *)
(* what was used then, so there is room for it and for all others.         *)
THEOREM RouterInvariant == RouterSpec => []RouterInv
BY RouterStarts, RouterKeeps, PTL DEF RouterSpec

(* ModelRouter: however calls overlap, a day uses no more than the budget  *)
(* and what was under way when it ran out; and the calls that fail are at  *)
(* most one for each thread, and as many again for each of the chances     *)
(* that the crafter gave the provider an hour apart.                       *)
THEOREM ThirstIsBounded == RouterSpec => []RouterRestrained
<1>1. RouterInv => RouterRestrained
  <2> SUFFICES ASSUME RouterInv PROVE RouterRestrained
    OBVIOUS
  <2>1. BudgetHolds
    BY DEF RouterInv, Spending, BudgetHolds, Bound, Count, Most
  <2>2. failed <= Count * (1 + chances)
    <3>1. Count \in Nat /\ chances \in Nat /\ failed \in Nat /\ Cardinality(OfToday) \in Nat
      BY RouterConstants, RouterNow, CardBounds
    <3>2. Count * chances \in Nat /\ Count * (1 + chances) = Count * chances + Count
      BY <3>1, OneMoreTimes
    <3> HIDE DEF Count
    <3> QED BY <3>1, <3>2 DEF RouterInv, Rounds
  <2>3. chances <= 1 + (DayLength - 1) \div CraftEvery
    <3> DEFINE d == DayLength - 1
               q == d \div CraftEvery
    <3>1. chances \in Nat /\ CraftEvery \in Nat /\ CraftEvery > 0 /\ DayLength \in Nat
          /\ d \in Nat /\ now \in Nat /\ Today * DayLength \in Nat
      BY RouterNow, RouterConstants, TodayIs DEF RouterTypes
    <3>2. q \in Nat /\ d < q * CraftEvery + CraftEvery
      BY <3>1
    <3>3. chances > 0 => (chances - 1) * CraftEvery <= d
      <4> DEFINE a == Today * DayLength
                 p == (chances - 1) * CraftEvery
      <4>1. p \in Int
        BY <3>1
      <4>2. a \in Nat /\ now < a + DayLength
        BY <3>1, TodayIs
      <4>3. chances > 0 => a + p <= Craft.at /\ Craft.at <= now
        BY DEF RouterInv, Spaced
      <4>4. Craft.at \in Nat
        BY RouterNow, CraftIsEntry
      <4> HIDE DEF a, p
      <4>5. chances > 0 => p <= d
        BY <3>1, <4>1, <4>2, <4>3, <4>4
      <4> QED BY <4>5 DEF p
    <3> HIDE DEF d, q
    <3>4. CASE q + 2 <= chances
      <4>1. q + 1 <= chances - 1 /\ chances - 1 \in Nat /\ q + 1 \in Nat
        BY <3>1, <3>2, <3>4
      <4>2. (q + 1) * CraftEvery <= (chances - 1) * CraftEvery
            /\ (q + 1) * CraftEvery = q * CraftEvery + CraftEvery /\ q * CraftEvery \in Nat
            /\ (chances - 1) * CraftEvery \in Nat
        BY <3>1, <3>2, <4>1, OneMoreTimes
      <4> QED BY <3>1, <3>2, <3>3, <3>4, <4>1, <4>2
    <3> QED BY <3>1, <3>2, <3>4 DEF d, q
  <2> QED BY <2>1, <2>2, <2>3 DEF RouterRestrained, ProviderLeftAlone, Count
<1> QED BY <1>1, RouterInvariant, PTL
=============================================================================
