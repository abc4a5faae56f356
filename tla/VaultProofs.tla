---------------------------- MODULE VaultProofs -----------------------------
(***************************************************************************)
(* With a careful operator no stored credential is ever lost, however      *)
(* often rotations and migrations are interrupted.  The heart of the       *)
(* inductive invariant is that secrets.enc never goes stale, and that a    *)
(* staged copy which did (StaleIsPassive) opens only with the key of a     *)
(* backend that nobody uses.                                               *)
(***************************************************************************)
EXTENDS Vault, TLAPS

On(p) == proc[p].at # "off"

(* Keys are numbered as they are generated; a file has a key.              *)
KeysNumbered ==
  /\ \A b \in Backends : keyOf[b] <= keys
  /\ \A blob \in {secrets, staged} : blob # NoFile => blob.key \in 1..keys
KeysDiffer == keyOf["file"] = keyOf["keyring"] => keyOf["file"] = NoKey

(* There is one wallet, and secrets.enc holds the newest content.          *)
SecretsNewest ==
  /\ wallets = 0 => secrets = NoFile /\ staged = NoFile /\ stored = {}
  /\ wallets > 0 => wallets = 1 /\ secrets # NoFile /\ secrets.holds = Newest

(* Some backend's key opens the newest content.                            *)
SomeKeyOpens ==
  wallets > 0 => \E b \in Backends :
    \/ Opens(keyOf[b], secrets)
    \/ Opens(keyOf[b], staged) /\ staged.holds = Newest

(* One key, one content.                                                   *)
SameKeySame == secrets # NoFile /\ staged # NoFile /\ secrets.key = staged.key => secrets = staged

(* Processes use the configured backend, or the keyring after a migration, *)
(* which has locked the file's key out.                                    *)
BackendUsed(p) ==
  On(p) =>
    /\ proc[p].backend \in {config, "keyring"}
    /\ config = "file" /\ proc[p].backend = "keyring" =>
         wallets > 0 /\ ~Opens(keyOf["file"], secrets) /\ ~Opens(keyOf["file"], staged)

(* A stale staged copy that could be promoted: the configured backend opens*)
(* the secrets, so nobody switches to the one that would promote it.       *)
StaleIsPassive ==
  (\E b \in Backends : Opens(keyOf[b], staged)) /\ staged.holds # Newest =>
    Opens(keyOf[config], secrets)

(* What the holder of the lock relies on at each step of its operation.    *)
Rotates(p) == proc[p].newKey \in 1..keys /\ staged = Encrypt(proc[p].newKey, Newest)
Held(p) ==
  /\ proc[p].at \notin {"off", "ready", "open"} => wallets > 0
  /\ proc[p].at \in {"promoted", "opened", "staged"} => proc[p].read = Newest
  /\ proc[p].at \in {"staged", "replaced", "written", "cleaned"} => proc[p].does \in {"rotate", "migrate"}
  /\ proc[p].at = "promoted" => secrets = staged /\ Opens(Key(p), staged)
  /\ proc[p].at = "opened" => Opens(Key(p), secrets) /\ ~Opens(Key(p), staged)
  /\ proc[p].at = "staged" =>
       /\ Rotates(p) /\ Opens(Key(p), secrets)
       /\ secrets.key # proc[p].newKey
       /\ \A b \in Backends : keyOf[b] # proc[p].newKey
  /\ proc[p].at \in {"replaced", "written"} => Rotates(p) /\ keyOf[Target(p)] = proc[p].newKey
  /\ proc[p].at = "written" => secrets = staged
  /\ proc[p].at = "cleaned" =>
       /\ proc[p].newKey \in 1..keys
       /\ secrets = Encrypt(proc[p].newKey, Newest) /\ staged = NoFile
       /\ proc[p].backend = Target(p) /\ Key(p) = proc[p].newKey

FilesOK ==
  KeysNumbered /\ KeysDiffer /\ SecretsNewest /\ SomeKeyOpens /\ SameKeySame /\ StaleIsPassive

IInv ==
  /\ TypeOK
  /\ FilesOK
  /\ \A p \in Procs : BackendUsed(p) /\ Held(p)

-----------------------------------------------------------------------------
(* Types and the lock.                                                     *)

LEMMA InitTypes == Init => TypeOK
BY VaultAssumption
DEF Init, TypeOK, Blob, NoFile, Nothing, Content, Backends, NoKey, Process, Steps, Ops

(* Only the holder of the lock is in the middle of an operation, so the    *)
(* others are not.                                                         *)
LEMMA OthersIdle ==
  ASSUME TypeOK, NEW p \in Procs, proc[p].at \notin {"off", "ready"},
         NEW q \in Procs, q # p
  PROVE  proc[q].at \in {"off", "ready"}
BY DEF TypeOK

(* A step of one process replaces its record.                              *)
LEMMA Moves ==
  ASSUME proc \in [Procs -> Process], NEW p \in Procs, NEW r \in Process,
         proc' = [proc EXCEPT ![p] = r]
  PROVE  /\ proc' \in [Procs -> Process]
         /\ proc'[p] = r
         /\ \A q \in Procs : q # p => proc'[q] = proc[q]
OBVIOUS

(* The process in the middle of an operation goes on, or ends it and gives *)
(* the lock back.                                                          *)
LEMMA ProcTypes ==
  ASSUME TypeOK, NEW p \in Procs, proc[p].at \notin {"off", "ready"},
         NEW r \in Process, proc' = [proc EXCEPT ![p] = r],
         \/ lock' = lock
         \/ lock' = Nobody /\ r.at \in {"off", "ready"}
  PROVE  /\ proc' \in [Procs -> Process]
         /\ lock' \in Procs \cup {Nobody}
         /\ \A q \in Procs : proc'[q].at \notin {"off", "ready"} => lock' = q
<1>1. /\ proc' \in [Procs -> Process]
      /\ proc'[p] = r
      /\ \A q \in Procs : q # p => proc'[q] = proc[q]
  BY Moves DEF TypeOK
<1>2. \A q \in Procs : q # p => proc'[q].at \in {"off", "ready"}
  BY <1>1, OthersIdle
<1>3. lock = p /\ lock \in Procs \cup {Nobody}
  BY DEF TypeOK
<1> QED
  BY <1>1, <1>2, <1>3

LEMMA FinishTypes ==
  ASSUME TypeOK, NEW p \in Procs, proc[p].at \notin {"off", "ready"},
         NEW at \in {"off", "ready"}, Finish(p, at)
  PROVE  /\ proc' \in [Procs -> Process]
         /\ lock' \in Procs \cup {Nobody}
         /\ \A q \in Procs : proc'[q].at \notin {"off", "ready"} => lock' = q
<1> DEFINE r == [proc[p] EXCEPT !.at = at, !.read = Nothing, !.newKey = NoKey]
<1>1. r \in Process /\ r.at = at
  <2>1. Nothing \in Content /\ NoKey \in Nat /\ at \in Steps
    BY DEF Nothing, Content, NoKey, Steps
  <2>2. proc[p] \in Process
    BY DEF TypeOK
  <2> QED
    BY <2>1, <2>2 DEF Process
<1>2. proc' = [proc EXCEPT ![p] = r] /\ lock' = Nobody
  BY DEF Finish
<1> HIDE DEF r
<1> QED
  BY <1>1, <1>2, ProcTypes

LEMMA GotoTypes ==
  ASSUME TypeOK, NEW p \in Procs, proc[p].at \notin {"off", "ready"},
         NEW at \in Steps, Goto(p, at)
  PROVE  /\ proc' \in [Procs -> Process]
         /\ lock' \in Procs \cup {Nobody}
         /\ \A q \in Procs : proc'[q].at \notin {"off", "ready"} => lock' = q
<1> DEFINE r == [proc[p] EXCEPT !.at = at]
<1>1. r \in Process
  BY DEF TypeOK, Process
<1>2. proc' = [proc EXCEPT ![p] = r] /\ lock' = lock
  BY DEF Goto
<1> HIDE DEF r
<1> QED
  BY <1>1, <1>2, ProcTypes

LEMMA NextTypes == TypeOK /\ [Next]_vars => TypeOK'
<1> SUFFICES ASSUME TypeOK, [Next]_vars PROVE TypeOK'
  OBVIOUS
<1> USE VaultAssumption
<1>1. ASSUME NEW p \in Procs, Boot(p) PROVE TypeOK'
  <2> DEFINE r == [proc[p] EXCEPT !.at = "open", !.does = "load", !.backend = config]
  <2>1. r \in Process
    BY <1>1 DEF TypeOK, Process, Steps, Ops
  <2>2. proc' = [proc EXCEPT ![p] = r]
    BY <1>1 DEF Boot
  <2> HIDE DEF r
  <2> QED
    BY <1>1, <2>1, <2>2, Moves DEF Boot, TypeOK, files
<1>2. ASSUME NEW p \in Procs, Begin(p) PROVE TypeOK'
  <2>1. PICK op \in Ops : proc' = [proc EXCEPT ![p] = [@ EXCEPT !.at = "open", !.does = op]]
    BY <1>2 DEF Begin
  <2> DEFINE r == [proc[p] EXCEPT !.at = "open", !.does = op]
  <2>2. r \in Process
    BY DEF TypeOK, Process, Steps
  <2> HIDE DEF r
  <2>3. proc' = [proc EXCEPT ![p] = r]
    BY <2>1 DEF r
  <2> QED
    BY <1>2, <2>2, <2>3, Moves DEF Begin, TypeOK, files
<1>3. ASSUME NEW p \in Procs, CreateKey(p) PROVE TypeOK'
  BY <1>3 DEF CreateKey, TypeOK, Process, FreshKey
<1>4. ASSUME NEW p \in Procs, Crash(p) PROVE TypeOK'
  <2> DEFINE r == [proc[p] EXCEPT !.at = "off", !.read = Nothing, !.newKey = NoKey]
  <2>1. r \in Process /\ r.at = "off"
    BY DEF TypeOK, Process, Steps, Nothing, Content, NoKey
  <2>2. proc' = [proc EXCEPT ![p] = r]
    BY <1>4 DEF Crash
  <2> HIDE DEF r
  <2>3. /\ proc' \in [Procs -> Process] /\ proc'[p] = r
        /\ \A q \in Procs : q # p => proc'[q] = proc[q]
    BY <2>1, <2>2, Moves DEF TypeOK
  <2>4. /\ lock' = IF lock = p THEN Nobody ELSE lock
        /\ UNCHANGED <<keyOf, secrets, staged, config, keys, wallets, stored>>
    BY <1>4 DEF Crash, files
  <2> QED
    BY <2>1, <2>3, <2>4 DEF TypeOK
<1>5. ASSUME NEW p \in Procs, Raise(p) PROVE TypeOK'
  <2>1. /\ proc[p].at \notin {"off", "ready"}
        /\ UNCHANGED <<keyOf, secrets, staged, config, keys, wallets, stored>>
    BY <1>5 DEF Raise, files
  <2>2. Finish(p, "ready")
    BY <1>5 DEF Raise
  <2>3. /\ proc' \in [Procs -> Process] /\ lock' \in Procs \cup {Nobody}
        /\ \A q \in Procs : proc'[q].at \notin {"off", "ready"} => lock' = q
    BY <2>1, <2>2, FinishTypes
  <2> QED
    BY <2>1, <2>3 DEF TypeOK
<1>6. ASSUME NEW p \in Procs, Promote(p) PROVE TypeOK'
  <2> DEFINE r == [proc[p] EXCEPT !.at = "promoted", !.read = staged.holds]
  <2>1. r \in Process
    BY DEF TypeOK, Process, Steps, Blob
  <2>2. proc' = [proc EXCEPT ![p] = r] /\ lock' = lock
    BY <1>6 DEF Promote
  <2> HIDE DEF r
  <2>3. /\ proc[p].at \notin {"off", "ready"} /\ secrets' \in {secrets, staged}
        /\ UNCHANGED <<keyOf, staged, config, keys, wallets, stored>>
    BY <1>6 DEF Promote, files
  <2>4. /\ proc' \in [Procs -> Process] /\ lock' \in Procs \cup {Nobody}
        /\ \A q \in Procs : proc'[q].at \notin {"off", "ready"} => lock' = q
    BY <2>1, <2>2, <2>3, ProcTypes
  <2> QED
    BY <2>3, <2>4 DEF TypeOK
<1>7. ASSUME NEW p \in Procs, UnlinkPromoted(p) PROVE TypeOK'
  <2>1. /\ proc[p].at \notin {"off", "ready"} /\ Goto(p, "opened")
        /\ staged' = NoFile
        /\ UNCHANGED <<keyOf, secrets, config, keys, wallets, stored>>
    BY <1>7 DEF UnlinkPromoted
  <2>2. NoFile \in Blob
    BY DEF Blob, NoFile, NoKey, Nothing, Content
  <2>3. /\ proc' \in [Procs -> Process] /\ lock' \in Procs \cup {Nobody}
        /\ \A q \in Procs : proc'[q].at \notin {"off", "ready"} => lock' = q
    BY <2>1, GotoTypes DEF Steps
  <2> QED
    BY <2>1, <2>2, <2>3 DEF TypeOK
<1>8. ASSUME NEW p \in Procs, Decrypt(p) PROVE TypeOK'
  <2> DEFINE r == [proc[p] EXCEPT !.at = "opened", !.read = secrets.holds]
  <2>1. r \in Process
    BY DEF TypeOK, Process, Steps, Blob
  <2>2. proc' = [proc EXCEPT ![p] = r] /\ lock' = lock
    BY <1>8 DEF Decrypt
  <2> HIDE DEF r
  <2>3. /\ proc[p].at \notin {"off", "ready"} /\ secrets' \in {secrets, staged}
        /\ UNCHANGED <<keyOf, staged, config, keys, wallets, stored>>
    BY <1>8 DEF Decrypt, files
  <2>4. /\ proc' \in [Procs -> Process] /\ lock' \in Procs \cup {Nobody}
        /\ \A q \in Procs : proc'[q].at \notin {"off", "ready"} => lock' = q
    BY <2>1, <2>2, <2>3, ProcTypes
  <2> QED
    BY <2>3, <2>4 DEF TypeOK
<1>9. ASSUME NEW p \in Procs, Generate(p) PROVE TypeOK'
  <2> DEFINE content == [wallet |-> wallets', creds |-> {}]
             r       == [proc[p] EXCEPT !.at = "opened", !.read = content]
  <2>1. wallets' \in Nat /\ content \in Content /\ Key(p) \in Nat
    BY <1>9 DEF Generate, TypeOK, Content, Key, Process
  <2> HIDE DEF content
  <2>2. r \in Process
    BY <2>1 DEF TypeOK, Process, Steps
  <2>3. secrets' = Encrypt(Key(p), content) /\ proc' = [proc EXCEPT ![p] = r]
    BY <1>9 DEF Generate, content
  <2> HIDE DEF r
  <2>4. secrets' \in Blob
    BY <2>1, <2>3 DEF Encrypt, Blob
  <2> QED
    BY <1>9, <2>1, <2>2, <2>3, <2>4, Moves DEF Generate, TypeOK
<1>10. ASSUME NEW p \in Procs, LockedOut(p) PROVE TypeOK'
  <2>1. /\ proc[p].at \notin {"off", "ready"}
        /\ UNCHANGED <<keyOf, secrets, staged, config, keys, wallets, stored>>
    BY <1>10 DEF LockedOut, files
  <2>2. \E at \in {"off", "ready"} : Finish(p, at)
    BY <1>10 DEF LockedOut
  <2>3. /\ proc' \in [Procs -> Process] /\ lock' \in Procs \cup {Nobody}
        /\ \A q \in Procs : proc'[q].at \notin {"off", "ready"} => lock' = q
    BY <2>1, <2>2, FinishTypes
  <2> QED
    BY <2>1, <2>3 DEF TypeOK
<1>11. ASSUME NEW p \in Procs, Loaded(p) PROVE TypeOK'
  <2>1. /\ proc[p].at \notin {"off", "ready"}
        /\ UNCHANGED <<keyOf, secrets, staged, config, keys, wallets, stored>>
    BY <1>11 DEF Loaded, files
  <2>2. Finish(p, "ready")
    BY <1>11 DEF Loaded
  <2>3. /\ proc' \in [Procs -> Process] /\ lock' \in Procs \cup {Nobody}
        /\ \A q \in Procs : proc'[q].at \notin {"off", "ready"} => lock' = q
    BY <2>1, <2>2, FinishTypes
  <2> QED
    BY <2>1, <2>3 DEF TypeOK
<1>12. ASSUME NEW p \in Procs, Put(p) PROVE TypeOK'
  <2>1. PICK c \in Creds :
          /\ secrets' = Encrypt(Key(p), [proc[p].read EXCEPT !.creds = @ \cup {c}])
          /\ stored' = stored \cup {c}
    BY <1>12 DEF Put
  <2>2. [proc[p].read EXCEPT !.creds = @ \cup {c}] \in Content
    <3>1. proc[p].read \in Content
      BY DEF TypeOK, Process
    <3> QED
      BY <3>1 DEF Content
  <2>3. secrets' \in Blob
    <3>1. Key(p) \in Nat
      BY DEF TypeOK, Process, Key
    <3> QED
      BY <2>1, <2>2, <3>1 DEF Encrypt, Blob
  <2> DEFINE r == [proc[p] EXCEPT !.at = "ready", !.read = Nothing, !.newKey = NoKey]
  <2>4. r \in Process
    BY DEF TypeOK, Process, Steps, Nothing, Content, NoKey
  <2>5. proc' = [proc EXCEPT ![p] = r]
    BY <1>12 DEF Put, Finish
  <2> HIDE DEF r
  <2>6. /\ proc' \in [Procs -> Process] /\ r.at = "ready" /\ proc'[p] = r
        /\ \A q \in Procs : q # p => proc'[q] = proc[q]
    BY <2>4, <2>5, Moves DEF TypeOK, Process, r
  <2>7. /\ \A q \in Procs : proc'[q].at \in {"off", "ready"}
        /\ stored' \subseteq Creds
    BY <1>12, <2>1, <2>6, OthersIdle DEF Put, TypeOK
  <2>8. lock' = Nobody /\ UNCHANGED <<keyOf, staged, config, keys, wallets>>
    BY <1>12 DEF Put, Finish
  <2> QED
    BY <2>3, <2>6, <2>7, <2>8 DEF TypeOK
<1>13. ASSUME NEW p \in Procs, Stage(p) PROVE TypeOK'
  <2> DEFINE r == [proc[p] EXCEPT !.at = "staged", !.newKey = FreshKey]
  <2>1. r \in Process
    <3>1. FreshKey \in Nat
      BY DEF TypeOK, FreshKey
    <3> QED
      BY <3>1 DEF TypeOK, Process, Steps
  <2>2. proc' = [proc EXCEPT ![p] = r] /\ staged' = Encrypt(FreshKey, proc[p].read)
    BY <1>13 DEF Stage
  <2>3. staged' \in Blob
    BY <2>2 DEF Encrypt, Blob, TypeOK, Process, FreshKey
  <2> HIDE DEF r
  <2> QED
    BY <1>13, <2>1, <2>2, <2>3, Moves DEF Stage, TypeOK, FreshKey
<1>14. ASSUME NEW p \in Procs, ReplaceKey(p) PROVE TypeOK'
  <2>1. /\ proc[p].at \notin {"off", "ready"} /\ Goto(p, "replaced")
        /\ keyOf' = [keyOf EXCEPT ![Target(p)] = proc[p].newKey]
        /\ UNCHANGED <<secrets, staged, config, keys, wallets, stored>>
    BY <1>14 DEF ReplaceKey
  <2>2. proc[p].newKey \in Nat
    BY DEF TypeOK, Process
  <2>3. /\ proc' \in [Procs -> Process] /\ lock' \in Procs \cup {Nobody}
        /\ \A q \in Procs : proc'[q].at \notin {"off", "ready"} => lock' = q
    BY <2>1, GotoTypes DEF Steps
  <2> QED
    BY <2>1, <2>2, <2>3 DEF TypeOK
<1>15. ASSUME NEW p \in Procs, WriteSecrets(p) PROVE TypeOK'
  <2>1. /\ proc[p].at \notin {"off", "ready"} /\ Goto(p, "written")
        /\ secrets' = staged
        /\ UNCHANGED <<keyOf, staged, config, keys, wallets, stored>>
    BY <1>15 DEF WriteSecrets
  <2>2. staged \in Blob
    BY DEF TypeOK
  <2>3. /\ proc' \in [Procs -> Process] /\ lock' \in Procs \cup {Nobody}
        /\ \A q \in Procs : proc'[q].at \notin {"off", "ready"} => lock' = q
    BY <2>1, GotoTypes DEF Steps
  <2> QED
    BY <2>1, <2>2, <2>3 DEF TypeOK
<1>16. ASSUME NEW p \in Procs, UnlinkStaged(p) PROVE TypeOK'
  <2> DEFINE r == [proc[p] EXCEPT !.at = "cleaned", !.backend = Target(p)]
  <2>1. r \in Process
    <3>1. Target(p) \in Backends
      BY DEF Target, Backends, TypeOK, Process
    <3> QED
      BY <3>1 DEF TypeOK, Process, Steps
  <2>2. proc' = [proc EXCEPT ![p] = r] /\ staged' = NoFile
    BY <1>16 DEF UnlinkStaged
  <2>3. staged' \in Blob
    BY <2>2 DEF Blob, NoFile, NoKey, Nothing, Content
  <2> HIDE DEF r
  <2> QED
    BY <1>16, <2>1, <2>2, <2>3, Moves DEF UnlinkStaged, TypeOK
<1>17. ASSUME NEW p \in Procs, Report(p) PROVE TypeOK'
  <2> DEFINE r == [proc[p] EXCEPT !.at = "ready", !.read = Nothing, !.newKey = NoKey]
  <2>1. r \in Process
    BY DEF TypeOK, Process, Steps, Nothing, Content, NoKey
  <2>2. proc' = [proc EXCEPT ![p] = r]
    BY <1>17 DEF Report, Finish
  <2>3. keyOf' \in [Backends -> Nat]
    BY <1>17 DEF Report, TypeOK, NoKey
  <2> QED
    BY <1>17, <2>1, <2>2, <2>3, Moves, OthersIdle DEF Report, Finish, TypeOK, r
<1>18. CASE SwitchBackend
  BY <1>18 DEF SwitchBackend, TypeOK, files
<1>19. CASE UNCHANGED vars
  BY <1>19 DEF vars, files, TypeOK
<1> QED
  BY <1>1, <1>2, <1>3, <1>4, <1>5, <1>6, <1>7, <1>8, <1>9, <1>10, <1>11, <1>12, <1>13,
     <1>14, <1>15, <1>16, <1>17, <1>18, <1>19 DEF Next

(* Every variable keeps its type and only the holder of the lock is inside *)
(* an operation, however careful the operator is.                          *)
THEOREM Types == Spec => []TypeOK
BY InitTypes, NextTypes, PTL DEF Spec

-----------------------------------------------------------------------------
(* What every step shares.                                                 *)

(* A key only opens a file that is there, and an absent one is no key.     *)
LEMMA NoKeyOpensNothing ==
  ASSUME TypeOK, KeysNumbered
  PROVE  /\ \A blob \in {secrets, staged} : ~Opens(NoKey, blob) /\ ~Opens(keys + 1, blob)
         /\ \A key : ~Opens(key, NoFile)
BY DEF TypeOK, KeysNumbered, Opens, NoKey

LEMMA EncryptOpens ==
  ASSUME NEW key \in Nat \ {0}, NEW content
  PROVE  /\ Opens(key, Encrypt(key, content))
         /\ Encrypt(key, content) # NoFile
         /\ Encrypt(key, content).key = key
         /\ Encrypt(key, content).holds = content
BY DEF Opens, Encrypt, NoFile, NoKey

(* A step that touches no file.                                            *)
Quiet == UNCHANGED <<files, config, keys, wallets, stored>>

LEMMA QuietFiles == FilesOK /\ Quiet => FilesOK'
BY DEF FilesOK, Quiet, files, KeysNumbered, KeysDiffer, SecretsNewest, SomeKeyOpens,
       SameKeySame, StaleIsPassive, Opens, Newest

LEMMA QuietBackend ==
  ASSUME Quiet, NEW p \in Procs, BackendUsed(p),
         proc'[p].at # "off" => proc[p].at # "off" /\ proc'[p].backend = proc[p].backend
  PROVE  BackendUsed(p)'
BY DEF Quiet, files, BackendUsed, On, Opens

LEMMA QuietHeld ==
  ASSUME Quiet, NEW p \in Procs, Held(p), proc'[p] = proc[p]
  PROVE  Held(p)'
BY DEF Quiet, files, Held, Rotates, Opens, Newest, Key, Target

(* Whoever is not in the middle of an operation relies on nothing.         *)
LEMMA IdleHeld ==
  ASSUME NEW p \in Procs, proc'[p].at \in {"off", "ready", "open"}
  PROVE  Held(p)'
BY DEF Held

(* The same for the step of one process that ends up idle.                 *)
LEMMA QuietStep ==
  ASSUME IInv, TypeOK', Quiet, NEW p \in Procs,
         \A q \in Procs : q # p => proc'[q] = proc[q],
         proc'[p].at \in {"off", "ready", "open"}, BackendUsed(p)'
  PROVE  IInv'
<1>1. FilesOK'
  BY QuietFiles DEF IInv
<1>2. ASSUME NEW q \in Procs, q # p PROVE BackendUsed(q)' /\ Held(q)'
  BY <1>2, QuietBackend, QuietHeld DEF IInv
<1> QED
  BY <1>1, <1>2, IdleHeld DEF IInv

LEMMA InitInv == Init => IInv
<1> SUFFICES ASSUME Init PROVE IInv
  OBVIOUS
<1>1. TypeOK
  BY InitTypes
<1>2. FilesOK
  <2>1. /\ \A b \in Backends : keyOf[b] = 0
        /\ keyOf["file"] = 0
        /\ keys = 0 /\ wallets = 0 /\ stored = {} /\ secrets = NoFile /\ staged = NoFile
    BY DEF Init, Backends, NoKey
  <2>2. KeysNumbered /\ KeysDiffer
    BY <2>1 DEF KeysNumbered, KeysDiffer, NoKey
  <2>3. SecretsNewest /\ SomeKeyOpens /\ SameKeySame
    BY <2>1 DEF SecretsNewest, SomeKeyOpens, SameKeySame
  <2>4. StaleIsPassive
    BY <2>1 DEF StaleIsPassive, Opens
  <2> QED
    BY <2>2, <2>3, <2>4 DEF FilesOK
<1>3. \A p \in Procs : BackendUsed(p) /\ Held(p)
  BY DEF Init, BackendUsed, On, Held
<1> QED
  BY <1>1, <1>2, <1>3 DEF IInv

-----------------------------------------------------------------------------
(* One lemma for each action.                                              *)

LEMMA BootKeeps ==
  ASSUME IInv, TypeOK', NEW p \in Procs, Boot(p)
  PROVE  IInv'
<1>1. Quiet /\ \A q \in Procs : q # p => proc'[q] = proc[q]
  BY DEF Boot, IInv, TypeOK, Quiet
<1>2. proc'[p].at = "open" /\ proc'[p].backend = config
  BY DEF Boot, IInv, TypeOK, Process
<1>3. BackendUsed(p)'
  BY <1>1, <1>2 DEF Quiet, BackendUsed, On
<1> QED
  BY <1>1, <1>2, <1>3, QuietStep

LEMMA BeginKeeps ==
  ASSUME IInv, TypeOK', NEW p \in Procs, Begin(p)
  PROVE  IInv'
<1>1. Quiet /\ \A q \in Procs : q # p => proc'[q] = proc[q]
  BY DEF Begin, IInv, TypeOK, Quiet
<1>2. proc[p].at = "ready" /\ proc'[p].at = "open" /\ proc'[p].backend = proc[p].backend
  BY DEF Begin, IInv, TypeOK, Process
<1>3. BackendUsed(p)'
  BY <1>1, <1>2, QuietBackend DEF IInv
<1> QED
  BY <1>1, <1>2, <1>3, QuietStep

(* A step of the holder of the lock: the others are idle and keep what     *)
(* they are.                                                               *)
LEMMA HolderStep ==
  ASSUME IInv, TypeOK', NEW p \in Procs, proc[p].at \notin {"off", "ready"},
         \A q \in Procs : q # p => proc'[q] = proc[q],
         FilesOK', Held(p)', \A q \in Procs : BackendUsed(q)'
  PROVE  IInv'
<1>1. ASSUME NEW q \in Procs, q # p PROVE Held(q)'
  BY <1>1, OthersIdle, IdleHeld DEF IInv
<1> QED
  BY <1>1 DEF IInv

(* The same, when the key of the file opens nothing that it did not open.  *)
LEMMA BackendsStay ==
  ASSUME IInv, NEW p \in Procs, config' = config,
         \A q \in Procs : q # p => proc'[q] = proc[q],
         proc'[p].backend = proc[p].backend, proc[p].at # "off",
         wallets > 0 => wallets' > 0,
         Opens(keyOf["file"], secrets)' =>
           Opens(keyOf["file"], secrets) \/ Opens(keyOf["file"], staged),
         Opens(keyOf["file"], staged)' =>
           Opens(keyOf["file"], secrets) \/ Opens(keyOf["file"], staged)
  PROVE  \A q \in Procs : BackendUsed(q)'
BY DEF IInv, BackendUsed, On

LEMMA CreateKeyKeeps ==
  ASSUME IInv, TypeOK', NEW p \in Procs, CreateKey(p)
  PROVE  IInv'
<1> DEFINE b0 == proc[p].backend
<1>1. /\ proc[p].at = "open" /\ proc' = proc /\ b0 \in Backends
      /\ keyOf[b0] = 0 /\ keyOf'[b0] = keys + 1 /\ keys' = keys + 1 /\ keys \in Nat
      /\ \A b \in Backends : b # b0 => keyOf'[b] = keyOf[b]
      /\ UNCHANGED <<secrets, staged, config, wallets, stored>>
  BY DEF CreateKey, Key, FreshKey, NoKey, IInv, TypeOK, Process
<1> HIDE DEF b0
<1>2. \A blob \in {secrets, staged} : ~Opens(0, blob) /\ ~Opens(keys + 1, blob)
  BY NoKeyOpensNothing DEF IInv, FilesOK, NoKey
(* Nothing opens that did not, and everything that did still does.         *)
<1>3. \A b \in Backends :
        /\ Opens(keyOf[b], secrets)' <=> Opens(keyOf[b], secrets)
        /\ Opens(keyOf[b], staged)' <=> Opens(keyOf[b], staged)
  BY <1>1, <1>2 DEF Opens
<1>4. KeysNumbered' /\ KeysDiffer'
  <2>1. \A b \in Backends : keyOf[b] \in Nat /\ keyOf[b] <= keys
    BY DEF IInv, TypeOK, FilesOK, KeysNumbered
  <2>2. \A b \in Backends : keyOf'[b] <= keys'
    BY <1>1, <2>1
  <2>3. KeysNumbered'
    BY <1>1, <2>2 DEF IInv, FilesOK, KeysNumbered
  <2>4. KeysDiffer'
    BY <1>1, <2>1 DEF IInv, FilesOK, KeysDiffer, NoKey, Backends
  <2> QED
    BY <2>3, <2>4
<1>5. SecretsNewest' /\ SameKeySame'
  BY <1>1 DEF IInv, FilesOK, SecretsNewest, SameKeySame, Newest
<1>6. SomeKeyOpens' /\ StaleIsPassive'
  <2>1. Newest' = Newest /\ wallets' = wallets /\ staged' = staged
    BY <1>1 DEF Newest
  <2>2. SomeKeyOpens'
    BY <1>3, <2>1 DEF IInv, FilesOK, SomeKeyOpens
  <2>3. config' = config /\ config \in Backends
    BY <1>1 DEF IInv, TypeOK
  <2>4. Opens(keyOf[config], secrets)' <=> Opens(keyOf[config], secrets)
    BY <1>3, <2>3
  <2>5. StaleIsPassive'
    BY <1>3, <2>1, <2>4 DEF IInv, FilesOK, StaleIsPassive
  <2> QED
    BY <2>2, <2>5
<1>7. \A q \in Procs : BackendUsed(q)'
  <2>1. /\ Opens(keyOf["file"], secrets)' => Opens(keyOf["file"], secrets)
        /\ Opens(keyOf["file"], staged)' => Opens(keyOf["file"], staged)
    BY <1>3 DEF Backends
  <2> QED
    BY <1>1, <2>1, BackendsStay
<1>8. FilesOK'
  BY <1>4, <1>5, <1>6 DEF FilesOK
<1> QED
  BY <1>1, <1>7, <1>8, IdleHeld, HolderStep

(* Only the newest content is ever promoted.                               *)
LEMMA PromotesNewest ==
  ASSUME IInv, NEW p \in Procs, On(p), Opens(Key(p), staged)
  PROVE  wallets = 1 /\ secrets # NoFile /\ staged.holds = Newest
<1>1. wallets = 1 /\ secrets # NoFile /\ secrets.holds = Newest
  BY DEF IInv, FilesOK, SecretsNewest, TypeOK, Opens
<1>2. ASSUME staged.holds # Newest PROVE FALSE
  <2>1. proc[p].backend \in Backends
    BY DEF IInv, TypeOK, Process
  <2>2. Opens(keyOf[config], secrets)
    BY <1>2, <2>1 DEF IInv, FilesOK, StaleIsPassive, Key
  <2>3. CASE proc[p].backend = config
    BY <1>1, <1>2, <2>2, <2>3 DEF IInv, FilesOK, SameKeySame, Opens, Key
  <2>4. CASE proc[p].backend # config
    <3>1. config = "file" /\ proc[p].backend = "keyring"
      BY <2>4 DEF IInv, BackendUsed, TypeOK, Backends
    <3> QED
      BY <2>2, <3>1 DEF IInv, BackendUsed
  <2> QED
    BY <2>3, <2>4
<1> QED
  BY <1>1, <1>2

LEMMA PromoteKeeps ==
  ASSUME IInv, TypeOK', NEW p \in Procs, Promote(p)
  PROVE  IInv'
<1>1. /\ proc[p].at = "open" /\ Opens(Key(p), staged) /\ secrets' = staged
      /\ UNCHANGED <<keyOf, staged, config, keys, wallets, stored>>
      /\ \A q \in Procs : q # p => proc'[q] = proc[q]
  BY DEF Promote, IInv, TypeOK
<1>2. proc'[p].at = "promoted" /\ proc'[p].read = staged.holds /\ proc'[p].backend = proc[p].backend
  BY DEF Promote, IInv, TypeOK, Process
<1>3. wallets = 1 /\ staged.holds = Newest /\ proc[p].backend \in Backends
  BY <1>1, PromotesNewest DEF IInv, TypeOK, Process, On
<1>4. Newest' = Newest /\ Key(p)' = Key(p) /\ Opens(Key(p), secrets)'
  BY <1>1, <1>2 DEF Newest, Key, Opens
<1>5. FilesOK'
  <2>1. KeysNumbered' /\ KeysDiffer'
    BY <1>1 DEF IInv, FilesOK, KeysNumbered, KeysDiffer
  <2>2. SecretsNewest' /\ SameKeySame'
    BY <1>1, <1>3, <1>4 DEF SecretsNewest, SameKeySame, Opens
  <2>3. SomeKeyOpens' /\ StaleIsPassive'
    BY <1>1, <1>2, <1>3, <1>4 DEF SomeKeyOpens, StaleIsPassive, Key
  <2> QED
    BY <2>1, <2>2, <2>3 DEF FilesOK
<1>6. \A q \in Procs : BackendUsed(q)'
  BY <1>1, <1>2, BackendsStay
<1>7. Held(p)'
  BY <1>1, <1>2, <1>3, <1>4 DEF Held
<1> QED
  BY <1>1, <1>5, <1>6, <1>7, HolderStep

LEMMA UnlinkPromotedKeeps ==
  ASSUME IInv, TypeOK', NEW p \in Procs, UnlinkPromoted(p)
  PROVE  IInv'
<1>1. /\ proc[p].at = "promoted" /\ staged' = NoFile
      /\ UNCHANGED <<keyOf, secrets, config, keys, wallets, stored>>
      /\ \A q \in Procs : q # p => proc'[q] = proc[q]
  BY DEF UnlinkPromoted, Goto, IInv, TypeOK
<1>2. proc'[p].at = "opened" /\ proc'[p].read = proc[p].read /\ proc'[p].backend = proc[p].backend
  BY DEF UnlinkPromoted, Goto, IInv, TypeOK, Process
<1>3. /\ wallets > 0 /\ proc[p].read = Newest
      /\ secrets = staged /\ Opens(Key(p), secrets) /\ proc[p].backend \in Backends
  BY <1>1 DEF IInv, Held, TypeOK, Process
<1>4. /\ Newest' = Newest /\ Key(p)' = Key(p) /\ Opens(Key(p), secrets)'
      /\ \A key : ~Opens(key, staged)'
  BY <1>1, <1>2, <1>3 DEF Newest, Key, Opens
<1>5. FilesOK'
  <2>1. KeysNumbered' /\ KeysDiffer'
    BY <1>1 DEF IInv, FilesOK, KeysNumbered, KeysDiffer
  <2>2. SecretsNewest' /\ SameKeySame'
    BY <1>1, <1>3, <1>4 DEF IInv, FilesOK, SecretsNewest, SameKeySame
  <2>3. SomeKeyOpens' /\ StaleIsPassive'
    BY <1>1, <1>2, <1>3, <1>4 DEF SomeKeyOpens, StaleIsPassive, Key
  <2> QED
    BY <2>1, <2>2, <2>3 DEF FilesOK
<1>6. \A q \in Procs : BackendUsed(q)'
  BY <1>1, <1>2, <1>4, BackendsStay
<1>7. Held(p)'
  BY <1>1, <1>2, <1>3, <1>4 DEF Held
<1> QED
  BY <1>1, <1>5, <1>6, <1>7, HolderStep

LEMMA DecryptKeeps ==
  ASSUME IInv, TypeOK', NEW p \in Procs, Decrypt(p)
  PROVE  IInv'
<1>1. /\ proc[p].at = "open" /\ ~Opens(Key(p), staged) /\ Opens(Key(p), secrets) /\ Quiet
      /\ \A q \in Procs : q # p => proc'[q] = proc[q]
  BY DEF Decrypt, IInv, TypeOK, Quiet
<1>2. /\ proc'[p].at = "opened" /\ proc'[p].read = secrets.holds
      /\ proc'[p].backend = proc[p].backend
  BY DEF Decrypt, IInv, TypeOK, Process
<1>3. wallets > 0 /\ secrets.holds = Newest
  BY <1>1 DEF IInv, FilesOK, SecretsNewest, TypeOK, Opens
<1>4. Newest' = Newest /\ Key(p)' = Key(p) /\ wallets' = wallets /\ secrets' = secrets /\ staged' = staged
  BY <1>1, <1>2 DEF Newest, Key, Quiet, files
<1>5. Held(p)'
  BY <1>1, <1>2, <1>3, <1>4 DEF Held, Opens
<1>6. FilesOK'
  BY <1>1, QuietFiles DEF IInv
<1>7. \A q \in Procs : BackendUsed(q)'
  BY <1>1, <1>2, QuietBackend DEF IInv
<1> QED
  BY <1>1, <1>5, <1>6, <1>7, HolderStep

LEMMA GenerateKeeps ==
  ASSUME IInv, TypeOK', NEW p \in Procs, Generate(p)
  PROVE  IInv'
<1> DEFINE content == [wallet |-> wallets', creds |-> {}]
<1>1. /\ proc[p].at = "open" /\ Key(p) # 0 /\ secrets = NoFile /\ wallets' = wallets + 1
      /\ secrets' = Encrypt(Key(p), content)
      /\ UNCHANGED <<keyOf, staged, config, keys, stored>>
      /\ \A q \in Procs : q # p => proc'[q] = proc[q]
  BY DEF Generate, IInv, TypeOK, NoKey
<1>2. /\ proc'[p].at = "opened" /\ proc'[p].read = content /\ proc'[p].backend = proc[p].backend
  BY DEF Generate, IInv, TypeOK, Process
<1> HIDE DEF content
<1>3. wallets = 0 /\ staged = NoFile /\ stored = {}
  BY <1>1 DEF IInv, FilesOK, SecretsNewest, TypeOK
<1>4. /\ wallets' = 1 /\ content = Newest' /\ proc[p].backend \in Backends
      /\ Key(p) \in 1..keys /\ Key(p)' = Key(p)
  BY <1>1, <1>2, <1>3 DEF Newest, content, Key, IInv, TypeOK, Process, FilesOK, KeysNumbered
<1>5. /\ Opens(Key(p), secrets)' /\ secrets' # NoFile /\ secrets'.key = Key(p)
      /\ secrets'.holds = Newest' /\ \A key : ~Opens(key, staged')
  BY <1>1, <1>3, <1>4, EncryptOpens DEF Opens
<1>6. FilesOK'
  <2>1. KeysNumbered' /\ KeysDiffer'
    BY <1>1, <1>4, <1>5 DEF IInv, FilesOK, KeysNumbered, KeysDiffer
  <2>2. SecretsNewest' /\ SameKeySame'
    BY <1>1, <1>3, <1>4, <1>5 DEF SecretsNewest, SameKeySame
  <2>3. SomeKeyOpens' /\ StaleIsPassive'
    BY <1>1, <1>2, <1>4, <1>5 DEF SomeKeyOpens, StaleIsPassive, Key
  <2> QED
    BY <2>1, <2>2, <2>3 DEF FilesOK
<1>7. \A q \in Procs : BackendUsed(q)'
  <2>1. ASSUME NEW q \in Procs PROVE BackendUsed(q)'
    <3>1. On(q)' => On(q) /\ proc'[q].backend = proc[q].backend
      BY <1>1, <1>2 DEF On
    <3>2. On(q) => proc[q].backend \in {config, "keyring"} /\ ~(config = "file" /\ proc[q].backend = "keyring")
      BY <1>3 DEF IInv, BackendUsed
    <3> QED
      BY <1>1, <3>1, <3>2 DEF BackendUsed
  <2> QED
    BY <2>1
<1>8. Held(p)'
  BY <1>2, <1>4, <1>5 DEF Held
<1> QED
  BY <1>1, <1>6, <1>7, <1>8, HolderStep

(* The end of an operation that left the files alone.                      *)
LEMMA FinishKeeps ==
  ASSUME IInv, TypeOK', Quiet, NEW p \in Procs, proc[p].at # "off",
         NEW at \in {"off", "ready"},
         proc' = [proc EXCEPT ![p] = [@ EXCEPT !.at = at, !.read = Nothing, !.newKey = NoKey]]
  PROVE  IInv'
<1>1. \A q \in Procs : q # p => proc'[q] = proc[q]
  BY DEF IInv, TypeOK
<1>2. proc'[p].at = at /\ proc'[p].backend = proc[p].backend
  BY DEF IInv, TypeOK, Process
<1>3. BackendUsed(p)'
  BY <1>2, QuietBackend DEF IInv
<1> QED
  BY <1>1, <1>2, <1>3, QuietStep

LEMMA EndsKeep ==
  ASSUME IInv, TypeOK', NEW p \in Procs, LockedOut(p) \/ Loaded(p) \/ Raise(p) \/ Crash(p)
  PROVE  IInv'
<1>1. Quiet /\ proc[p].at # "off"
  BY DEF LockedOut, Loaded, Raise, Crash, Quiet
<1>2. CASE LockedOut(p)
  <2>1. PICK at \in {"off", "ready"} :
          proc' = [proc EXCEPT ![p] = [@ EXCEPT !.at = at, !.read = Nothing, !.newKey = NoKey]]
    BY <1>2 DEF LockedOut, Finish
  <2> QED
    BY <1>1, <2>1, FinishKeeps
<1>3. CASE Loaded(p) \/ Raise(p)
  BY <1>1, <1>3, FinishKeeps DEF Loaded, Raise, Finish
<1>4. CASE Crash(p)
  BY <1>1, <1>4, FinishKeeps DEF Crash
<1> QED
  BY <1>2, <1>3, <1>4

LEMMA PutKeeps ==
  ASSUME IInv, TypeOK', NEW p \in Procs, Put(p)
  PROVE  IInv'
<1>1. PICK c \in Creds :
        /\ secrets' = Encrypt(Key(p), [proc[p].read EXCEPT !.creds = @ \cup {c}])
        /\ stored' = stored \cup {c}
  BY DEF Put
<1>2. /\ proc[p].at = "opened" /\ UNCHANGED <<keyOf, staged, config, keys, wallets>>
      /\ \A q \in Procs : q # p => proc'[q] = proc[q]
  BY DEF Put, Finish, IInv, TypeOK
<1>3. proc'[p].at = "ready" /\ proc'[p].backend = proc[p].backend
  BY DEF Put, Finish, IInv, TypeOK, Process
<1>4. /\ wallets > 0 /\ proc[p].read = Newest /\ proc[p].backend \in Backends
      /\ Opens(Key(p), secrets) /\ ~Opens(Key(p), staged)
  BY <1>2 DEF IInv, Held, TypeOK, Process
<1>5. Key(p) = secrets.key /\ secrets # NoFile /\ Key(p) \in 1..keys
  BY <1>4 DEF Opens, IInv, FilesOK, KeysNumbered
<1>6. /\ secrets' # NoFile /\ secrets'.key = secrets.key /\ secrets'.holds = Newest'
      /\ \A key : Opens(key, secrets)' <=> Opens(key, secrets)
  <2>1. [proc[p].read EXCEPT !.creds = @ \cup {c}] = Newest'
    BY <1>1, <1>4 DEF Newest
  <2>2. secrets' = Encrypt(Key(p), Newest')
    BY <1>1, <2>1
  <2>3. secrets' # NoFile /\ secrets'.key = Key(p) /\ secrets'.holds = Newest'
    BY <1>5, <2>2, EncryptOpens
  <2> QED
    BY <1>5, <2>3 DEF Opens
<1>7. FilesOK'
  <2>1. KeysNumbered' /\ KeysDiffer'
    BY <1>2, <1>5, <1>6 DEF IInv, FilesOK, KeysNumbered, KeysDiffer
  <2>2. SecretsNewest' /\ SameKeySame'
    BY <1>2, <1>4, <1>5, <1>6 DEF IInv, FilesOK, SecretsNewest, SameKeySame, Opens
  <2>3. SomeKeyOpens'
    BY <1>2, <1>4, <1>6 DEF SomeKeyOpens, Key
  <2>4. StaleIsPassive'
    <3>1. CASE proc[p].backend = config
      BY <1>2, <1>4, <1>6, <3>1 DEF StaleIsPassive, Key
    <3>2. CASE proc[p].backend # config
      <4>1. config = "file" /\ proc[p].backend = "keyring" /\ ~Opens(keyOf["file"], staged)
        BY <1>2, <3>2 DEF IInv, BackendUsed, On, TypeOK, Backends
      <4> QED
        BY <1>2, <1>4, <4>1 DEF StaleIsPassive, Key, Backends, Opens
    <3> QED
      BY <3>1, <3>2
  <2> QED
    BY <2>1, <2>2, <2>3, <2>4 DEF FilesOK
<1>8. \A q \in Procs : BackendUsed(q)'
  <2>1. Opens(keyOf["file"], secrets)' => Opens(keyOf["file"], secrets)
    BY <1>2, <1>6
  <2>2. Opens(keyOf["file"], staged)' => Opens(keyOf["file"], staged)
    BY <1>2
  <2> QED
    BY <1>2, <1>3, <2>1, <2>2, BackendsStay
<1> QED
  BY <1>2, <1>3, <1>7, <1>8, IdleHeld, HolderStep

LEMMA StageKeeps ==
  ASSUME IInv, TypeOK', NEW p \in Procs, Stage(p)
  PROVE  IInv'
<1>1. /\ proc[p].at = "opened" /\ proc[p].does \in {"rotate", "migrate"} /\ keys' = keys + 1
      /\ staged' = Encrypt(keys + 1, proc[p].read)
      /\ UNCHANGED <<keyOf, secrets, config, wallets, stored>>
      /\ \A q \in Procs : q # p => proc'[q] = proc[q]
  BY DEF Stage, FreshKey, IInv, TypeOK
<1>2. /\ proc'[p].at = "staged" /\ proc'[p].read = proc[p].read /\ proc'[p].newKey = keys + 1
      /\ proc'[p].does = proc[p].does /\ proc'[p].backend = proc[p].backend
  BY DEF Stage, FreshKey, IInv, TypeOK, Process
<1>3. /\ wallets > 0 /\ proc[p].read = Newest /\ proc[p].backend \in Backends
      /\ Opens(Key(p), secrets) /\ keys \in Nat
      /\ secrets.key \in 1..keys /\ \A b \in Backends : keyOf[b] \in Nat /\ keyOf[b] <= keys
  BY <1>1 DEF IInv, Held, TypeOK, Process, FilesOK, KeysNumbered, Opens
<1>4. /\ staged' = Encrypt(keys + 1, Newest) /\ staged' # NoFile
      /\ staged'.key = keys + 1 /\ staged'.holds = Newest
  BY <1>1, <1>3, EncryptOpens
<1>5. /\ Newest' = Newest /\ Key(p)' = Key(p) /\ Opens(Key(p), secrets)'
      /\ \A b \in Backends : ~Opens(keyOf[b], staged)'
  BY <1>1, <1>2, <1>3, <1>4 DEF Newest, Key, Opens
<1>6. FilesOK'
  <2>1. KeysNumbered' /\ KeysDiffer'
    BY <1>1, <1>3, <1>4 DEF IInv, FilesOK, KeysNumbered, KeysDiffer
  <2>2. SecretsNewest' /\ SameKeySame'
    BY <1>1, <1>3, <1>4, <1>5 DEF IInv, FilesOK, SecretsNewest, SameKeySame
  <2>3. SomeKeyOpens' /\ StaleIsPassive'
    BY <1>1, <1>2, <1>3, <1>4, <1>5 DEF SomeKeyOpens, StaleIsPassive, Key
  <2> QED
    BY <2>1, <2>2, <2>3 DEF FilesOK
<1>7. \A q \in Procs : BackendUsed(q)'
  <2>1. Opens(keyOf["file"], secrets)' => Opens(keyOf["file"], secrets)
    BY <1>1
  <2>2. ~Opens(keyOf["file"], staged)'
    BY <1>5 DEF Backends
  <2> QED
    BY <1>1, <1>2, <2>1, <2>2, BackendsStay
<1>8. Held(p)'
  <2>1. Rotates(p)'
    BY <1>1, <1>2, <1>3, <1>4, <1>5 DEF Rotates
  <2> QED
    BY <1>1, <1>2, <1>3, <1>5, <2>1 DEF Held
<1> QED
  BY <1>1, <1>6, <1>7, <1>8, HolderStep

LEMMA ReplaceKeyKeeps ==
  ASSUME IInv, TypeOK', NEW p \in Procs, ReplaceKey(p)
  PROVE  IInv'
<1> DEFINE t == Target(p)
           k == proc[p].newKey
<1>1. /\ proc[p].at = "staged"
      /\ UNCHANGED <<secrets, staged, config, keys, wallets, stored>>
      /\ \A q \in Procs : q # p => proc'[q] = proc[q]
  BY DEF ReplaceKey, Goto, IInv, TypeOK
<1>2. /\ t \in Backends /\ keyOf'[t] = k
      /\ \A b \in Backends : b # t => keyOf'[b] = keyOf[b]
  BY DEF ReplaceKey, Target, Backends, IInv, TypeOK, Process
<1>3. /\ proc'[p].at = "replaced" /\ proc'[p].newKey = k
      /\ proc'[p].does = proc[p].does /\ proc'[p].backend = proc[p].backend
  BY DEF ReplaceKey, Goto, IInv, TypeOK, Process
<1>4. /\ wallets > 0 /\ proc[p].does \in {"rotate", "migrate"} /\ k \in 1..keys
      /\ staged = Encrypt(k, Newest) /\ Opens(Key(p), secrets) /\ secrets.key # k
      /\ \A b \in Backends : keyOf[b] # k
  BY <1>1 DEF IInv, Held, Rotates
<1>5. Target(p)' = t
  BY <1>3 DEF Target
<1> HIDE DEF t, k
<1>6. staged # NoFile /\ staged.key = k /\ staged.holds = Newest /\ Newest' = Newest
  <2>1. k \in Nat \ {0}
    BY <1>4 DEF IInv, TypeOK
  <2> QED
    BY <1>1, <1>4, <2>1, EncryptOpens DEF Newest
<1>7. FilesOK'
  <2>1. KeysNumbered' /\ KeysDiffer'
    <3>1. KeysNumbered'
      BY <1>1, <1>2, <1>4 DEF IInv, TypeOK, FilesOK, KeysNumbered
    <3>2. KeysDiffer'
      BY <1>2, <1>4 DEF IInv, FilesOK, KeysDiffer, Backends
    <3> QED
      BY <3>1, <3>2
  <2>2. SecretsNewest' /\ SameKeySame'
    BY <1>1, <1>6 DEF IInv, FilesOK, SecretsNewest, SameKeySame
  <2>3. SomeKeyOpens' /\ StaleIsPassive'
    BY <1>1, <1>2, <1>6 DEF SomeKeyOpens, StaleIsPassive, Opens
  <2> QED
    BY <2>1, <2>2, <2>3 DEF FilesOK
(* The key file only gets a new key when it is in use: then nobody has     *)
(* moved to the keyring yet.                                               *)
<1>8. \A q \in Procs : BackendUsed(q)'
  <2>1. CASE t = "keyring"
    <3>1. keyOf'["file"] = keyOf["file"]
      BY <1>2, <2>1 DEF Backends
    <3> QED
      BY <1>1, <1>3, <3>1, BackendsStay
  <2>2. CASE t = "file"
    <3>1. proc[p].backend = "file"
      BY <2>2 DEF t, Target
    <3>2. config = "file" => \A q \in Procs : On(q) => proc[q].backend # "keyring"
      BY <1>4, <3>1 DEF IInv, BackendUsed, Key
    <3>3. \A q \in Procs : On(q)' => On(q) /\ proc'[q].backend = proc[q].backend
      BY <1>1, <1>3 DEF On
    <3>4. ASSUME NEW q \in Procs PROVE BackendUsed(q)'
      BY <1>1, <3>2, <3>3 DEF IInv, BackendUsed
    <3> QED
      BY <3>4
  <2> QED
    BY <1>2, <2>1, <2>2 DEF Backends
<1>9. Held(p)'
  <2>1. Rotates(p)'
    BY <1>1, <1>3, <1>4, <1>6 DEF Rotates
  <2> QED
    BY <1>1, <1>2, <1>3, <1>4, <1>5, <2>1 DEF Held
<1> QED
  BY <1>1, <1>7, <1>8, <1>9, HolderStep

LEMMA WriteSecretsKeeps ==
  ASSUME IInv, TypeOK', NEW p \in Procs, WriteSecrets(p)
  PROVE  IInv'
<1> DEFINE k == proc[p].newKey
<1>1. /\ proc[p].at = "replaced" /\ secrets' = staged
      /\ UNCHANGED <<keyOf, staged, config, keys, wallets, stored>>
      /\ \A q \in Procs : q # p => proc'[q] = proc[q]
  BY DEF WriteSecrets, Goto, IInv, TypeOK
<1>2. /\ proc'[p].at = "written" /\ proc'[p].newKey = k
      /\ proc'[p].does = proc[p].does /\ proc'[p].backend = proc[p].backend
  BY DEF WriteSecrets, Goto, IInv, TypeOK, Process
<1>3. /\ wallets > 0 /\ proc[p].does \in {"rotate", "migrate"} /\ k \in 1..keys
      /\ staged = Encrypt(k, Newest) /\ keyOf[Target(p)] = k
  BY <1>1 DEF IInv, Held, Rotates
<1>4. Target(p) \in Backends /\ Target(p)' = Target(p) /\ wallets = 1
  BY <1>2, <1>3 DEF Target, Backends, IInv, TypeOK, Process, FilesOK, SecretsNewest
<1> HIDE DEF k
<1>5. /\ staged # NoFile /\ staged.key = k /\ staged.holds = Newest /\ Newest' = Newest
      /\ Opens(keyOf[Target(p)], staged)
  <2>1. k \in Nat \ {0}
    BY <1>3 DEF IInv, TypeOK
  <2> QED
    BY <1>1, <1>3, <2>1, EncryptOpens DEF Newest
<1>6. FilesOK'
  <2>1. KeysNumbered' /\ KeysDiffer'
    BY <1>1 DEF IInv, FilesOK, KeysNumbered, KeysDiffer
  <2>2. SecretsNewest' /\ SameKeySame'
    BY <1>1, <1>4, <1>5 DEF SecretsNewest, SameKeySame
  <2>3. SomeKeyOpens' /\ StaleIsPassive'
    BY <1>1, <1>4, <1>5 DEF SomeKeyOpens, StaleIsPassive
  <2> QED
    BY <2>1, <2>2, <2>3 DEF FilesOK
<1>7. \A q \in Procs : BackendUsed(q)'
  BY <1>1, <1>2, BackendsStay
<1>8. Held(p)'
  BY <1>1, <1>2, <1>3, <1>4, <1>5 DEF Held, Rotates
<1> QED
  BY <1>1, <1>6, <1>7, <1>8, HolderStep

LEMMA UnlinkStagedKeeps ==
  ASSUME IInv, TypeOK', NEW p \in Procs, UnlinkStaged(p)
  PROVE  IInv'
<1> DEFINE k == proc[p].newKey
           t == Target(p)
<1>1. /\ proc[p].at = "written" /\ staged' = NoFile
      /\ UNCHANGED <<keyOf, secrets, config, keys, wallets, stored>>
      /\ \A q \in Procs : q # p => proc'[q] = proc[q]
  BY DEF UnlinkStaged, IInv, TypeOK
<1>2. /\ proc'[p].at = "cleaned" /\ proc'[p].newKey = k
      /\ proc'[p].does = proc[p].does /\ proc'[p].backend = t
  BY DEF UnlinkStaged, IInv, TypeOK, Process
<1>3. /\ wallets > 0 /\ proc[p].does \in {"rotate", "migrate"} /\ k \in 1..keys
      /\ secrets = Encrypt(k, Newest) /\ keyOf[t] = k
  BY <1>1 DEF IInv, Held, Rotates
<1>4. t \in Backends /\ Target(p)' = t /\ wallets = 1 /\ (t = proc[p].backend \/ t = "keyring")
  BY <1>2, <1>3 DEF Target, Backends, IInv, TypeOK, Process, FilesOK, SecretsNewest
<1> HIDE DEF k, t
<1>5. /\ secrets # NoFile /\ secrets.key = k /\ secrets.holds = Newest /\ Newest' = Newest
      /\ k # 0 /\ Opens(keyOf[t], secrets)
  <2>1. k \in Nat \ {0}
    BY <1>3 DEF IInv, TypeOK
  <2> QED
    BY <1>1, <1>3, <2>1, EncryptOpens DEF Newest
<1>6. FilesOK'
  <2>1. KeysNumbered' /\ KeysDiffer'
    BY <1>1 DEF IInv, FilesOK, KeysNumbered, KeysDiffer
  <2>2. SecretsNewest' /\ SameKeySame'
    BY <1>1, <1>4, <1>5 DEF SecretsNewest, SameKeySame
  <2>3. SomeKeyOpens' /\ StaleIsPassive'
    BY <1>1, <1>4, <1>5 DEF SomeKeyOpens, StaleIsPassive, Opens
  <2> QED
    BY <2>1, <2>2, <2>3 DEF FilesOK
(* A process that has moved to the keyring has locked the key file out.    *)
<1>7. \A q \in Procs : BackendUsed(q)'
  <2>1. ASSUME NEW q \in Procs, q # p PROVE BackendUsed(q)'
    BY <1>1, <2>1 DEF IInv, BackendUsed, On, Opens
  <2>2. proc[p].backend \in {config, "keyring"}
    BY <1>1 DEF IInv, BackendUsed, On
  <2>3. t = "keyring" => ~Opens(keyOf["file"], secrets)
    BY <1>3, <1>5 DEF IInv, FilesOK, KeysDiffer, NoKey, Opens
  <2>4. BackendUsed(p)'
    BY <1>1, <1>2, <1>3, <1>4, <2>2, <2>3 DEF BackendUsed, Opens
  <2> QED
    BY <2>1, <2>4
<1>8. Held(p)'
  BY <1>1, <1>2, <1>3, <1>4, <1>5 DEF Held, Key
<1> QED
  BY <1>1, <1>6, <1>7, <1>8, HolderStep

LEMMA ReportKeeps ==
  ASSUME IInv, TypeOK', NEW p \in Procs, Report(p)
  PROVE  IInv'
<1>1. /\ proc[p].at = "cleaned" /\ UNCHANGED <<secrets, staged, config, keys, wallets, stored>>
      /\ \A q \in Procs : q # p => proc'[q] = proc[q]
  BY DEF Report, Finish, IInv, TypeOK
<1>2. proc'[p].at = "ready" /\ proc'[p].backend = proc[p].backend
  BY DEF Report, Finish, IInv, TypeOK, Process
<1>3. /\ \A b \in Backends : keyOf'[b] = keyOf[b] \/ (keyOf'[b] = 0 /\ b = "file" /\ proc[p].does = "migrate")
  BY DEF Report, IInv, TypeOK, NoKey
<1>4. /\ wallets > 0 /\ proc[p].newKey \in 1..keys
      /\ secrets = Encrypt(proc[p].newKey, Newest) /\ staged = NoFile
      /\ proc[p].backend = Target(p) /\ Key(p) = proc[p].newKey
      /\ proc[p].backend \in Backends
  BY <1>1 DEF IInv, Held, TypeOK, Process
<1>5. Opens(Key(p), secrets) /\ Newest' = Newest /\ Key(p)' = Key(p)
  <2>1. proc[p].newKey \in Nat \ {0}
    BY <1>4 DEF IInv, TypeOK
  <2>2. proc[p].does = "migrate" => proc[p].backend = "keyring"
    BY <1>4 DEF Target
  <2>3. Key(p)' = Key(p)
    BY <1>2, <1>3, <1>4, <2>2 DEF Key
  <2> QED
    BY <1>1, <1>4, <2>1, <2>3, EncryptOpens DEF Newest
<1>6. ~Opens(0, secrets) /\ \A key : ~Opens(key, staged)
  BY <1>4, NoKeyOpensNothing DEF IInv, FilesOK, NoKey
<1>7. FilesOK'
  <2>1. KeysNumbered' /\ KeysDiffer'
    BY <1>1, <1>3 DEF IInv, TypeOK, FilesOK, KeysNumbered, KeysDiffer, NoKey, Backends
  <2>2. SecretsNewest' /\ SameKeySame'
    BY <1>1, <1>5 DEF IInv, FilesOK, SecretsNewest, SameKeySame
  <2>3. SomeKeyOpens' /\ StaleIsPassive'
    BY <1>1, <1>2, <1>4, <1>5, <1>6 DEF SomeKeyOpens, StaleIsPassive, Key
  <2> QED
    BY <2>1, <2>2, <2>3 DEF FilesOK
<1>8. \A q \in Procs : BackendUsed(q)'
  <2>1. Opens(keyOf["file"], secrets)' => Opens(keyOf["file"], secrets)
    BY <1>1, <1>3, <1>6 DEF Backends
  <2>2. ~Opens(keyOf["file"], staged)'
    BY <1>1, <1>6
  <2> QED
    BY <1>1, <1>2, <2>1, <2>2, BackendsStay
<1> QED
  BY <1>1, <1>2, <1>7, <1>8, IdleHeld, HolderStep

(* A careful operator never switches to a backend that would promote a     *)
(* stale copy.                                                             *)
LEMMA SwitchKeeps ==
  ASSUME Careful, IInv, TypeOK', SwitchBackend
  PROVE  IInv'
<1>1. /\ \A p \in Procs : proc[p].at = "off"
      /\ staged = NoFile \/ ~Opens(keyOf[config], secrets)
      /\ UNCHANGED <<keyOf, secrets, staged, lock, proc, keys, wallets, stored>>
  BY DEF SwitchBackend, files
<1>2. StaleIsPassive'
  BY <1>1 DEF IInv, FilesOK, StaleIsPassive, Opens, Newest
<1>3. FilesOK'
  BY <1>1, <1>2 DEF IInv, FilesOK, KeysNumbered, KeysDiffer, SecretsNewest, SomeKeyOpens,
                    SameKeySame, Opens, Newest
<1>4. \A p \in Procs : BackendUsed(p)' /\ Held(p)'
  BY <1>1 DEF BackendUsed, On, Held
<1> QED
  BY <1>3, <1>4 DEF IInv

-----------------------------------------------------------------------------
LEMMA NextInv ==
  ASSUME Careful, IInv, [Next]_vars
  PROVE  IInv'
<1>1. TypeOK'
  BY NextTypes DEF IInv
<1>2. CASE UNCHANGED vars
  <2>1. Quiet /\ proc' = proc
    BY <1>2 DEF vars, Quiet
  <2> QED
    BY <1>1, <2>1, QuietFiles, QuietBackend, QuietHeld DEF IInv
<1>3. CASE Next
  BY <1>1, <1>3, BootKeeps, BeginKeeps, CreateKeyKeeps, PromoteKeeps, UnlinkPromotedKeeps,
     DecryptKeeps, GenerateKeeps, EndsKeep, PutKeeps, StageKeeps, ReplaceKeyKeeps,
     WriteSecretsKeeps, UnlinkStagedKeeps, ReportKeeps, SwitchKeeps DEF Next
<1> QED
  BY <1>2, <1>3

(* The inductive invariant holds in every state, for any number of         *)
(* processes, credentials and keys.                                        *)
THEOREM Invariant ==
  ASSUME Careful
  PROVE  Spec => []IInv
<1>1. IInv /\ [Next]_vars => IInv'
  BY NextInv
<1> QED
  BY InitInv, <1>1, PTL DEF Spec

(* At every crash point the newest content lies in one of the two files    *)
(* under a key that a backend has, so an operator who picks the backend can*)
(* always recover it.                                                      *)
THEOREM AlwaysRecoverable ==
  ASSUME Careful
  PROVE  Spec => []Recoverable
<1>1. IInv => Recoverable
  BY DEF IInv, FilesOK, SecretsNewest, SomeKeyOpens, Recoverable
<1> QED
  BY Invariant, <1>1, PTL

(* load, read and promotion always hand out the newest content: no stored  *)
(* credential and no wallet is lost to an interrupted rotation.            *)
THEOREM NothingForgotten ==
  ASSUME Careful
  PROVE  Spec => []OpenedIsNewest
<1>1. IInv => OpenedIsNewest
  BY DEF IInv, Held, OpenedIsNewest
<1> QED
  BY Invariant, <1>1, PTL

(* A rotation or migration that reports success has left nothing that      *)
(* another key opens.                                                      *)
THEOREM RotationRetires ==
  ASSUME Careful
  PROVE  Spec => OldKeyRetired
<1> DEFINE Retires ==
      \A p \in Procs : Report(p) =>
        /\ secrets' = Encrypt(proc[p].newKey, Newest)
        /\ staged' = NoFile
        /\ keyOf'[proc[p].backend] = proc[p].newKey
<1>1. ASSUME IInv, NEW p \in Procs, Report(p)
      PROVE  /\ secrets' = Encrypt(proc[p].newKey, Newest)
             /\ staged' = NoFile
             /\ keyOf'[proc[p].backend] = proc[p].newKey
  <2>1. /\ proc[p].at = "cleaned" /\ secrets' = secrets /\ staged' = staged
        /\ keyOf' = keyOf \/ (proc[p].does = "migrate" /\ keyOf' = [keyOf EXCEPT !["file"] = NoKey])
    BY <1>1 DEF Report
  <2>2. Held(p) /\ proc[p].backend \in Backends /\ keyOf \in [Backends -> Nat]
    BY <1>1 DEF IInv, TypeOK, Process
  <2>3. proc[p].does = "migrate" => proc[p].backend = "keyring"
    BY <2>1, <2>2 DEF Held, Target
  <2> QED
    BY <2>1, <2>2, <2>3 DEF Held, Key
<1>2. IInv /\ [Next]_vars => [Retires]_vars
  BY <1>1
<1> QED
  BY Invariant, <1>2, PTL DEF Spec, OldKeyRetired
=============================================================================
