------------------------------- MODULE Vault --------------------------------
(***************************************************************************)
(* The encrypted secrets of capital/wallet.py: secrets.enc, the master key *)
(* in a file or in the OS keyring, and the rotation and migration of that  *)
(* key by way of a staged copy, secrets.enc.rotating.                      *)
(*                                                                         *)
(* Every operation holds the file lock of secrets.enc, so no other process *)
(* or thread sees its intermediate states - but a crash leaves them, and   *)
(* each write (a renamed and synced file, a keyring entry) is one step.    *)
(* A process keeps the backend it was started with; the operator edits the *)
(* configuration at any time.                                              *)
(***************************************************************************)
EXTENDS Naturals

CONSTANTS
  Procs,     (* processes and threads that use the secrets                  *)
  Creds,     (* credentials that are stored                                 *)
  MaxKeys,   (* bound: master keys generated in a behaviour                 *)
  Careful    (* the operator switches the backend only when no process runs,*)
             (* and nothing is staged or the secrets do not open with the   *)
             (* configured one                                              *)

Nobody == [nobody |-> TRUE]

ASSUME VaultAssumption ==
  /\ MaxKeys \in Nat
  /\ Careful \in BOOLEAN
  /\ Nobody \notin Procs

VARIABLES
  keyOf,     (* the master key each backend holds, NoKey for none           *)
  secrets,   (* secrets.enc                                                 *)
  staged,    (* secrets.enc.rotating                                        *)
  config,    (* wallet.master_key_backend                                   *)
  lock,      (* who holds the lock of secrets.enc                           *)
  proc,      (* what each process does                                      *)
  keys,      (* how many keys were generated: names the next                *)
  wallets,   (* history: how many wallets were generated                    *)
  stored     (* history: the credentials whose storing has returned         *)

files == <<keyOf, secrets, staged>>
vars  == <<files, config, lock, proc, keys, wallets, stored>>

Backends == {"file", "keyring"}
Ops      == {"load", "put", "rotate", "migrate"}
NoKey    == 0

(* What is encrypted: which wallet, and the credentials.                   *)
Content == [wallet: Nat, creds: SUBSET Creds]
Nothing == [wallet |-> 0, creds |-> {}]
(* A file: what it holds under which key, NoFile when it is absent.        *)
Blob    == [key: Nat, holds: Content]
NoFile  == [key |-> NoKey, holds |-> Nothing]
Encrypt(key, content) == [key |-> key, holds |-> content]

Steps == {"off", "ready", "open", "promoted", "opened", "staged", "replaced", "written", "cleaned"}
Process == [at: Steps, does: Ops, backend: Backends, read: Content, newKey: Nat]

Init ==
  /\ keyOf = [b \in Backends |-> NoKey]
  /\ secrets = NoFile
  /\ staged = NoFile
  /\ config \in Backends
  /\ lock = Nobody
  /\ proc = [p \in Procs |-> [at |-> "off", does |-> "load", backend |-> config,
                              read |-> Nothing, newKey |-> NoKey]]
  /\ keys = 0
  /\ wallets = 0
  /\ stored = {}

-----------------------------------------------------------------------------
Key(p)   == keyOf[proc[p].backend]
FreshKey == keys + 1

Goto(p, at) == /\ proc' = [proc EXCEPT ![p].at = at]
               /\ UNCHANGED lock

(* The operation ends, with or without an exception.                       *)
Finish(p, at) == /\ proc' = [proc EXCEPT ![p] = [@ EXCEPT !.at = at, !.read = Nothing, !.newKey = NoKey]]
                 /\ lock' = Nobody

(* A process starts with the configured backend and loads its wallet.      *)
Boot(p) ==
  /\ proc[p].at = "off"
  /\ lock = Nobody
  /\ lock' = p
  /\ proc' = [proc EXCEPT ![p] = [@ EXCEPT !.at = "open", !.does = "load", !.backend = config]]
  /\ UNCHANGED <<files, config, keys, wallets, stored>>

(* put_credential(), rotate_master_key() or migrate_key_store().           *)
Begin(p) ==
  /\ proc[p].at = "ready"
  /\ lock = Nobody
  /\ lock' = p
  /\ \E op \in Ops \ {"load"} :
       proc' = [proc EXCEPT ![p] = [@ EXCEPT !.at = "open", !.does = op]]
  /\ UNCHANGED <<files, config, keys, wallets, stored>>

(* get_or_create_key(): the backend has none yet.                          *)
CreateKey(p) ==
  /\ proc[p].at = "open"
  /\ Key(p) = NoKey
  /\ keys < MaxKeys
  /\ keyOf' = [keyOf EXCEPT ![proc[p].backend] = FreshKey]
  /\ keys' = FreshKey
  /\ UNCHANGED <<secrets, staged, config, lock, proc, wallets, stored>>

Opens(key, blob) == blob # NoFile /\ key = blob.key

(* Mutant: a staged copy is promoted whatever its key.                     *)
Promote_Any(p) ==
  /\ proc[p].at = "open" /\ Key(p) # NoKey
  /\ staged # NoFile
  /\ secrets' = staged
  /\ proc' = [proc EXCEPT ![p] = [@ EXCEPT !.at = "promoted", !.read = staged.holds]]
  /\ UNCHANGED <<keyOf, staged, config, lock, keys, wallets, stored>>

(* The staged copy opens: an interrupted rotation is finished.             *)
Promote(p) ==
  /\ proc[p].at = "open" /\ Key(p) # NoKey
  /\ Opens(Key(p), staged)
  /\ secrets' = staged
  /\ proc' = [proc EXCEPT ![p] = [@ EXCEPT !.at = "promoted", !.read = staged.holds]]
  /\ UNCHANGED <<keyOf, staged, config, lock, keys, wallets, stored>>

UnlinkPromoted(p) ==
  /\ proc[p].at = "promoted"
  /\ staged' = NoFile
  /\ Goto(p, "opened")
  /\ UNCHANGED <<keyOf, secrets, config, keys, wallets, stored>>

Decrypt(p) ==
  /\ proc[p].at = "open" /\ Key(p) # NoKey
  /\ ~Opens(Key(p), staged)
  /\ Opens(Key(p), secrets)
  /\ proc' = [proc EXCEPT ![p] = [@ EXCEPT !.at = "opened", !.read = secrets.holds]]
  /\ UNCHANGED <<files, config, lock, keys, wallets, stored>>

(* The first start of all: there are no secrets, a wallet is generated.    *)
Generate(p) ==
  /\ proc[p].at = "open" /\ Key(p) # NoKey
  /\ ~Opens(Key(p), staged)
  /\ secrets = NoFile
  /\ wallets' = wallets + 1
  /\ LET content == [wallet |-> wallets', creds |-> {}]
     IN  /\ secrets' = Encrypt(Key(p), content)
         /\ proc' = [proc EXCEPT ![p] = [@ EXCEPT !.at = "opened", !.read = content]]
  /\ UNCHANGED <<keyOf, staged, config, lock, keys, stored>>

(* Neither copy opens: the operation raises, and so does a starting        *)
(* process as a whole.                                                     *)
LockedOut(p) ==
  /\ proc[p].at = "open" /\ Key(p) # NoKey
  /\ ~Opens(Key(p), staged)
  /\ secrets # NoFile /\ ~Opens(Key(p), secrets)
  /\ Finish(p, IF proc[p].does = "load" THEN "off" ELSE "ready")
  /\ UNCHANGED <<files, config, keys, wallets, stored>>

Loaded(p) ==
  /\ proc[p].at = "opened" /\ proc[p].does = "load"
  /\ Finish(p, "ready")
  /\ UNCHANGED <<files, config, keys, wallets, stored>>

Put(p) ==
  /\ proc[p].at = "opened" /\ proc[p].does = "put"
  /\ \E c \in Creds :
       /\ secrets' = Encrypt(Key(p), [proc[p].read EXCEPT !.creds = @ \cup {c}])
       /\ stored' = stored \cup {c}
  /\ Finish(p, "ready")
  /\ UNCHANGED <<keyOf, staged, config, keys, wallets>>

-----------------------------------------------------------------------------
(* Rotation of the key in its backend, migration into the keyring.         *)

Target(p) == IF proc[p].does = "migrate" THEN "keyring" ELSE proc[p].backend

Stage(p) ==
  /\ proc[p].at = "opened" /\ proc[p].does \in {"rotate", "migrate"}
  /\ keys < MaxKeys
  /\ keys' = FreshKey
  /\ staged' = Encrypt(FreshKey, proc[p].read)
  /\ proc' = [proc EXCEPT ![p] = [@ EXCEPT !.at = "staged", !.newKey = FreshKey]]
  /\ UNCHANGED <<keyOf, secrets, config, lock, wallets, stored>>

ReplaceKey(p) ==
  /\ proc[p].at = "staged"
  /\ keyOf' = [keyOf EXCEPT ![Target(p)] = proc[p].newKey]
  /\ Goto(p, "replaced")
  /\ UNCHANGED <<secrets, staged, config, keys, wallets, stored>>

(* Mutant: the staged copy goes before it was copied.                      *)
WriteSecrets_Skipped(p) ==
  /\ proc[p].at = "replaced"
  /\ Goto(p, "written")
  /\ UNCHANGED <<files, config, keys, wallets, stored>>

WriteSecrets(p) ==
  /\ proc[p].at = "replaced"
  /\ secrets' = staged
  /\ Goto(p, "written")
  /\ UNCHANGED <<keyOf, staged, config, keys, wallets, stored>>

(* Mutant: the staged copy stays.                                          *)
UnlinkStaged_Kept(p) ==
  /\ proc[p].at = "written"
  /\ proc' = [proc EXCEPT ![p] = [@ EXCEPT !.at = "cleaned", !.backend = Target(p)]]
  /\ UNCHANGED <<files, config, lock, keys, wallets, stored>>

UnlinkStaged(p) ==
  /\ proc[p].at = "written"
  /\ staged' = NoFile
  /\ proc' = [proc EXCEPT ![p] = [@ EXCEPT !.at = "cleaned", !.backend = Target(p)]]
  /\ UNCHANGED <<keyOf, secrets, config, lock, keys, wallets, stored>>

(* A migration may delete the file the old key was in.                     *)
Report(p) ==
  /\ proc[p].at = "cleaned"
  /\ \/ UNCHANGED keyOf
     \/ proc[p].does = "migrate" /\ keyOf' = [keyOf EXCEPT !["file"] = NoKey]
  /\ Finish(p, "ready")
  /\ UNCHANGED <<secrets, staged, config, keys, wallets, stored>>

(* The keyring refuses, the disk is full: the operation ends half done.    *)
Raise(p) ==
  /\ proc[p].at \in {"staged", "replaced", "written"}
  /\ Finish(p, "ready")
  /\ UNCHANGED <<files, config, keys, wallets, stored>>

(* The kernel releases the lock of a process that dies.                    *)
Crash(p) ==
  /\ proc[p].at # "off"
  /\ proc' = [proc EXCEPT ![p] = [@ EXCEPT !.at = "off", !.read = Nothing, !.newKey = NoKey]]
  /\ lock' = IF lock = p THEN Nobody ELSE lock
  /\ UNCHANGED <<files, config, keys, wallets, stored>>

(* The operator edits config.yaml.                                         *)
SwitchBackend ==
  /\ Careful => /\ \A p \in Procs : proc[p].at = "off"
                /\ staged = NoFile \/ ~Opens(keyOf[config], secrets)
  /\ config' \in Backends \ {config}
  /\ UNCHANGED <<files, lock, proc, keys, wallets, stored>>

Next ==
  \/ \E p \in Procs :
       \/ Boot(p) \/ Begin(p) \/ CreateKey(p) \/ Crash(p) \/ Raise(p)
       \/ Promote(p) \/ UnlinkPromoted(p) \/ Decrypt(p) \/ Generate(p) \/ LockedOut(p)
       \/ Loaded(p) \/ Put(p)
       \/ Stage(p) \/ ReplaceKey(p) \/ WriteSecrets(p) \/ UnlinkStaged(p) \/ Report(p)
  \/ SwitchBackend

Spec == Init /\ [][Next]_vars
-----------------------------------------------------------------------------
(* Properties.                                                             *)

(* Every variable has its type, and only the holder of the lock is inside  *)
(* an operation.                                                           *)
TypeOK ==
  /\ keyOf \in [Backends -> Nat]
  /\ {secrets, staged} \subseteq Blob
  /\ config \in Backends
  /\ lock \in Procs \cup {Nobody}
  /\ proc \in [Procs -> Process]
  /\ \A p \in Procs : proc[p].at \notin {"off", "ready"} => lock = p
  /\ {keys, wallets} \subseteq Nat
  /\ stored \subseteq Creds

(* All there is to know: the one wallet and every stored credential.       *)
Newest == [wallet |-> 1, creds |-> stored]

(* At every crash point one of the two files holds the newest content      *)
(* under a key that some backend has.                                      *)
Recoverable ==
  wallets > 0 =>
    \E blob \in {secrets, staged}, b \in Backends :
      Opens(keyOf[b], blob) /\ blob.holds = Newest

(* Whoever has opened the secrets has the newest: no credential that was   *)
(* stored is forgotten, no second wallet ever replaces the first, whatever *)
(* was interrupted before.                                                 *)
OpenedIsNewest ==
  \A p \in Procs :
    proc[p].at \in {"promoted", "opened", "staged"} => proc[p].read = Newest

(* A rotation that reports success has retired the old key: no copy of the *)
(* secrets that another key opens is left.                                 *)
OldKeyRetired ==
  [][\A p \in Procs : Report(p) =>
       /\ secrets' = Encrypt(proc[p].newKey, Newest)
       /\ staged' = NoFile
       /\ keyOf'[proc[p].backend] = proc[p].newKey]_vars
=============================================================================
