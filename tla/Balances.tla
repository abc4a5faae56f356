------------------------------ MODULE Balances ------------------------------
(***************************************************************************)
(* The cached balances of sovereign/capital/ledger.py over the versions    *)
(* and transactions of memory/store.py, and the spending that relies on    *)
(* them (capital/treasury.py).  The threads of a process share one         *)
(* connection, one cache and one re-entrant lock, which a transaction      *)
(* keeps to its end.  Other processes commit income of their own.          *)
(***************************************************************************)
EXTENDS Integers

CONSTANTS
  Callers,     (* threads of the daemon that use the ledger                 *)
  Genesis,     (* operating cash to begin with                              *)
  MaxRevision, (* bound: rows posted and transactions undone                *)
  MaxExternal  (* bound: commits of other processes                         *)

ASSUME BalancesAssumption ==
  {Genesis, MaxRevision, MaxExternal} \subseteq Nat /\ "nobody" \notin Callers

VARIABLES
  cash,        (* what the committed rows add up to                         *)
  tx,          (* the open transaction: whose, and what its rows add up to  *)
  revision,    (* _ledger_revision                                          *)
  external,    (* PRAGMA data_version                                       *)
  cache,       (* _bal_cache                                                *)
  stamp,       (* _bal_cache_version                                        *)
  call         (* what each thread does                                     *)

balancesVars == <<cash, tx, revision, external, cache, stamp, call>>

Unknown == <<>>      (* a cache or a stamp that holds nothing; else <<x>>    *)
NoTx    == [of |-> "nobody", sum |-> 0]
Version == <<revision, external>>
NoCall  == [at |-> "idle", pays |-> FALSE, before |-> <<0, 0>>, after |-> <<0, 0>>,
            sum |-> 0, tries |-> 0]

BalancesInit ==
  /\ cash = Genesis /\ tx = NoTx
  /\ revision = 0 /\ external = 0
  /\ cache = Unknown /\ stamp = Unknown
  /\ call = [t \in Callers |-> NoCall]

BalancesTypeOK ==
  /\ {cash, tx.sum} \subseteq Int /\ tx.of \in Callers \cup {"nobody"}
  /\ revision \in 0..MaxRevision /\ external \in 0..MaxExternal
  /\ cache = Unknown \/ cache[1] \in Int
  /\ stamp = Unknown \/ stamp[1] \in Nat \X Nat
  /\ \A t \in Callers :
       /\ call[t].at \in {"idle", "cached?", "before", "sum", "after", "keep", "stamp",
                          "decide", "post"}
       /\ call[t].tries \in 0..3 /\ call[t].pays \in BOOLEAN

(* The store's lock is free, or thread t holds it.                         *)
Locks(t) == tx.of \in {t, "nobody"}
Sum(t)   == cash + (IF tx.of = t THEN tx.sum ELSE 0)
Goes(t, from, to) == call[t].at = from /\ call' = [call EXCEPT ![t].at = to]

-----------------------------------------------------------------------------
(* Store: transactions and rows.                                           *)

OpenTx(t) ==
  /\ tx = NoTx /\ call[t].at = "idle"
  /\ tx' = [of |-> t, sum |-> 0]
  /\ UNCHANGED <<cash, revision, external, cache, stamp, call>>

Insert(t, amount) ==
  /\ Locks(t) /\ revision < MaxRevision
  /\ revision' = revision + 1
  /\ IF tx.of = t
     THEN tx' = [tx EXCEPT !.sum = @ + amount] /\ UNCHANGED cash
     ELSE cash' = cash + amount /\ UNCHANGED tx

CommitTx(t) ==
  /\ tx.of = t /\ call[t].at = "idle"
  /\ cash' = cash + tx.sum /\ tx' = NoTx
  /\ UNCHANGED <<revision, external, cache, stamp, call>>

Rollback(t) ==
  /\ revision < MaxRevision
  /\ tx.of = t /\ call[t].at = "idle"
  /\ tx' = NoTx /\ revision' = revision + 1
  /\ UNCHANGED <<cash, external, cache, stamp, call>>

(* Another process settles an invoice; never while a transaction is open.  *)
OtherProcess ==
  /\ tx = NoTx /\ external < MaxExternal
  /\ external' = external + 1 /\ cash' = cash + 1
  /\ UNCHANGED <<tx, revision, cache, stamp, call>>

-----------------------------------------------------------------------------
(* Ledger.                                                                 *)

(* post(): drop the cache, then insert a row.                              *)
StartPost(t) ==
  /\ Goes(t, "idle", "post")
  /\ cache' = Unknown /\ stamp' = Unknown
  /\ UNCHANGED <<cash, tx, revision, external>>

FinishPost(t) ==
  /\ Insert(t, IF call[t].pays THEN -1 ELSE 1)
  /\ call[t].at = "post" /\ call' = [call EXCEPT ![t] = NoCall]
  /\ UNCHANGED <<external, cache, stamp>>

(* balances(): for its own sake or to decide whether to pay.               *)
AskBalance(t, pays) ==
  /\ call[t].at = "idle" /\ Locks(t)
  /\ pays => tx = NoTx
  /\ call' = [call EXCEPT ![t] = [NoCall EXCEPT !.at = "cached?", !.pays = pays,
                                                !.before = Version]]
  /\ UNCHANGED <<cash, tx, revision, external, cache, stamp>>

Answer(t, amount) == call' = [call EXCEPT ![t] = [NoCall EXCEPT !.at = "decide", !.sum = amount,
                                                     !.pays = call[t].pays]]

TryCache(t) ==
  /\ call[t].at = "cached?"
  /\ IF cache # Unknown /\ stamp = <<call[t].before>>
     THEN Answer(t, cache[1])
     ELSE Goes(t, "cached?", "before")
  /\ UNCHANGED <<cash, tx, revision, external, cache, stamp>>

ReadBefore(t) ==
  /\ Locks(t) /\ call[t].at = "before"
  /\ call' = [call EXCEPT ![t].at = "sum", ![t].before = Version]
  /\ UNCHANGED <<cash, tx, revision, external, cache, stamp>>

ReadSum(t) ==
  /\ Locks(t) /\ call[t].at = "sum"
  /\ call' = [call EXCEPT ![t].at = "after", ![t].sum = Sum(t)]
  /\ UNCHANGED <<cash, tx, revision, external, cache, stamp>>

(* Mutant: whatever was summed is stamped with the version read last.      *)
ReadAfter_Trusting(t) ==
  /\ Locks(t) /\ call[t].at = "after"
  /\ call' = [call EXCEPT ![t].at = "keep", ![t].after = Version]
  /\ UNCHANGED <<cash, tx, revision, external, cache, stamp>>

(* Three tries; after the last one the sum is returned but not kept.       *)
ReadAfter(t) ==
  /\ Locks(t) /\ call[t].at = "after"
  /\ \/ /\ Version = call[t].before
        /\ call' = [call EXCEPT ![t].at = "keep", ![t].after = Version]
        /\ UNCHANGED <<cache, stamp>>
     \/ /\ Version # call[t].before /\ call[t].tries < 2
        /\ call' = [call EXCEPT ![t].at = "before", ![t].tries = @ + 1]
        /\ UNCHANGED <<cache, stamp>>
     \/ /\ Version # call[t].before /\ call[t].tries = 2
        /\ cache' = Unknown /\ stamp' = Unknown
        /\ Answer(t, call[t].sum)
  /\ UNCHANGED <<cash, tx, revision, external>>

KeepSum(t) ==
  /\ Goes(t, "keep", "stamp")
  /\ cache' = <<call[t].sum>>
  /\ UNCHANGED <<cash, tx, revision, external, stamp>>

StampSum(t) ==
  /\ call[t].at = "stamp"
  /\ stamp' = <<call[t].after>>
  /\ Answer(t, call[t].sum)
  /\ UNCHANGED <<cash, tx, revision, external, cache>>

(* can_spend() and pay(): the posting is a step of its own.                *)
Decide(t) ==
  /\ call[t].at = "decide"
  /\ \/ /\ call[t].pays /\ call[t].sum >= 1
        /\ call' = [call EXCEPT ![t].at = "post"]
        /\ cache' = Unknown /\ stamp' = Unknown
     \/ /\ ~call[t].pays \/ call[t].sum < 1
        /\ call' = [call EXCEPT ![t] = NoCall]
        /\ UNCHANGED <<cache, stamp>>
  /\ UNCHANGED <<cash, tx, revision, external>>

BalancesNext ==
  \/ \E t \in Callers :
       \/ OpenTx(t) \/ CommitTx(t) \/ Rollback(t)
       \/ StartPost(t) \/ FinishPost(t)
       \/ \E pays \in BOOLEAN : AskBalance(t, pays)
       \/ TryCache(t) \/ ReadBefore(t) \/ ReadSum(t) \/ ReadAfter(t)
       \/ KeepSum(t) \/ StampSum(t) \/ Decide(t)
  \/ OtherProcess

BalancesSpec == BalancesInit /\ [][BalancesNext]_balancesVars
-----------------------------------------------------------------------------
(* Properties.                                                             *)

(* A cache that the next reader would trust is right: neither a commit of  *)
(* another process nor a transaction that is undone leaves an old one.     *)
CacheSound ==
  cache # Unknown /\ stamp = <<Version>> =>
    cache[1] = cash + (IF tx = NoTx THEN 0 ELSE tx.sum)

(* The firm never spends cash it does not have.                            *)
Solvent == cash >= 0

(* What is spent is there, and what is read is true.                       *)
CashIsReal == CacheSound /\ Solvent
=============================================================================
