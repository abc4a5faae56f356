------------------------------- MODULE Backup -------------------------------
(***************************************************************************)
(* `sovereign backup` of sovereign/backup.py beside a running engine that  *)
(* issues invoices (capital/invoice.py): a row in a transaction and a file *)
(* written before the commit.  A backup copies the database, then the      *)
(* trees, then the secrets, and seals what it has with a manifest.  One    *)
(* thread issues at a time: of two that issue the same invoice, the undo   *)
(* of the one could remove the file of the other.                          *)
(***************************************************************************)
EXTENDS Integers, FiniteSets

CONSTANTS
  Papers,     (* invoices, each a row and a file                            *)
  Stray       (* a file named master.key in a tree that is copied           *)

VARIABLES
  rows,       (* the committed invoices                                     *)
  files,      (* invoices/                                                  *)
  issue,      (* what issue() does, for which invoice                       *)
  copy,       (* what the backup does, what it has and has still to copy    *)
  seal        (* the manifest: <<>> for none                                *)

backupVars == <<rows, files, issue, copy, seal>>

NoIssue == [at |-> "idle", paper |-> "none", old |-> FALSE]
NoCopy  == [at |-> "idle", rows |-> {}, files |-> {}, todo |-> {}]

BackupInit ==
  /\ rows = {} /\ files \in SUBSET {Stray}
  /\ issue = NoIssue /\ copy = NoCopy /\ seal = <<>>

BackupTypeOK ==
  /\ rows \subseteq Papers /\ files \subseteq Papers \cup {Stray}
  /\ issue \in [at: {"idle", "row", "file", "undo"}, paper: Papers \cup {"none"}, old: BOOLEAN]
  /\ copy \in [at: {"idle", "tree", "files", "seal", "failed", "done"}, rows: SUBSET Papers,
              files: SUBSET (Papers \cup {Stray}), todo: SUBSET (Papers \cup {Stray})]
  /\ seal = <<>> \/ seal[1] \subseteq Papers \cup {Stray}

-----------------------------------------------------------------------------
(* issue(), in the engine.                                                 *)
OpenIssue(p) ==
  /\ issue = NoIssue /\ p \notin rows
  /\ issue' = [at |-> "row", paper |-> p, old |-> FALSE]
  /\ UNCHANGED <<rows, files, copy, seal>>

(* Mutant: the file follows the commit.                                    *)
WriteFile_AfterCommit ==
  \/ /\ issue.at = "row"
     /\ rows' = rows \cup {issue.paper}
     /\ issue' = [issue EXCEPT !.at = "file"]
     /\ UNCHANGED <<files, copy, seal>>
  \/ /\ issue.at = "file"
     /\ files' = files \cup {issue.paper}
     /\ issue' = NoIssue
     /\ UNCHANGED <<rows, copy, seal>>

WriteFile ==
  /\ issue.at = "row"
  /\ files' = files \cup {issue.paper}
  /\ issue' = [issue EXCEPT !.at = "file", !.old = issue.paper \in files]
  /\ UNCHANGED <<rows, copy, seal>>

CommitIssue ==
  /\ issue.at = "file"
  /\ rows' = rows \cup {issue.paper}
  /\ issue' = NoIssue
  /\ UNCHANGED <<files, copy, seal>>

(* The database refuses: the transaction is undone, then the file, which   *)
(* an issue that died may have left there before.                          *)
UndoIssue ==
  \/ /\ issue.at = "file"
     /\ issue' = [issue EXCEPT !.at = "undo"]
     /\ UNCHANGED <<rows, files, copy, seal>>
  \/ /\ issue.at = "undo"
     /\ files' = IF issue.old THEN files ELSE files \ {issue.paper}
     /\ issue' = NoIssue
     /\ UNCHANGED <<rows, copy, seal>>

(* The engine dies; a file may stay that has no row.                       *)
EngineDies ==
  /\ issue # NoIssue
  /\ issue' = NoIssue
  /\ UNCHANGED <<rows, files, copy, seal>>

-----------------------------------------------------------------------------
(* create_backup(), in a process of its own.                               *)

(* The snapshot is one of the committed state.                             *)
SnapshotDb ==
  /\ copy.at = "idle"
  /\ copy' = [copy EXCEPT !.at = "tree", !.rows = rows]
  /\ UNCHANGED <<rows, files, issue, seal>>

ListTree ==
  /\ copy.at = "tree"
  /\ copy' = [copy EXCEPT !.at = "files", !.todo = files]
  /\ UNCHANGED <<rows, files, issue, seal>>

(* A file that is gone by now makes the backup fail.                       *)
CopyFile(f) ==
  /\ copy.at = "files" /\ f \in copy.todo
  /\ copy' = IF f \in files
             THEN [copy EXCEPT !.todo = @ \ {f}, !.files = @ \cup {f}]
             ELSE [copy EXCEPT !.at = "failed", !.todo = {}]
  /\ UNCHANGED <<rows, files, issue, seal>>

(* A master key that rode along is removed, and the backup refused.        *)
Scrub ==
  /\ copy.at = "files" /\ copy.todo = {}
  /\ copy' = IF Stray \in copy.files
             THEN [copy EXCEPT !.at = "failed", !.files = @ \ {Stray}]
             ELSE [copy EXCEPT !.at = "seal"]
  /\ UNCHANGED <<rows, files, issue, seal>>

SealBackup ==
  /\ copy.at = "seal"
  /\ seal' = <<copy.files>>
  /\ copy' = [copy EXCEPT !.at = "done"]
  /\ UNCHANGED <<rows, files, issue>>

BackupDies ==
  /\ copy.at \in {"tree", "files", "seal"}
  /\ copy' = [copy EXCEPT !.at = "failed", !.todo = {}]
  /\ UNCHANGED <<rows, files, issue, seal>>

(* The next backup goes to an empty directory of its own.                  *)
NextBackup ==
  /\ copy.at \in {"failed", "done"}
  /\ copy' = NoCopy /\ seal' = <<>>
  /\ UNCHANGED <<rows, files, issue>>

BackupNext ==
  \/ \E p \in Papers : OpenIssue(p)
  \/ WriteFile \/ CommitIssue \/ UndoIssue \/ EngineDies
  \/ \E f \in Papers \cup {Stray} : CopyFile(f)
  \/ SnapshotDb \/ ListTree \/ Scrub \/ SealBackup \/ BackupDies \/ NextBackup

BackupSpec == BackupInit /\ [][BackupNext]_backupVars
-----------------------------------------------------------------------------
(* Properties.                                                             *)

(* verify_backup(): there is a manifest, and it says what is there.        *)
Verified == seal # <<>> /\ seal[1] = copy.files

(* A backup that verifies can be restored: each invoice its database knows *)
(* has its file, whatever the engine issued, undid or left undone while it *)
(* was made; and it never holds the key that opens its secrets.            *)
BackupIsWhole == Verified => copy.rows \subseteq copy.files /\ Stray \notin copy.files
=============================================================================
