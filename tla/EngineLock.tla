----------------------------- MODULE EngineLock -----------------------------
(***************************************************************************)
(* data/engine.lock (engine/daemon.py FileLock) and the repair of a stale  *)
(* one (heal/checks.py _stale_lock, heal/repair.py).  flock locks a file,  *)
(* not its name: a name may go while the file is open, and come back as    *)
(* another file.  Files are numbered in the order they are created.        *)
(***************************************************************************)
EXTENDS Naturals

CONSTANTS
  Engines,   (* processes that serve or run                                 *)
  Commands,  (* other processes that boot a world: accept, setup, reply ... *)
  MaxFiles   (* bound: how often the file is created                        *)

Processes == Engines \cup Commands
Absent    == 0

VARIABLES
  name,    (* the file engine.lock names, Absent when it is absent         *)
  created, (* how many were created                                        *)
  open,    (* the file each engine has open                                *)
  holds,   (* the engines whose flock was granted                          *)
  probe    (* the file each process has locked to see whether it is stale  *)

lockVars == <<name, created, open, holds, probe>>

LockInit ==
  /\ name = Absent
  /\ created = 0
  /\ open = [e \in Engines |-> Absent]
  /\ holds = {}
  /\ probe = [p \in Processes |-> Absent]

LockTypeOK ==
  /\ name \in 0..created
  /\ created \in Nat
  /\ open \in [Engines -> 0..created]
  /\ holds \subseteq Engines
  /\ probe \in [Processes -> 0..created]

Locked(f) == \/ \E e \in holds : open[e] = f
             \/ \E p \in Processes : probe[p] = f

(* acquire(): open with "a+", then flock without waiting.                  *)
OpenFile(e) ==
  /\ name = Absent => created < MaxFiles
  /\ created' = IF name = Absent THEN created + 1 ELSE created
  /\ name' = IF name = Absent THEN created' ELSE name
  /\ open' = [open EXCEPT ![e] = name']
  /\ UNCHANGED <<holds, probe>>

Granted(e) ==
  /\ ~Locked(open[e])
  /\ holds' = holds \cup {e}
  /\ UNCHANGED <<name, created, open, probe>>

Refused(e) ==
  /\ Locked(open[e])
  /\ open' = [open EXCEPT ![e] = Absent]
  /\ UNCHANGED <<name, created, holds, probe>>

(* release(), or the end of the process.  The file stays.                  *)
Dropped(p) ==
  /\ open' = [e \in Engines |-> IF e = p THEN Absent ELSE open[e]]
  /\ holds' = holds \ {p}
  /\ probe' = [probe EXCEPT ![p] = Absent]
  /\ UNCHANGED <<name, created>>

(* _stale_lock(): no file, or one that is locked, is fine.                 *)
LooksFine(p) ==
  /\ name = Absent \/ Locked(name)
  /\ UNCHANGED lockVars

(* Mutant: a file that is locked is taken for stale too.                   *)
ProbeStale_Any(p) ==
  /\ name # Absent
  /\ probe' = [probe EXCEPT ![p] = name]
  /\ UNCHANGED <<name, created, open, holds>>

ProbeStale(p) ==
  /\ name # Absent /\ ~Locked(name)
  /\ probe' = [probe EXCEPT ![p] = name]
  /\ UNCHANGED <<name, created, open, holds>>

EndProbe(p) ==
  /\ probe' = [probe EXCEPT ![p] = Absent]
  /\ UNCHANGED <<name, created, open, holds>>

(* apply_repair("stale_lock").                                             *)
UnlinkStale(p) ==
  /\ name' = Absent
  /\ UNCHANGED <<created, open, holds, probe>>
=============================================================================
