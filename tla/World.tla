------------------------------- MODULE World --------------------------------
(***************************************************************************)
(* Processes that boot a world on one data directory (engine/world.py,     *)
(* engine/daemon.py, engine/heartbeat.py, heal/repair.py): engines, which  *)
(* take the engine lock and tick, and commands, which do not.  Each loads  *)
(* the snapshot "meta", works on its own copy of it and writes it back as  *)
(* a whole.  The marker "tick_start" says which tick was begun last.       *)
(***************************************************************************)
EXTENDS EngineLock, Governance, Sequences

CONSTANTS
  Flaky,     (* the roles that may raise or time out                        *)
  MaxTicks,  (* bound: ticks that are begun                                 *)
  Quiet      (* no command boots while an engine is about to take the lock  *)

ASSUME WorldAssumption ==
  /\ Engines \cap Commands = {}
  /\ Flaky \subseteq Agents
  /\ {Cooldown, MaxTicks, MaxFiles} \subseteq Nat
  /\ Quiet \in BOOLEAN

VARIABLES
  mode,       (* of the data directory                                      *)
  meta,       (* the snapshot in the database                               *)
  marker,     (* tick_start                                                 *)
  at,         (* what each process does                                     *)
  agenda,     (* the next role of the heartbeat, 0 outside a tick           *)
  mem,        (* its copy of the world                                      *)
  begun,      (* history: the greatest tick number begun                    *)
  persisted   (* history: the last tick whose end was written to meta       *)

dataVars  == <<mode, meta, marker, at, agenda, mem, begun, persisted>>
worldVars == <<lockVars, dataVars>>

(* Five of sixteen roles, in the order of the heartbeat.                   *)
Pipeline == <<"mechanic", "risk", "ethics", "trader", "operator">>

(* The agenda of an engine that calls setup() outside a tick.              *)
Recovering == Len(Pipeline) + 1

Booting == {"loading", "marking", "diagnosing", "probing", "stale", "healed"}
Places  == Booting \cup {"off", "locking", "ready", "roles", "closing"}

DataInit ==
  /\ mode \in Modes
  /\ meta = Fresh
  /\ marker = [tick |-> 0, status |-> "completed"]
  /\ at = [p \in Processes |-> "off"]
  /\ agenda = [p \in Processes |-> 0]
  /\ mem = [p \in Processes |-> Fresh]
  /\ begun = 0
  /\ persisted = 0

WorldInit == LockInit /\ DataInit

(* The types; an engine past the lock holds it, and only engines tick.     *)
WorldTypeOK ==
  /\ LockTypeOK
  /\ holds = {e \in Engines : at[e] \notin {"off", "locking"}}
  /\ \A c \in Commands : at[c] \in Booting \cup {"off", "ready"}
  /\ mode \in Modes
  /\ meta \in Memory
  /\ marker \in [tick: Nat, status: {"started", "completed"}]
  /\ at \in [Processes -> Places]
  /\ agenda \in [Processes -> 0..Recovering]
  /\ mem \in [Processes -> Memory]
  /\ {begun, persisted} \subseteq Nat

-----------------------------------------------------------------------------
Proceed(p, from, to) == at[p] = from /\ at' = [at EXCEPT ![p] = to]
SameData == UNCHANGED <<mode, meta, marker, agenda, mem, begun, persisted>>
Remember(p, m) == mem' = [mem EXCEPT ![p] = m]

(* serve() and run take the lock before anything else.                     *)
OpenLock(e) ==
  /\ Quiet => \A c \in Commands : at[c] \notin Booting
  /\ OpenFile(e)
  /\ Proceed(e, "off", "locking")
  /\ SameData

TakeLock(e) ==
  /\ \/ Granted(e) /\ Proceed(e, "locking", "loading")
     \/ Refused(e) /\ Proceed(e, "locking", "off")
  /\ SameData

StartCommand(c) ==
  /\ Quiet => \A e \in Engines : at[e] # "locking"
  /\ Proceed(c, "off", "loading")
  /\ SameData /\ UNCHANGED lockVars

(* bootstrap(): load_kv() reads meta, then the marker.                     *)
LoadMeta(p) ==
  /\ Proceed(p, "loading", "marking")
  /\ Remember(p, meta)
  /\ UNCHANGED <<lockVars, mode, meta, marker, agenda, begun, persisted>>

ResumeTickMarker(p) ==
  /\ Proceed(p, "marking", "diagnosing")
  /\ Remember(p, [mem[p] EXCEPT !.tick = IF marker.tick > @ THEN marker.tick ELSE @])
  /\ UNCHANGED <<lockVars, mode, meta, marker, agenda, begun, persisted>>

(* setup(): of its repairs the one of the lock file.                       *)
Diagnose(p) ==
  /\ \/ LooksFine(p) /\ Proceed(p, "diagnosing", "healed")
     \/ ProbeStale(p) /\ Proceed(p, "diagnosing", "probing")
  /\ SameData

FoundStale(p) == EndProbe(p) /\ Proceed(p, "probing", "stale") /\ SameData
RepairLock(p) == UnlinkStale(p) /\ Proceed(p, "stale", "healed") /\ SameData

(* The end of bootstrap(), persist_kv().  serve(), setup and doctor call   *)
(* setup() once more.                                                      *)
Booted(p) ==
  /\ agenda[p] = 0
  /\ \/ Proceed(p, "healed", "ready") /\ UNCHANGED agenda
     \/ Proceed(p, "healed", "diagnosing") /\ agenda' = [agenda EXCEPT ![p] = Recovering]
  /\ meta' = mem[p]
  /\ UNCHANGED <<lockVars, mode, marker, mem, begun, persisted>>

Recovered(p) ==
  /\ Proceed(p, "healed", "ready")
  /\ agenda[p] = Recovering
  /\ agenda' = [agenda EXCEPT ![p] = 0]
  /\ UNCHANGED <<lockVars, mode, meta, marker, mem, begun, persisted>>

(* A command persists once more when its work is done.                     *)
PersistAgain(c) ==
  /\ Proceed(c, "ready", "ready")
  /\ meta' = mem[c]
  /\ UNCHANGED <<lockVars, mode, marker, agenda, mem, begun, persisted>>

(* The process returns, is stopped, or dies.                               *)
Leave(p) ==
  /\ at[p] # "off"
  /\ at' = [at EXCEPT ![p] = "off"]
  /\ agenda' = [agenda EXCEPT ![p] = 0]
  /\ Remember(p, Fresh)
  /\ Dropped(p)
  /\ UNCHANGED <<mode, meta, marker, begun, persisted>>

-----------------------------------------------------------------------------
(* A tick.                                                                 *)

(* Mutant: the marker is written only when the tick is completed.          *)
StartTick_Unmarked(e) ==
  /\ begun < MaxTicks
  /\ Proceed(e, "ready", "roles")
  /\ LET tick == (IF marker.tick > mem[e].tick THEN marker.tick ELSE mem[e].tick) + 1
     IN  /\ Remember(e, [mem[e] EXCEPT !.tick = tick])
         /\ begun' = IF tick > begun THEN tick ELSE begun
  /\ agenda' = [agenda EXCEPT ![e] = 1]
  /\ UNCHANGED <<lockVars, mode, meta, marker, persisted>>

StartTick(e) ==
  /\ begun < MaxTicks
  /\ Proceed(e, "ready", "roles")
  /\ LET tick == (IF marker.tick > mem[e].tick THEN marker.tick ELSE mem[e].tick) + 1
     IN  /\ Remember(e, [mem[e] EXCEPT !.tick = tick])
         /\ marker' = [tick |-> tick, status |-> "started"]
         /\ begun' = IF tick > begun THEN tick ELSE begun
  /\ agenda' = [agenda EXCEPT ![e] = 1]
  /\ UNCHANGED <<lockVars, mode, meta, persisted>>

Turn(e, agent) ==
  /\ agenda[e] \in DOMAIN Pipeline /\ Pipeline[agenda[e]] = agent
  /\ agenda' = [agenda EXCEPT ![e] = @ + 1]

(* The role of an agent has run and left m.                                *)
Done(e, agent, m) ==
  /\ Proceed(e, IF agent = "mechanic" THEN "healed" ELSE "roles", "roles")
  /\ ~Frozen(mem[e], agent)
  /\ Turn(e, agent)
  /\ Remember(e, m)
  /\ UNCHANGED <<lockVars, mode, meta, marker, begun, persisted>>

SkipFrozen(e) ==
  /\ Proceed(e, "roles", "roles")
  /\ \E a \in Agents : Frozen(mem[e], a) /\ Turn(e, a)
  /\ UNCHANGED <<lockVars, mode, meta, marker, mem, begun, persisted>>

(* The mechanic begins with setup().                                       *)
MechanicHeals(e) ==
  /\ Proceed(e, "roles", "diagnosing")
  /\ agenda[e] = 1 /\ ~Frozen(mem[e], "mechanic")
  /\ SameData /\ UNCHANGED lockVars

Mechanic(e) == \E lifted \in SUBSET {a \in Agents : mem[e].score[a] = "low"} :
                 Done(e, "mechanic", Cooled(mem[e], lifted, mode))
Risk(e)     == \E losing \in BOOLEAN : Done(e, "risk", RiskRole(mem[e], losing, mode))
Ethics(e)   == \E leak, low \in BOOLEAN : Done(e, "ethics", EthicsRole(mem[e], leak, low))
Others(e)   == \E a \in {"trader", "operator"} : Done(e, a, mem[e])
RoleFails(e) == \E a \in Flaky, low \in BOOLEAN : Done(e, a, Failed(mem[e], a, low))

(* Mutant: the marker is completed before the world is persisted.          *)
PersistTick_Late(e) ==
  /\ agenda[e] > Len(Pipeline)
  /\ Proceed(e, "roles", "closing")
  /\ marker' = [tick |-> mem[e].tick, status |-> "completed"]
  /\ UNCHANGED <<lockVars, mode, meta, agenda, mem, begun, persisted>>

(* step() persists the world, then completes the marker.                   *)
PersistTick(e) ==
  /\ agenda[e] > Len(Pipeline)
  /\ Proceed(e, "roles", "closing")
  /\ meta' = mem[e]
  /\ persisted' = mem[e].tick
  /\ UNCHANGED <<lockVars, mode, marker, agenda, mem, begun>>

FinishTick(e) ==
  /\ Proceed(e, "closing", "ready")
  /\ marker' = [tick |-> mem[e].tick, status |-> "completed"]
  /\ agenda' = [agenda EXCEPT ![e] = 0]
  /\ UNCHANGED <<lockVars, mode, meta, mem, begun, persisted>>

(* step() itself raises: serve() heals and ticks again with what it has.   *)
TickFails(e) ==
  /\ at[e] \in {"roles", "closing"}
  /\ at' = [at EXCEPT ![e] = "diagnosing"]
  /\ agenda' = [agenda EXCEPT ![e] = Recovering]
  /\ UNCHANGED <<lockVars, mode, meta, marker, mem, begun, persisted>>

Tick(e) ==
  \/ StartTick(e) \/ SkipFrozen(e) \/ MechanicHeals(e) \/ Mechanic(e) \/ Risk(e)
  \/ Ethics(e) \/ Others(e) \/ RoleFails(e) \/ PersistTick(e) \/ FinishTick(e)
  \/ TickFails(e)

Bootstrap(p) == \/ LoadMeta(p) \/ ResumeTickMarker(p) \/ Diagnose(p) \/ FoundStale(p)
                \/ RepairLock(p) \/ Booted(p) \/ Recovered(p)

WorldNext ==
  \/ \E e \in Engines : OpenLock(e) \/ TakeLock(e) \/ Tick(e)
  \/ \E c \in Commands : StartCommand(c) \/ PersistAgain(c)
  \/ \E p \in Processes : Bootstrap(p) \/ Leave(p)

WorldSpec == WorldInit /\ [][WorldNext]_worldVars
-----------------------------------------------------------------------------
(* Properties.                                                             *)

(* Two hearts do not beat: of all engines at most one is past the lock,    *)
(* whatever other processes repair.                                        *)
OneHeart ==
  \A d, e \in Engines :
    at[d] \notin {"off", "locking"} /\ at[e] \notin {"off", "locking"} => d = e

(* A tick number is used once: a tick that a crash cut short, or a command *)
(* that wrote an older snapshot back, does not bring one back.             *)
TicksUnique == [][\A e \in Engines : StartTick(e) => mem'[e].tick > begun]_worldVars

(* The marker calls a tick completed only when the world it left was       *)
(* persisted, at whatever step the engine dies.                            *)
CompletedIsPersisted == marker.status = "completed" => persisted >= marker.tick

(* In every copy of the world that is in use, and in the database, the     *)
(* trader is frozen as by the circuit breaker exactly while the broker is  *)
(* halted: it neither trades through a halt nor stays frozen after it.     *)
TraderFollowsBroker == \A m \in {meta} \cup {mem[p] : p \in Processes} : HaltMatchesFreeze(m)
=============================================================================
