------------------------------- MODULE Bridge --------------------------------
(***************************************************************************)
(* The bridge to external MCP servers: mcp/registry.py, mcp/client.py and  *)
(* mcp/transport.py behind mcp.list and mcp.call of tools/catalog.py.      *)
(*                                                                         *)
(* Roles share one registry.  It makes the client of a server when it is   *)
(* first asked for; the client's transport connects at its first use, on a *)
(* thread with an event loop of its own, and the tick closes them all.  A  *)
(* role that was left behind uses the registry beside the next ones, and   *)
(* beside the end of the tick.                                             *)
(***************************************************************************)
EXTENDS Integers

CONSTANTS
  Servers,      (* servers of the configuration                             *)
  Users,        (* threads that run roles                                   *)
  CallsPerTick, (* calls_per_tick of each server                            *)
  MaxBuilt      (* bound on the transports that are made                    *)

ASSUME BridgeAssumption == CallsPerTick \in Nat /\ MaxBuilt \in Nat

VARIABLES
  sdk,          (* whether the optional package is installed                *)
  late,         (* whether roles are left behind in this behaviour          *)
  client,       (* the registry's clients, each named by its transport      *)
  barred,       (* registry._failed: servers that could not be set up       *)
  charged,      (* the calls counted for this tick                          *)
  built,        (* the transports made so far: their number                 *)
  transport,    (* their fields                                             *)
  task,         (* the session task of each, on its loop                    *)
  user,         (* what each role does in the registry                      *)
  inTick,       (* between start_tick() and the end of finish_tick()        *)
  closing       (* the transports that this end has still to close          *)

given      == <<sdk, late>>
registry   == <<client, barred, charged, built>>
wires      == <<transport, task>>
ending     == <<inTick, closing>>
bridgeVars == <<given, registry, wires, user, ending>>

None       == 0
Transports == 1..MaxBuilt
Absent     == [at |-> "", server |-> None, on |-> None, kind |-> "list"]

(* A transport: the lock's holder, whether it is closed, has a loop and a  *)
(* session, and whether its client knows the server's tools.  Of a task:   *)
(* it connects, holds the session open, or is over.                        *)
Unconnected == [lock |-> None, closed |-> FALSE, loop |-> FALSE, session |-> FALSE,
                tools |-> FALSE]

BridgeInit ==
  /\ sdk \in BOOLEAN /\ late \in BOOLEAN
  /\ client = [s \in Servers |-> None] /\ barred = {}
  /\ charged = [s \in Servers |-> 0]
  /\ built = 0
  /\ transport = [i \in Transports |-> Unconnected]
  /\ task = [i \in Transports |-> "none"]
  /\ user = [u \in Users |-> Absent]
  /\ inTick = TRUE /\ closing = {}

-----------------------------------------------------------------------------
(* The registry.                                                           *)

(* A role that was left behind may ask at any time.                        *)
Unused == \A u \in Users : user[u] = Absent
Turn(u) == user[u] = Absent /\ (late \/ (inTick /\ Unused))

(* mcp.call: the charge comes before anything can fail.  Reading the guard *)
(* and writing it back is one step here.                                   *)
AskCall(u, s) ==
  /\ Turn(u) /\ charged[s] < CallsPerTick
  /\ charged' = [charged EXCEPT ![s] = @ + 1]
  /\ user' = [user EXCEPT ![u] =
                [Absent EXCEPT !.at = "find", !.server = s, !.kind = "call"]]
  /\ UNCHANGED <<given, wires, ending, client, barred, built>>

(* mcp.list asks each permitted server; a model of one is a model of each. *)
AskList(u, s) ==
  /\ Turn(u)
  /\ user' = [user EXCEPT ![u] = [Absent EXCEPT !.at = "find", !.server = s]]
  /\ UNCHANGED <<given, registry, wires, ending>>

Leave(u) == user' = [user EXCEPT ![u] = Absent]
Step(u, where) == user' = [user EXCEPT ![u].at = where]

(* Known to have failed, or not for this caller; cached; or to be made.    *)
FindClient(u) ==
  LET s == user[u].server
  IN  /\ user[u].at = "find"
      /\ \/ (s \in barred \/ (client[s] # None /\ user[u].kind = "call"))
            /\ Leave(u)
         \/ /\ s \notin barred /\ client[s] # None
            /\ user' = [user EXCEPT ![u].at = "use", ![u].on = client[s]]
         \/ s \notin barred /\ client[s] = None /\ Step(u, "make")
      /\ UNCHANGED <<given, registry, wires, ending>>

(* The SDK is missing, or the transport is there, not connected.  Another  *)
(* thread may have made one since.                                         *)
MakeClient(u) ==
  LET s == user[u].server
  IN  /\ user[u].at = "make"
      /\ \/ ~sdk /\ barred' = barred \cup {s} /\ Leave(u) /\ UNCHANGED <<client, built>>
         \/ /\ sdk /\ built < MaxBuilt
            /\ built' = built + 1
            /\ client' = [client EXCEPT ![s] = built']
            /\ user' = [user EXCEPT ![u].at = "use", ![u].on = built']
            /\ UNCHANGED barred
      /\ UNCHANGED <<given, wires, ending, charged>>

-----------------------------------------------------------------------------
(* The transport: _ensure_session() under its lock, _submit() without.     *)

Cleared(t) == [t EXCEPT !.loop = FALSE, !.session = FALSE]

(* Mutant: a transport that was closed connects again.                     *)
MayConnect_Closed(t) == ~t.session

MayConnect(t) == ~t.closed /\ ~t.session

Ensure(u) ==
  LET i == user[u].on
  IN  /\ user[u].at = "use" /\ transport[i].lock = None
      /\ \/ transport[i].closed /\ Leave(u) /\ UNCHANGED wires
         \/ /\ ~transport[i].closed /\ transport[i].session
            /\ Step(u, "submit") /\ UNCHANGED wires
         \/ /\ MayConnect(transport[i])
            /\ transport' = [transport EXCEPT ![i].lock = u, ![i].loop = TRUE]
            /\ task' = [task EXCEPT ![i] = "connects"]
            /\ Step(u, "wait")
      /\ UNCHANGED <<given, registry, ending>>

(* On the loop's thread.  The session is stored whoever still waits for it.*)
Connected(i) ==
  /\ task[i] = "connects"
  /\ task' = [task EXCEPT ![i] = "open"]
  /\ transport' = [transport EXCEPT ![i].session = TRUE]
  /\ UNCHANGED <<given, registry, ending, user>>

Refused(i) ==
  /\ task[i] = "connects"
  /\ task' = [task EXCEPT ![i] = "over"]
  /\ UNCHANGED <<given, registry, ending, transport, user>>

(* The session is there; or the server refused it or was too slow, and     *)
(* the connection is taken down.                                           *)
Waited(u) ==
  LET i == user[u].on
  IN  /\ user[u].at = "wait"
      /\ \/ /\ task[i] = "open"
            /\ transport' = [transport EXCEPT ![i].lock = None]
            /\ Step(u, "submit")
         \/ /\ task[i] # "open"
            /\ transport' = [transport EXCEPT ![i] = Cleared(@)]
            /\ Step(u, "stop")
      /\ UNCHANGED <<given, registry, ending, task>>

(* The task gets some seconds to end, then its loop is stopped.            *)
Stopped(u) ==
  LET i == user[u].on
  IN  /\ user[u].at = "stop"
      /\ task' = [task EXCEPT ![i] = "over"]
      /\ transport' = [transport EXCEPT ![i].lock = None]
      /\ Leave(u)
      /\ UNCHANGED <<given, registry, ending>>

(* The request is answered, or fails, or takes too long, or finds no loop. *)
Submit(u) ==
  LET i == user[u].on
  IN  /\ user[u].at = "submit"
      /\ \/ /\ transport[i].loop /\ task[i] = "open"
            /\ transport' = [transport EXCEPT ![i].tools = TRUE]
            /\ IF user[u].kind = "call" /\ ~transport[i].tools
               THEN Step(u, "use")
               ELSE Leave(u)
         \/ UNCHANGED transport /\ Leave(u)
      /\ UNCHANGED <<given, registry, ending, task>>

-----------------------------------------------------------------------------
(* finish_tick() closes the registry, and the next tick begins; a tick     *)
(* that failed closes nothing.                                             *)

CloseRegistry ==
  /\ inTick /\ (late \/ Unused) /\ inTick' = FALSE
  /\ closing' = {client[s] : s \in Servers} \ {None}
  /\ client' = [s \in Servers |-> None] /\ barred' = {}
  /\ UNCHANGED <<given, wires, charged, built, user>>

CloseTransport(i) ==
  /\ i \in closing /\ transport[i].lock = None
  /\ transport' = [transport EXCEPT ![i] = [Cleared(@) EXCEPT !.closed = TRUE]]
  /\ task' = [task EXCEPT ![i] = IF @ = "none" THEN @ ELSE "over"]
  /\ closing' = closing \ {i}
  /\ UNCHANGED <<given, registry, user, inTick>>

NextTick ==
  /\ closing = {} /\ (inTick => late \/ Unused)
  /\ inTick' = TRUE
  /\ charged' = [s \in Servers |-> 0]
  /\ UNCHANGED <<given, wires, client, barred, built, user, closing>>

BridgeNext ==
  \/ \E u \in Users : \/ \E s \in Servers : AskCall(u, s) \/ AskList(u, s)
                      \/ FindClient(u) \/ MakeClient(u) \/ Ensure(u)
                      \/ Waited(u) \/ Stopped(u) \/ Submit(u)
  \/ \E i \in Transports : Connected(i) \/ Refused(i) \/ CloseTransport(i)
  \/ CloseRegistry \/ NextTick

BridgeSpec == BridgeInit /\ [][BridgeNext]_bridgeVars
-----------------------------------------------------------------------------
(* Properties.                                                             *)

Runs(i) == task[i] \in {"connects", "open"}
InUse(i) == \/ \E s \in Servers : client[s] = i
            \/ i \in closing
            \/ \E u \in Users : user[u].on = i

(* What close() has closed never connects again, however late a role comes *)
(* to it; and unless roles are left behind, no connection is forgotten: it *)
(* belongs to a client that the end of the tick will close, although any   *)
(* server may be slow, refuse, or answer when nobody waits for it.         *)
NothingRunsOn ==
  \A i \in Transports : Runs(i) => ~transport[i].closed /\ (late \/ InUse(i))
=============================================================================
