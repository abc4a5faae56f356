---------------------------- MODULE WorldProofs -----------------------------
(***************************************************************************)
(* Theorems of World and of the modules it stands on: the trader's freeze  *)
(* follows the broker's halt in every copy of the world; under Quiet one   *)
(* engine ticks at a time, tick numbers are not reused, and a tick that    *)
(* the marker calls completed was persisted.                               *)
(***************************************************************************)
EXTENDS World, TLAPS

-----------------------------------------------------------------------------
(* Governance: what an operation makes of a memory.                        *)

(* A memory that is right: ethics never freezes the trader, for the freeze *)
(* of a halt would not replace that one.                                   *)
Sound(m) ==
  /\ m \in Memory
  /\ HaltMatchesFreeze(m)
  /\ m.freezes["trader"].kind # "ethics"

(* An operation that of the trader's freeze neither takes nor gives the    *)
(* kind of a halt or of ethics; one that changes scores.                   *)
SameHalt(m, f) ==
  /\ f \in [Agents -> Freeze]
  /\ f["trader"].kind # "ethics"
  /\ f["trader"].kind = "circuit_breaker" <=> m.freezes["trader"].kind = "circuit_breaker"

LEMMA FreezesSound ==
  ASSUME NEW m, Sound(m), NEW f, SameHalt(m, f)
  PROVE  Sound([m EXCEPT !.freezes = f])
BY DEF Sound, SameHalt, Memory, HaltMatchesFreeze

LEMMA ScoresSound ==
  ASSUME NEW m, Sound(m), NEW s \in [Agents -> {"low", "fair"}]
  PROVE  Sound([m EXCEPT !.score = s])
BY DEF Sound, Memory, HaltMatchesFreeze

LEMMA FreshSound == Sound(Fresh)
BY DEF Sound, Fresh, Free, NoHalt, Memory, Freeze, Halt, HaltMatchesFreeze, Agents

(* Scores.                                                                 *)
LEMMA SlashSound ==
  ASSUME NEW m, Sound(m), NEW a \in Agents, NEW low \in BOOLEAN
  PROVE  Sound(Slash(m, a, low)) /\ Slash(m, a, low).freezes = m.freezes
<1> DEFINE s == [m.score EXCEPT ![a] = IF low THEN "low" ELSE @]
<1>1. m \in Memory /\ s \in [Agents -> {"low", "fair"}]
  BY DEF Sound, Memory
<1>2. Slash(m, a, low) = [m EXCEPT !.score = s]
  BY <1>1 DEF Slash, Memory
<1>3. Sound([m EXCEPT !.score = s])
  <2> HIDE DEF s
  <2> QED BY <1>1, ScoresSound
<1> QED BY <1>1, <1>2, <1>3 DEF Memory

(* A freeze whose reason is not a halt, and for the trader not ethics.     *)
LEMMA FreezeSound ==
  ASSUME NEW m, Sound(m), NEW a \in Agents, NEW kind \in {"risk", "runtime", "ethics"},
         a = "trader" => kind # "ethics"
  PROVE  Sound(FreezeAgent(m, a, kind))
<1> DEFINE f == [m.freezes EXCEPT ![a] = [kind |-> kind, since |-> m.tick]]
           g == [m.freezes EXCEPT ![a].kind = kind]
<1>1. m \in Memory /\ m.tick \in Nat /\ m.freezes \in [Agents -> Freeze]
      /\ m.score \in [Agents -> {"low", "fair"}]
  BY DEF Sound, Memory
<1>2. f \in [Agents -> Freeze] /\ g \in [Agents -> Freeze]
  BY <1>1 DEF Freeze
<1>3. CASE ~Frozen(m, a)
  <2>1. FreezeAgent(m, a, kind) = [m EXCEPT !.freezes = f]
    BY <1>1, <1>3 DEF FreezeAgent, Memory
  <2>2. /\ f["trader"].kind # "ethics"
        /\ f["trader"].kind = "circuit_breaker" <=> m.freezes["trader"].kind = "circuit_breaker"
    BY <1>1, <1>3 DEF Frozen, Sound, Agents
  <2> HIDE DEF f
  <2> QED BY <1>2, <2>1, <2>2, FreezesSound DEF SameHalt
<1>4. CASE Frozen(m, a) /\ AutoThaw(m.freezes[a].kind) /\ ~AutoThaw(kind)
  <2>1. FreezeAgent(m, a, kind) = [m EXCEPT !.freezes = g]
    BY <1>1, <1>4 DEF FreezeAgent, Memory
  <2>2. /\ g["trader"].kind # "ethics"
        /\ g["trader"].kind = "circuit_breaker" <=> m.freezes["trader"].kind = "circuit_breaker"
    BY <1>1, <1>4 DEF AutoThaw, Sound, Agents
  <2> HIDE DEF g
  <2> QED BY <1>2, <2>1, <2>2, FreezesSound DEF SameHalt
<1>5. CASE Frozen(m, a) /\ ~(AutoThaw(m.freezes[a].kind) /\ ~AutoThaw(kind))
  BY <1>5 DEF FreezeAgent
<1> QED BY <1>3, <1>4, <1>5

(* The cooldown lifts no freeze that a halt has made.                      *)
LEMMA CooledSound ==
  ASSUME NEW m, Sound(m), NEW lifted \in SUBSET Agents
  PROVE  Sound(Cooled(m, lifted, mode))
<1> DEFINE score(a) == IF ServedTime(m, a, mode) /\ a \in lifted THEN "fair" ELSE m.score[a]
           freeze(a) ==
             IF ~ServedTime(m, a, mode) THEN m.freezes[a]
             ELSE IF score(a) = "low" THEN [m.freezes[a] EXCEPT !.since = m.tick]
             ELSE IF AutoThaw(m.freezes[a].kind) THEN Free
             ELSE m.freezes[a]
           f == [a \in Agents |-> freeze(a)]
           s == [a \in Agents |-> score(a)]
<1>1. m \in Memory /\ m.tick \in Nat /\ m.freezes \in [Agents -> Freeze]
      /\ m.score \in [Agents -> {"low", "fair"}]
  BY DEF Sound, Memory
<1>2. s \in [Agents -> {"low", "fair"}]
  BY <1>1
<1>3. f \in [Agents -> Freeze]
  <2> SUFFICES ASSUME NEW a \in Agents PROVE freeze(a) \in Freeze
    OBVIOUS
  <2>1. m.freezes[a] \in Freeze
    BY <1>1
  <2>2. [m.freezes[a] EXCEPT !.since = m.tick] \in Freeze /\ Free \in Freeze
    BY <1>1, <2>1 DEF Freeze, Free
  <2> QED BY <2>1, <2>2
<1>4. /\ f["trader"].kind # "ethics"
      /\ f["trader"].kind = "circuit_breaker" <=> m.freezes["trader"].kind = "circuit_breaker"
  <2>1. f["trader"] = freeze("trader")
    BY DEF Agents
  <2>2. m.freezes["trader"] \in Freeze
    BY <1>1 DEF Agents
  <2>3. [m.freezes["trader"] EXCEPT !.since = m.tick].kind = m.freezes["trader"].kind
        /\ Free.kind = "none"
    BY <2>2 DEF Freeze, Free
  <2>4. ServedTime(m, "trader", mode) => m.freezes["trader"].kind # "none"
    BY DEF ServedTime, Frozen
  <2> HIDE DEF f
  <2> QED BY <2>1, <2>3, <2>4 DEF AutoThaw, Sound
<1>5. Cooled(m, lifted, mode) = [m EXCEPT !.freezes = f, !.score = s]
  BY DEF Cooled
<1> HIDE DEF f, s
<1>6. Cooled(m, lifted, mode) = [[m EXCEPT !.freezes = f] EXCEPT !.score = s]
  BY <1>1, <1>5 DEF Memory
<1>7. Sound([m EXCEPT !.freezes = f])
  BY <1>3, <1>4, FreezesSound DEF SameHalt
<1> DEFINE n == [m EXCEPT !.freezes = f]
<1>8. Cooled(m, lifted, mode) = [n EXCEPT !.score = s] /\ Sound(n)
  BY <1>6, <1>7
<1> HIDE DEF n
<1> QED BY <1>2, <1>8, ScoresSound

-----------------------------------------------------------------------------
(* risk(): the halt and the freeze change in one step.                     *)

LEMMA EndHaltSound ==
  ASSUME NEW m, Sound(m), NEW losing \in BOOLEAN
  PROVE  Sound(EndHalt(m, losing, mode))
<1> DEFINE f == [m.freezes EXCEPT !["trader"] = Free]
           h == [on |-> TRUE, since |-> m.tick, blocked |-> TRUE]
<1>1. m \in Memory /\ m.tick \in Nat /\ m.freezes \in [Agents -> Freeze]
  BY DEF Sound, Memory
<1>2. f \in [Agents -> Freeze] /\ NoHalt \in Halt
  BY <1>1 DEF Freeze, Free, NoHalt, Halt
<1>3. CASE HaltEnds(m, losing, mode) /\ m.freezes["trader"].kind \in {"none", "circuit_breaker"}
  <2> DEFINE n == [m EXCEPT !.freezes = f, !.halt = NoHalt]
  <2>1. EndHalt(m, losing, mode) = n
    BY <1>1, <1>3 DEF EndHalt, ThawAgent, Memory
  <2>2. f["trader"].kind = "none" /\ ~NoHalt.on
    BY <1>1 DEF Agents, Free, NoHalt
  <2>3. n \in Memory /\ n.freezes = f /\ n.halt = NoHalt
    BY <1>1, <1>2 DEF Memory
  <2> QED BY <2>1, <2>2, <2>3 DEF Sound, HaltMatchesFreeze
<1>4. CASE HaltEnds(m, losing, mode) /\ m.freezes["trader"].kind \notin {"none", "circuit_breaker"}
  BY <1>4 DEF HaltEnds, Sound, HaltMatchesFreeze
<1>5. CASE ~HaltEnds(m, losing, mode)
  BY <1>5 DEF EndHalt
<1> QED BY <1>3, <1>4, <1>5

LEMMA BeginHaltSound ==
  ASSUME NEW m, Sound(m), NEW losing \in BOOLEAN
  PROVE  Sound(BeginHalt(m, losing))
<1> DEFINE h == [on |-> TRUE, since |-> m.tick, blocked |-> FALSE]
           n == [m EXCEPT !.halt = h]
           f == [m.freezes EXCEPT !["trader"] = [kind |-> "circuit_breaker", since |-> m.tick]]
           g == [m.freezes EXCEPT !["trader"].kind = "circuit_breaker"]
<1>1. m \in Memory /\ m.tick \in Nat /\ m.freezes \in [Agents -> Freeze] /\ h \in Halt
  BY DEF Sound, Memory, Halt
<1>2. n \in Memory /\ n.halt = h /\ n.freezes = m.freezes /\ n.tick = m.tick
  BY <1>1 DEF Memory
<1>3. CASE losing /\ ~m.halt.on
  <2>1. m.freezes["trader"].kind \in {"none", "risk", "runtime"}
    BY <1>1, <1>3 DEF Sound, HaltMatchesFreeze, Freeze, Agents
  <2>2. BeginHalt(m, losing) = FreezeAgent(n, "trader", "circuit_breaker")
    BY <1>3 DEF BeginHalt
  <2>3. FreezeAgent(n, "trader", "circuit_breaker")
          \in {[n EXCEPT !.freezes = f], [n EXCEPT !.freezes = g]}
    <3> HIDE DEF n
    <3>1. n.freezes["trader"].kind = "none" \/ AutoThaw(n.freezes["trader"].kind)
      BY <1>2, <2>1 DEF AutoThaw
    <3> QED BY <1>1, <1>2, <3>1 DEF FreezeAgent, Frozen, AutoThaw, Memory
  <2>4. /\ f \in [Agents -> Freeze] /\ f["trader"].kind = "circuit_breaker"
        /\ g \in [Agents -> Freeze] /\ g["trader"].kind = "circuit_breaker"
    BY <1>1 DEF Freeze, Agents
  <2>5. ASSUME NEW k \in [Agents -> Freeze], k["trader"].kind = "circuit_breaker"
        PROVE  Sound([n EXCEPT !.freezes = k])
    <3> HIDE DEF n
    <3>1. [n EXCEPT !.freezes = k] \in Memory
      BY <1>2, <2>5 DEF Memory
    <3>2. [n EXCEPT !.freezes = k].freezes = k /\ [n EXCEPT !.freezes = k].halt = h
      BY <1>2 DEF Memory
    <3> QED BY <2>5, <3>1, <3>2 DEF Sound, HaltMatchesFreeze
  <2> HIDE DEF n, f, g
  <2> QED BY <2>2, <2>3, <2>4, <2>5
<1>4. CASE ~(losing /\ ~m.halt.on)
  BY <1>4 DEF BeginHalt
<1> QED BY <1>3, <1>4

LEMMA FreezeLowSound ==
  ASSUME NEW m, Sound(m)
  PROVE  Sound(FreezeLow(m))
<1> DEFINE f == [a \in Agents |-> IF m.score[a] = "low" /\ ~Frozen(m, a)
                                  THEN [kind |-> "risk", since |-> m.tick] ELSE m.freezes[a]]
<1>1. m \in Memory /\ m.tick \in Nat /\ m.freezes \in [Agents -> Freeze]
      /\ m.score \in [Agents -> {"low", "fair"}]
  BY DEF Sound, Memory
<1>2. [kind |-> "risk", since |-> m.tick] \in Freeze
  BY <1>1 DEF Freeze
<1>3. f \in [Agents -> Freeze]
  BY <1>1, <1>2
<1>4. FreezeLow(m) = [m EXCEPT !.freezes = f]
  BY DEF FreezeLow
<1>5. /\ f["trader"].kind # "ethics"
      /\ f["trader"].kind = "circuit_breaker" <=> m.freezes["trader"].kind = "circuit_breaker"
  BY DEF Frozen, Sound, Agents
<1> HIDE DEF f
<1> QED BY <1>3, <1>4, <1>5, FreezesSound DEF SameHalt

(* The three roles that govern, and a role that fails.                     *)
LEMMA RolesSound ==
  ASSUME NEW m, Sound(m), NEW losing \in BOOLEAN, NEW low \in BOOLEAN, NEW a \in Agents
  PROVE  /\ Sound(RiskRole(m, losing, mode))
         /\ Sound(EthicsRole(m, losing, low))
         /\ Sound(Failed(m, a, low))
<1>1. Sound(RiskRole(m, losing, mode))
  BY EndHaltSound, BeginHaltSound, FreezeLowSound DEF RiskRole
<1>2. Sound(EthicsRole(m, losing, low))
  <2>1. "operator" \in Agents
    BY DEF Agents
  <2> QED BY <2>1, SlashSound, FreezeSound DEF EthicsRole
<1>3. Sound(Failed(m, a, low))
  BY SlashSound, FreezeSound DEF Failed
<1> QED BY <1>1, <1>2, <1>3

-----------------------------------------------------------------------------
(* World: the inductive invariant.                                         *)

LEMMA PipelineLength ==
  /\ DOMAIN Pipeline = 1..5 /\ Len(Pipeline) = 5 /\ Recovering = 6
  /\ \A i \in 1..5 : Pipeline[i] \in Agents
BY DEF Pipeline, Recovering, Agents

(* Outside a tick and outside setup() no role is next.                     *)
Resting ==
  \A p \in Processes :
    at[p] \in {"off", "locking", "loading", "marking", "ready"} => agenda[p] = 0

(* Whoever holds a lock holds the file that has the name, so that nobody   *)
(* takes it for stale; one holds it, and whoever repairs it has seen that  *)
(* nobody does and meets no engine that is about to.                       *)
NameIsHeld ==
  /\ \A e \in holds : name # Absent /\ open[e] = name
  /\ \A d, e \in holds : d = e
  /\ \A e \in Engines : at[e] = "locking" =>
       /\ name # Absent /\ open[e] = name
       /\ \A c \in Commands : at[c] \notin Booting
  /\ \A p \in Processes : at[p] \in {"probing", "stale"} => holds = {}

(* The engine that ticks is at the tick that the marker says was begun,    *)
(* and no later one was.                                                   *)
InTick(e) == at[e] \in {"roles", "closing"} \/ agenda[e] \in 1..Len(Pipeline)
MarkerIsLast ==
  /\ begun <= marker.tick
  /\ \A e \in Engines : InTick(e) => mem[e].tick = marker.tick
  /\ \A e \in Engines : at[e] = "closing" => persisted >= mem[e].tick
  /\ CompletedIsPersisted

AllSound == Sound(meta) /\ \A p \in Processes : Sound(mem[p])

WorldInv == /\ WorldTypeOK /\ Resting /\ AllSound
            /\ Quiet => NameIsHeld /\ MarkerIsLast

LEMMA WorldStarts == WorldInit => WorldInv
<1> SUFFICES ASSUME WorldInit PROVE WorldInv
  OBVIOUS
<1> USE DEF WorldInit, LockInit, DataInit
<1>1. Fresh \in Memory /\ Sound(Fresh)
  BY FreshSound DEF Sound
<1>2. WorldTypeOK
  <2>1. LockTypeOK
    BY DEF LockTypeOK, Absent
  <2>2. agenda \in [Processes -> 0..Recovering]
    BY PipelineLength
  <2> QED BY <1>1, <2>1, <2>2 DEF WorldTypeOK, Places, Processes
<1>3. Resting /\ AllSound
  BY <1>1 DEF Resting, AllSound
<1>4. NameIsHeld
  BY DEF NameIsHeld, Processes
<1>5. MarkerIsLast
  BY PipelineLength DEF MarkerIsLast, InTick, CompletedIsPersisted, Processes
<1> QED BY <1>2, <1>3, <1>4, <1>5 DEF WorldInv

-----------------------------------------------------------------------------
(* Steps that change no lock.                                              *)

(* A process that stays past the lock, and is no command that begins to    *)
(* boot, changes nothing for the others.                                   *)
Inside == Places \ {"off", "locking"}
LEMMA StaysInside ==
  ASSUME WorldInv, UNCHANGED lockVars, NEW p \in Processes, NEW to \in Inside,
         at[p] \in Inside, at' = [at EXCEPT ![p] = to],
         to \notin {"probing", "stale"},
         p \in Commands => to \in Booting \cup {"ready"},
         p \in Commands /\ to \in Booting => at[p] \in Booting
  PROVE  /\ LockTypeOK' /\ at' \in [Processes -> Places]
         /\ holds' = {e \in Engines : at'[e] \notin {"off", "locking"}}
         /\ \A c \in Commands : at'[c] \in Booting \cup {"off", "ready"}
         /\ Quiet => NameIsHeld'
<1>1. /\ at \in [Processes -> Places] /\ to \in Places
      /\ holds = {e \in Engines : at[e] \notin {"off", "locking"}}
      /\ \A c \in Commands : at[c] \in Booting \cup {"off", "ready"}
  BY DEF WorldInv, WorldTypeOK, Inside
<1>2. LockTypeOK'
  BY DEF WorldInv, WorldTypeOK, LockTypeOK, lockVars
<1>3. holds' = {e \in Engines : at'[e] \notin {"off", "locking"}}
  BY <1>1 DEF lockVars, Inside, Processes
<1>4. \A c \in Commands : at'[c] \in Booting \cup {"off", "ready"}
  BY <1>1 DEF Processes
<1>5. ASSUME Quiet PROVE NameIsHeld'
  BY <1>1, <1>5 DEF WorldInv, NameIsHeld, lockVars, Processes, Inside
<1> QED BY <1>1, <1>2, <1>3, <1>4, <1>5

(* A step that leaves the marker alone and brings nobody into a tick.      *)
LEMMA MarkerStays ==
  ASSUME WorldInv, Quiet, UNCHANGED <<marker, begun, persisted>>, NEW p \in Processes,
         \A q \in Processes \ {p} : at'[q] = at[q] /\ agenda'[q] = agenda[q] /\ mem'[q] = mem[q],
         InTick(p)' => InTick(p) /\ mem'[p].tick = mem[p].tick,
         at'[p] = "closing" => at[p] = "closing"
  PROVE  MarkerIsLast'
<1>1. ASSUME NEW e \in Engines, InTick(e)' PROVE InTick(e) /\ mem'[e].tick = mem[e].tick
  BY <1>1 DEF InTick, Processes
<1>2. \A e \in Engines : at'[e] = "closing" => at[e] = "closing" /\ InTick(e)'
  BY DEF InTick, Processes
<1> QED BY <1>1, <1>2 DEF WorldInv, MarkerIsLast, CompletedIsPersisted

(* bootstrap() and the commands.                                           *)
LEMMA BootKeeps ==
  ASSUME WorldInv, NEW p \in Processes,
         LoadMeta(p) \/ ResumeTickMarker(p) \/ Booted(p) \/ Recovered(p)
           \/ (p \in Commands /\ PersistAgain(p))
  PROVE  WorldInv'
<1> DEFINE tick == IF marker.tick > mem[p].tick THEN marker.tick ELSE mem[p].tick
           resumed == [mem[p] EXCEPT !.tick = tick]
<1>1. /\ at \in [Processes -> Places] /\ agenda \in [Processes -> 0..Recovering]
      /\ mem \in [Processes -> Memory] /\ meta \in Memory /\ mode \in Modes
      /\ marker \in [tick: Nat, status: {"started", "completed"}]
      /\ begun \in Nat /\ persisted \in Nat
      /\ Sound(meta) /\ Sound(mem[p]) /\ mem[p] \in Memory
  BY DEF WorldInv, WorldTypeOK, AllSound
<1>2. tick \in Nat
  BY <1>1 DEF Memory
<1>3. Sound(resumed) /\ resumed \in Memory
  <2> HIDE DEF tick
  <2> QED BY <1>1, <1>2 DEF Sound, Memory, HaltMatchesFreeze
<1>4. PICK to \in Inside :
        /\ at[p] \in Inside /\ at' = [at EXCEPT ![p] = to]
        /\ to \in {"marking", "diagnosing", "ready"}
        /\ at[p] # "ready" \/ to = "ready"
  BY DEF LoadMeta, ResumeTickMarker, Booted, Recovered, PersistAgain, Proceed, Inside,
         Places, Booting
<1>5. UNCHANGED <<lockVars, marker, begun, persisted, mode>>
  BY DEF LoadMeta, ResumeTickMarker, Booted, Recovered, PersistAgain
<1>6. p \in Commands => at[p] \in Booting \cup {"ready"}
  BY <1>4 DEF WorldInv, WorldTypeOK, Inside
<1>7. /\ LockTypeOK' /\ at' \in [Processes -> Places]
      /\ holds' = {e \in Engines : at'[e] \notin {"off", "locking"}}
      /\ \A c \in Commands : at'[c] \in Booting \cup {"off", "ready"}
      /\ Quiet => NameIsHeld'
  <2>1. p \in Commands => to \in Booting \cup {"ready"}
    BY <1>4 DEF Booting
  <2>2. p \in Commands /\ to \in Booting => at[p] \in Booting
    BY <1>4, <1>6 DEF Booting
  <2> QED BY <1>4, <1>5, <2>1, <2>2, StaysInside
<1>8. /\ agenda' \in [Processes -> 0..Recovering]
      /\ \A q \in Processes \ {p} : agenda'[q] = agenda[q]
      /\ agenda'[p] \in {0, Recovering}
      /\ at'[p] \in {"marking", "ready"} => agenda'[p] = 0
      /\ agenda'[p] = agenda[p] \/ at'[p] \in {"diagnosing", "ready"}
  <2>1. Recovering \in 0..Recovering /\ 0 \in 0..Recovering
    BY PipelineLength
  <2>2. CASE LoadMeta(p)
    BY <1>1, <2>1, <2>2 DEF LoadMeta, WorldInv, Resting, Proceed
  <2>3. CASE ResumeTickMarker(p)
    BY <1>1, <2>1, <2>3 DEF ResumeTickMarker, WorldInv, Resting, Proceed
  <2>4. CASE Booted(p)
    BY <1>1, <2>1, <2>4 DEF Booted, Proceed
  <2>5. CASE Recovered(p)
    BY <1>1, <2>1, <2>5 DEF Recovered, Proceed
  <2>6. CASE p \in Commands /\ PersistAgain(p)
    BY <1>1, <2>1, <2>6 DEF PersistAgain, WorldInv, Resting, Proceed
  <2> QED BY <2>2, <2>3, <2>4, <2>5, <2>6
<1>9. /\ mem' \in [Processes -> Memory] /\ AllSound' /\ meta' \in Memory
      /\ \A q \in Processes \ {p} : mem'[q] = mem[q]
  <2>1. mem' \in {mem, [mem EXCEPT ![p] = meta], [mem EXCEPT ![p] = resumed]}
    BY DEF LoadMeta, ResumeTickMarker, Booted, Recovered, PersistAgain, Remember
  <2>2. meta' \in {meta, mem[p]}
    BY DEF LoadMeta, ResumeTickMarker, Booted, Recovered, PersistAgain
  <2> HIDE DEF resumed
  <2> QED BY <1>1, <1>3, <2>1, <2>2 DEF WorldInv, AllSound
<1>10. WorldTypeOK'
  BY <1>1, <1>5, <1>7, <1>8, <1>9 DEF WorldTypeOK
<1>11. Resting'
  BY <1>1, <1>4, <1>8 DEF WorldInv, Resting, Inside
<1>12. Quiet => MarkerIsLast'
  <2>1. ~InTick(p)' /\ at'[p] # "closing"
    BY <1>1, <1>4, <1>8, PipelineLength DEF InTick
  <2>2. \A q \in Processes \ {p} : at'[q] = at[q]
    BY <1>1, <1>4
  <2> QED BY <1>5, <1>8, <1>9, <2>1, <2>2, MarkerStays
<1> QED BY <1>7, <1>9, <1>10, <1>11, <1>12 DEF WorldInv

-----------------------------------------------------------------------------
(* The lock and its repair.                                                *)

(* Nothing but the lock and the places change.                             *)
LEMMA SameDataKeeps ==
  ASSUME WorldInv, NEW p \in Processes, NEW to \in Places, SameData,
         at' = [at EXCEPT ![p] = to],
         to \notin {"roles", "closing"},
         to \in {"off", "locking", "loading", "marking", "ready"} => agenda[p] = 0
  PROVE  /\ agenda' \in [Processes -> 0..Recovering] /\ mem' \in [Processes -> Memory]
         /\ mode' \in Modes /\ meta' \in Memory /\ {begun', persisted'} \subseteq Nat
         /\ marker' \in [tick: Nat, status: {"started", "completed"}]
         /\ Resting' /\ AllSound'
         /\ Quiet => MarkerIsLast'
<1>1. at \in [Processes -> Places]
  BY DEF WorldInv, WorldTypeOK
<1>2. Resting' /\ AllSound'
  BY <1>1 DEF WorldInv, Resting, AllSound, SameData
<1>3. Quiet => MarkerIsLast'
  <2>1. InTick(p)' => InTick(p)
    BY <1>1 DEF InTick, SameData
  <2> QED BY <1>1, <2>1, MarkerStays DEF SameData
<1> QED BY <1>2, <1>3 DEF WorldInv, WorldTypeOK, SameData

LEMMA LockKeeps ==
  ASSUME WorldInv, NEW e \in Engines, OpenLock(e) \/ TakeLock(e)
  PROVE  WorldInv'
<1>1. /\ LockTypeOK /\ at \in [Processes -> Places]
      /\ holds = {d \in Engines : at[d] \notin {"off", "locking"}}
      /\ \A c \in Commands : at[c] \in Booting \cup {"off", "ready"}
  BY DEF WorldInv, WorldTypeOK
<1>2. e \in Processes /\ e \notin Commands
  BY WorldAssumption DEF Processes
<1>3. CASE OpenLock(e)
  <2> USE <1>3 DEF OpenLock, OpenFile, Proceed
  <2>1. LockTypeOK'
    BY <1>1 DEF LockTypeOK, Absent
  <2>2. Quiet => NameIsHeld'
    BY <1>1, <1>2, <2>1 DEF WorldInv, NameIsHeld, LockTypeOK, Absent, Processes
  <2>3. holds' = {d \in Engines : at'[d] \notin {"off", "locking"}}
    BY <1>1, <1>2 DEF Processes
  <2>4. "locking" \in Places /\ agenda[e] = 0
    BY <1>2 DEF Places, WorldInv, Resting
  <2>5. WorldTypeOK' /\ Resting' /\ AllSound' /\ (Quiet => MarkerIsLast')
    <3>1. \A c \in Commands : at'[c] \in Booting \cup {"off", "ready"}
      BY <1>1, <1>2
    <3>2. at' \in [Processes -> Places]
      BY <1>1, <2>4
    <3> QED BY <1>2, <2>1, <2>3, <2>4, <3>1, <3>2, SameDataKeeps DEF WorldTypeOK
  <2> QED BY <2>2, <2>5 DEF WorldInv
<1>4. CASE TakeLock(e)
  <2> USE DEF Proceed
  <2>1. PICK to \in {"loading", "off"} :
          /\ at[e] = "locking" /\ at' = [at EXCEPT ![e] = to]
          /\ to = "loading" => Granted(e)
          /\ to = "off" => Refused(e)
    BY <1>4 DEF TakeLock
  <2>2. LockTypeOK'
    BY <1>1, <2>1 DEF LockTypeOK, Absent, Granted, Refused
  <2>3. holds' = {d \in Engines : at'[d] \notin {"off", "locking"}}
    BY <1>1, <1>2, <2>1 DEF Granted, Refused, Processes
  <2>4. ASSUME Quiet PROVE NameIsHeld'
    <3>1. CASE to = "loading"
      <4>1. holds = {} /\ holds' = {e} /\ UNCHANGED <<name, open>>
        BY <1>1, <2>1, <2>4, <3>1 DEF WorldInv, NameIsHeld, Granted, Locked
      <4>2. \A c \in Commands : at[c] \notin Booting
        BY <2>1, <2>4 DEF WorldInv, NameIsHeld
      <4>3. ASSUME NEW p \in Processes PROVE at'[p] \notin {"probing", "stale"}
        BY <1>1, <1>2, <2>1, <4>1, <4>2 DEF Processes, Booting
      <4> QED BY <1>1, <1>2, <2>1, <2>4, <4>1, <4>2, <4>3
              DEF WorldInv, NameIsHeld, Processes
    <3>2. CASE to = "off"
      <4>1. UNCHANGED <<holds, name>> /\ open' = [open EXCEPT ![e] = Absent] /\ e \notin holds
        BY <1>1, <2>1, <3>2 DEF Refused
      <4>2. \A q \in Processes \ {e} : at'[q] = at[q]
        BY <1>1, <2>1
      <4>3. at'[e] = "off" /\ holds \subseteq Engines
        BY <1>1, <1>2, <2>1, <3>2
      <4>4. open \in [Engines -> 0..created]
        BY <1>1 DEF LockTypeOK
      <4> QED BY <1>2, <2>4, <4>1, <4>2, <4>3, <4>4 DEF WorldInv, NameIsHeld, Processes
    <3> QED BY <3>1, <3>2
  <2>5. to \in Places /\ agenda[e] = 0 /\ SameData
    BY <1>2, <1>4, <2>1 DEF Places, Booting, WorldInv, Resting, TakeLock
  <2>6. WorldTypeOK' /\ Resting' /\ AllSound' /\ (Quiet => MarkerIsLast')
    <3>1. \A c \in Commands : at'[c] \in Booting \cup {"off", "ready"}
      BY <1>1, <1>2, <2>1
    <3>2. at' \in [Processes -> Places]
      BY <1>1, <2>1, <2>5
    <3> QED BY <1>2, <2>1, <2>2, <2>3, <2>5, <3>1, <3>2, SameDataKeeps DEF WorldTypeOK
  <2> QED BY <2>4, <2>6 DEF WorldInv
<1> QED BY <1>3, <1>4

LEMMA StartCommandKeeps ==
  ASSUME WorldInv, NEW c \in Commands, StartCommand(c)
  PROVE  WorldInv'
<1> USE DEF StartCommand, Proceed
<1>1. /\ LockTypeOK /\ at \in [Processes -> Places]
      /\ holds = {d \in Engines : at[d] \notin {"off", "locking"}}
      /\ \A d \in Commands : at[d] \in Booting \cup {"off", "ready"}
  BY DEF WorldInv, WorldTypeOK
<1>2. c \in Processes /\ c \notin Engines /\ "loading" \in Places \cap Booting
  BY WorldAssumption DEF Processes, Places, Booting
<1>3. LockTypeOK'
  BY <1>1 DEF LockTypeOK, lockVars
<1>4. Quiet => NameIsHeld'
  BY <1>1, <1>2 DEF WorldInv, NameIsHeld, lockVars, Processes
<1>5. holds' = {d \in Engines : at'[d] \notin {"off", "locking"}}
  BY <1>1, <1>2 DEF lockVars, Processes
<1>6. /\ at' \in [Processes -> Places] /\ agenda[c] = 0
      /\ \A d \in Commands : at'[d] \in Booting \cup {"off", "ready"}
  BY <1>1, <1>2 DEF WorldInv, Resting, Processes
<1>7. WorldTypeOK' /\ Resting' /\ AllSound' /\ (Quiet => MarkerIsLast')
  BY <1>2, <1>3, <1>5, <1>6, SameDataKeeps DEF WorldTypeOK
<1> QED BY <1>4, <1>7 DEF WorldInv

(* setup() of an engine sees its own lock; one of a command sees that no   *)
(* engine has one, and under Quiet none takes one before it is done.       *)
LEMMA HealKeeps ==
  ASSUME WorldInv, NEW p \in Processes, Diagnose(p) \/ FoundStale(p) \/ RepairLock(p)
  PROVE  WorldInv'
<1> USE DEF Proceed
<1>1. /\ LockTypeOK /\ at \in [Processes -> Places]
      /\ holds = {d \in Engines : at[d] \notin {"off", "locking"}}
      /\ \A c \in Commands : at[c] \in Booting \cup {"off", "ready"}
  BY DEF WorldInv, WorldTypeOK
<1>2. PICK to \in {"healed", "probing", "stale"} :
        /\ at[p] \in {"diagnosing", "probing", "stale"} /\ at' = [at EXCEPT ![p] = to]
        /\ to = "probing" => ~Locked(name)
        /\ to = "stale" => at[p] = "probing"
  BY DEF Diagnose, FoundStale, RepairLock, ProbeStale
<1>3. SameData /\ UNCHANGED <<open, holds>> /\ to \in Places \cap Booting
  BY <1>2 DEF Diagnose, FoundStale, RepairLock, LooksFine, ProbeStale, EndProbe, UnlinkStale,
              lockVars, Places, Booting
<1>4. LockTypeOK'
  BY <1>1 DEF LockTypeOK, Diagnose, FoundStale, RepairLock, LooksFine, ProbeStale, EndProbe,
              UnlinkStale, lockVars, Absent
<1>5. holds' = {d \in Engines : at'[d] \notin {"off", "locking"}}
  BY <1>1, <1>2, <1>3 DEF Processes
<1>6. ASSUME Quiet PROVE NameIsHeld'
  <2>1. at[p] \in {"probing", "stale"} \/ to = "probing" => holds = {}
    BY <1>2, <1>6 DEF WorldInv, NameIsHeld, Locked
  <2>2. name' = name \/ (at[p] = "stale" /\ holds = {})
    BY <2>1 DEF Diagnose, FoundStale, RepairLock, LooksFine, ProbeStale, EndProbe, lockVars
  <2>3. ASSUME NEW e \in Engines, at'[e] = "locking"
        PROVE  /\ at[e] = "locking" /\ \A c \in Commands : at'[c] \notin Booting
               /\ at[p] # "stale"
    <3>1. at[e] = "locking"
      BY <1>1, <1>2, <2>3 DEF Processes
    <3>2. \A c \in Commands : at[c] \notin Booting
      BY <1>6, <3>1 DEF WorldInv, NameIsHeld
    <3>3. p \notin Commands
      BY <1>2, <3>2 DEF Booting
    <3>4. at[p] # "stale"
      BY <1>1, <2>1, <3>3 DEF Processes
    <3>5. \A c \in Commands : at'[c] \notin Booting
      BY <1>1, <1>2, <3>2, <3>3 DEF Processes
    <3> QED BY <3>1, <3>4, <3>5
  <2>4. \A q \in Processes : at'[q] \in {"probing", "stale"} => holds = {}
    BY <1>1, <1>2, <1>6, <2>1 DEF WorldInv, NameIsHeld
  <2> QED BY <1>3, <1>6, <2>2, <2>3, <2>4 DEF WorldInv, NameIsHeld
<1>7. WorldTypeOK' /\ Resting' /\ AllSound' /\ (Quiet => MarkerIsLast')
  <2>1. /\ at' \in [Processes -> Places]
        /\ \A c \in Commands : at'[c] \in Booting \cup {"off", "ready"}
    BY <1>1, <1>2, <1>3 DEF Processes
  <2> QED BY <1>2, <1>3, <1>4, <1>5, <2>1, SameDataKeeps DEF WorldTypeOK
<1> QED BY <1>6, <1>7 DEF WorldInv

LEMMA LeaveKeeps ==
  ASSUME WorldInv, NEW p \in Processes, Leave(p)
  PROVE  WorldInv'
<1> USE DEF Leave, Remember
<1>1. /\ LockTypeOK /\ at \in [Processes -> Places]
      /\ agenda \in [Processes -> 0..Recovering] /\ mem \in [Processes -> Memory]
      /\ holds = {d \in Engines : at[d] \notin {"off", "locking"}}
      /\ \A c \in Commands : at[c] \in Booting \cup {"off", "ready"}
  BY DEF WorldInv, WorldTypeOK
<1>2. /\ at' = [at EXCEPT ![p] = "off"] /\ agenda'[p] = 0
      /\ \A q \in Processes \ {p} : at'[q] = at[q] /\ agenda'[q] = agenda[q] /\ mem'[q] = mem[q]
  BY <1>1
<1>3. LockTypeOK'
  BY <1>1 DEF LockTypeOK, Dropped, Absent
<1>4. holds' = {d \in Engines : at'[d] \notin {"off", "locking"}}
  BY <1>1 DEF Dropped, Processes
<1>5. ASSUME Quiet PROVE NameIsHeld'
  <2>1. /\ name' = name /\ holds' = holds \ {p}
        /\ \A e \in Engines \ {p} : open'[e] = open[e]
    BY DEF Dropped
  <2>2. holds \subseteq Engines
    BY <1>1
  <2>3. \A e \in holds' : name' # Absent /\ open'[e] = name'
    BY <1>5, <2>1, <2>2 DEF WorldInv, NameIsHeld
  <2>4. ASSUME NEW e \in Engines, at'[e] = "locking"
        PROVE  name' # Absent /\ open'[e] = name' /\ \A c \in Commands : at'[c] \notin Booting
    <3>1. e # p /\ at[e] = "locking"
      BY <1>1, <2>4 DEF Processes
    <3>2. \A c \in Commands : at'[c] = at[c] \/ at'[c] = "off"
      BY <1>1 DEF Processes
    <3> QED BY <1>5, <2>1, <3>1, <3>2 DEF WorldInv, NameIsHeld, Booting
  <2>5. \A q \in Processes : at'[q] \in {"probing", "stale"} => holds' = {}
    BY <1>1, <1>5, <2>1 DEF WorldInv, NameIsHeld
  <2> QED BY <1>5, <2>1, <2>3, <2>4, <2>5 DEF WorldInv, NameIsHeld
<1>6. WorldTypeOK'
  <2>1. "off" \in Places /\ 0 \in 0..Recovering /\ Fresh \in Memory
    BY PipelineLength, FreshSound DEF Places, Sound
  <2>2. \A c \in Commands : at'[c] \in Booting \cup {"off", "ready"}
    BY <1>1 DEF Processes
  <2> QED BY <1>1, <1>3, <1>4, <2>1, <2>2 DEF WorldInv, WorldTypeOK
<1>7. Resting' /\ AllSound'
  BY <1>1, <1>2, FreshSound DEF WorldInv, Resting, AllSound
<1>8. Quiet => MarkerIsLast'
  <2>1. ~InTick(p)' /\ at'[p] # "closing"
    BY <1>1, <1>2 DEF InTick
  <2> QED BY <1>2, <2>1, MarkerStays
<1> QED BY <1>5, <1>6, <1>7, <1>8 DEF WorldInv

-----------------------------------------------------------------------------
(* A tick.                                                                 *)

(* A role that runs leaves a sound memory at the same tick.                *)
LEMMA RoleIsDone ==
  ASSUME WorldInv, NEW e \in Engines,
         Mechanic(e) \/ Risk(e) \/ Ethics(e) \/ Others(e) \/ RoleFails(e)
  PROVE  \E a \in Agents : \E m : Done(e, a, m) /\ Sound(m) /\ m.tick = mem[e].tick
<1> DEFINE n == mem[e]
<1>1. Sound(n) /\ n \in Memory
  BY DEF WorldInv, AllSound, Processes, Sound
<1>2. CASE Mechanic(e)
  <2>1. PICK lifted \in SUBSET Agents : Done(e, "mechanic", Cooled(n, lifted, mode))
    BY <1>2 DEF Mechanic
  <2>2. Cooled(n, lifted, mode).tick = n.tick
    BY <1>1 DEF Cooled, Memory
  <2>3. "mechanic" \in Agents
    BY DEF Agents
  <2> HIDE DEF n
  <2> QED BY <1>1, <2>1, <2>2, <2>3, CooledSound DEF n
<1>3. CASE Risk(e)
  <2>1. PICK losing \in BOOLEAN : Done(e, "risk", RiskRole(n, losing, mode))
    BY <1>3 DEF Risk
  <2> DEFINE h == EndHalt(n, losing, mode)
             b == BeginHalt(h, losing)
  <2>2. h.tick = n.tick /\ h \in Memory
    <3>1. h \in Memory
      BY <1>1, EndHaltSound DEF Sound
    <3> QED BY <1>1, <3>1 DEF EndHalt, ThawAgent, Memory
  <2>3. b.tick = h.tick /\ b \in Memory
    <3> HIDE DEF h
    <3>1. b \in Memory
      BY <1>1, EndHaltSound, BeginHaltSound DEF Sound, h
    <3> QED BY <2>2, <3>1 DEF BeginHalt, FreezeAgent, Memory
  <2>4. FreezeLow(b).tick = b.tick
    <3> HIDE DEF b
    <3> QED BY <2>3 DEF FreezeLow, Memory
  <2>5. RiskRole(n, losing, mode).tick = n.tick
    BY <2>2, <2>3, <2>4 DEF RiskRole
  <2>6. "risk" \in Agents /\ Sound(RiskRole(n, losing, mode))
    BY <1>1, RolesSound DEF Agents
  <2> QED BY <2>1, <2>5, <2>6
<1>4. CASE Ethics(e)
  <2>1. PICK leak \in BOOLEAN, low \in BOOLEAN : Done(e, "ethics", EthicsRole(n, leak, low))
    BY <1>4 DEF Ethics
  <2>2. EthicsRole(n, leak, low).tick = n.tick
    BY <1>1 DEF EthicsRole, FreezeAgent, Slash, Memory
  <2>3. "ethics" \in Agents /\ Sound(EthicsRole(n, leak, low))
    BY <1>1, RolesSound DEF Agents
  <2> QED BY <2>1, <2>2, <2>3
<1>5. CASE Others(e)
  BY <1>1, <1>5 DEF Others, Agents
<1>6. CASE RoleFails(e)
  <2>1. PICK a \in Agents, low \in BOOLEAN : Done(e, a, Failed(n, a, low))
    BY <1>6, WorldAssumption DEF RoleFails
  <2>2. Failed(n, a, low).tick = n.tick
    BY <1>1 DEF Failed, FreezeAgent, Slash, Memory
  <2>3. Sound(Failed(n, a, low))
    BY <1>1, RolesSound
  <2> QED BY <2>1, <2>2, <2>3
<1> QED BY <1>2, <1>3, <1>4, <1>5, <1>6

(* The engines that tick.                                                  *)
LEMMA OneTicks ==
  ASSUME WorldInv, Quiet, NEW d \in Engines, NEW e \in Engines,
         InTick(d) \/ at[d] \in Inside, at[e] \in Inside
  PROVE  d = e
<1>1. d \in holds /\ e \in holds
  BY DEF WorldInv, WorldTypeOK, Resting, InTick, Inside, Places, Processes, Booting
<1> QED BY <1>1 DEF WorldInv, NameIsHeld

LEMMA TickKeeps ==
  ASSUME WorldInv, NEW e \in Engines, Tick(e)
  PROVE  WorldInv'
<1>1. /\ at \in [Processes -> Places] /\ agenda \in [Processes -> 0..Recovering]
      /\ mem \in [Processes -> Memory] /\ meta \in Memory /\ mode \in Modes
      /\ marker \in [tick: Nat, status: {"started", "completed"}]
      /\ begun \in Nat /\ persisted \in Nat
      /\ Sound(meta) /\ Sound(mem[e]) /\ mem[e] \in Memory /\ mem[e].tick \in Nat
      /\ e \in Processes /\ e \notin Commands
  BY WorldAssumption DEF WorldInv, WorldTypeOK, AllSound, Memory, Processes
<1> DEFINE roles == Mechanic(e) \/ Risk(e) \/ Ethics(e) \/ Others(e) \/ RoleFails(e)
           next == (IF marker.tick > mem[e].tick THEN marker.tick ELSE mem[e].tick) + 1
           ticked == [mem[e] EXCEPT !.tick = next]
<1>2. next \in Nat /\ next > marker.tick
  BY <1>1
<1>3. Sound(ticked) /\ ticked.tick = next
  <2> HIDE DEF next
  <2> QED BY <1>1, <1>2 DEF Sound, Memory, HaltMatchesFreeze
<1>4. PICK m : /\ Sound(m) /\ mem' = [mem EXCEPT ![e] = m]
               /\ StartTick(e) => m = ticked
               /\ ~StartTick(e) => m.tick = mem[e].tick
  <2>1. CASE StartTick(e)
    BY <1>3, <2>1 DEF StartTick, Remember
  <2>2. CASE ~StartTick(e)
    <3>1. CASE roles
      BY <2>2, <3>1, RoleIsDone DEF Done, Remember
    <3>2. CASE ~roles
      <4>1. mem' = mem
        BY <2>2, <3>2 DEF Tick, SkipFrozen, MechanicHeals, PersistTick, FinishTick, TickFails,
                          SameData
      <4> QED BY <1>1, <2>2, <4>1
    <3> QED BY <3>1, <3>2
  <2> QED BY <2>1, <2>2
<1>5. PICK to \in {"roles", "diagnosing", "closing", "ready"} :
        at[e] \in Inside /\ at' = [at EXCEPT ![e] = to]
  <2>1. CASE roles
    BY <2>1, RoleIsDone DEF Done, Proceed, Inside, Places, Booting
  <2>2. CASE ~roles
    BY <2>2 DEF Tick, StartTick, SkipFrozen, MechanicHeals, PersistTick, FinishTick, TickFails,
                Proceed, Inside, Places, Booting
  <2> QED BY <2>1, <2>2
<1>6. UNCHANGED <<lockVars, mode>>
  <2>1. CASE roles
    BY <2>1, RoleIsDone DEF Done
  <2>2. CASE ~roles
    BY <2>2 DEF Tick, StartTick, SkipFrozen, MechanicHeals, PersistTick, FinishTick, TickFails,
                SameData
  <2> QED BY <2>1, <2>2
<1>7. /\ LockTypeOK' /\ at' \in [Processes -> Places]
      /\ holds' = {d \in Engines : at'[d] \notin {"off", "locking"}}
      /\ \A c \in Commands : at'[c] \in Booting \cup {"off", "ready"}
      /\ Quiet => NameIsHeld'
  <2>1. to \in Inside /\ to \notin {"probing", "stale"}
    BY DEF Inside, Places, Booting
  <2> QED BY <1>1, <1>5, <1>6, <2>1, StaysInside
<1>8. /\ agenda' \in [Processes -> 0..Recovering]
      /\ \A q \in Processes \ {e} : agenda'[q] = agenda[q]
      /\ to = "ready" => agenda'[e] = 0
  <2>1. {0, 1, Recovering} \subseteq 0..Recovering
    BY PipelineLength
  <2>2. ASSUME NEW a, Turn(e, a)
        PROVE  agenda' \in [Processes -> 0..Recovering]
               /\ \A q \in Processes \ {e} : agenda'[q] = agenda[q]
    BY <1>1, <2>2, PipelineLength DEF Turn
  <2>3. CASE roles
    BY <1>1, <1>5, <2>2, <2>3, RoleIsDone DEF Done, Proceed
  <2>4. CASE SkipFrozen(e)
    BY <1>1, <1>5, <2>2, <2>4 DEF SkipFrozen, Proceed
  <2>5. CASE ~roles /\ ~SkipFrozen(e)
    BY <1>1, <1>5, <2>1, <2>5
    DEF Tick, StartTick, MechanicHeals, PersistTick, FinishTick, TickFails, SameData, Proceed
  <2> QED BY <2>3, <2>4, <2>5
<1>9. \/ StartTick(e) \/ FinishTick(e) \/ PersistTick(e)
      \/ /\ to \in {"roles", "diagnosing"} /\ InTick(e)
         /\ UNCHANGED <<meta, marker, begun, persisted>>
  <2>1. CASE roles
    BY <1>1, <1>5, <2>1, RoleIsDone, PipelineLength DEF Done, Proceed, Turn, InTick
  <2>2. CASE ~roles
    BY <1>1, <1>5, <2>2
    DEF Tick, SkipFrozen, MechanicHeals, TickFails, SameData, Proceed, InTick
  <2> QED BY <2>1, <2>2
<1>10. WorldTypeOK'
  <2>1. /\ meta' \in Memory /\ begun' \in Nat /\ persisted' \in Nat
        /\ marker' \in [tick: Nat, status: {"started", "completed"}]
    <3> HIDE DEF next
    <3> QED BY <1>1, <1>2, <1>9 DEF StartTick, FinishTick, PersistTick, next
  <2>2. mem' \in [Processes -> Memory]
    BY <1>1, <1>4 DEF Sound
  <2> QED BY <1>1, <1>6, <1>7, <1>8, <2>1, <2>2 DEF WorldTypeOK
<1>11. Resting' /\ AllSound'
  <2>1. meta' \in {meta, mem[e]}
    BY <1>9 DEF StartTick, FinishTick, PersistTick
  <2>2. AllSound'
    BY <1>1, <1>4, <2>1 DEF WorldInv, AllSound
  <2>3. Resting'
    BY <1>1, <1>5, <1>8 DEF WorldInv, Resting
  <2> QED BY <2>2, <2>3
<1>12. ASSUME Quiet PROVE MarkerIsLast'
  <2>1. /\ \A q \in Processes \ {e} : /\ at'[q] = at[q] /\ agenda'[q] = agenda[q]
                                      /\ mem'[q] = mem[q]
        /\ at'[e] = to
    BY <1>1, <1>4, <1>5, <1>8
  <2>2. MarkerIsLast
    BY <1>12 DEF WorldInv
  <2>3. ASSUME NEW d \in Engines, InTick(d)' \/ at'[d] = "closing" PROVE d = e
    <3> SUFFICES ASSUME d # e PROVE FALSE
      OBVIOUS
    <3>1. d \in Processes /\ InTick(d)
      BY <2>1, <2>3 DEF InTick, Processes
    <3> QED BY <1>5, <1>12, <3>1, OneTicks
  <2>4. CASE StartTick(e)
    <3>1. marker' = [tick |-> next, status |-> "started"] /\ begun' \in {next, begun}
          /\ persisted' = persisted /\ mem'[e].tick = next /\ at'[e] = "roles"
      BY <1>1, <1>3, <1>4, <2>4 DEF StartTick, Proceed
    <3> HIDE DEF next
    <3> QED BY <1>1, <1>2, <2>2, <2>3, <3>1 DEF MarkerIsLast, CompletedIsPersisted
  <2>5. CASE FinishTick(e)
    <3>1. /\ marker' = [tick |-> mem[e].tick, status |-> "completed"] /\ begun' = begun
          /\ persisted' = persisted /\ at[e] = "closing" /\ at'[e] = "ready" /\ agenda'[e] = 0
      BY <1>1, <2>5 DEF FinishTick, Proceed
    <3>2. ~InTick(e)' /\ InTick(e)
      BY <3>1, PipelineLength DEF InTick
    <3> QED BY <1>1, <2>2, <2>3, <3>1, <3>2 DEF MarkerIsLast, CompletedIsPersisted
  <2>6. CASE PersistTick(e)
    <3>1. /\ persisted' = mem[e].tick /\ mem' = mem /\ UNCHANGED <<marker, begun>>
          /\ InTick(e)
      BY <2>6 DEF PersistTick, Proceed, InTick
    <3>2. mem[e].tick = marker.tick
      BY <2>2, <3>1 DEF MarkerIsLast
    <3> QED BY <1>1, <2>2, <2>3, <3>1, <3>2 DEF MarkerIsLast, CompletedIsPersisted
  <2>7. CASE ~StartTick(e) /\ ~FinishTick(e) /\ ~PersistTick(e)
    <3>1. to \in {"roles", "diagnosing"} /\ InTick(e) /\ UNCHANGED <<marker, begun, persisted>>
      BY <1>9, <2>7
    <3>2. mem'[e].tick = mem[e].tick
      BY <1>1, <1>4, <2>7
    <3> QED BY <1>1, <1>12, <2>1, <3>1, <3>2, MarkerStays
  <2> QED BY <2>4, <2>5, <2>6, <2>7
<1> QED BY <1>7, <1>10, <1>11, <1>12 DEF WorldInv

-----------------------------------------------------------------------------
(* Theorems.                                                               *)

LEMMA WorldStep == WorldInv /\ [WorldNext]_worldVars => WorldInv'
<1> SUFFICES ASSUME WorldInv, [WorldNext]_worldVars PROVE WorldInv'
  OBVIOUS
<1>1. CASE UNCHANGED worldVars
  BY <1>1 DEF worldVars, lockVars, dataVars, WorldInv, WorldTypeOK, LockTypeOK, Resting, AllSound,
              NameIsHeld, MarkerIsLast, CompletedIsPersisted, InTick
<1>2. CASE \E e \in Engines : OpenLock(e) \/ TakeLock(e) \/ Tick(e)
  BY <1>2, LockKeeps, TickKeeps
<1>3. CASE \E c \in Commands : StartCommand(c) \/ PersistAgain(c)
  BY <1>3, StartCommandKeeps, BootKeeps DEF Processes
<1>4. CASE \E p \in Processes : Bootstrap(p) \/ Leave(p)
  BY <1>4, BootKeeps, HealKeeps, LeaveKeeps DEF Bootstrap
<1> QED BY <1>1, <1>2, <1>3, <1>4 DEF WorldNext

(* For any engines and commands, and any cooldown: the types, the soundness*)
(* of every copy of the world and, when nobody boots while an engine takes *)
(* the lock, the order of locks and markers.                               *)
THEOREM WorldInvariant == WorldSpec => []WorldInv
BY WorldStarts, WorldStep, PTL DEF WorldSpec

(* Types, and only who holds the lock is past it.                          *)
THEOREM WorldTypes == WorldSpec => []WorldTypeOK
<1>1. WorldInv => WorldTypeOK
  BY DEF WorldInv
<1> QED BY WorldInvariant, <1>1, PTL

(* The trader is frozen as by the circuit breaker exactly while the broker *)
(* is halted, in every copy of the world: with any number of processes     *)
(* that load, work on and write back copies, Quiet or not.                 *)
THEOREM TraderFollows == WorldSpec => []TraderFollowsBroker
<1>1. WorldInv => TraderFollowsBroker
  BY DEF WorldInv, AllSound, Sound, TraderFollowsBroker
<1> QED BY WorldInvariant, <1>1, PTL

(* If nobody boots while an engine takes the lock, at most one engine is   *)
(* past the lock, whatever is repaired, killed and started.                *)
THEOREM OneHeartBeats == Quiet /\ WorldSpec => []OneHeart
<1>1. Quiet /\ WorldInv => OneHeart
  BY DEF WorldInv, WorldTypeOK, NameIsHeld, OneHeart
<1>2. CASE Quiet
  BY WorldInvariant, <1>1, <1>2, PTL
<1>3. CASE ~Quiet
  BY <1>3
<1> QED BY <1>2, <1>3

(* Under the same condition the marker calls a tick completed only when    *)
(* the world it left was persisted.                                        *)
THEOREM CompletedTicksPersist == Quiet /\ WorldSpec => []CompletedIsPersisted
<1>1. Quiet /\ WorldInv => CompletedIsPersisted
  BY DEF WorldInv, MarkerIsLast
<1>2. CASE Quiet
  BY WorldInvariant, <1>1, <1>2, PTL
<1>3. CASE ~Quiet
  BY <1>3
<1> QED BY <1>2, <1>3

(* Under the same condition a tick gets a number greater than any before,  *)
(* over crashes, restarts and commands that write older snapshots back.    *)
THEOREM TicksAreUnique == Quiet /\ WorldSpec => TicksUnique
<1>1. Quiet /\ WorldInv /\ [WorldNext]_worldVars
        => [\A e \in Engines : StartTick(e) => mem'[e].tick > begun]_worldVars
  <2> SUFFICES ASSUME Quiet, WorldInv, NEW e \in Engines, StartTick(e)
               PROVE  mem'[e].tick > begun
    OBVIOUS
  <2>1. /\ mem \in [Processes -> Memory] /\ mem[e] \in Memory /\ mem[e].tick \in Nat
        /\ marker.tick \in Nat /\ begun \in Nat /\ begun <= marker.tick /\ e \in Processes
    BY DEF WorldInv, WorldTypeOK, MarkerIsLast, Memory, Processes
  <2> DEFINE next == (IF marker.tick > mem[e].tick THEN marker.tick ELSE mem[e].tick) + 1
  <2>2. mem'[e] = [mem[e] EXCEPT !.tick = next]
    BY <2>1 DEF StartTick, Remember
  <2>3. mem'[e].tick = next
    BY <2>1, <2>2 DEF Memory
  <2> QED BY <2>1, <2>3
<1>2. CASE Quiet
  BY WorldInvariant, <1>1, <1>2, PTL DEF WorldSpec, TicksUnique
<1>3. CASE ~Quiet
  BY <1>3
<1> QED BY <1>2, <1>3
=============================================================================
