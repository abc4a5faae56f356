----------------------------- MODULE Governance -----------------------------
(***************************************************************************)
(* Who is frozen, and why: World.freeze and thaw, the scores of            *)
(* governance/reputation.py, the halts of markets/paper.py, and what the   *)
(* mechanic, risk and ethics roles do with them in one tick.               *)
(*                                                                         *)
(* A memory m is what a process knows: its tick number, the freeze and the *)
(* score of each agent, and whether the broker is halted.  Operations are  *)
(* functions from one memory to the next.  A score is only ever compared   *)
(* with the 20 points below which an agent is frozen, so it is "low" or    *)
(* "fair"; how far a slash or a boost carries is a choice.                 *)
(***************************************************************************)
EXTENDS Naturals

CONSTANT Cooldown   (* ticks a freeze or a halt lasts at least              *)

Agents == {"mechanic", "risk", "ethics", "trader", "operator"}
Modes  == {"sim", "live"}

Freeze == [kind: {"none", "risk", "runtime", "ethics", "circuit_breaker"}, since: Nat]
Free   == [kind |-> "none", since |-> 0]
(* blocked: the broker was ready to trade but the trader was frozen for    *)
(* another reason.                                                         *)
Halt   == [on: BOOLEAN, since: Nat, blocked: BOOLEAN]
NoHalt == [on |-> FALSE, since |-> 0, blocked |-> FALSE]
Memory == [tick: Nat, freezes: [Agents -> Freeze], score: [Agents -> {"low", "fair"}],
           halt: Halt]
Fresh  == [tick |-> 0, freezes |-> [a \in Agents |-> Free],
           score |-> [a \in Agents |-> "fair"], halt |-> NoHalt]

Frozen(m, a)   == m.freezes[a].kind # "none"
AutoThaw(kind) == kind \notin {"ethics", "circuit_breaker"}

(* Mutant: the first reason stays, whatever comes.                         *)
FreezeAgent_First(m, a, kind) ==
  IF ~Frozen(m, a) THEN [m EXCEPT !.freezes[a] = [kind |-> kind, since |-> m.tick]] ELSE m

(* freeze(): the clock of a frozen agent goes on, and only a freeze that   *)
(* does not thaw by itself replaces one that does.                         *)
FreezeAgent(m, a, kind) ==
  IF ~Frozen(m, a) THEN [m EXCEPT !.freezes[a] = [kind |-> kind, since |-> m.tick]]
  ELSE IF AutoThaw(m.freezes[a].kind) /\ ~AutoThaw(kind)
       THEN [m EXCEPT !.freezes[a].kind = kind]
  ELSE m

ThawAgent(m, a) == [m EXCEPT !.freezes[a] = Free]

(* Slash(m, a, low): a slash that leaves the agent low, if low says so.    *)
Slash(m, a, low) == [m EXCEPT !.score[a] = IF low THEN "low" ELSE @]

-----------------------------------------------------------------------------
(* thaw_cooled() in sim mode, the loop of the mechanic in live mode.       *)
(* lifted are the agents whom the 12 points bring up.  Sim mode boosts     *)
(* every frozen agent that served its time, live mode only those who thaw  *)
(* by themselves; neither thaws another one.                               *)
ServedTime(m, a, mode) ==
  /\ Frozen(m, a)
  /\ m.tick - m.freezes[a].since >= Cooldown
  /\ mode = "live" => AutoThaw(m.freezes[a].kind)

Cooled(m, lifted, mode) ==
  LET score(a) == IF ServedTime(m, a, mode) /\ a \in lifted THEN "fair" ELSE m.score[a]
      freeze(a) ==
        IF ~ServedTime(m, a, mode) THEN m.freezes[a]
        ELSE IF score(a) = "low" THEN [m.freezes[a] EXCEPT !.since = m.tick]
        ELSE IF AutoThaw(m.freezes[a].kind) THEN Free
        ELSE m.freezes[a]
  IN  [m EXCEPT !.freezes = [a \in Agents |-> freeze(a)],
                !.score = [a \in Agents |-> score(a)]]

(* maybe_unfreeze(): the losses are gone and the halt served its time.  In *)
(* sim mode a blocked halt has no tick to count from.                      *)
HaltEnds(m, losing, mode) ==
  /\ m.halt.on /\ ~losing
  /\ m.tick - m.halt.since >= Cooldown
  /\ mode = "sim" => ~m.halt.blocked

(* risk(): the broker's halt and the trader's freeze, then everyone whose  *)
(* score is low.                                                           *)
EndHalt(m, losing, mode) ==
  IF ~HaltEnds(m, losing, mode) THEN m
  ELSE IF m.freezes["trader"].kind \in {"none", "circuit_breaker"}
       THEN [ThawAgent(m, "trader") EXCEPT !.halt = NoHalt]
  ELSE [m EXCEPT !.halt = [on |-> TRUE, since |-> m.tick, blocked |-> TRUE]]

BeginHalt(m, losing) ==
  IF losing /\ ~m.halt.on
  THEN FreezeAgent([m EXCEPT !.halt = [on |-> TRUE, since |-> m.tick, blocked |-> FALSE]],
                   "trader", "circuit_breaker")
  ELSE m

FreezeLow(m) ==
  [m EXCEPT !.freezes = [a \in Agents |->
     IF m.score[a] = "low" /\ ~Frozen(m, a) THEN [kind |-> "risk", since |-> m.tick] ELSE @[a]]]

RiskRole(m, losing, mode) == FreezeLow(BeginHalt(EndHalt(m, losing, mode), losing))

(* ethics(): secrets show in a recent event.                               *)
EthicsRole(m, leak, low) ==
  IF leak THEN FreezeAgent(Slash(m, "operator", low), "operator", "ethics") ELSE m

(* A role that raises or times out is slashed by the heartbeat.            *)
Failed(m, a, low) ==
  LET n == Slash(m, a, low)
  IN  IF n.score[a] = "low" THEN FreezeAgent(n, a, "runtime") ELSE n

(* The halt of the broker and the freeze of the trader go together.        *)
HaltMatchesFreeze(m) == m.halt.on <=> m.freezes["trader"].kind = "circuit_breaker"
=============================================================================
