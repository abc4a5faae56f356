------------------------------- MODULE Router -------------------------------
(***************************************************************************)
(* The model router of sovereign/runtime/router.py, live: a daily budget   *)
(* of tokens, one failed call that degrades the router, and the three ways *)
(* back: a new day, the crafter's hourly retry, a restart.  Threads that   *)
(* the watchdog left behind call the same router.                          *)
(***************************************************************************)
EXTENDS Cadence, FiniteSets

CONSTANTS
  Askers,      (* threads that call the router                              *)
  Budget,      (* daily_token_budget                                        *)
  Sizes,       (* estimates of a call                                       *)
  MaxReply,    (* tokens of an answer, at most                              *)
  DayLength,   (* a day                                                     *)
  MaxDays,     (* bound: days                                               *)
  CraftEvery   (* craft_retry_hours                                         *)

ASSUME RouterAssumption ==
  /\ {Budget, MaxReply} \subseteq Nat /\ Sizes \subseteq Nat \ {0}
  /\ {DayLength, CraftEvery, MaxDays} \subseteq Nat \ {0}
  /\ IsFiniteSet(Askers) /\ Askers # {}
  /\ \E s \in Sizes : \A o \in Sizes : o <= s
  /\ "craft_provider_retry" \in Entries

VARIABLES
  setup,     (* the providers of the configuration                          *)
  router,    (* the router of the running process                           *)
  saved,     (* its snapshot in the store                                   *)
  asking,    (* what each thread waits for                                  *)
  used,      (* history: tokens of this day's answers                       *)
  failed,    (* history: calls of this day that failed                      *)
  chances    (* history: how often the crafter gave the provider a chance   *)

routerVars == <<now, entry, setup, router, saved, asking, used, failed, chances>>

Today  == now \div DayLength
NotAsking == [at |-> "idle", size |-> 0, day |-> 0, tool |-> FALSE]
Routers == [tokens: Nat, day: Nat, degraded: BOOLEAN, why: {"", "budget", "provider"}]

RouterInit ==
  /\ CadenceInit
  /\ setup \in {"claude", "claude+api", "api"}
  /\ router = [tokens |-> 0, day |-> 0, degraded |-> FALSE, why |-> ""]
  /\ saved = router
  /\ asking = [t \in Askers |-> NotAsking]
  /\ used = 0 /\ failed = 0 /\ chances = 0

RouterTypeOK ==
  /\ CadenceTypeOK
  /\ setup \in {"claude", "claude+api", "api"}
  /\ {router, saved} \subseteq Routers
  /\ asking \in [Askers -> [at: {"idle", "claude", "api"}, size: Sizes \cup {0},
                            day: Nat, tool: BOOLEAN]]
  /\ {used, failed, chances} \subseteq Nat

-----------------------------------------------------------------------------
(* _roll_day(): a new day starts afresh.                                   *)
Rolled(r) ==
  IF r.day = Today THEN r
  ELSE [tokens |-> 0, day |-> Today, degraded |-> FALSE, why |-> ""]

Remaining(r) == IF r.tokens > Budget THEN 0 ELSE Budget - r.tokens

(* _queue(): the caller gets nothing, and everybody after it.              *)
Queued(r, why) == [r EXCEPT !.degraded = TRUE, !.why = why]

Counted(r, n) == [Rolled(r) EXCEPT !.tokens = @ + n]

MarkCraft(tool) == IF tool THEN Mark("craft_provider_retry") ELSE UNCHANGED entry

(* Mutant: a degraded router goes on asking.                               *)
AskModel_Degraded(t, size, tool) ==
  LET r == Rolled(router)
  IN  /\ asking[t] = NotAsking
      /\ \/ /\ size > Remaining(r)
            /\ router' = Queued(r, "budget")
            /\ UNCHANGED asking /\ MarkCraft(tool)
         \/ /\ size <= Remaining(r)
            /\ router' = Queued(r, "provider")
            /\ UNCHANGED asking /\ MarkCraft(tool)
         \/ /\ size <= Remaining(r)
            /\ router' = r
            /\ \E at \in {"claude", "api"} :
                 /\ at = "api" => setup # "claude" /\ ~tool
                 /\ at = "claude" => setup # "api"
                 /\ asking' = [asking EXCEPT ![t] =
                      [at |-> at, size |-> size, day |-> Today, tool |-> tool]]
            /\ UNCHANGED entry
      /\ UNCHANGED <<now, setup, saved, used, failed, chances>>

(* complete() and, for the crafter, complete_in_dir(), which needs Claude: *)
(* too big for what is left of the budget; degraded; no provider; or sent. *)
(* A craft that comes back with nothing is marked in the schedule.         *)
AskModel(t, size, tool) ==
  LET r == Rolled(router)
  IN  /\ asking[t] = NotAsking
      /\ \/ /\ size > Remaining(r)
            /\ router' = Queued(r, "budget")
            /\ UNCHANGED asking /\ MarkCraft(tool)
         \/ /\ size <= Remaining(r) /\ r.degraded
            /\ router' = r
            /\ UNCHANGED asking /\ MarkCraft(tool)
         \/ /\ size <= Remaining(r) /\ ~r.degraded
            /\ router' = Queued(r, "provider")
            /\ UNCHANGED asking /\ MarkCraft(tool)
         \/ /\ size <= Remaining(r) /\ ~r.degraded
            /\ router' = r
            /\ \E at \in {"claude", "api"} :
                 /\ at = "api" => setup # "claude" /\ ~tool
                 /\ at = "claude" => setup # "api"
                 /\ asking' = [asking EXCEPT ![t] =
                      [at |-> at, size |-> size, day |-> Today, tool |-> tool]]
            /\ UNCHANGED entry
      /\ UNCHANGED <<now, setup, saved, used, failed, chances>>

(* _count() what the provider took: for the day it answers on.             *)
Answered(t, n) ==
  /\ asking[t].at # "idle"
  /\ router' = Counted(router, asking[t].size + n)
  /\ used' = used + asking[t].size + n
  /\ asking' = [asking EXCEPT ![t] = NotAsking]
  /\ UNCHANGED <<now, entry, setup, saved, failed, chances>>

(* Claude falls back to the API where that is set up; else it is queued.   *)
Failed(t) ==
  /\ asking[t].at # "idle"
  /\ IF asking[t].at = "claude" /\ setup = "claude+api" /\ ~asking[t].tool
     THEN /\ asking' = [asking EXCEPT ![t].at = "api"]
          /\ UNCHANGED <<entry, router, failed>>
     ELSE /\ asking' = [asking EXCEPT ![t] = NotAsking]
          /\ router' = Queued(router, "provider") /\ MarkCraft(asking[t].tool)
          /\ failed' = failed + (IF asking[t].day = Today THEN 1 ELSE 0)
  /\ UNCHANGED <<now, setup, saved, used, chances>>

(* _queued_craft_ready(): a provider that failed gets another chance, an   *)
(* exhausted budget does not; the schedule is marked before it is known    *)
(* whether the provider is there.  One step: it is the first thing that a  *)
(* crafter does and waits for nobody, so a crafter that was left behind is *)
(* past it, and the heartbeat runs one other.                              *)
TryAgain ==
  LET r == Rolled(router)
  IN  /\ r.degraded /\ r.why # "budget"
      /\ Claim("craft_provider_retry", CraftEvery)
      /\ \/ /\ setup # "api" /\ Remaining(r) > 0
            /\ router' = [r EXCEPT !.degraded = FALSE, !.why = ""]
            /\ chances' = chances + 1
         \/ router' = r /\ UNCHANGED chances
      /\ UNCHANGED <<now, setup, saved, asking, used, failed>>

(* snapshot(), stored at the end of every tick.                            *)
SaveRouter ==
  /\ router' = Rolled(router) /\ saved' = Rolled(router)
  /\ UNCHANGED <<now, entry, setup, asking, used, failed, chances>>

(* A crash forgets what was not saved, and the account of the day with it. *)
Forgets == Rolled(router) # Rolled(saved) \/ \E t \in Askers : asking[t] # NotAsking

Restart ==
  /\ used' = IF Forgets THEN Rolled(saved).tokens ELSE used
  /\ failed' = IF Forgets THEN 0 ELSE failed
  /\ chances' = IF Forgets THEN 0 ELSE chances
  /\ asking' = [t \in Askers |-> NotAsking]
  /\ UNCHANGED <<now, entry, setup, saved>>

(* The process ends, perhaps with calls under way; the next one restores.  *)
RestoreRouter == router' = Rolled(saved) /\ Restart

TimeOfRouter ==
  /\ now + 1 < MaxDays * DayLength /\ now' = now + 1
  /\ IF (now + 1) \div DayLength = Today
     THEN UNCHANGED <<used, failed, chances>>
     ELSE used' = 0 /\ failed' = 0 /\ chances' = 0
  /\ UNCHANGED <<entry, setup, router, saved, asking>>

RouterNext ==
  \/ \E t \in Askers :
       \/ \E size \in Sizes, tool \in BOOLEAN : AskModel(t, size, tool)
       \/ \E n \in {0, MaxReply} : Answered(t, n)
       \/ Failed(t)
  \/ TryAgain \/ SaveRouter \/ RestoreRouter \/ TimeOfRouter

RouterSpec == RouterInit /\ [][RouterNext]_routerVars
-----------------------------------------------------------------------------
(* Properties.                                                             *)

(* Estimates are checked before, tokens are counted after a call: however  *)
(* calls overlap, a day's tokens exceed the budget by no more than what    *)
(* was under way when it ran out, also across a clean restart.             *)
BudgetHolds ==
  LET n    == Cardinality(Askers)
      most == CHOOSE s \in Sizes : \A o \in Sizes : o <= s
  IN  used <= Budget + n * MaxReply + (n - 1) * most

(* A provider that fails is left alone: a day has at most one round of     *)
(* failing calls, and one more for each chance that the crafter gave it,   *)
(* and those an hour apart.                                                *)
ProviderLeftAlone ==
  /\ failed <= Cardinality(Askers) * (1 + chances)
  /\ chances <= 1 + (DayLength - 1) \div CraftEvery

(* The firm's thirst for answers is bounded.                               *)
RouterRestrained == BudgetHolds /\ ProviderLeftAlone
=============================================================================
