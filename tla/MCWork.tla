------------------------------- MODULE MCWork -------------------------------
(***************************************************************************)
(* The parts of the engine around its core share no state in the models:   *)
(* each is checked by itself, in one run.  A behaviour is one of a single  *)
(* part, chosen at the start, while the others rest.                       *)
(***************************************************************************)
EXTENDS Jobs, Letters, HumanInbox, Balances, Router, Market, Browsing, Alerts,
        Backup, Trials, Bridge, TLC

CONSTANT Under   (* the parts that are checked                              *)

VARIABLE which

marketOnly  == <<step, closes, certified, reports, tried>>
routerOnly  == <<setup, router, saved, asking, used, failed, chances>>
cadenceOnly == <<now, entry>>

(* Bounds: a job begins without a row, but one; faults are all possible    *)
(* with one job beside one that was rejected, only a crash with more; a    *)
(* part that rests is at one of its initial states.                        *)
WorkInit ==
  /\ which \in Under
  /\ JobsInit /\ LettersInit /\ HumanInit /\ BalancesInit /\ RouterInit /\ MarketInit
  /\ BrowsingInit /\ AlertsInit /\ BackupInit /\ TrialsInit /\ BridgeInit
  /\ IF which = "jobs"
     THEN \/ faults = {"crash"} /\ \A j \in Gigs : status[j] = "absent"
          \/ /\ faults = Faults /\ Cardinality(In({"absent"})) = 1
             /\ \A j \in In({"rejected"}) : via[j] = "mail"
     ELSE faults = {} /\ \A j \in Gigs : status[j] = "absent" /\ via[j] = "mail"
  /\ which # "letters" => steady
  /\ which # "router" => setup = "claude"
  /\ which # "alerts" => channel = "mail"
  /\ which # "backup" => files = {}
  /\ which # "bridge" => sdk /\ ~late

JobsSteps     == which = "jobs" /\ JobsNext
LettersSteps  == which = "letters" /\ LettersNext
HumanSteps    == which = "human" /\ HumanNext
BalancesSteps == which = "balances" /\ BalancesNext
RouterSteps   == which = "router" /\ RouterNext
MarketSteps   == which = "market" /\ MarketNext
BrowsingSteps == which = "browsing" /\ BrowsingNext
AlertsSteps   == which = "alerts" /\ AlertsNext
BackupSteps   == which = "backup" /\ BackupNext
TrialsSteps   == which = "trials" /\ TrialsNext
BridgeSteps   == which = "bridge" /\ BridgeNext

Unless(part, v) == which # part => UNCHANGED v

WorkNext ==
  /\ UNCHANGED which
  /\ \/ JobsSteps \/ LettersSteps \/ HumanSteps \/ BalancesSteps \/ RouterSteps
     \/ MarketSteps \/ BrowsingSteps \/ AlertsSteps \/ BackupSteps
     \/ TrialsSteps \/ BridgeSteps
  /\ Unless("jobs", jobsVars) /\ Unless("letters", lettersVars)
  /\ Unless("human", humanVars) /\ Unless("balances", balancesVars)
  /\ Unless("router", routerOnly) /\ Unless("market", marketOnly)
  /\ which \notin {"router", "market"} => UNCHANGED cadenceOnly
  /\ Unless("browsing", browsingVars) /\ Unless("alerts", alertsVars)
  /\ Unless("backup", backupVars) /\ Unless("trials", trialsVars)
  /\ Unless("bridge", bridgeVars)

workVars == <<which, jobsVars, lettersVars, humanVars, balancesVars, routerOnly,
              marketOnly, cadenceOnly, browsingVars, alertsVars, backupVars,
              trialsVars, bridgeVars>>

WorkSpec == WorkInit /\ [][WorkNext]_workVars

Symmetric == Permutations(Gigs) \cup Permutations(Threads)
=============================================================================
