------------------------------- MODULE Trials --------------------------------
(***************************************************************************)
(* The closer's playbook and its trial: memory/playbooks.py, improver() of *)
(* sovereign/agents/roles.py, and the accept USD that accept_job() of      *)
(* labor/pipeline.py notes for the playbook a proposal was written with.   *)
(*                                                                         *)
(* The trial is a file, what is measured of it a row of the key value      *)
(* table that every user reads, changes and writes back as a whole, and    *)
(* the judgement changes first the one and then the other.  The users are  *)
(* one role of the firm at a time and the operator's process; no closer or *)
(* improver is left behind.                                                *)
(***************************************************************************)
EXTENDS Integers, FiniteSets

CONSTANTS
  Offers,       (* jobs to write proposals for, by the number that is made  *)
                (* of their id                                              *)
  Uses,         (* uses of each playbook before a trial is judged; 6        *)
  MaxTrials,    (* bound on the trials that are written                     *)
  MaxUses,      (* bound on the uses that are counted                       *)
  MaxTroubles   (* bound on the commands of the operator and the processes  *)
                (* that die                                                 *)

ASSUME TrialsAssumption == Offers \subseteq Nat /\ Uses \in Nat \ {0}

VARIABLES
  control,      (* closer.md: the number of the trial it came from, or 0    *)
  trial,        (* closer.trial.md: its number, or 0 for no file            *)
  ab,           (* the row ab_closer                                        *)
  offer,        (* the jobs: state, and the column ab_variant               *)
  firm,         (* what the heartbeat is doing                              *)
  desk,         (* what the operator's `sovereign accept` is doing          *)
  written,      (* history: trials written                                  *)
  fair,         (* history: uses of each playbook, at most Uses, since the  *)
                (* trial is there                                           *)
  troubles,     (* history: commands of the operator, and deaths            *)
  torn          (* history: a judgement was cut off, or overlapped a user   *)
                (* of the row that wrote its old copy back                  *)

records    == <<control, trial, ab, offer>>
noted      == <<written, fair, troubles, torn>>
trialsVars == <<records, firm, desk, noted>>

Zero == [uses |-> [control |-> 0, trial |-> 0], usd |-> [control |-> 0, trial |-> 0]]
Untried == [state |-> "open", variant |-> "none"]
Free == [at |-> "", offer |-> 0, text |-> 0, row |-> Untried, ab |-> Zero]

TrialsInit ==
  /\ control = 0 /\ trial = 0 /\ ab = Zero
  /\ offer = [o \in Offers |-> Untried]
  /\ firm = Free /\ desk = Free
  /\ written = 0 /\ fair = Zero.uses
  /\ troubles = 0 /\ torn = FALSE

-----------------------------------------------------------------------------
(* closer(): read_playbook_ab(), the model, mail, the row.                 *)

(* A job goes to the trial or to the control by its id, each time it is    *)
(* tried.                                                                  *)
Variant(o) == IF o % 2 = 0 THEN "trial" ELSE "control"

StartDraft(o) ==
  /\ firm = Free /\ offer[o].state = "open"
  /\ trial # 0 => ab.uses[Variant(o)] < MaxUses
  /\ firm' = IF trial = 0
             THEN [Free EXCEPT !.at = "draft", !.offer = o, !.text = control]
             ELSE [Free EXCEPT !.at = "count", !.offer = o, !.ab = ab,
                     !.text = IF Variant(o) = "trial" THEN trial ELSE control]
  /\ UNCHANGED <<records, desk, noted>>

CountUse ==
  /\ firm.at = "count"
  /\ ab' = [firm.ab EXCEPT !.uses[Variant(firm.offer)] = @ + 1]
  /\ fair' = [fair EXCEPT ![Variant(firm.offer)] = IF @ < Uses THEN @ + 1 ELSE @]
  /\ firm' = [firm EXCEPT !.at = "draft", !.ab = Zero]
  /\ UNCHANGED <<control, trial, offer, desk, written, troubles, torn>>

(* The model, the mail or the budget fails and the job stays; or it is     *)
(* sent, and was written with the trial if that is still the same text.    *)
Propose ==
  LET o == firm.offer
  IN  /\ firm.at = "draft"
      /\ firm' = Free
      /\ \/ UNCHANGED offer
         \/ offer' = [offer EXCEPT ![o] = [state |-> "applied",
              variant |-> IF trial # 0 /\ firm.text = trial THEN "trial" ELSE "control"]]
      /\ UNCHANGED <<control, trial, ab, desk, written, fair, troubles, torn>>

-----------------------------------------------------------------------------
(* accept_job(), for a letter on the heartbeat or for the operator.  Every *)
(* job has the same price.                                                 *)

Winnable(o) == offer[o].state \in {"open", "applied"}
Acceptance(o) == [Free EXCEPT !.at = "credit", !.offer = o, !.row = offer[o], !.ab = ab]

LetterAccepts(o) ==
  /\ firm = Free /\ Winnable(o)
  /\ firm' = Acceptance(o)
  /\ UNCHANGED <<records, desk, noted>>

OperatorAccepts(o) ==
  /\ desk = Free /\ Winnable(o) /\ troubles < MaxTroubles
  /\ troubles' = troubles + 1
  /\ desk' = Acceptance(o)
  /\ UNCHANGED <<records, firm, written, fair, torn>>

Credited(h) == [h.ab EXCEPT !.usd[h.row.variant] = @ + 1]
Credit(h) ==
  /\ h.at = "credit"
  /\ ab' = IF h.row.variant = "none" THEN ab ELSE Credited(h)
  /\ UNCHANGED <<control, trial, offer, noted>>

LetterCredits   == Credit(firm) /\ firm' = [firm EXCEPT !.at = "accept"] /\ UNCHANGED desk
OperatorCredits == Credit(desk) /\ desk' = [desk EXCEPT !.at = "accept"] /\ UNCHANGED firm

Accept(h) ==
  /\ h.at = "accept"
  /\ offer' = [offer EXCEPT ![h.offer] = [h.row EXCEPT !.state = "accepted"]]
  /\ UNCHANGED <<control, trial, ab, noted>>

LetterEnds   == Accept(firm) /\ firm' = Free /\ UNCHANGED desk
OperatorEnds == Accept(desk) /\ desk' = Free /\ UNCHANGED firm

-----------------------------------------------------------------------------
(* improver().                                                             *)

(* The trial earned more than the control for each use, by 5 %.            *)
Better(m) == m.usd.trial * m.uses.control * 100 > m.usd.control * m.uses.trial * 105

Measured(m) == m.uses.trial >= Uses /\ m.uses.control >= Uses

(* promote_trial() copies the trial over the control, then unlinks it;     *)
(* revert_trial() only unlinks it.                                         *)
Judge ==
  /\ firm = Free /\ trial # 0 /\ Measured(ab)
  /\ IF Better(ab)
     THEN control' = trial /\ firm' = [Free EXCEPT !.at = "unlink"] /\ UNCHANGED trial
     ELSE trial' = 0 /\ firm' = [Free EXCEPT !.at = "reset"] /\ UNCHANGED control
  /\ UNCHANGED <<ab, offer, desk, noted>>

Unlink ==
  /\ firm.at = "unlink"
  /\ trial' = 0
  /\ firm' = [firm EXCEPT !.at = "reset"]
  /\ UNCHANGED <<control, ab, offer, desk, noted>>

(* Mutant: the measures of the judged trial stay.                          *)
Reset_Forgotten ==
  /\ firm.at = "reset"
  /\ firm' = Free
  /\ UNCHANGED <<records, desk, noted>>

Reset ==
  /\ firm.at = "reset"
  /\ ab' = Zero
  /\ firm' = Free
  /\ torn' = (torn \/ desk.at = "credit")
  /\ UNCHANGED <<control, trial, offer, desk, written, fair, troubles>>

(* Without a trial the model is asked for one; it may have none.           *)
WriteTrial ==
  /\ firm = Free /\ trial = 0 /\ written < MaxTrials
  /\ trial' = written + 1 /\ written' = written + 1
  /\ fair' = Zero.uses
  /\ UNCHANGED <<control, ab, offer, firm, desk, troubles, torn>>

-----------------------------------------------------------------------------
(* The daemon dies at any step, or the operator's command.                 *)
FirmDies ==
  /\ firm # Free /\ troubles < MaxTroubles
  /\ firm' = Free
  /\ torn' = (torn \/ firm.at = "reset")
  /\ troubles' = troubles + 1
  /\ UNCHANGED <<records, desk, written, fair>>

DeskDies ==
  /\ desk # Free /\ troubles < MaxTroubles
  /\ desk' = Free /\ troubles' = troubles + 1
  /\ UNCHANGED <<records, firm, written, fair, torn>>

TrialsNext ==
  \/ \E o \in Offers : StartDraft(o) \/ LetterAccepts(o) \/ OperatorAccepts(o)
  \/ CountUse \/ Propose \/ LetterCredits \/ LetterEnds \/ OperatorCredits \/ OperatorEnds
  \/ Judge \/ Unlink \/ Reset \/ WriteTrial \/ FirmDies \/ DeskDies

TrialsSpec == TrialsInit /\ [][TrialsNext]_trialsVars
-----------------------------------------------------------------------------
(* Properties.                                                             *)

(* A trial is promoted or thrown away only after it and the control were   *)
(* both used often enough since it was written, whoever else reads, counts *)
(* and writes the row, and wherever processes die; except when the reset   *)
(* of the row after an earlier judgement was lost.                         *)
JudgedOnUse ==
  [][trial # 0 /\ (trial' = 0 \/ control' # control) /\ ~torn =>
       fair.control >= Uses /\ fair.trial >= Uses]_trialsVars
=============================================================================
