------------------------------- MODULE Alerts -------------------------------
(***************************************************************************)
(* Alerts of sovereign/alerts.py as the loop of engine/daemon.py sends     *)
(* them: after a tick that did not fail, one for each kind of incident, by *)
(* a webhook or by mail, and not again for a while.                        *)
(***************************************************************************)
EXTENDS Integers

CONSTANTS
  Kinds,      (* kinds of incidents                                         *)
  Window,     (* throttle_minutes                                           *)
  MaxClock    (* bound: time stops here                                     *)

ASSUME AlertsAssumption == Window \in Nat /\ MaxClock \in Nat

VARIABLES
  channel,    (* the channel of the configuration                           *)
  clock,
  raised,     (* the incidents that detect() would find                     *)
  marks,      (* alert_state: when each kind was sent last                  *)
  dispatch,   (* what dispatch() does, and what is left of its candidates   *)
  told,       (* history: when a message of each kind left last             *)
  missed,     (* history: kinds that did not get out after this tick        *)
  unmarked    (* history: kinds whose last message left without a mark      *)

alertsVars == <<channel, clock, raised, marks, dispatch, told, missed, unmarked>>

NoDispatch == [at |-> "idle", all |-> {}, left |-> {}, now |-> "none"]
Never      == <<>>      (* no time; else <<t>>                              *)
Within(mark) == mark # Never /\ clock - mark[1] < Window

AlertsInit ==
  /\ channel \in {"webhook", "mail"}
  /\ clock = 0 /\ raised = {}
  /\ marks = [k \in Kinds |-> Never] /\ told = [k \in Kinds |-> Never]
  /\ dispatch = NoDispatch
  /\ missed = {} /\ unmarked = {}

AlertsTypeOK ==
  /\ clock \in 0..MaxClock
  /\ raised \cup missed \cup unmarked \subseteq Kinds
  /\ \A k \in Kinds : {marks[k], told[k]} \subseteq {Never} \cup {<<t>> : t \in 0..MaxClock}
  /\ dispatch.at \in {"idle", "kinds", "sent"}
  /\ dispatch.left \subseteq dispatch.all /\ dispatch.all \subseteq Kinds

(* An incident begins or ends.                                             *)
Incident(k) ==
  /\ dispatch = NoDispatch
  /\ raised' = IF k \in raised THEN raised \ {k} ELSE raised \cup {k}
  /\ UNCHANGED <<channel, clock, marks, dispatch, told, missed, unmarked>>

(* The next tick; one that fails is not followed by a dispatch.            *)
TickEnds ==
  /\ dispatch = NoDispatch /\ clock < MaxClock
  /\ clock' = clock + 1 /\ missed' = {}
  /\ dispatch' \in {NoDispatch,
                    [at |-> "kinds", all |-> raised, left |-> raised, now |-> "none"]}
  /\ UNCHANGED <<channel, raised, marks, told, unmarked>>

Throttled(k) ==
  /\ dispatch.at = "kinds" /\ k \in dispatch.left
  /\ Within(marks[k])
  /\ dispatch' = [dispatch EXCEPT !.left = @ \ {k}]
  /\ UNCHANGED <<channel, clock, raised, marks, told, missed, unmarked>>

(* The send of kind k: whether a message gets out, and whether send()      *)
(* comes to its end and says "sent".                                       *)
SendOut(k, out, says) ==
  /\ dispatch.at = "kinds" /\ k \in dispatch.left
  /\ ~Within(marks[k])
  /\ \/ /\ out /\ told' = [told EXCEPT ![k] = <<clock>>]
        /\ unmarked' = unmarked \cup {k} /\ UNCHANGED missed
     \/ /\ ~out /\ missed' = missed \cup {k} /\ UNCHANGED <<told, unmarked>>
  /\ \/ says /\ dispatch' = [dispatch EXCEPT !.at = "sent", !.now = k]
     \/ ~says /\ dispatch' = [dispatch EXCEPT !.left = @ \ {k}]
  /\ UNCHANGED <<channel, clock, raised, marks>>

(* Mutant: a webhook's refusal is not noticed.                             *)
SendAlert_Regardless(k) == \E out, says \in BOOLEAN : SendOut(k, out, says)

(* _send(): a webhook that refuses is an error, and so is one that took    *)
(* the message and then timed out or answered with a failure; without an   *)
(* address it is skipped. A mail that no transport takes stays queued and  *)
(* counts as sent; its send() may also raise, before or after it left.     *)
SendAlert(k) ==
  \E out, says \in BOOLEAN : (channel = "webhook" /\ says => out) /\ SendOut(k, out, says)

(* The mark, stored for each kind by itself.                               *)
MarkSent ==
  /\ dispatch.at = "sent"
  /\ marks' = [marks EXCEPT ![dispatch.now] = <<clock>>]
  /\ unmarked' = unmarked \ {dispatch.now}
  /\ dispatch' = [dispatch EXCEPT !.at = "kinds", !.left = @ \ {dispatch.now},
                                   !.now = "none"]
  /\ UNCHANGED <<channel, clock, raised, told, missed>>

EndDispatch ==
  /\ dispatch.at = "kinds" /\ dispatch.left = {}
  /\ dispatch' = NoDispatch
  /\ UNCHANGED <<channel, clock, raised, marks, told, missed, unmarked>>

(* The daemon dies, or an exception, as of the write of the mark, ends the *)
(* dispatch before its time.                                               *)
AlertsDie ==
  /\ dispatch # NoDispatch
  /\ dispatch' = NoDispatch
  /\ UNCHANGED <<channel, clock, raised, marks, told, missed, unmarked>>

AlertsNext ==
  \/ \E k \in Kinds : Incident(k) \/ Throttled(k) \/ SendAlert(k)
  \/ TickEnds \/ MarkSent \/ EndDispatch \/ AlertsDie

AlertsSpec == AlertsInit /\ [][AlertsNext]_alertsVars
-----------------------------------------------------------------------------
(* Properties.                                                             *)

(* The operator hears of an incident once in a while and no more often:    *)
(* within a window a message of its kind goes out again only if the last   *)
(* one got no mark, since the dispatch was cut off or the channel did not  *)
(* confirm what it had taken; and when a dispatch by webhook is over,      *)
(* every incident it found was told of lately, or could not be told of     *)
(* just now.                                                               *)
ToldInTime ==
  [][/\ \A k \in Kinds : told'[k] # told[k] => ~Within(told[k]) \/ k \in unmarked
     /\ channel = "webhook" /\ dispatch.left = {} /\ dispatch' = NoDispatch
          => \A k \in dispatch.all : Within(told[k]) \/ k \in missed]_alertsVars
=============================================================================
