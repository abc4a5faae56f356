------------------------------ MODULE Browsing ------------------------------
(***************************************************************************)
(* Web sessions: the one browser that a tick shares among sites, of        *)
(* sovereign/web/session.py, behind the web tools of tools/catalog.py, and *)
(* the vault of logins of web/vault.py, one file for each site with an     *)
(* index.  The driver of web/driver_playwright.py is as it says: it has    *)
(* one context, which a stored login replaces as a whole.                  *)
(***************************************************************************)
EXTENDS Integers, FiniteSets

CONSTANTS
  Sites,       (* the allowlisted domains                                   *)
  Forbidden,   (* a domain that is not                                      *)
  PerTick,     (* web.actions_per_tick                                      *)
  PerSession,  (* web.max_actions                                           *)
  MaxLogin,    (* bound: how often a site renews a login                    *)
  Manners      (* of {"one site", "turns"}: the agents visit one site a     *)
               (* tick; the operator waits until the browser is closed      *)

ASSUME BrowsingAssumption ==
  {PerTick, PerSession, MaxLogin} \subseteq Nat /\ Manners \subseteq {"one site", "turns"}

VARIABLES
  login,     (* the login that each site accepts, 0 for none                *)
  file,      (* sessions_dir: of each site its storage state, or none       *)
  index,     (* the sites the index lists                                   *)
  browser,   (* the context of the live driver: its logins; <<>> for none   *)
  opened,    (* the live sessions, with what each has used                  *)
  count,     (* the guard of this tick                                      *)
  saving,    (* the sites that close() still has to save; what it does      *)
  cut        (* history: the sites that were open in a browser that died,   *)
             (* whose save failed, or that the operator deleted             *)

browsingVars == <<login, file, index, browser, opened, count, saving, cut>>

NoLogins == [s \in Sites |-> 0]
NotSaving == [at |-> "idle", left |-> {}, site |-> Forbidden]
States == [Sites -> 0..MaxLogin]

BrowsingInit ==
  /\ login = NoLogins
  /\ file = [s \in Sites |-> <<>>] /\ index = {}
  /\ browser = <<>> /\ opened = [s \in {} |-> 0]
  /\ count = 0 /\ saving = NotSaving /\ cut = {}

BrowsingTypeOK ==
  /\ login \in States
  /\ \A s \in Sites : file[s] = <<>> \/ file[s] \in {<<c>> : c \in States}
  /\ index \cup cut \subseteq Sites
  /\ browser = <<>> \/ browser \in {<<c>> : c \in States}
  /\ DOMAIN opened \subseteq Sites /\ \A s \in DOMAIN opened : opened[s] \in 0..PerSession
  /\ count \in 0..PerTick
  /\ saving.at \in {"idle", "state", "index"} /\ saving.left \subseteq Sites

NotClosing == saving.at = "idle"

-----------------------------------------------------------------------------
(* Agents.                                                                 *)

(* Starting the browser; a stored login comes in a context of its own.     *)
Loaded(s) == IF file[s] # <<>> THEN file[s]
             ELSE IF browser = <<>> THEN <<NoLogins>> ELSE browser

(* Mutant: a session that is open is loaded again.                         *)
Context_Again(s) == Loaded(s)

(* open(): a session that is there is used as it is.                       *)
Context(s) == IF s \in DOMAIN opened THEN browser ELSE Loaded(s)

Used(s) == IF s \in DOMAIN opened THEN opened[s] ELSE 0

Session(s, n) == [o \in DOMAIN opened \cup {s} |-> IF o = s THEN n ELSE opened[o]]

(* web.navigate and web.act: the call is charged to the tick, the session  *)
(* opened, the action charged to the session.  It is refused past that     *)
(* budget; the driver fails; the page left the allowlist or needs a human, *)
(* and the caller is told; or it is done.  A site may renew the login that *)
(* it is shown.                                                            *)
Call(s) ==
  LET context == Context(s)[1]
  IN  /\ NotClosing
      /\ count < PerTick /\ count' = count + 1
      /\ "one site" \in Manners => DOMAIN opened \subseteq {s}
      /\ \/ /\ Used(s) = PerSession /\ opened' = Session(s, PerSession)
            /\ browser' = <<context>> /\ UNCHANGED login
         \/ /\ Used(s) < PerSession /\ opened' = Session(s, Used(s) + 1)
            /\ \/ browser' = <<context>> /\ UNCHANGED login
               \/ \E o \in DOMAIN opened' :
                    /\ context[o] = login[o] /\ login[o] \in 1..MaxLogin - 1
                    /\ login' = [login EXCEPT ![o] = @ + 1]
                    /\ browser' = <<[context EXCEPT ![o] = @ + 1]>>
      /\ UNCHANGED <<file, index, saving, cut>>

(* The call is charged, but the browser does not start, or the stored      *)
(* login cannot be read: there is no session.                              *)
OpenFails(s) ==
  /\ NotClosing /\ s \notin DOMAIN opened
  /\ count < PerTick /\ count' = count + 1
  /\ browser' \in {browser, IF browser = <<>> THEN <<NoLogins>> ELSE browser}
  /\ UNCHANGED <<login, file, index, opened, saving, cut>>

-----------------------------------------------------------------------------
(* save_session(): the file, then the index, under one lock.               *)

(* close(), at the end of a tick and at the start of the next one: the     *)
(* state of the context is saved for every site that was opened.           *)
StartClose ==
  /\ NotClosing /\ browser # <<>>
  /\ saving' = [at |-> "state", left |-> DOMAIN opened, site |-> Forbidden]
  /\ UNCHANGED <<login, file, index, browser, opened, count, cut>>

SaveState(s) ==
  /\ saving.at = "state" /\ s \in saving.left
  /\ file' = [file EXCEPT ![s] = browser]
  /\ saving' = [saving EXCEPT !.at = "index", !.site = s]
  /\ UNCHANGED <<login, index, browser, opened, count, cut>>

SaveIndex ==
  /\ saving.at = "index"
  /\ index' = index \cup {saving.site}
  /\ saving' = [at |-> "state", left |-> saving.left \ {saving.site}, site |-> Forbidden]
  /\ UNCHANGED <<login, file, browser, opened, count, cut>>

(* What fails to be saved is passed over and the browser closed all the    *)
(* same: the state is not read, or its file or the index not written.      *)
SaveFails ==
  \E s \in saving.left :
    /\ saving.at \in {"state", "index"}
    /\ saving.at = "index" => s = saving.site
    /\ saving' = [at |-> "state", left |-> saving.left \ {s}, site |-> Forbidden]
    /\ cut' = cut \cup {s}
    /\ UNCHANGED <<login, file, index, browser, opened, count>>

EndClose ==
  /\ saving.at = "state" /\ saving.left = {}
  /\ saving' = NotSaving
  /\ browser' = <<>> /\ opened' = [s \in {} |-> 0] /\ count' = 0
  /\ UNCHANGED <<login, file, index, cut>>

(* The daemon dies, and the browser with it.                               *)
BrowserDies ==
  /\ browser # <<>>
  /\ cut' = cut \cup DOMAIN opened
  /\ saving' = NotSaving
  /\ browser' = <<>> /\ opened' = [s \in {} |-> 0] /\ count' = 0
  /\ UNCHANGED <<login, file, index>>

-----------------------------------------------------------------------------
(* The operator: web-login of a site, after logging in, and a deletion.    *)
OperatorMay == saving.at # "index" /\ ("turns" \in Manners => browser = <<>>)

WebLogin(s) ==
  /\ OperatorMay /\ login[s] < MaxLogin
  /\ login' = [login EXCEPT ![s] = @ + 1]
  /\ file' = [file EXCEPT ![s] = <<[NoLogins EXCEPT ![s] = login[s] + 1]>>]
  /\ index' = index \cup {s}
  /\ cut' = cut \ {s}
  /\ UNCHANGED <<browser, opened, count, saving>>

DeleteSession(s) ==
  /\ OperatorMay /\ file[s] # <<>>
  /\ file' = [file EXCEPT ![s] = <<>>] /\ index' = index \ {s}
  /\ cut' = cut \cup {s}
  /\ UNCHANGED <<login, browser, opened, count, saving>>

BrowsingNext ==
  \/ \E s \in Sites : \/ Call(s) \/ OpenFails(s) \/ SaveState(s)
                      \/ WebLogin(s) \/ DeleteSession(s)
  \/ StartClose \/ SaveIndex \/ SaveFails \/ EndClose \/ BrowserDies

BrowsingSpec == BrowsingInit /\ [][BrowsingNext]_browsingVars
-----------------------------------------------------------------------------
(* Properties.                                                             *)

(* A human logs in once: when no browser is open, the vault holds the      *)
(* login that the site accepts and lists the site, unless since the last   *)
(* web-login a browser died with the site open, the site could not be      *)
(* saved, or the operator deleted it.                                      *)
LoginKept ==
  browser = <<>> =>
    \A s \in Sites \ cut :
      login[s] > 0 => /\ file[s] # <<>> /\ file[s][1][s] = login[s]
                      /\ s \in index
=============================================================================
