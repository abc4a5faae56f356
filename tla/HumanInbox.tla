----------------------------- MODULE HumanInbox -----------------------------
(***************************************************************************)
(* Requests to the human: sovereign/channels/human.py and replies.py.  The *)
(* inbox is one JSON file behind a lock.  Roles ask, the operator replies  *)
(* from another process, the heartbeat consumes: it stores credentials one *)
(* by one and writes the file once, at the end, or dies before that.       *)
(***************************************************************************)
EXTENDS Integers, Sequences

CONSTANTS
  Services,    (* what is asked for                                         *)
  MaxItems,    (* bound: requests in the file                               *)
  Values,      (* credentials the operator may type                         *)
  Tidy      (* the operator replies to the last request for a service,   *)
               (* and not when it was consumed                              *)

ASSUME HumanAssumption == MaxItems \in Nat /\ Tidy \in BOOLEAN

VARIABLES
  items,      (* the file, a list of requests                               *)
  consumer,   (* "idle", or the heartbeat holds the lock; its copy          *)
  stored,     (* the credential of each service in the vault                *)
  meant       (* history: what the operator typed last for each service     *)

humanVars == <<items, consumer, stored, meant>>

Nothing  == "nothing"     (* an empty field, or no credential               *)
Vaulted  == "[vaulted]"   (* what a value is replaced by                    *)
Replies  == Values \cup {Nothing, Vaulted}
Item     == [service: Services, status: {"open", "filled"}, consumed: BOOLEAN, reply: Replies]
NoConsumer == [at |-> "idle", left |-> {}, items |-> <<>>]

HumanInit ==
  /\ items = <<>>
  /\ consumer = NoConsumer
  /\ stored = [s \in Services |-> Nothing]
  /\ meant = [s \in Services |-> Nothing]

HumanTypeOK ==
  /\ items \in Seq(Item) /\ Len(items) <= MaxItems
  /\ consumer.at \in {"idle", "storing"}
  /\ consumer.left \subseteq DOMAIN consumer.items /\ consumer.items \in Seq(Item)
  /\ stored \in [Services -> Values \cup {Nothing}]
  /\ meant \in [Services -> Values \cup {Nothing}]

Unlocked == consumer.at = "idle"

(* ask(): one open request for each service.                               *)
Ask(s) ==
  /\ Unlocked
  /\ \A i \in DOMAIN items : ~(items[i].service = s /\ items[i].status = "open")
  /\ Len(items) < MaxItems
  /\ items' = Append(items, [service |-> s, status |-> "open", consumed |-> FALSE,
                             reply |-> Nothing])
  /\ UNCHANGED <<consumer, stored, meant>>

(* reply(): to any request, whatever became of it.                         *)
Reply(i, v) ==
  /\ Unlocked
  /\ i \in DOMAIN items
  /\ Tidy => /\ ~items[i].consumed
                /\ \A o \in i + 1..Len(items) : items[o].service # items[i].service
  /\ items' = [items EXCEPT ![i].reply = v, ![i].status = "filled"]
  /\ meant' = [meant EXCEPT ![items[i].service] = v]
  /\ UNCHANGED <<consumer, stored>>

(* consume(): the filled requests, in the order of the file.               *)
Filled == {i \in DOMAIN items : items[i].status = "filled" /\ ~items[i].consumed}

Consume ==
  /\ Unlocked /\ Filled # {}
  /\ consumer' = [at |-> "storing", left |-> Filled, items |-> items]
  /\ UNCHANGED <<items, stored, meant>>

First(left) == CHOOSE i \in left : \A o \in left : i <= o

(* put_credential(), and the copy's value is wiped.                        *)
PutCredential ==
  LET i == First(consumer.left)
  IN  /\ consumer.at = "storing" /\ consumer.left # {}
      /\ stored' = [stored EXCEPT ![consumer.items[i].service] = consumer.items[i].reply]
      /\ consumer' = [consumer EXCEPT !.left = @ \ {i}, !.items[i].consumed = TRUE,
                                      !.items[i].reply = Vaulted]
      /\ UNCHANGED <<items, meant>>

(* Mutant: the file is written before the last credential is stored.       *)
WriteInbox_Early ==
  /\ consumer.at = "storing"
  /\ items' = [i \in DOMAIN items |->
                 IF i \in consumer.left
                 THEN [items[i] EXCEPT !.consumed = TRUE, !.reply = Vaulted]
                 ELSE consumer.items[i]]
  /\ consumer' = NoConsumer
  /\ UNCHANGED <<stored, meant>>

WriteInbox ==
  /\ consumer.at = "storing" /\ consumer.left = {}
  /\ items' = consumer.items
  /\ consumer' = NoConsumer
  /\ UNCHANGED <<stored, meant>>

(* The heartbeat dies, or accept_job() raises what consume() lets through. *)
ConsumerStops ==
  /\ consumer.at = "storing"
  /\ consumer' = NoConsumer
  /\ UNCHANGED <<items, stored, meant>>

HumanNext ==
  \/ \E s \in Services : Ask(s)
  \/ \E i \in 1..MaxItems, v \in Values : Reply(i, v)
  \/ Consume \/ PutCredential \/ WriteInbox \/ ConsumerStops

HumanSpec == HumanInit /\ [][HumanNext]_humanVars
-----------------------------------------------------------------------------
(* Properties.                                                             *)

(* No reply is lost and none stays behind: the file keeps a value until    *)
(* the vault has it, and keeps it no longer than that.                     *)
ReplyIsVaulted ==
  /\ \A i \in DOMAIN items : items[i].consumed => items[i].reply = Vaulted
  /\ \A s \in Services :
       \/ meant[s] \in {stored[s], Nothing}
       \/ \E i \in DOMAIN items : /\ items[i].service = s /\ ~items[i].consumed
                                  /\ items[i].reply = meant[s]
=============================================================================
