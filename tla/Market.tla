------------------------------- MODULE Market -------------------------------
(***************************************************************************)
(* load_prices() and ensure_certified() of sovereign/engine/world.py, as   *)
(* every tick of a live heartbeat calls them, and the repair that drops    *)
(* reports of which none passed and certifies again: a market source that  *)
(* may fail, asked when the schedule says so.  The daemon is alone with    *)
(* its schedule; nothing passes force in live mode.                        *)
(***************************************************************************)
EXTENDS Cadence

CONSTANTS
  PriceEvery,   (* price_refresh_hours                                      *)
  PriceAgain,   (* price_failure_retry_minutes                              *)
  CertEvery,    (* recertify_hours                                          *)
  CertFirst,    (* certification_retry_hours: until something is certified  *)
  CertAgain     (* certification_failure_retry_minutes                      *)

ASSUME MarketAssumption ==
  /\ {"market_prices", "market_certification"} \subseteq Entries
  /\ {PriceEvery, PriceAgain, CertEvery, CertFirst, CertAgain} \subseteq Nat \ {0}

VARIABLES
  step,       (* where the tick is                                          *)
  closes,     (* market_close is not empty: it is that of a live source     *)
  certified,  (* world.certified: no reports, none that passed, or some     *)
  reports,    (* the reports in the store, which a restart reads            *)
  tried       (* history: when each thing was tried last, and how it went   *)

marketVars == <<now, entry, step, closes, certified, reports, tried>>

MarketInit ==
  /\ CadenceInit
  /\ step = "idle" /\ closes = FALSE /\ certified = "empty" /\ reports = "empty"
  /\ tried = [k \in {"market_prices", "market_certification"} |-> Blank]

MarketTypeOK ==
  /\ CadenceTypeOK
  /\ step \in {"idle", "down", "prices", "fetch", "certify", "reload", "refetch", "prove"}
  /\ closes \in BOOLEAN
  /\ {certified, reports} \subseteq {"empty", "failed", "passed"}

Wait == IF certified = "empty" THEN CertFirst ELSE CertEvery

(* What is tried counts as done until it is seen to fail.                  *)
Trying(k)  == tried' = [tried EXCEPT ![k] = [kind |-> "last", at |-> now]]
Failing(k) == tried' = [tried EXCEPT ![k].kind = "next"]

TickMarket ==
  /\ step \in {"idle", "down"}
  /\ step' = "prices"
  /\ UNCHANGED <<now, entry, closes, certified, reports, tried>>

(* apply_repair() by the daemon's own thread as it starts or after a tick, *)
(* and by the mechanic: reports that do not help are dropped, in memory.   *)
Recertify ==
  /\ step \in {"idle", "down"} /\ certified # "passed"
  /\ certified' = "empty" /\ step' = "certify"
  /\ UNCHANGED <<now, entry, closes, reports, tried>>

(* load_prices(), of the tick or of ensure_certified().                    *)
AfterLoad == IF step \in {"prices", "fetch"} THEN "certify" ELSE "prove"

ClaimPrices ==
  /\ step \in {"prices", "reload"}
  /\ \/ /\ Claim("market_prices", PriceEvery)
        /\ step' = IF step = "prices" THEN "fetch" ELSE "refetch"
        /\ Trying("market_prices")
     \/ /\ ~Due("market_prices", PriceEvery)
        /\ step' = AfterLoad /\ UNCHANGED <<entry, tried>>
  /\ UNCHANGED <<now, closes, certified, reports>>

(* An old series is kept when the source fails; or the configuration has   *)
(* no source.                                                              *)
FetchPrices ==
  /\ step \in {"fetch", "refetch"}
  /\ \/ closes' = TRUE /\ UNCHANGED <<entry, tried>>
     \/ UNCHANGED <<entry, tried, closes>>
     \/ /\ RetryAfter("market_prices", PriceAgain)
        /\ Failing("market_prices") /\ UNCHANGED closes
  /\ step' = AfterLoad
  /\ UNCHANGED <<now, certified, reports>>

(* ensure_certified().                                                     *)
ClaimCertification ==
  /\ step = "certify"
  /\ \/ /\ Claim("market_certification", Wait)
        /\ step' = "reload" /\ Trying("market_certification")
     \/ /\ ~Due("market_certification", Wait)
        /\ step' = "idle" /\ UNCHANGED <<entry, tried>>
  /\ UNCHANGED <<now, closes, certified, reports>>

(* Without a live series, or when the statistics raise, it is tried again. *)
Certify ==
  /\ step = "prove"
  /\ \/ /\ closes
        /\ certified' \in {"failed", "passed"} /\ reports' = certified'
        /\ UNCHANGED <<entry, tried>>
     \/ /\ RetryAfter("market_certification", CertAgain)
        /\ Failing("market_certification") /\ UNCHANGED <<certified, reports>>
  /\ step' = "idle"
  /\ UNCHANGED <<now, closes>>

(* The daemon dies; the series is gone, the reports are in the store.      *)
MarketDies ==
  /\ step \notin {"idle", "down"}
  /\ step' = "down" /\ closes' = FALSE /\ certified' = reports
  /\ UNCHANGED <<now, entry, reports, tried>>

(* Between two ticks.                                                      *)
TimeOfMarket ==
  /\ step \in {"idle", "down"} /\ now < MaxTime
  /\ now' = now + 1
  /\ UNCHANGED <<entry, step, closes, certified, reports, tried>>

MarketNext ==
  \/ TickMarket \/ Recertify
  \/ ClaimPrices \/ FetchPrices \/ ClaimCertification \/ Certify
  \/ MarketDies \/ TimeOfMarket

MarketSpec == MarketInit /\ [][MarketNext]_marketVars
-----------------------------------------------------------------------------
(* Properties.                                                             *)

Rest(k, every, again) == IF tried[k].kind = "next" THEN again ELSE every

Rested(k, every, again) ==
  tried[k].kind # "never" => now - tried[k].at >= Rest(k, every, again)

Fresh(k, every, again) ==
  tried[k].kind # "never" /\ now - tried[k].at < Rest(k, every, again)

(* The schedule neither hammers a source nor forgets it, through failures, *)
(* repairs and crashes: what is tried again has rested for its period, or  *)
(* for its failure delay if it failed; and a tick or a repair that has     *)
(* gone by it leaves nothing untried for longer than that.                 *)
TriedOnTime ==
  [][/\ step \in {"prices", "reload"} /\ step' \in {"fetch", "refetch"}
          => Rested("market_prices", PriceEvery, PriceAgain)
     /\ step = "certify" /\ step' = "reload"
          => Rested("market_certification", Wait, CertAgain)
     /\ step \in {"prices", "fetch", "reload", "refetch"} /\ step' \in {"certify", "prove"}
          => Fresh("market_prices", PriceEvery, PriceAgain)'
     /\ step \in {"certify", "prove"} /\ step' = "idle"
          => Fresh("market_certification", Wait, CertAgain)']_marketVars
=============================================================================
