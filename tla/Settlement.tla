----------------------------- MODULE Settlement -----------------------------
(***************************************************************************)
(* Live settlement of invoices from on-chain USDC, capital/payments.py:    *)
(* treasurer workers that fetch evidence from the chains (transfer logs    *)
(* first, balances as a fallback) and then apply it in one transaction,    *)
(* next to the operator's manual `paid --confirm` and the ageing of        *)
(* invoices.  The fetch and the transaction are separate steps: chains,    *)
(* invoices and other workers move in between, because a worker that       *)
(* overruns its watchdog budget is abandoned but keeps running.            *)
(*                                                                         *)
(* Besides the fields of Invoices the database record db has               *)
(*   base, balance, height  per chain: baseline taken, last accepted       *)
(*                          balance and the block it was read at (0: none) *)
(*   lots      suspense lots of both chains in lot_sequence order; a lot   *)
(*             that was consumed or matched stays with amount 0            *)
(*   reserved, manual, auto the *_minor counters of payment_watch_v2       *)
(*   txids     the rows of chain_txids; invoice NoJob when unattributed    *)
(***************************************************************************)
EXTENDS Invoices, Sequences

CONSTANTS
  Workers,       (* treasurer workers: the running one and abandoned ones   *)
  Payments,      (* amounts a client may transfer                           *)
  Memos,         (* jobs whose memo a transfer may carry, NoJob for none    *)
  MaxBlocks,     (* bound: blocks of both chains that touch the address     *)
  MaxWithdrawn,  (* bound: withdrawals in a behaviour                       *)
  MaxManual,     (* bound: manual settlements in a behaviour                *)
  Lookback,      (* blocks the log listing looks back over                  *)
  UseTxLogs,     (* chain.use_tx_logs                                       *)
  LogListings,   (* how the nodes answer log listings ...                   *)
  BalanceReads,  (* ... and balance reads: always, sometimes, never         *)
  LiveChains,    (* the chains clients and the owner use                    *)
  Batches        (* may one Ethereum transaction carry two transfers        *)

ASSUME SettlementAssumption ==
  /\ Payments \subseteq Nat \ {0}
  /\ Memos \subseteq Jobs \cup {NoJob}
  /\ {MaxBlocks, MaxWithdrawn, MaxManual, Lookback} \subseteq Nat
  /\ {UseTxLogs, Batches} \subseteq BOOLEAN
  /\ {LogListings, BalanceReads} \subseteq {"always", "sometimes", "never"}
  /\ LiveChains \subseteq {"eth", "sol"}

VARIABLES
  db,        (* the sqlite database                                         *)
  chain,     (* the confirmed chains, as far as the firm's address goes     *)
  phase,     (* what each worker does next                                  *)
  listed,    (* transfers a worker has fetched and not applied yet          *)
  readAt,    (* per chain, the block a worker has read the balance at       *)
  withdrawals, manuals,   (* counters behind the two bounds                 *)
  recognised              (* history: the net inflow the balance path has   *)
                          (* recognised, less suspense withdrawals took     *)

chainVars  == <<chain, withdrawals>>
workerVars == <<phase, listed, readAt>>
vars == <<db, chainVars, workerVars, manuals, recognised>>

Chains == {"eth", "sol"}
Phases == {"idle", "logs", "balances", "observed"}
Lot == [chain: Chains, amount: Nat, tainted: BOOLEAN]
(* One transfer to the firm's address.  A block holds at most one          *)
(* transaction for the address, so the block number names the transaction. *)
Transfer == [chain: Chains, txid: Nat, amount: Nat \ {0}, memo: Jobs \cup {NoJob}]
TxRow    == [chain: Chains, txid: Nat, invoice: Jobs \cup {NoJob}]

-----------------------------------------------------------------------------
(* Suspense.                                                               *)

LotAmounts(lots) == [i \in DOMAIN lots |-> lots[i].amount]
ChainAmounts(lots, c) ==
  [i \in DOMAIN lots |-> IF lots[i].chain = c THEN lots[i].amount ELSE 0]
SuspenseTotal(lots)    == SumTo(LotAmounts(lots), Len(lots))
ChainSuspense(lots, c) == SumTo(ChainAmounts(lots, c), Len(lots))

AddSuspense(lots, c, amount) ==
  IF amount = 0
  THEN lots
  ELSE Append(lots, [chain |-> c, amount |-> amount, tainted |-> FALSE])

(* Lot i is offered what the earlier lots of its chain left of the amount. *)
Take(lots, c, i, amount) ==
  LET offered == Greater(0, amount - SumTo(ChainAmounts(lots, c), i - 1))
  IN  Lesser(ChainAmounts(lots, c)[i], offered)

(* First in, first out; whatever survives on the chain is tainted, for its *)
(* exact amount no longer identifies a payment.                            *)
ConsumeChain(lots, c, amount) ==
  [i \in DOMAIN lots |->
     LET left == lots[i].amount - Take(lots, c, i, amount)
     IN  IF lots[i].chain # c \/ amount = 0
         THEN lots[i]
         ELSE [chain |-> c, amount |-> left, tainted |-> left > 0]]

(* eth is drained before sol.                                              *)
ConsumeAny(lots, amount) ==
  LET fromEth == Lesser(amount, ChainSuspense(lots, "eth"))
  IN  ConsumeChain(ConsumeChain(lots, "eth", amount), "sol", amount - fromEth)

(* Mutant: what is not in suspense yet is not reserved.                    *)
Reconcile_NoReserve(S, amount) == [S EXCEPT !.lots = ConsumeAny(@, amount)]

(* Take an attributed amount out of suspense; reserve what is not there.   *)
Reconcile(S, amount) ==
  LET consumed == Lesser(amount, SuspenseTotal(S.lots))
  IN  [S EXCEPT !.lots     = ConsumeAny(@, amount),
                !.reserved = @ + amount - consumed]

-----------------------------------------------------------------------------
(* The balance path.                                                       *)

(* Mutant: any read that was answered is applied.                          *)
IsFresh_AnyRead(S, c, h) == h > 0

(* Balances are read at a block; a read that is not newer is refused.      *)
IsFresh(S, c, h) == h > 0 /\ h > S.height[c]

Delta(S, c, h) == chain[c].balances[h] - S.balance[c]

(* Mutants: the whole delta is taken from the reservation; a withdrawal    *)
(* leaves suspense alone.                                                  *)
ObserveBalance_OverRelease(S, c, h) ==
  LET delta == Delta(S, c, h)
      seen  == [S EXCEPT !.balance = [@ EXCEPT ![c] = chain[c].balances[h]],
                         !.height  = [@ EXCEPT ![c] = h],
                         !.base    = [@ EXCEPT ![c] = TRUE]]
  IN  IF ~IsFresh(S, c, h) THEN S
      ELSE IF ~S.base[c]   THEN seen
      ELSE IF delta < 0    THEN [seen EXCEPT !.lots = ConsumeChain(@, c, -delta)]
      ELSE [seen EXCEPT !.reserved = @ - delta]
ObserveBalance_KeepLots(S, c, h) ==
  LET delta == Delta(S, c, h)
      seen  == [S EXCEPT !.balance = [@ EXCEPT ![c] = chain[c].balances[h]],
                         !.height  = [@ EXCEPT ![c] = h],
                         !.base    = [@ EXCEPT ![c] = TRUE]]
  IN  IF ~IsFresh(S, c, h) THEN S
      ELSE IF ~S.base[c] \/ delta < 0 THEN seen
      ELSE [seen EXCEPT !.lots = AddSuspense(@, c, delta)]
ObserveBalance(S, c, h) ==
  LET delta == Delta(S, c, h)
      used  == Lesser(delta, S.reserved)
      seen  == [S EXCEPT !.balance = [@ EXCEPT ![c] = chain[c].balances[h]],
                         !.height  = [@ EXCEPT ![c] = h],
                         !.base    = [@ EXCEPT ![c] = TRUE]]
  IN  IF ~IsFresh(S, c, h)   THEN S
      ELSE IF ~S.base[c]     THEN seen
      ELSE IF delta < 0      THEN [seen EXCEPT !.lots = ConsumeChain(@, c, -delta)]
      ELSE [seen EXCEPT !.reserved = @ - used,
                        !.lots     = AddSuspense(@, c, delta - used)]

(* Mutant: tainted lots pay like any other.                                *)
MatchLot_Tainted(S, c, i) ==
  LET lot   == S.lots[i]
      fits  == Candidates(S, lot.amount)
      payee == CHOOSE j \in fits : TRUE
  IN  IF lot.chain = c /\ lot.amount > 0 /\ Cardinality(fits) = 1
      THEN [Collect(S, payee, "chain") EXCEPT
              !.auto = @ + lot.amount,
              !.lots = [@ EXCEPT ![i].amount = 0]]
      ELSE S

(* A lot pays the one open invoice of exactly its amount.                  *)
MatchLot(S, c, i) ==
  LET lot   == S.lots[i]
      fits  == Candidates(S, lot.amount)
      payee == CHOOSE j \in fits : TRUE
  IN  IF lot.chain = c /\ lot.amount > 0 /\ ~lot.tainted /\ Cardinality(fits) = 1
      THEN [Collect(S, payee, "chain") EXCEPT
              !.auto = @ + lot.amount,
              !.lots = [@ EXCEPT ![i].amount = 0]]
      ELSE S

MatchChain(S, c) ==
  LET matched[i \in 0..Len(S.lots)] ==
        IF i = 0 THEN S ELSE MatchLot(matched[i - 1], c, i)
  IN  matched[Len(S.lots)]

MatchFresh(S, c, fresh) == IF fresh THEN MatchChain(S, c) ELSE S

ApplyBalanceReads(S, at) ==
  LET eth == ObserveBalance(S, "eth", at["eth"])
      sol == ObserveBalance(eth, "sol", at["sol"])
  IN  MatchFresh(MatchFresh(sol, "eth", IsFresh(S, "eth", at["eth"])),
                 "sol", IsFresh(S, "sol", at["sol"]))

-----------------------------------------------------------------------------
(* The log path.                                                           *)

(* Mutant: only rows that paid an invoice count.                           *)
Recorded_PaidOnly(S, t) ==
  \E row \in S.txids :
    row.chain = t.chain /\ row.txid = t.txid /\ row.invoice # NoJob

Recorded(S, t) == \E row \in S.txids : row.chain = t.chain /\ row.txid = t.txid

(* Mutant: only the memo counts.                                           *)
Matches_MemoOnly(S, t) == Candidates(S, t.amount) \cap {t.memo}

(* The invoices a transfer may be for: by amount, and by memo when the     *)
(* amount alone is ambiguous.                                              *)
Matches(S, t) ==
  LET fits == Candidates(S, t.amount)
      hits == fits \cap {t.memo}
  IN  IF Cardinality(fits) > 1 /\ hits # {} THEN hits ELSE fits

RecordTxid(S, t, j) ==
  [S EXCEPT !.txids = @ \cup {[chain |-> t.chain, txid |-> t.txid, invoice |-> j]}]

(* Mutant: the payment is not counted in auto_attributed_minor.            *)
SettleTransfer_NotCounted(S, t) ==
  LET fits  == Matches(S, t)
      payee == CHOOSE j \in fits : TRUE
  IN  IF Recorded(S, t) THEN S
      ELSE IF Cardinality(fits) # 1 THEN RecordTxid(S, t, NoJob)
      ELSE RecordTxid(Reconcile(Collect(S, payee, "chain"), t.amount), t, payee)

SettleTransfer(S, t) ==
  LET fits  == Matches(S, t)
      payee == CHOOSE j \in fits : TRUE
  IN  IF Recorded(S, t) THEN S
      ELSE IF Cardinality(fits) # 1 THEN RecordTxid(S, t, NoJob)
      ELSE RecordTxid([Reconcile(Collect(S, payee, "chain"), t.amount)
                         EXCEPT !.auto = @ + t.amount], t, payee)

SettleTransfers(S, ts) ==
  LET settled[i \in 0..Len(ts)] ==
        IF i = 0 THEN S ELSE SettleTransfer(settled[i - 1], ts[i])
  IN  settled[Len(ts)]

(* How many transfers of chain c were mined by block h.                    *)
MinedBy(c, h) == Cardinality({i \in DOMAIN chain[c].transfers : chain[c].transfers[i].txid <= h})

(* eth_getLogs at block h: every log of the lookback range, oldest first.  *)
EthListing(h) ==
  SubSeq(chain["eth"].transfers, MinedBy("eth", h - Lookback) + 1, MinedBy("eth", h))

(* Signatures at slot h, newest first; the picks are the transactions that *)
(* loaded, and a node that does not always answer may fail some of them.   *)
SolPicks(h) ==
  LET visible == (MinedBy("sol", h - Lookback) + 1)..MinedBy("sol", h)
  IN  {picks \in UNION {[1..n -> visible] : n \in 0..Cardinality(visible)} :
         /\ \A i, k \in DOMAIN picks : i < k => picks[i] > picks[k]
         /\ LogListings = "always" => DOMAIN picks = 1..Cardinality(visible)}
SolListing(picks) == [i \in DOMAIN picks |-> chain["sol"].transfers[picks[i]]]

-----------------------------------------------------------------------------
Init ==
  /\ db \in [invoice: {[j \in Jobs |-> NoInvoice]},
             price: [Jobs -> Prices], books: {[a \in Accounts |-> 0]},
             base: {[c \in Chains |-> FALSE]}, balance: {[c \in Chains |-> 0]},
             height: {[c \in Chains |-> 0]}, lots: {<<>>},
             reserved: {0}, manual: {0}, auto: {0}, txids: {{}}]
  /\ chain = [c \in Chains |-> [balances |-> <<0>>, transfers |-> <<>>]]
  /\ phase = [w \in Workers |-> "idle"]
  /\ listed = [w \in Workers |-> <<>>]
  /\ readAt = [w \in Workers |-> [c \in Chains |-> 0]]
  /\ withdrawals = 0
  /\ manuals = 0
  /\ recognised = 0

Height(c)  == Len(chain[c].balances)
Holding(c) == chain[c].balances[Height(c)]
RoomForBlock == Height("eth") + Height("sol") < 2 + MaxBlocks

(* A client pays: a transaction with one transfer, or on Ethereum with     *)
(* two in one transaction.  Only Solana transfers carry a memo.            *)
Mine(c, credits) ==
  /\ RoomForBlock
  /\ chain' = [chain EXCEPT ![c] =
       [balances  |-> Append(@.balances, Holding(c) + SumTo([i \in DOMAIN credits |-> credits[i].amount], Len(credits))),
        transfers |-> @.transfers \o credits]]
  /\ UNCHANGED <<db, withdrawals, workerVars, manuals, recognised>>

Credit(c, amount, memo) ==
  [chain |-> c, txid |-> Height(c) + 1, amount |-> amount, memo |-> memo]

ClientPays(c) ==
  \E a \in Payments, m \in IF c = "sol" THEN Memos ELSE {NoJob} :
    Mine(c, <<Credit(c, a, m)>>)

ClientPaysTwice ==
  /\ Batches
  /\ "eth" \in LiveChains
  /\ \E a, b \in Payments :
       Mine("eth", <<Credit("eth", a, NoJob), Credit("eth", b, NoJob)>>)

(* The owner spends from the address outside the firm's books.             *)
OwnerWithdraws(c) ==
  /\ withdrawals < MaxWithdrawn
  /\ RoomForBlock
  /\ \E a \in Payments :
       /\ a <= Holding(c)
       /\ chain' = [chain EXCEPT ![c].balances = Append(@, Holding(c) - a)]
  /\ withdrawals' = withdrawals + 1
  /\ UNCHANGED <<db, workerVars, manuals, recognised>>

-----------------------------------------------------------------------------
(* The treasurer and the operator.                                         *)

(* treasurer(): bill job j.  It goes through a list of the delivered jobs  *)
(* it read once, so another one may have billed j since, the invoice may   *)
(* have been paid or written off; and a crafter that finishes late writes  *)
(* 'delivered' back, so j may come up again at any time.                   *)
IssueInvoice(j) ==
  /\ db' = Issue(db, j)
  /\ UNCHANGED <<chainVars, workerVars, manuals, recognised>>

VoidAged(j) ==
  /\ j \in Open(db)
  /\ db' = Void(db, j)
  /\ UNCHANGED <<chainVars, workerVars, manuals, recognised>>

(* `sovereign paid REF --confirm`                                          *)
CollectManual(j) ==
  /\ j \in Open(db)
  /\ manuals < MaxManual
  /\ LET amount == db.invoice[j].amount
     IN  db' = Collect([Reconcile(db, amount) EXCEPT !.manual = @ + amount], j, "manual")
  /\ manuals' = manuals + 1
  /\ UNCHANGED <<chainVars, workerVars, recognised>>

(* The blocks at which the nodes of chain c may answer a call: any          *)
(* confirmed one, for nodes lag and the paths ask for different numbers of *)
(* confirmations (2 for balances, 5 for logs); 0 when the call fails.      *)
Answers(c, reliability) ==
  (IF reliability = "never" THEN {} ELSE 1..Height(c))
    \cup (IF reliability = "always" THEN {} ELSE {0})

(* Fetch the transfer logs.  Without any, the balances decide.             *)
FetchLogs(w) ==
  /\ UseTxLogs
  /\ phase[w] = "idle"
  /\ \E eth \in Answers("eth", LogListings), sol \in Answers("sol", LogListings) :
     \E picks \in IF sol = 0 THEN {<<>>} ELSE SolPicks(sol) :
       LET ethLogs == IF eth = 0 THEN <<>> ELSE EthListing(eth)
       IN  listed' = [listed EXCEPT ![w] = ethLogs \o SolListing(picks)]
  /\ phase' = [phase EXCEPT ![w] = IF listed'[w] = <<>> THEN "balances" ELSE "logs"]
  /\ UNCHANGED <<db, chainVars, readAt, manuals, recognised>>

SettleLogs(w) ==
  /\ phase[w] = "logs"
  /\ db' = SettleTransfers(db, listed[w])
  /\ phase' = [phase EXCEPT ![w] = "idle"]
  /\ listed' = [listed EXCEPT ![w] = <<>>]
  /\ UNCHANGED <<chainVars, readAt, manuals, recognised>>

(* Read both balances.  With no answer at all the watch ends here.         *)
FetchBalances(w) ==
  /\ phase[w] = IF UseTxLogs THEN "balances" ELSE "idle"
  /\ \E eth \in Answers("eth", BalanceReads), sol \in Answers("sol", BalanceReads) :
       LET at == [c \in Chains |-> IF c = "eth" THEN eth ELSE sol] IN
       /\ readAt' = [readAt EXCEPT ![w] = at]
       /\ phase' = [phase EXCEPT ![w] = IF \A c \in Chains : at[c] = 0
                                        THEN "idle" ELSE "observed"]
  /\ UNCHANGED <<db, chainVars, listed, manuals, recognised>>

(* What the history variable adds up: a rise of a balance after its        *)
(* baseline, or the suspense a fall of it takes away.                      *)
Recognised(c, h) ==
  IF IsFresh(db, c, h) /\ db.base[c]
  THEN Greater(Delta(db, c, h), -ChainSuspense(db.lots, c))
  ELSE 0

ApplyBalances(w) ==
  /\ phase[w] = "observed"
  /\ db' = ApplyBalanceReads(db, readAt[w])
  /\ recognised' = recognised + Recognised("eth", readAt[w]["eth"])
                              + Recognised("sol", readAt[w]["sol"])
  /\ phase' = [phase EXCEPT ![w] = "idle"]
  /\ readAt' = [readAt EXCEPT ![w] = [c \in Chains |-> 0]]
  /\ UNCHANGED <<chainVars, listed, manuals>>

(* The process dies or an exception ends the watch: what was fetched is    *)
(* lost, the database is not.                                              *)
LoseWorker(w) ==
  /\ phase[w] # "idle"
  /\ phase' = [phase EXCEPT ![w] = "idle"]
  /\ listed' = [listed EXCEPT ![w] = <<>>]
  /\ readAt' = [readAt EXCEPT ![w] = [c \in Chains |-> 0]]
  /\ UNCHANGED <<db, chainVars, manuals, recognised>>

Watch(w) == FetchLogs(w) \/ SettleLogs(w) \/ FetchBalances(w) \/ ApplyBalances(w)

Next ==
  \/ \E c \in LiveChains : ClientPays(c) \/ OwnerWithdraws(c)
  \/ ClientPaysTwice
  \/ \E j \in Jobs : IssueInvoice(j) \/ VoidAged(j) \/ CollectManual(j)
  \/ \E w \in Workers : Watch(w) \/ LoseWorker(w)

Spec == Init /\ [][Next]_vars
-----------------------------------------------------------------------------
(* Properties.                                                             *)

DB == [invoice: [Jobs -> Invoice], price: [Jobs -> Nat], books: [Accounts -> Int],
       base: [Chains -> BOOLEAN], balance: [Chains -> Nat], height: [Chains -> Nat],
       lots: Seq(Lot), reserved: Nat, manual: Nat, auto: Nat, txids: SUBSET TxRow]

(* Every variable, and every field of the database, has its type.          *)
TypeOK ==
  /\ db \in DB
  /\ chain \in [Chains -> [balances: Seq(Nat), transfers: Seq(Transfer)]]
  /\ phase \in [Workers -> Phases]
  /\ listed \in [Workers -> Seq(Transfer)]
  /\ readAt \in [Workers -> [Chains -> Nat]]
  /\ {withdrawals, manuals} \subseteq Nat
  /\ recognised \in Int

(* The three books checks of capital/invariants.py, from what the invoices *)
(* say: receivable and unearned carry exactly the open invoices, cash and  *)
(* income exactly the paid ones.                                           *)
BooksMatchInvoices ==
  /\ db.books["receivable"] = InvoiceTotal(OpenAmount(db))
  /\ db.books["unearned"]   = -InvoiceTotal(OpenAmount(db))
  /\ db.books["usdc"]       = InvoiceTotal(PaidAmount(db))
  /\ db.books["income"]     = -InvoiceTotal(PaidAmount(db))

(* No two open invoices ever share an amount, which is what lets           *)
(* payments.py take "exactly this amount" for the identity of an invoice.  *)
OpenAmountsDistinct ==
  \A j, k \in Open(db) : db.invoice[j].amount = db.invoice[k].amount => j = k

(* payment_watch_v2 and the invoices agree on what was attributed, and by  *)
(* which route: the counters are the sums of the invoices paid that way.   *)
CountersMatchInvoices ==
  /\ db.auto   = InvoiceTotal(PaidVia(db, "chain"))
  /\ db.manual = InvoiceTotal(PaidVia(db, "manual"))

(* No money appears or vanishes in the watcher: what was attributed, plus  *)
(* what waits in suspense, minus what is reserved against future deltas,   *)
(* is what the balance path has ever recognised less what withdrawals took *)
(* back - on every interleaving of workers, log and balance settlement and *)
(* manual settlement.                                                      *)
FundsConserved ==
  db.auto + db.manual + SuspenseTotal(db.lots) = recognised + db.reserved

(* A row of chain_txids that names an invoice is the only one that does,   *)
(* no transaction has two rows, and the invoice was paid from the chain.   *)
TxidSettlesOnce ==
  \A r, s \in db.txids :
    /\ r.chain = s.chain /\ r.txid = s.txid => r = s
    /\ r.invoice # NoJob =>
         /\ r.invoice = s.invoice => r = s
         /\ db.invoice[r.invoice].status = "paid"
         /\ db.invoice[r.invoice].source = "chain"

(* The watcher never marks more invoice money as paid from the chain than  *)
(* clients ever sent to the address.                                       *)
Received ==
  LET amounts(c) == [i \in DOMAIN chain[c].transfers |-> chain[c].transfers[i].amount]
      total(c)   == SumTo(amounts(c), Len(chain[c].transfers))
  IN  total("eth") + total("sol")
ChainPaymentsBacked == db.auto <= Received

(* Suspense on a chain is money that is still there: a lot is never larger *)
(* than the last balance accepted for its chain.                           *)
SuspenseBacked ==
  \A c \in Chains : ChainSuspense(db.lots, c) <= db.balance[c]

(* Whatever an abandoned worker still applies: a paid invoice never        *)
(* changes again; the amount a client was told stays while the invoice is  *)
(* open and when it is settled; and one that was written off is not paid   *)
(* for as it stands, only billed anew.                                     *)
SettledForGood ==
  [][\A j \in Jobs :
       LET was == db.invoice[j]  is == db'.invoice[j] IN
       /\ was.status = "paid" => is = was
       /\ was.status = "open" => is.amount = was.amount
       /\ was.status = "void" => is = was \/ (is.status = "open" /\ is.source = "none")]_vars

(* A lot whose identity a withdrawal or a partial consumption obscured     *)
(* never pays an invoice: reads that found no withdrawal leave the tainted *)
(* lots of their chain alone, and a watch that found withdrawals wherever  *)
(* it looked settles nothing.                                              *)
Fell(c) == db'.height[c] # db.height[c] /\ db'.balance[c] < db.balance[c]
TaintedNeverPays ==
  [][db'.height # db.height =>
       /\ \A i \in DOMAIN db.lots :
            db.lots[i].tainted /\ ~Fell(db.lots[i].chain) => db'.lots[i] = db.lots[i]
       /\ (\A c \in Chains : Fell(c) \/ db'.height[c] = db.height[c])
            => db'.auto = db.auto]_vars

(* Settlement does what Receivables promises.                              *)
Promise == INSTANCE Receivables WITH
  status <- [j \in Jobs |-> db.invoice[j].status],
  amount <- [j \in Jobs |-> db.invoice[j].amount],
  cash   <- db.books["usdc"]
KeepsPromise == Promise!Spec

-----------------------------------------------------------------------------
(* Liveness.  The daemon calls the treasurer every tick, so a worker that  *)
(* can go on does; nodes do not lag, fail or skip a transaction for ever,  *)
(* and not every watch that lists everything is cut short.                 *)

ListsAll(w) == \A c \in Chains : \A i \in DOMAIN chain[c].transfers :
                 \E k \in DOMAIN listed[w] : listed[w][k] = chain[c].transfers[i]

Fairness ==
  \A w \in Workers :
    /\ SF_vars(FetchLogs(w) /\ ListsAll(w)') /\ SF_vars(SettleLogs(w) /\ ListsAll(w))
    /\ WF_vars(SettleLogs(w))
    /\ SF_vars(FetchBalances(w)) /\ SF_vars(ApplyBalances(w))

FairSpec == Spec /\ Fairness

(* With transfer logs on, an exact payment is not lost: when an            *)
(* unrecorded transfer of an open invoice's amount is on a chain, the      *)
(* invoice is eventually settled (or written off), however often listings  *)
(* lag, fail or skip it.                                                   *)
Awaited(j) ==
  /\ db.invoice[j].status = "open"
  /\ \E c \in Chains : \E i \in DOMAIN chain[c].transfers :
       /\ chain[c].transfers[i].amount = db.invoice[j].amount
       /\ ~Recorded(db, chain[c].transfers[i])
ExactTransferSettles == \A j \in Jobs : Awaited(j) ~> db.invoice[j].status # "open"

=============================================================================
