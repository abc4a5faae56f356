----------------------------- MODULE FundsProofs ----------------------------
(***************************************************************************)
(* Where the money of the payment watch comes from, for any number of      *)
(* jobs, workers, blocks and payments.                                     *)
(*                                                                         *)
(* FundsInv adds three facts to IInv.  Accounted: what was attributed to   *)
(* invoices and what waits in suspense, less what a settlement took ahead  *)
(* of the read that will show it (reserved), is exactly what the reads     *)
(* recognised.  Backed: what waits on a chain is part of the balance last  *)
(* read there.  Priced: no job is free, so that a settled invoice moved    *)
(* cash.  A step is one of five kinds (StepKinds): it leaves the database  *)
(* alone, issues, voids, settles (Settles: nothing is added or lost) or    *)
(* reads two balances (Rise is what those add).  The same split shows that *)
(* each step is one of Receivables or no step of it.                       *)
(*                                                                         *)
(* PaidInv relates the database to the chains themselves: what was paid    *)
(* from them or may yet be was credited by the blocks that were read.      *)
(* This holds only while payments are settled by balance alone (UseTxLogs  *)
(* is FALSE): with transfer logs next to balances the same transfer can be *)
(* recognised by both, the behaviour the run settlement_race exhibits.     *)
(***************************************************************************)
EXTENDS SettlementProofs

-----------------------------------------------------------------------------
(* What the lots add up to.                                                *)

(* The lesser of two amounts is an amount, and at most either.             *)
LEMMA LessNat ==
  ASSUME NEW a \in Nat, NEW b \in Nat
  PROVE  Lesser(a, b) \in Nat /\ Lesser(a, b) <= a /\ Lesser(a, b) <= b
BY DEF Lesser

(* Suspense is what waits on either chain.                                 *)
LEMMA SuspenseByChain ==
  ASSUME NEW lots \in Seq(Lot)
  PROVE  SuspenseTotal(lots) = ChainSuspense(lots, "eth") + ChainSuspense(lots, "sol")
<1> DEFINE n == Len(lots)
<1>1. n \in Nat /\ DOMAIN lots = 1..n
  BY SuspenseNat
<1>2. ASSUME NEW i \in 1..n
      PROVE  /\ ChainAmounts(lots, "eth")[i] \in Int /\ ChainAmounts(lots, "sol")[i] \in Int
             /\ LotAmounts(lots)[i]
                  = ChainAmounts(lots, "eth")[i] + ChainAmounts(lots, "sol")[i]
  <2>1. lots[i] \in Lot /\ lots[i].amount \in Nat
    BY SuspenseNat
  <2>2. lots[i].chain = "eth" \/ lots[i].chain = "sol"
    BY <2>1 DEF Lot, Chains
  <2>3. LotAmounts(lots)[i] = lots[i].amount
        /\ \A c : ChainAmounts(lots, c)[i] = IF lots[i].chain = c THEN lots[i].amount ELSE 0
    BY <1>1 DEF LotAmounts, ChainAmounts
  <2> QED BY <2>1, <2>2, <2>3
<1> QED BY <1>1, <1>2, SumToPlus DEF SuspenseTotal, ChainSuspense, Summable

(* Lots that are the same on a chain wait for the same there.              *)
LEMMA SameChainLots ==
  ASSUME NEW lots \in Seq(Lot), NEW more \in Seq(Lot), NEW c, Len(more) = Len(lots),
         \A i \in 1..Len(lots) : ChainAmounts(more, c)[i] = ChainAmounts(lots, c)[i]
  PROVE  ChainSuspense(more, c) = ChainSuspense(lots, c)
<1>1. Len(lots) \in Nat /\ Summable(ChainAmounts(lots, c), Len(lots))
  BY SuspenseNat DEF Summable
<1> QED BY <1>1, SumToSame DEF ChainSuspense

(* A new lot waits on its chain.                                           *)
LEMMA AddedSuspense ==
  ASSUME NEW lots \in Seq(Lot), NEW c \in Chains, NEW amount \in Nat, NEW d
  PROVE  ChainSuspense(AddSuspense(lots, c, amount), d)
           = ChainSuspense(lots, d) + (IF d = c THEN amount ELSE 0)
<1> DEFINE lot  == [chain |-> c, amount |-> amount, tainted |-> FALSE]
           more == Append(lots, lot)
           n    == Len(lots)
<1>1. CASE amount = 0
  <2>1. ChainSuspense(lots, d) \in Nat
    BY SuspenseNat
  <2> QED BY <1>1, <2>1 DEF AddSuspense
<1>2. CASE amount # 0
  <2>1. AddSuspense(lots, c, amount) = more
    BY <1>2 DEF AddSuspense
  <2>2. lot \in Lot /\ lot.chain = c /\ lot.amount = amount
    BY DEF Lot
  <2> HIDE DEF lot
  <2>3. more \in Seq(Lot) /\ Len(more) = n + 1 /\ n \in Nat
        /\ more[n + 1] = lot /\ \A i \in 1..n : more[i] = lots[i]
    BY <2>2, AppendProperties
  <2>4. DOMAIN lots = 1..n /\ DOMAIN more = 1..(n + 1)
    BY <2>3
  <2> HIDE DEF more
  <2>5. /\ \A i \in 1..n : ChainAmounts(more, d)[i] = ChainAmounts(lots, d)[i]
        /\ ChainAmounts(more, d)[n + 1] = IF d = c THEN amount ELSE 0
    BY <2>2, <2>3, <2>4 DEF ChainAmounts
  <2>6. /\ Summable(ChainAmounts(more, d), n + 1)
        /\ Summable(ChainAmounts(lots, d), n)
    BY <2>3, SuspenseNat DEF Summable
  <2>7. SumTo(ChainAmounts(more, d), n) = SumTo(ChainAmounts(lots, d), n)
    BY <2>3, <2>5, <2>6, SumToSame
  <2>8. SumTo(ChainAmounts(more, d), n + 1)
          = SumTo(ChainAmounts(more, d), n) + ChainAmounts(more, d)[n + 1]
    BY <2>3, <2>6, SumToStep
  <2> QED BY <2>1, <2>3, <2>5, <2>7, <2>8 DEF ChainSuspense
<1> QED BY <1>1, <1>2

(* A lot that is spent waits no more.                                      *)
LEMMA SpentSuspense ==
  ASSUME NEW lots \in Seq(Lot), NEW i \in 1..Len(lots), NEW more \in Seq(Lot),
         more = [lots EXCEPT ![i].amount = 0]
  PROVE  /\ \A d : ChainSuspense(more, d)
                     = ChainSuspense(lots, d)
                         - (IF lots[i].chain = d THEN lots[i].amount ELSE 0)
         /\ SuspenseTotal(more) = SuspenseTotal(lots) - lots[i].amount
<1> DEFINE n == Len(lots)
<1>1. n \in Nat /\ DOMAIN lots = 1..n /\ Len(more) = n /\ DOMAIN more = 1..n
      /\ lots[i] \in Lot /\ lots[i].amount \in Nat
  BY SuspenseNat
<1>2. /\ \A k \in 1..n : k # i => more[k] = lots[k]
      /\ more[i].chain = lots[i].chain /\ more[i].amount = 0
  BY <1>1 DEF Lot
<1>3. ASSUME NEW d
      PROVE  ChainSuspense(more, d)
               = ChainSuspense(lots, d) - (IF lots[i].chain = d THEN lots[i].amount ELSE 0)
  <2>0. /\ \A k \in 1..Len(lots) : ChainAmounts(lots, d)[k] \in Nat
        /\ \A k \in 1..Len(more) : ChainAmounts(more, d)[k] \in Nat
        /\ ChainSuspense(lots, d) \in Nat
    BY SuspenseNat
  <2>1. Summable(ChainAmounts(lots, d), n) /\ Summable(ChainAmounts(more, d), n)
    <3> DEFINE f == ChainAmounts(lots, d)
               h == ChainAmounts(more, d)
    <3>1. (\A k \in 1..n : f[k] \in Nat) /\ (\A k \in 1..n : h[k] \in Nat)
      BY <1>1, <2>0
    <3> HIDE DEF f, h
    <3>2. Summable(f, n) /\ Summable(h, n)
      BY <3>1 DEF Summable
    <3> QED BY <3>2 DEF f, h
  <2>2. \A k \in 1..n : k # i => ChainAmounts(more, d)[k] = ChainAmounts(lots, d)[k]
    BY <1>1, <1>2 DEF ChainAmounts
  <2>3. /\ ChainAmounts(more, d)[i] = 0
        /\ ChainAmounts(lots, d)[i] = IF lots[i].chain = d THEN lots[i].amount ELSE 0
    BY <1>1, <1>2 DEF ChainAmounts
  <2>4. SumTo(ChainAmounts(more, d), n)
          = SumTo(ChainAmounts(lots, d), n)
              + (ChainAmounts(more, d)[i] - ChainAmounts(lots, d)[i])
    BY <1>1, <2>1, <2>2, SumToUpdate
  <2> QED BY <1>1, <2>0, <2>3, <2>4 DEF ChainSuspense
<1>4. lots[i].chain = "eth" \/ lots[i].chain = "sol"
  BY <1>1 DEF Lot, Chains
<1>5. /\ SuspenseTotal(lots) = ChainSuspense(lots, "eth") + ChainSuspense(lots, "sol")
      /\ SuspenseTotal(more) = ChainSuspense(more, "eth") + ChainSuspense(more, "sol")
  BY SuspenseByChain
<1>6. ChainSuspense(lots, "eth") \in Nat /\ ChainSuspense(lots, "sol") \in Nat
  BY SuspenseNat
<1>7. /\ ChainSuspense(more, "eth") = ChainSuspense(lots, "eth")
           - (IF lots[i].chain = "eth" THEN lots[i].amount ELSE 0)
      /\ ChainSuspense(more, "sol") = ChainSuspense(lots, "sol")
           - (IF lots[i].chain = "sol" THEN lots[i].amount ELSE 0)
  BY <1>3
<1>8. SuspenseTotal(more) = SuspenseTotal(lots) - lots[i].amount
  BY <1>1, <1>4, <1>5, <1>6, <1>7
<1> QED BY <1>3, <1>8

(* Consuming takes the amount, or all there is, from the chain and nothing *)
(* from the other; what is left of the chain is tainted or spent.          *)
LEMMA ConsumedSuspense ==
  ASSUME NEW lots \in Seq(Lot), NEW c \in Chains, NEW amount \in Nat, NEW more,
         more = ConsumeChain(lots, c, amount)
  PROVE  /\ ChainSuspense(more, c)
              = ChainSuspense(lots, c) - Lesser(amount, ChainSuspense(lots, c))
         /\ \A d : d # c => ChainSuspense(more, d) = ChainSuspense(lots, d)
<1> DEFINE n == Len(lots)
           p(m) == SumTo(ChainAmounts(lots, c), m)
           q(m) == SumTo(ChainAmounts(more, c), m)
<1>1. n \in Nat /\ DOMAIN lots = 1..n /\ more \in Seq(Lot) /\ Len(more) = n
      /\ DOMAIN more = 1..n /\ \A i \in 1..n : lots[i] \in Lot /\ lots[i].amount \in Nat
  BY SuspenseNat, ConsumeChainLots
<1>2. /\ Summable(ChainAmounts(lots, c), n) /\ Summable(ChainAmounts(more, c), n)
      /\ \A i \in 1..n : ChainAmounts(lots, c)[i] \in Nat
      /\ \A i \in 0..n : p(i) \in Nat
  <2>1. /\ \A i \in 1..n : ChainAmounts(lots, c)[i] \in Nat
        /\ \A i \in 0..n : p(i) \in Nat
    BY SuspenseNat
  <2>2. \A i \in 1..n : ChainAmounts(more, c)[i] \in Nat
    BY <1>1, SuspenseNat
  <2> QED BY <2>1, <2>2 DEF Summable
<1>3. ASSUME NEW i \in 1..n
      PROVE  ChainAmounts(more, c)[i] = ChainAmounts(lots, c)[i] - Take(lots, c, i, amount)
  <2>1. i - 1 \in 0..n
    BY <1>1
  <2>2. p(i - 1) \in Nat /\ ChainAmounts(lots, c)[i] \in Nat
    BY <1>2, <2>1
  <2>3. Take(lots, c, i, amount) = Lesser(ChainAmounts(lots, c)[i], Greater(0, amount - p(i - 1)))
    BY DEF Take
  <2>4. ChainAmounts(lots, c)[i] = IF lots[i].chain = c THEN lots[i].amount ELSE 0
    BY <1>1 DEF ChainAmounts
  <2>5. more[i] = IF lots[i].chain # c \/ amount = 0 THEN lots[i]
                  ELSE [chain |-> c, amount |-> lots[i].amount - Take(lots, c, i, amount),
                        tainted |-> lots[i].amount - Take(lots, c, i, amount) > 0]
    BY <1>1 DEF ConsumeChain
  <2>6. ChainAmounts(more, c)[i] = IF more[i].chain = c THEN more[i].amount ELSE 0
    BY <1>1 DEF ChainAmounts
  <2> HIDE DEF p
  <2>7. CASE lots[i].chain # c
    <3>1. Take(lots, c, i, amount) = 0
      BY <2>2, <2>3, <2>4, <2>7 DEF Lesser, Greater
    <3> QED BY <2>4, <2>5, <2>6, <2>7, <3>1
  <2>8. CASE lots[i].chain = c /\ amount = 0
    <3>1. Take(lots, c, i, amount) = 0
      BY <2>2, <2>3, <2>8 DEF Lesser, Greater
    <3> QED BY <2>2, <2>4, <2>5, <2>6, <2>8, <3>1
  <2>9. CASE lots[i].chain = c /\ amount # 0
    <3>1. more[i].chain = c /\ more[i].amount = lots[i].amount - Take(lots, c, i, amount)
      BY <2>5, <2>9
    <3> QED BY <2>4, <2>6, <2>9, <3>1
  <2> QED BY <2>7, <2>8, <2>9
<1> DEFINE Good == {m \in Nat : m <= n => q(m) = p(m) - Lesser(amount, p(m))}
<1>4. 0 \in Good
  <2>1. p(0) = 0 /\ q(0) = 0
    BY SumToZero
  <2> QED BY <2>1 DEF Lesser
<1>5. ASSUME NEW m \in Nat, m \in Good PROVE m + 1 \in Good
  <2>1. SUFFICES ASSUME m + 1 <= n PROVE q(m + 1) = p(m + 1) - Lesser(amount, p(m + 1))
    OBVIOUS
  <2>2. m \in 0..n /\ m + 1 \in 1..n /\ (m + 1) - 1 = m
    BY <1>1, <2>1
  <2>3. Summable(ChainAmounts(lots, c), m + 1) /\ Summable(ChainAmounts(more, c), m + 1)
    BY <1>1, <1>2, <2>1 DEF Summable
  <2>4. p(m + 1) = p(m) + ChainAmounts(lots, c)[m + 1]
        /\ q(m + 1) = q(m) + ChainAmounts(more, c)[m + 1]
    BY <2>3, SumToStep
  <2>5. q(m) = p(m) - Lesser(amount, p(m)) /\ p(m) \in Nat
    BY <1>2, <1>5, <2>1, <2>2
  <2>6. ChainAmounts(more, c)[m + 1]
          = ChainAmounts(lots, c)[m + 1]
              - Lesser(ChainAmounts(lots, c)[m + 1], Greater(0, amount - p(m)))
    BY <1>3, <2>2 DEF Take
  <2>7. ChainAmounts(lots, c)[m + 1] \in Nat
    BY <1>2, <2>2
  <2> HIDE DEF p, q
  <2> QED BY <2>4, <2>5, <2>6, <2>7 DEF Lesser, Greater
<1>6. n \in Good
  <2>1. Nat \subseteq Good
    <3> HIDE DEF Good
    <3> QED BY <1>4, <1>5, NatSetInduction
  <2> QED BY <1>1, <2>1
<1>7. ChainSuspense(more, c) = ChainSuspense(lots, c) - Lesser(amount, ChainSuspense(lots, c))
  BY <1>1, <1>6 DEF ChainSuspense
<1>8. ASSUME NEW d, d # c PROVE ChainSuspense(more, d) = ChainSuspense(lots, d)
  <2>1. ASSUME NEW i \in 1..n PROVE ChainAmounts(more, d)[i] = ChainAmounts(lots, d)[i]
    <3>1. more[i] = lots[i] \/ (lots[i].chain = c /\ more[i].chain = c)
      BY <1>1 DEF ConsumeChain
    <3> QED BY <1>1, <1>8, <3>1 DEF ChainAmounts
  <2> QED BY <1>1, <2>1, SameChainLots
<1> QED BY <1>7, <1>8

(* Consuming from either chain takes the amount, or all there is, from what*)
(* waits, and adds to neither chain.                                       *)
LEMMA ConsumedAny ==
  ASSUME NEW lots \in Seq(Lot), NEW amount \in Nat, NEW more, more = ConsumeAny(lots, amount)
  PROVE  /\ SuspenseTotal(more) = SuspenseTotal(lots) - Lesser(amount, SuspenseTotal(lots))
         /\ \A c \in Chains : ChainSuspense(more, c) <= ChainSuspense(lots, c)
<1> DEFINE eth  == ChainSuspense(lots, "eth")
           sol  == ChainSuspense(lots, "sol")
           rest == ConsumeChain(lots, "eth", amount)
           left == amount - Lesser(amount, eth)
<1>1. eth \in Nat /\ sol \in Nat /\ SuspenseTotal(lots) = eth + sol
  BY SuspenseNat, SuspenseByChain
<1>2. left \in Nat
  BY <1>1 DEF Lesser
<1>3. rest \in Seq(Lot)
  BY ConsumeChainLots DEF Chains
<1>4. ChainSuspense(rest, "eth") = eth - Lesser(amount, eth) /\ ChainSuspense(rest, "sol") = sol
  BY ConsumedSuspense DEF Chains
<1>5. more = ConsumeChain(rest, "sol", left)
  BY DEF ConsumeAny
<1> HIDE DEF rest, left
<1>6. more \in Seq(Lot)
  BY <1>2, <1>3, <1>5, ConsumeChainLots DEF Chains
<1>7. ChainSuspense(more, "sol") = sol - Lesser(left, sol)
      /\ ChainSuspense(more, "eth") = eth - Lesser(amount, eth)
  BY <1>2, <1>3, <1>4, <1>5, ConsumedSuspense DEF Chains
<1>8. SuspenseTotal(more) = ChainSuspense(more, "eth") + ChainSuspense(more, "sol")
  BY <1>6, SuspenseByChain
<1>9. left = amount - Lesser(amount, eth)
  BY DEF left
<1> HIDE DEF eth, sol
<1>10. SuspenseTotal(more) = (eth + sol) - Lesser(amount, eth + sol)
       /\ ChainSuspense(more, "eth") <= eth /\ ChainSuspense(more, "sol") <= sol
  BY <1>1, <1>2, <1>7, <1>8, <1>9 DEF Lesser
<1> QED BY <1>1, <1>10 DEF Chains, eth, sol

-----------------------------------------------------------------------------
(* Settling an invoice.                                                    *)

(* What only a balance read changes.                                       *)
SameReads(S, T) == T.base = S.base /\ T.balance = S.balance /\ T.height = S.height
(* What was attributed and what waits to be, less what is owed to later    *)
(* reads.                                                                  *)
Worth(S) == S.auto + S.manual + SuspenseTotal(S.lots) - S.reserved
(* No chain has more waiting than before.                                  *)
Lessens(S, T) == \A c \in Chains : ChainSuspense(T.lots, c) <= ChainSuspense(S.lots, c)
(* Open invoices may have been paid, and that is all.                      *)
PaysOpen(S, T) ==
  \A j \in Jobs :
    \/ T.invoice[j] = S.invoice[j]
    \/ /\ S.invoice[j].status = "open" /\ T.invoice[j].status = "paid"
       /\ T.invoice[j].amount = S.invoice[j].amount

(* T is S after any number of invoices were settled: no money is added to  *)
(* or lost from what the watch knows of.                                   *)
Settles(S, T) ==
  /\ T.price = S.price
  /\ SameReads(S, T)
  /\ Worth(T) = Worth(S)
  /\ Lessens(S, T)
  /\ PaysOpen(S, T)

(* Settling nothing settles.                                               *)
LEMMA SettlesSame == ASSUME NEW S \in DB PROVE Settles(S, S)
<1>1. \A c \in Chains : ChainSuspense(S.lots, c) \in Nat
  BY SuspenseNat DEF DB
<1> QED BY <1>1 DEF Settles, SameReads, Lessens, PaysOpen

(* One settlement after another is a settlement.                           *)
LEMMA SettlesTwice ==
  ASSUME NEW S \in DB, NEW T \in DB, NEW U \in DB, Settles(S, T), Settles(T, U)
  PROVE  Settles(S, U)
<1>1. \A c \in Chains : /\ ChainSuspense(S.lots, c) \in Nat /\ ChainSuspense(T.lots, c) \in Nat
                        /\ ChainSuspense(U.lots, c) \in Nat
  BY SuspenseNat DEF DB
<1>2. Lessens(S, U)
  <2>1. Lessens(S, T) /\ Lessens(T, U)
    BY DEF Settles
  <2> QED BY <1>1, <2>1 DEF Lessens
<1>3. PaysOpen(S, U)
  BY DEF Settles, PaysOpen
<1> QED BY <1>2, <1>3 DEF Settles, SameReads

(* Paying one open invoice pays open invoices.                             *)
LEMMA PaysOpens ==
  ASSUME NEW S \in DB, NEW T \in DB, NEW j \in Open(S), NEW source, Pays(S, T, j, source)
  PROVE  PaysOpen(S, T)
<1>1. j \in Jobs /\ S.invoice[j].status = "open" /\ S.invoice \in [Jobs -> Invoice]
  BY DEF Open, DB
<1> QED BY <1>1 DEF Pays, PaysOpen

(* Reconciling takes the amount out of suspense, or owes it to later reads.*)
LEMMA ReconcileFunds ==
  ASSUME NEW S \in DB, NEW amount \in Nat, NEW R, R = Reconcile(S, amount)
  PROVE  /\ SameReads(S, R) /\ Lessens(S, R)
         /\ SuspenseTotal(R.lots) <= SuspenseTotal(S.lots)
         /\ SuspenseTotal(R.lots) - R.reserved = SuspenseTotal(S.lots) - S.reserved - amount
<1> DEFINE lots == ConsumeAny(S.lots, amount)
           total == SuspenseTotal(S.lots)
           reserved == S.reserved + amount - Lesser(amount, total)
<1>1. S.lots \in Seq(Lot) /\ S.reserved \in Nat
  BY DEF DB
<1>2. total \in Nat
  BY <1>1, SuspenseNat
<1>3. /\ SuspenseTotal(lots) = total - Lesser(amount, total)
      /\ \A c \in Chains : ChainSuspense(lots, c) <= ChainSuspense(S.lots, c)
  BY <1>1, ConsumedAny
<1>4. R = [S EXCEPT !.lots = lots, !.reserved = reserved]
  BY DEF Reconcile
<1> HIDE DEF lots, reserved
<1>5. R.lots = lots /\ R.reserved = reserved /\ SameReads(S, R)
  BY <1>4 DEF DB, SameReads
<1>6. Lessens(S, R)
  BY <1>3, <1>5 DEF Lessens
<1>7. Lesser(amount, total) \in Nat
  BY <1>2, LessNat
<1>8. /\ SuspenseTotal(R.lots) <= total
      /\ SuspenseTotal(R.lots) - R.reserved = total - S.reserved - amount
  <2>1. reserved = S.reserved + amount - Lesser(amount, total)
    BY DEF reserved
  <2> HIDE DEF total
  <2> QED BY <1>1, <1>2, <1>3, <1>5, <1>7, <2>1
<1> QED BY <1>5, <1>6, <1>8

(* T is S after lots paid invoices: nothing is reserved or released, and   *)
(* the tainted lots are as they were.                                      *)
FromLots(S, T) ==
  /\ T.manual = S.manual /\ T.reserved = S.reserved
  /\ Len(T.lots) = Len(S.lots)
  /\ \A i \in 1..Len(S.lots) :
       /\ T.lots[i].chain = S.lots[i].chain /\ T.lots[i].tainted = S.lots[i].tainted
       /\ S.lots[i].tainted => T.lots[i] = S.lots[i]

(* One lot that identifies an open invoice, or none.                       *)
LEMMA MatchLotSettles ==
  ASSUME NEW S, Sane(S), NEW c, NEW i \in 1..Len(S.lots), NEW M, M = MatchLot(S, c, i)
  PROVE  Settles(S, M) /\ FromLots(S, M)
<1> DEFINE lot   == S.lots[i]
           fits  == Candidates(S, lot.amount)
           payee == CHOOSE j \in fits : TRUE
           paid  == Collect(S, payee, "chain")
           lots  == [S.lots EXCEPT ![i].amount = 0]
           auto  == paid.auto + lot.amount
           T     == [paid EXCEPT !.auto = auto, !.lots = lots]
           pays  == lot.chain = c /\ lot.amount > 0 /\ ~lot.tainted /\ Cardinality(fits) = 1
<1>1. S \in DB /\ M \in DB
  BY MatchLotSane DEF Sane
<1>2. CASE ~pays
  <2>1. M = S
    BY <1>2 DEF MatchLot
  <2> QED BY <1>1, <2>1, SettlesSame DEF FromLots
<1>3. CASE pays
  <2>1. payee \in fits
    BY <1>3, OnlyChoice
  <2>2. payee \in Open(S)
    <3> HIDE DEF payee
    <3> QED BY <2>1, CandidatesOpen
  <2>3. paid \in DB /\ Pays(S, paid, payee, "chain") /\ Watched(paid) = Watched(S)
    <3> HIDE DEF payee
    <3> QED BY <1>1, <2>2, CollectPays
  <2>4. PaysOpen(S, paid)
    <3> HIDE DEF payee, paid
    <3> QED BY <1>1, <2>2, <2>3, PaysOpens
  <2>5. /\ paid.lots = S.lots /\ paid.auto = S.auto /\ paid.manual = S.manual
        /\ paid.reserved = S.reserved /\ paid.price = S.price /\ SameReads(S, paid)
    BY <2>3 DEF Watched, SameReads
  <2>6. M = T
    BY <1>3, <2>5 DEF MatchLot
  <2> HIDE DEF paid
  <2>7. S.lots \in Seq(Lot) /\ S.auto \in Nat /\ S.manual \in Nat /\ S.reserved \in Nat
        /\ M.lots \in Seq(Lot)
    BY <1>1 DEF DB
  <2>8. lot \in Lot /\ lot.amount \in Nat /\ Len(S.lots) \in Nat /\ DOMAIN S.lots = 1..Len(S.lots)
    BY <2>7, SuspenseNat
  <2>9. /\ M.lots = lots /\ M.auto = S.auto + lot.amount /\ M.manual = S.manual
        /\ M.reserved = S.reserved /\ M.price = S.price /\ SameReads(S, M)
        /\ M.invoice = paid.invoice
    <3> HIDE DEF lots, lot
    <3> QED BY <2>3, <2>5, <2>6 DEF DB, SameReads
  <2>10. Len(M.lots) = Len(S.lots) /\ \A k \in 1..Len(S.lots) :
           /\ k # i => M.lots[k] = S.lots[k]
           /\ M.lots[k].chain = S.lots[k].chain /\ M.lots[k].tainted = S.lots[k].tainted
    BY <2>7, <2>8, <2>9 DEF Lot
  <2>11. FromLots(S, M)
    <3>1. ~lot.tainted
      BY <1>3
    <3> QED BY <2>9, <2>10, <3>1 DEF FromLots
  <2>12. /\ \A d : ChainSuspense(M.lots, d)
                     = ChainSuspense(S.lots, d) - (IF lot.chain = d THEN lot.amount ELSE 0)
         /\ SuspenseTotal(M.lots) = SuspenseTotal(S.lots) - lot.amount
    BY <2>7, <2>9, SpentSuspense
  <2>13. SuspenseTotal(S.lots) \in Nat /\ \A d : ChainSuspense(S.lots, d) \in Nat
    BY <2>7, SuspenseNat
  <2> HIDE DEF lot, lots, T
  <2>14. Lessens(S, M)
    BY <2>8, <2>12, <2>13 DEF Lessens
  <2>15. Worth(M) = Worth(S)
    BY <2>7, <2>8, <2>9, <2>12, <2>13 DEF Worth
  <2>16. PaysOpen(S, M)
    BY <2>4, <2>9 DEF PaysOpen
  <2> QED BY <2>9, <2>11, <2>14, <2>15, <2>16 DEF Settles
<1> QED BY <1>2, <1>3

(* All the lots of a chain that still identify a payment.                  *)
LEMMA MatchChainSettles ==
  ASSUME NEW S, Sane(S), NEW c
  PROVE  Settles(S, MatchChain(S, c)) /\ FromLots(S, MatchChain(S, c))
<1> DEFINE P == {T \in DB : Sane(T) /\ Settles(S, T) /\ FromLots(S, T)}
<1>1. S \in P /\ Len(S.lots) \in Nat
  <2>1. S \in DB /\ S.lots \in Seq(Lot)
    BY DEF Sane, DB
  <2> QED BY <2>1, SettlesSame DEF FromLots
<1>2. ASSUME NEW T \in P, NEW i \in 1..Len(S.lots) PROVE MatchLot(T, c, i) \in P
  <2> DEFINE M == MatchLot(T, c, i)
  <2>1. Sane(T) /\ Settles(S, T) /\ FromLots(S, T) /\ S \in DB /\ T \in DB
    BY <1>1
  <2>2. i \in 1..Len(T.lots)
    BY <2>1 DEF FromLots
  <2>3. Sane(M) /\ M \in DB
    BY <2>1, <2>2, MatchLotSane DEF Sane
  <2>4. Settles(T, M) /\ FromLots(T, M)
    BY <2>1, <2>2, MatchLotSettles
  <2> HIDE DEF M
  <2>5. Settles(S, M)
    BY <2>1, <2>3, <2>4, SettlesTwice
  <2>6. FromLots(S, M)
    BY <2>1, <2>4 DEF FromLots
  <2>7. M \in P
    BY <2>3, <2>5, <2>6
  <2> QED BY <2>7 DEF M
<1>3. MatchChain(S, c) \in P
  <2> HIDE DEF P
  <2> QED BY <1>1, <1>2, MatchChainKeeps
<1> QED BY <1>3

(* All that waits on a chain is tainted or spent.                          *)
Obscured(S, c) ==
  \A i \in 1..Len(S.lots) : S.lots[i].chain = c => S.lots[i].tainted \/ S.lots[i].amount = 0

(* When only tainted or spent lots are left on a chain, matching it changes*)
(* nothing.                                                                *)
LEMMA ObscuredNeverPays ==
  ASSUME NEW S \in DB, NEW c, Obscured(S, c)
  PROVE  MatchChain(S, c) = S
<1>1. S.lots \in Seq(Lot) /\ Len(S.lots) \in Nat
  BY DEF DB
<1>2. ASSUME NEW i \in 1..Len(S.lots) PROVE MatchLot(S, c, i) = S
  <2>1. S.lots[i].amount = 0 => ~(S.lots[i].amount > 0)
    OBVIOUS
  <2> QED BY <2>1 DEF Obscured, MatchLot
<1>3. \A T \in {S} : \A i \in 1..Len(S.lots) : MatchLot(T, c, i) \in {S}
  BY <1>2
<1>4. MatchChain(S, c) \in {S}
  BY <1>1, <1>3, MatchChainKeeps
<1> QED BY <1>4

(* One listed transfer.                                                    *)
LEMMA SettleTransferSettles ==
  ASSUME NEW S, Sane(S), NEW t \in Transfer, NEW M, M = SettleTransfer(S, t)
  PROVE  Settles(S, M)
<1> DEFINE fits  == Matches(S, t)
           payee == CHOOSE j \in fits : TRUE
           row(j) == [chain |-> t.chain, txid |-> t.txid, invoice |-> j]
<1>1. S \in DB /\ t.amount \in Nat
  BY DEF Sane, Transfer
<1>2. CASE Recorded(S, t)
  <2>1. M = S
    BY <1>2 DEF SettleTransfer
  <2> QED BY <1>1, <2>1, SettlesSame
<1>3. CASE ~Recorded(S, t) /\ Cardinality(fits) # 1
  <2> DEFINE txids == S.txids \cup {row(NoJob)}
  <2>1. M = [S EXCEPT !.txids = txids]
    BY <1>3 DEF SettleTransfer, RecordTxid
  <2> HIDE DEF txids
  <2>2. /\ M.price = S.price /\ SameReads(S, M) /\ M.invoice = S.invoice
        /\ M.auto = S.auto /\ M.manual = S.manual /\ M.lots = S.lots /\ M.reserved = S.reserved
    BY <1>1, <2>1 DEF DB, SameReads
  <2>3. Settles(S, S)
    BY <1>1, SettlesSame
  <2> QED BY <2>2, <2>3 DEF Settles, SameReads, Worth, Lessens, PaysOpen
<1>4. CASE ~Recorded(S, t) /\ Cardinality(fits) = 1
  <2>1. payee \in fits
    BY <1>4, OnlyChoice
  <2>2. payee \in Open(S)
    <3>1. fits \subseteq Candidates(S, t.amount)
      BY DEF Matches
    <3> HIDE DEF payee, fits
    <3> QED BY <2>1, <3>1, CandidatesOpen
  <2> DEFINE paid  == Collect(S, payee, "chain")
             R     == Reconcile(paid, t.amount)
             auto  == R.auto + t.amount
             txids == R.txids \cup {row(payee)}
  <2>3. M = [[R EXCEPT !.auto = auto] EXCEPT !.txids = @ \cup {row(payee)}]
    BY <1>4 DEF SettleTransfer, RecordTxid
  <2> HIDE DEF payee
  <2>4. paid \in DB /\ Pays(S, paid, payee, "chain") /\ Watched(paid) = Watched(S)
    BY <1>1, <2>2, CollectPays
  <2>5. PaysOpen(S, paid)
    <3> HIDE DEF paid
    <3> QED BY <1>1, <2>2, <2>4, PaysOpens
  <2> HIDE DEF paid
  <2>6. R \in DB /\ SameInvoices(paid, R) /\ R.price = paid.price
    BY <1>1, <2>4, ReconcileType
  <2>7. /\ SameReads(paid, R) /\ Lessens(paid, R)
        /\ SuspenseTotal(R.lots) - R.reserved
             = SuspenseTotal(paid.lots) - paid.reserved - t.amount
    BY <1>1, <2>4, ReconcileFunds
  <2> HIDE DEF R
  <2>8. /\ M.price = R.price /\ SameReads(R, M) /\ M.invoice = R.invoice /\ M.auto = auto
        /\ M.manual = R.manual /\ M.lots = R.lots /\ M.reserved = R.reserved
    <3> HIDE DEF auto, row
    <3> QED BY <2>3, <2>6 DEF DB, SameReads
  <2>9. /\ M.price = S.price /\ SameReads(S, M) /\ M.invoice = paid.invoice
        /\ M.auto = S.auto + t.amount /\ M.manual = S.manual
        /\ paid.lots = S.lots /\ paid.reserved = S.reserved
    BY <2>4, <2>6, <2>7, <2>8 DEF Watched, SameInvoices, SameReads
  <2>10. Lessens(S, M) /\ PaysOpen(S, M)
    BY <2>5, <2>7, <2>8, <2>9 DEF Lessens, PaysOpen
  <2>11. Worth(M) = Worth(S)
    <3>1. R.lots \in Seq(Lot) /\ S.lots \in Seq(Lot) /\ R.reserved \in Nat /\ S.reserved \in Nat
          /\ S.auto \in Nat /\ S.manual \in Nat
      BY <1>1, <2>6 DEF DB
    <3>2. SuspenseTotal(R.lots) \in Nat /\ SuspenseTotal(S.lots) \in Nat
      BY <3>1, SuspenseNat
    <3> DEFINE more == SuspenseTotal(R.lots)
               less == SuspenseTotal(S.lots)
    <3>3. more - R.reserved = less - S.reserved - t.amount
      BY <2>7, <2>9
    <3>4. Worth(M) = (S.auto + t.amount) + S.manual + more - R.reserved
      BY <2>8, <2>9 DEF Worth
    <3>5. Worth(S) = S.auto + S.manual + less - S.reserved
      BY DEF Worth
    <3>6. more \in Nat /\ less \in Nat
      BY <3>2
    <3> HIDE DEF more, less
    <3> QED BY <1>1, <3>1, <3>3, <3>4, <3>5, <3>6
  <2> QED BY <2>9, <2>10, <2>11 DEF Settles
<1> QED BY <1>2, <1>3, <1>4

(* A whole listing.                                                        *)
LEMMA SettleTransfersSettle ==
  ASSUME NEW S, Sane(S), NEW ts \in Seq(Transfer)
  PROVE  Settles(S, SettleTransfers(S, ts))
<1> DEFINE P == {T \in DB : Sane(T) /\ Settles(S, T)}
<1>1. S \in P
  BY SettlesSame DEF Sane
<1>2. ASSUME NEW T \in P, NEW t \in Transfer PROVE SettleTransfer(T, t) \in P
  <2> DEFINE M == SettleTransfer(T, t)
  <2>1. Sane(T) /\ Settles(S, T) /\ S \in DB /\ T \in DB
    BY <1>1
  <2>2. Sane(M) /\ M \in DB
    BY <2>1, SettleTransferSane DEF Sane
  <2>3. Settles(T, M)
    BY <2>1, SettleTransferSettles
  <2> HIDE DEF M
  <2>4. M \in P
    BY <2>1, <2>2, <2>3, SettlesTwice
  <2> QED BY <2>4 DEF M
<1>3. SettleTransfers(S, ts) \in P
  <2> HIDE DEF P
  <2> QED BY <1>1, <1>2, SettleTransfersKeep
<1> QED BY <1>3

(* `paid --confirm`.                                                       *)
LEMMA ManualSettles ==
  ASSUME NEW S, Sane(S), NEW j \in Open(S), NEW T,
         T = LET amount == S.invoice[j].amount
             IN  Collect([Reconcile(S, amount) EXCEPT !.manual = @ + amount], j, "manual")
  PROVE  /\ Settles(S, T) /\ T.auto = S.auto
         /\ SuspenseTotal(T.lots) <= SuspenseTotal(S.lots)
<1> DEFINE amount == S.invoice[j].amount
           R == Reconcile(S, amount)
           manual == R.manual + amount
           M == [R EXCEPT !.manual = manual]
<1>1. S \in DB /\ j \in Jobs /\ amount \in Nat
  BY DEF Sane, Open, DB, Invoice
<1>2. R \in DB /\ SameInvoices(S, R) /\ R.price = S.price
  BY <1>1, ReconcileType
<1>3. /\ SameReads(S, R) /\ Lessens(S, R) /\ SuspenseTotal(R.lots) <= SuspenseTotal(S.lots)
      /\ SuspenseTotal(R.lots) - R.reserved = SuspenseTotal(S.lots) - S.reserved - amount
  <2> HIDE DEF amount
  <2> QED BY <1>1, ReconcileFunds
<1>4. T = Collect(M, j, "manual")
  OBVIOUS
<1> HIDE DEF R
<1>5. manual \in Nat /\ manual = S.manual + amount
  <2>1. R.manual \in Nat /\ R.manual = S.manual
    BY <1>2 DEF DB, SameInvoices
  <2> QED BY <1>1, <2>1
<1> HIDE DEF manual
<1>6. M \in DB
  BY <1>2, <1>5 DEF DB
<1>7. /\ M.invoice = S.invoice /\ M.auto = S.auto /\ M.manual = manual /\ M.price = S.price
      /\ M.lots = R.lots /\ M.reserved = R.reserved /\ SameReads(S, M)
  BY <1>2, <1>3 DEF DB, SameInvoices, SameReads
<1> HIDE DEF M
<1>8. j \in Open(M)
  BY <1>7 DEF Open
<1>9. T \in DB /\ Pays(M, T, j, "manual") /\ Watched(T) = Watched(M)
  BY <1>4, <1>6, <1>8, CollectPays
<1>10. PaysOpen(S, T)
  <2>1. PaysOpen(M, T)
    BY <1>6, <1>8, <1>9, PaysOpens
  <2> QED BY <1>7, <2>1 DEF PaysOpen
<1>11. /\ T.auto = S.auto /\ T.manual = S.manual + amount /\ T.price = S.price
       /\ T.lots = R.lots /\ T.reserved = R.reserved /\ SameReads(S, T)
  BY <1>5, <1>7, <1>9 DEF Watched, SameReads
<1>12. Worth(T) = Worth(S)
  <2>1. R.lots \in Seq(Lot) /\ S.lots \in Seq(Lot) /\ R.reserved \in Nat /\ S.reserved \in Nat
        /\ S.auto \in Nat /\ S.manual \in Nat
    BY <1>1, <1>2 DEF DB
  <2>2. SuspenseTotal(R.lots) \in Nat /\ SuspenseTotal(S.lots) \in Nat
    BY <2>1, SuspenseNat
  <2> HIDE DEF amount
  <2> QED BY <1>1, <1>3, <1>11, <2>1, <2>2 DEF Worth
<1> QED BY <1>3, <1>10, <1>11, <1>12 DEF Settles, Lessens

(* What issuing and writing off leave alone.                               *)
Unwatched(S, T) ==
  /\ SameReads(S, T)
  /\ T.lots = S.lots /\ T.reserved = S.reserved /\ T.manual = S.manual /\ T.auto = S.auto

(* issue() of a job that has no bill, or one that was written off: a new   *)
(* open invoice of an amount of its own.                                   *)
LEMMA IssueBills ==
  ASSUME NEW S \in DB, NEW j \in Jobs, S.invoice[j].status \in {"none", "void"},
         NEW T, T = Issue(S, j), \A i \in Jobs : S.price[i] > 0
  PROVE  /\ Unwatched(S, T) /\ T.price = S.price
         /\ T.invoice[j].status = "open"
         /\ T.invoice[j].amount \in Nat \ {0}
         /\ \A i \in Open(S) : S.invoice[i].amount # T.invoice[j].amount
         /\ \A i \in Jobs : i # j => T.invoice[i] = S.invoice[i]
<1> DEFINE amount == UniqueOpenAmount(S, S.price[j])
           bill   == [status |-> "open", amount |-> amount, source |-> "none"]
           books  == Post(S.books, "receivable", "unearned", amount)
           inv    == [S.invoice EXCEPT ![j] = bill]
<1>1. S.invoice[j].status \notin {"open", "paid"}
  OBVIOUS
<1>2. S.price \in [Jobs -> Nat] /\ S.invoice \in [Jobs -> Invoice]
  BY DEF DB
<1>3. amount \in Nat /\ amount >= S.price[j] /\ \A i \in Open(S) : S.invoice[i].amount # amount
  <2>1. S.price[j] \in Nat /\ \A i \in Jobs : S.invoice[i].amount \in Nat
    BY <1>2 DEF Invoice
  <2> QED BY <2>1, UniqueOpenAmountFree
<1>4. T = [S EXCEPT !.invoice = inv, !.books = books]
  BY <1>1 DEF Issue
<1> HIDE DEF amount
<1>5. inv[j] = bill /\ \A i \in Jobs : i # j => inv[i] = S.invoice[i]
  BY <1>2
<1> HIDE DEF books, inv
<1>6. T.invoice = inv /\ T.price = S.price /\ Unwatched(S, T)
  BY <1>4 DEF DB, Unwatched, SameReads
<1>7. amount \in Nat \ {0}
  BY <1>2, <1>3
<1> QED BY <1>3, <1>5, <1>6, <1>7

(* void() of an open invoice.                                              *)
LEMMA VoidWritesOff ==
  ASSUME NEW S \in DB, NEW j \in Open(S), NEW T, T = Void(S, j)
  PROVE  /\ Unwatched(S, T) /\ T.price = S.price
         /\ S.invoice[j].status = "open" /\ T.invoice[j].status = "void"
         /\ T.invoice[j].amount = S.invoice[j].amount
         /\ \A i \in Jobs : i # j => T.invoice[i] = S.invoice[i]
<1> DEFINE inv   == [S.invoice EXCEPT ![j].status = "void"]
           books == Post(S.books, "unearned", "receivable", S.invoice[j].amount)
<1>1. j \in Jobs /\ S.invoice[j].status = "open" /\ S.invoice \in [Jobs -> Invoice]
  BY DEF Open, DB
<1>2. T = [S EXCEPT !.invoice = inv, !.books = books]
  BY <1>1 DEF Void
<1>3. inv[j].status = "void" /\ inv[j].amount = S.invoice[j].amount
      /\ \A i \in Jobs : i # j => inv[i] = S.invoice[i]
  BY <1>1 DEF Invoice
<1> HIDE DEF inv, books
<1>4. T.invoice = inv /\ T.price = S.price /\ Unwatched(S, T)
  BY <1>2 DEF DB, Unwatched, SameReads
<1> QED BY <1>1, <1>3, <1>4

-----------------------------------------------------------------------------
(* Reading a balance.                                                      *)

(* A read counts when it is newer than the last, and there was one to      *)
(* compare it with.                                                        *)
Follows(S, c, h)  == IsFresh(S, c, h) /\ S.base[c]
(* What a read adds to the watch, and by how much suspense may grow.       *)
Rise(S, c, h)  == IF Follows(S, c, h) THEN Greater(Delta(S, c, h), -ChainSuspense(S.lots, c)) ELSE 0
Added(S, c, h) == IF Follows(S, c, h) THEN Greater(0, Delta(S, c, h)) ELSE 0
(* The balance fell: the owner withdrew more than clients paid.            *)
FallsBy(S, c, h) == Follows(S, c, h) /\ Delta(S, c, h) < 0

(* The reads of T, and its suspense on each chain.                         *)
Reads(S, T, c, h) ==
  /\ T.height[c]  = IF IsFresh(S, c, h) THEN h ELSE S.height[c]
  /\ T.balance[c] = IF IsFresh(S, c, h) THEN chain[c].balances[h] ELSE S.balance[c]
  /\ T.base[c]    = (S.base[c] \/ IsFresh(S, c, h))
  /\ \A d \in Chains : d # c =>
       T.height[d] = S.height[d] /\ T.balance[d] = S.balance[d] /\ T.base[d] = S.base[d]
(* What waits after the read: less by a fall, and otherwise at most what   *)
(* the read added more.                                                    *)
Suspends(S, T, c, h) ==
  /\ FallsBy(S, c, h) =>
       ChainSuspense(T.lots, c) = Greater(0, ChainSuspense(S.lots, c) + Delta(S, c, h))
  /\ ChainSuspense(T.lots, c) <= Greater(0, ChainSuspense(S.lots, c) + Added(S, c, h))
  /\ \A d \in Chains : d # c => ChainSuspense(T.lots, d) = ChainSuspense(S.lots, d)
(* The lots that were there, and those that are new.                       *)
Keeps(S, T, c, h) ==
  /\ Len(T.lots) >= Len(S.lots)
  /\ \A i \in 1..Len(S.lots) :
       /\ T.lots[i].chain = S.lots[i].chain
       /\ S.lots[i].chain # c \/ ~FallsBy(S, c, h) => T.lots[i] = S.lots[i]
  /\ \A i \in 1..Len(T.lots) : i > Len(S.lots) => T.lots[i].chain = c
  /\ FallsBy(S, c, h) => Obscured(T, c)

(* Reading one balance adds its rise to the worth of the watch, moves no   *)
(* chain but its own and pays no invoice.                                  *)
LEMMA ObserveReads ==
  ASSUME NEW S, Sane(S), ChainType, NEW c \in Chains, NEW h \in 0..Len(chain[c].balances),
         NEW T, T = ObserveBalance(S, c, h)
  PROVE  /\ Reads(S, T, c, h) /\ Suspends(S, T, c, h) /\ Keeps(S, T, c, h)
         /\ T.invoice = S.invoice /\ T.price = S.price
         /\ T.auto = S.auto /\ T.manual = S.manual
         /\ Worth(T) = Worth(S) + Rise(S, c, h)
         /\ SuspenseTotal(T.lots) <= SuspenseTotal(S.lots) + Added(S, c, h)
<1> DEFINE delta == Delta(S, c, h)
           used  == Lesser(delta, S.reserved)
           balance == [S.balance EXCEPT ![c] = chain[c].balances[h]]
           height == [S.height EXCEPT ![c] = h]
           base == [S.base EXCEPT ![c] = TRUE]
           seen  == [S EXCEPT !.balance = balance, !.height = height, !.base = base]
           less  == ConsumeChain(S.lots, c, -delta)
           more  == AddSuspense(S.lots, c, delta - used)
           held  == S.reserved - used
           Rest(U) == /\ U.balance = balance /\ U.height = height /\ U.base = base
                      /\ U.invoice = S.invoice /\ U.price = S.price
                      /\ U.auto = S.auto /\ U.manual = S.manual
<1>1. S \in DB /\ T \in DB
  BY ObserveBalanceSane DEF Sane
<1>2. /\ S.lots \in Seq(Lot) /\ T.lots \in Seq(Lot) /\ S.reserved \in Nat
      /\ S.auto \in Nat /\ S.manual \in Nat
      /\ S.balance \in [Chains -> Nat] /\ S.height \in [Chains -> Nat]
      /\ S.base \in [Chains -> BOOLEAN]
  BY <1>1 DEF DB
<1>3. /\ SuspenseTotal(S.lots) \in Nat /\ \A d : ChainSuspense(S.lots, d) \in Nat
      /\ Len(S.lots) \in Nat /\ DOMAIN S.lots = 1..Len(S.lots)
      /\ \A i \in 1..Len(S.lots) : S.lots[i] \in Lot /\ S.lots[i].amount \in Nat
  BY <1>2, SuspenseNat
<1>4. /\ SuspenseTotal(S.lots) = ChainSuspense(S.lots, "eth") + ChainSuspense(S.lots, "sol")
      /\ SuspenseTotal(T.lots) = ChainSuspense(T.lots, "eth") + ChainSuspense(T.lots, "sol")
  BY <1>2, SuspenseByChain
<1>5. CASE ~IsFresh(S, c, h)
  <2>1. T = S
    BY <1>5 DEF ObserveBalance
  <2>2. ~Follows(S, c, h) /\ Added(S, c, h) = 0 /\ Rise(S, c, h) = 0
    BY <1>5 DEF Follows, Added, Rise
  <2>3. Reads(S, T, c, h) /\ Keeps(S, T, c, h)
    BY <1>2, <1>3, <1>5, <2>1, <2>2 DEF Reads, Keeps, FallsBy
  <2>4. Suspends(S, T, c, h)
    BY <1>3, <2>1, <2>2 DEF Suspends, Greater, FallsBy
  <2>5. Worth(S) \in Int
    BY <1>2, <1>3 DEF Worth
  <2> QED BY <1>3, <2>1, <2>2, <2>3, <2>4, <2>5
<1>6. CASE IsFresh(S, c, h)
  <2>1. h \in Nat /\ chain[c].balances[h] \in Nat
    BY <1>6, BalanceAt DEF IsFresh
  <2>2. delta \in Int
    BY <1>2, <2>1 DEF Delta
  <2>3. T = IF ~S.base[c] THEN seen
            ELSE IF delta < 0 THEN [seen EXCEPT !.lots = less]
            ELSE [seen EXCEPT !.reserved = held, !.lots = more]
    <3>1. seen.lots = S.lots /\ seen.reserved = S.reserved
      BY <1>1 DEF DB
    <3>2. T = IF ~S.base[c] THEN seen
              ELSE IF delta < 0 THEN [seen EXCEPT !.lots = ConsumeChain(seen.lots, c, -delta)]
              ELSE [seen EXCEPT !.reserved = seen.reserved - used,
                                !.lots = AddSuspense(seen.lots, c, delta - used)]
      BY <1>6 DEF ObserveBalance
    <3> HIDE DEF seen, delta, used
    <3> QED BY <3>1, <3>2
  <2>4. /\ balance[c] = chain[c].balances[h] /\ height[c] = h /\ base[c] = TRUE
        /\ \A d \in Chains : d # c =>
             balance[d] = S.balance[d] /\ height[d] = S.height[d] /\ base[d] = S.base[d]
    BY <1>2
  <2> HIDE DEF balance, height, base
  <2>5. Rest(seen) /\ seen.lots = S.lots /\ seen.reserved = S.reserved
    BY <1>1 DEF DB
  <2>6. ASSUME Rest(T) PROVE Reads(S, T, c, h)
    BY <1>6, <2>4, <2>6 DEF Reads
  <2>7. CASE ~S.base[c]
    <3>1. Rest(T) /\ T.lots = S.lots /\ T.reserved = S.reserved
      BY <2>3, <2>5, <2>7
    <3>2. ~Follows(S, c, h) /\ Added(S, c, h) = 0 /\ Rise(S, c, h) = 0
      BY <2>7 DEF Follows, Added, Rise
    <3>3. Keeps(S, T, c, h)
      BY <1>3, <3>1, <3>2 DEF Keeps, FallsBy
    <3>4. Suspends(S, T, c, h)
      BY <1>3, <3>1, <3>2 DEF Suspends, Greater, FallsBy
    <3>5. Worth(S) \in Int /\ Worth(T) = Worth(S)
      BY <1>2, <1>3, <3>1 DEF Worth
    <3> QED BY <1>3, <2>6, <3>1, <3>2, <3>3, <3>4, <3>5
  <2>8. CASE S.base[c] /\ delta < 0
    <3>1. T = [seen EXCEPT !.lots = less]
      BY <2>3, <2>8
    <3> HIDE DEF less
    <3>2. Rest(T) /\ T.lots = less /\ T.reserved = S.reserved
      <4> HIDE DEF seen
      <4> QED BY <1>1, <2>5, <3>1 DEF DB, seen
    <3> HIDE DEF seen
    <3>3. /\ Follows(S, c, h) /\ FallsBy(S, c, h) /\ Added(S, c, h) = 0
          /\ Rise(S, c, h) = Greater(delta, -ChainSuspense(S.lots, c))
      BY <1>6, <2>2, <2>8 DEF Follows, FallsBy, Added, Rise, Greater
    <3>4. -delta \in Nat /\ -delta # 0
      BY <2>2, <2>8
    <3>5. /\ ChainSuspense(less, c)
               = ChainSuspense(S.lots, c) - Lesser(-delta, ChainSuspense(S.lots, c))
          /\ \A d : d # c => ChainSuspense(less, d) = ChainSuspense(S.lots, d)
      BY <1>2, <3>4, ConsumedSuspense DEF less
    <3>6. ChainSuspense(S.lots, c) \in Nat
      BY <1>3
    <3>7. ChainSuspense(less, c) = Greater(0, ChainSuspense(S.lots, c) + delta)
      <4> HIDE DEF delta
      <4> QED BY <2>2, <3>5, <3>6 DEF Lesser, Greater
    <3>8. Suspends(S, T, c, h)
      <4>1. Greater(0, ChainSuspense(S.lots, c) + delta) <= Greater(0, ChainSuspense(S.lots, c))
        <5> HIDE DEF delta
        <5> QED BY <2>2, <2>8, <3>6 DEF Greater
      <4>2. ChainSuspense(S.lots, c) + Added(S, c, h) = ChainSuspense(S.lots, c)
        BY <3>3, <3>6
      <4> QED BY <2>8, <3>2, <3>3, <3>5, <3>7, <4>1, <4>2 DEF Suspends
    <3>9. Keeps(S, T, c, h)
      <4>1. Len(less) = Len(S.lots) /\ less \in Seq(Lot)
        <5>1. -delta \in Int
          BY <2>2
        <5> QED BY <1>2, <5>1, ConsumeChainLots DEF less
      <4>2. \A i \in 1..Len(S.lots) : less[i] =
              LET left == S.lots[i].amount - Take(S.lots, c, i, -delta)
              IN  IF S.lots[i].chain # c \/ -delta = 0 THEN S.lots[i]
                  ELSE [chain |-> c, amount |-> left, tainted |-> left > 0]
        BY <1>3 DEF less, ConsumeChain
      <4>3. ASSUME NEW i \in 1..Len(S.lots)
            PROVE  /\ less[i].chain = S.lots[i].chain
                   /\ S.lots[i].chain # c => less[i] = S.lots[i]
                   /\ less[i].chain = c => less[i].tainted \/ less[i].amount = 0
        <5> DEFINE left == S.lots[i].amount - Take(S.lots, c, i, -delta)
        <5>1. left \in Nat
          <6>1. -delta \in Int
            BY <2>2
          <6>2. Take(S.lots, c, i, -delta) \in 0..S.lots[i].amount
            BY <1>2, <6>1, TakeBounds
          <6> QED BY <1>3, <6>2
        <5>2. less[i] = IF S.lots[i].chain # c THEN S.lots[i]
                        ELSE [chain |-> c, amount |-> left, tainted |-> left > 0]
          BY <3>4, <4>2
        <5> HIDE DEF left
        <5>3. CASE S.lots[i].chain # c
          BY <5>2, <5>3
        <5>4. CASE S.lots[i].chain = c
          <6>1. less[i] = [chain |-> c, amount |-> left, tainted |-> left > 0]
            BY <5>2, <5>4
          <6> DEFINE remains == left > 0
          <6>2. less[i].chain = c /\ less[i].amount = left /\ less[i].tainted = remains
            <7> HIDE DEF remains
            <7> QED BY <6>1 DEF remains
          <6>3. remains \/ left = 0
            BY <5>1
          <6> HIDE DEF remains
          <6> QED BY <5>4, <6>2, <6>3
        <5> QED BY <5>3, <5>4
      <4> QED BY <1>3, <3>2, <3>3, <4>1, <4>3 DEF Keeps, Obscured
    <3>10. /\ SuspenseTotal(T.lots) <= SuspenseTotal(S.lots)
           /\ SuspenseTotal(T.lots) - SuspenseTotal(S.lots)
                = Greater(delta, -ChainSuspense(S.lots, c))
      <4>1. ChainSuspense(S.lots, "eth") \in Nat /\ ChainSuspense(S.lots, "sol") \in Nat
        BY <1>3
      <4>2. ChainSuspense(less, c) - ChainSuspense(S.lots, c)
              = Greater(delta, -ChainSuspense(S.lots, c))
        <5> HIDE DEF delta
        <5> QED BY <2>2, <2>8, <3>6, <3>7 DEF Greater
      <4>3. ChainSuspense(less, c) <= ChainSuspense(S.lots, c) /\ ChainSuspense(less, c) \in Nat
        <5> HIDE DEF delta
        <5> QED BY <2>2, <2>8, <3>6, <3>7 DEF Greater
      <4> HIDE DEF delta
      <4>4. CASE c = "eth"
        <5>1. ChainSuspense(T.lots, "sol") = ChainSuspense(S.lots, "sol")
          BY <3>2, <3>5, <4>4
        <5> QED BY <1>4, <3>2, <4>1, <4>2, <4>3, <4>4, <5>1
      <4>5. CASE c = "sol"
        <5>1. ChainSuspense(T.lots, "eth") = ChainSuspense(S.lots, "eth")
          BY <3>2, <3>5, <4>5
        <5> QED BY <1>4, <3>2, <4>1, <4>2, <4>3, <4>5, <5>1
      <4> QED BY <4>4, <4>5 DEF Chains
    <3>11. Worth(T) = Worth(S) + Rise(S, c, h) /\ SuspenseTotal(T.lots) \in Nat
      <4>1. SuspenseTotal(T.lots) \in Nat
        BY <1>2, SuspenseNat
      <4>2. T.auto = S.auto /\ T.manual = S.manual /\ T.reserved = S.reserved
        BY <3>2
      <4>3. SuspenseTotal(T.lots) - SuspenseTotal(S.lots) = Rise(S, c, h)
        BY <3>3, <3>10
      <4> HIDE DEF delta
      <4> QED BY <1>2, <1>3, <4>1, <4>2, <4>3 DEF Worth
    <3> QED BY <1>3, <2>6, <3>2, <3>3, <3>8, <3>9, <3>10, <3>11
  <2>9. CASE S.base[c] /\ ~(delta < 0)
    <3>1. T = [seen EXCEPT !.reserved = held, !.lots = more]
      BY <2>3, <2>9
    <3> HIDE DEF more, held
    <3>2. Rest(T) /\ T.lots = more /\ T.reserved = held
      <4> HIDE DEF seen
      <4> QED BY <1>1, <2>5, <3>1 DEF DB, seen
    <3> HIDE DEF seen
    <3>3. delta \in Nat /\ ~FallsBy(S, c, h) /\ Follows(S, c, h) /\ Added(S, c, h) = delta
      BY <1>6, <2>2, <2>9 DEF Follows, FallsBy, Added, Greater
    <3>4. ChainSuspense(S.lots, c) \in Nat
      BY <1>3
    <3>5. Rise(S, c, h) = delta
      BY <3>3, <3>4 DEF Rise, Greater
    <3>6. used \in Nat /\ used <= delta /\ used <= S.reserved
      <4> HIDE DEF delta
      <4> QED BY <1>2, <3>3, LessNat
    <3> DEFINE amount == delta - used
    <3>7. amount \in Nat /\ held = S.reserved - used
      BY <3>3, <3>6 DEF held
    <3> HIDE DEF used, amount
    <3>8. \A d : ChainSuspense(more, d) = ChainSuspense(S.lots, d) + (IF d = c THEN amount ELSE 0)
      BY <1>2, <3>7, AddedSuspense DEF more, amount
    <3>9. /\ amount <= delta /\ amount + used = delta
      BY <3>3, <3>6 DEF amount
    <3>10. Suspends(S, T, c, h)
      <4>1. ChainSuspense(T.lots, c) = ChainSuspense(S.lots, c) + amount
        BY <3>2, <3>8
      <4>2. Greater(0, ChainSuspense(S.lots, c) + Added(S, c, h)) = ChainSuspense(S.lots, c) + delta
        <5> HIDE DEF delta
        <5> QED BY <3>3, <3>4 DEF Greater
      <4>3. ChainSuspense(T.lots, c) <= ChainSuspense(S.lots, c) + delta
        <5> HIDE DEF delta
        <5> QED BY <3>3, <3>4, <3>7, <3>9, <4>1
      <4>4. \A d \in Chains : d # c => ChainSuspense(T.lots, d) = ChainSuspense(S.lots, d)
        BY <1>3, <3>2, <3>8
      <4> QED BY <3>3, <4>2, <4>3, <4>4 DEF Suspends
    <3>11. Keeps(S, T, c, h)
      <4>1. CASE amount = 0
        <5>1. more = S.lots
          BY <4>1 DEF more, amount, AddSuspense
        <5> QED BY <1>3, <3>2, <3>3, <5>1 DEF Keeps
      <4>2. CASE amount # 0
        <5> DEFINE lot == [chain |-> c, amount |-> amount, tainted |-> FALSE]
        <5>1. more = Append(S.lots, lot)
          BY <4>2 DEF more, amount, AddSuspense
        <5>2. lot \in Lot /\ lot.chain = c
          BY <3>7 DEF Lot
        <5> HIDE DEF lot
        <5>3. Len(more) = Len(S.lots) + 1 /\ more[Len(S.lots) + 1] = lot
              /\ \A i \in 1..Len(S.lots) : more[i] = S.lots[i]
          BY <1>2, <5>1, <5>2, AppendProperties
        <5> QED BY <1>3, <3>2, <3>3, <5>2, <5>3 DEF Keeps
      <4> QED BY <4>1, <4>2
    <3>12. SuspenseTotal(T.lots) = SuspenseTotal(S.lots) + amount
      <4>1. ChainSuspense(S.lots, "eth") \in Nat /\ ChainSuspense(S.lots, "sol") \in Nat
        BY <1>3
      <4>2. CASE c = "eth"
        BY <1>4, <3>2, <3>7, <3>8, <4>1, <4>2
      <4>3. CASE c = "sol"
        BY <1>4, <3>2, <3>7, <3>8, <4>1, <4>3
      <4> QED BY <4>2, <4>3 DEF Chains
    <3>13. /\ Worth(T) = Worth(S) + Rise(S, c, h)
           /\ SuspenseTotal(T.lots) <= SuspenseTotal(S.lots) + Added(S, c, h)
      <4>1. T.auto = S.auto /\ T.manual = S.manual /\ T.reserved = S.reserved - used
        BY <3>2, <3>7
      <4>2. /\ SuspenseTotal(S.lots) \in Nat
            /\ S.auto \in Nat /\ S.manual \in Nat /\ S.reserved \in Nat
        BY <1>2, <1>3
      <4>3. Worth(T) = Worth(S) + amount + used
        <5>1. /\ Worth(T) = T.auto + T.manual + SuspenseTotal(T.lots) - T.reserved
              /\ Worth(S) = S.auto + S.manual + SuspenseTotal(S.lots) - S.reserved
          BY DEF Worth
        <5>2. used \in Nat /\ amount \in Nat
          BY <3>6, <3>7
        <5> HIDE DEF delta
        <5> QED BY <3>12, <4>1, <4>2, <5>1, <5>2
      <4>4. Worth(S) \in Int
        BY <4>2 DEF Worth
      <4> HIDE DEF delta
      <4> QED BY <3>3, <3>5, <3>6, <3>7, <3>9, <3>12, <4>2, <4>3, <4>4
    <3> QED BY <2>6, <3>2, <3>10, <3>11, <3>13
  <2> QED BY <2>7, <2>8, <2>9
<1> QED BY <1>5, <1>6

(* A read of one chain does not change what a read of the other will do.   *)
LEMMA ReadsApart ==
  ASSUME NEW S, NEW T, NEW c \in Chains, NEW h, Reads(S, T, c, h), Suspends(S, T, c, h),
         NEW d \in Chains, d # c, NEW k
  PROVE  /\ IsFresh(T, d, k) = IsFresh(S, d, k) /\ Follows(T, d, k) = Follows(S, d, k)
         /\ Delta(T, d, k) = Delta(S, d, k) /\ FallsBy(T, d, k) = FallsBy(S, d, k)
         /\ Rise(T, d, k) = Rise(S, d, k) /\ Added(T, d, k) = Added(S, d, k)
<1>1. T.height[d] = S.height[d] /\ T.balance[d] = S.balance[d] /\ T.base[d] = S.base[d]
  BY DEF Reads
<1>2. ChainSuspense(T.lots, d) = ChainSuspense(S.lots, d)
  BY DEF Suspends
<1>3. IsFresh(T, d, k) = IsFresh(S, d, k) /\ Delta(T, d, k) = Delta(S, d, k)
  BY <1>1 DEF IsFresh, Delta
<1>4. Follows(T, d, k) = Follows(S, d, k)
  BY <1>1, <1>3 DEF Follows
<1>5. Rise(T, d, k) = Rise(S, d, k) /\ Added(T, d, k) = Added(S, d, k)
  BY <1>2, <1>3, <1>4 DEF Rise, Added
<1>6. FallsBy(T, d, k) = FallsBy(S, d, k)
  BY <1>3, <1>4 DEF FallsBy
<1> QED BY <1>3, <1>4, <1>5, <1>6

(* Suspense on a chain is money that the last read found there, and there  *)
(* is none before the first.                                               *)
Backed(S) ==
  \A c \in Chains : /\ ChainSuspense(S.lots, c) <= S.balance[c]
                    /\ ~S.base[c] => S.balance[c] = 0

(* A read keeps suspense within the balance it read.                       *)
LEMMA ReadBacked ==
  ASSUME NEW S \in DB, NEW T \in DB, ChainType, NEW c \in Chains,
         NEW h \in 0..Len(chain[c].balances),
         Reads(S, T, c, h), Suspends(S, T, c, h), Backed(S)
  PROVE  Backed(T)
<1>1. /\ S.balance[c] \in Nat /\ T.balance[c] \in Nat
      /\ ChainSuspense(S.lots, c) \in Nat /\ ChainSuspense(T.lots, c) \in Nat
  BY SuspenseNat DEF DB
<1>2. ASSUME NEW d \in Chains, d # c
      PROVE  ChainSuspense(T.lots, d) <= T.balance[d] /\ (~T.base[d] => T.balance[d] = 0)
  BY <1>2 DEF Backed, Reads, Suspends
<1>3. ChainSuspense(S.lots, c) <= S.balance[c] /\ (~S.base[c] => S.balance[c] = 0)
  BY DEF Backed
<1>4. CASE ~IsFresh(S, c, h)
  <2>1. T.balance[c] = S.balance[c] /\ T.base[c] = S.base[c] /\ Added(S, c, h) = 0
    BY <1>4 DEF Reads, Added, Follows, DB
  <2>2. ChainSuspense(T.lots, c) <= ChainSuspense(S.lots, c)
    BY <1>1, <2>1 DEF Suspends, Greater
  <2> QED BY <1>1, <1>2, <1>3, <2>1, <2>2 DEF Backed
<1>5. CASE IsFresh(S, c, h)
  <2>1. T.base[c] /\ T.balance[c] = chain[c].balances[h] /\ chain[c].balances[h] \in Nat
    <3>1. h > 0
      BY <1>5 DEF IsFresh
    <3> QED BY <1>5, <3>1, BalanceAt DEF Reads
  <2>2. Delta(S, c, h) = T.balance[c] - S.balance[c]
    BY <2>1 DEF Delta
  <2>3. ChainSuspense(T.lots, c) <= T.balance[c]
    <3>1. CASE ~S.base[c]
      <4>1. Added(S, c, h) = 0 /\ ChainSuspense(S.lots, c) = 0
        BY <1>1, <1>3, <3>1 DEF Added, Follows
      <4> QED BY <1>1, <4>1 DEF Suspends, Greater
    <3>2. CASE S.base[c] /\ T.balance[c] < S.balance[c]
      <4>1. FallsBy(S, c, h)
        BY <1>1, <1>5, <2>2, <3>2 DEF FallsBy, Follows
      <4>2. ChainSuspense(T.lots, c) = Greater(0, ChainSuspense(S.lots, c) + Delta(S, c, h))
        BY <4>1 DEF Suspends
      <4> QED BY <1>1, <1>3, <2>2, <4>2 DEF Greater
    <3>3. CASE S.base[c] /\ ~(T.balance[c] < S.balance[c])
      <4>1. Added(S, c, h) = T.balance[c] - S.balance[c]
        BY <1>1, <1>5, <2>2, <3>3 DEF Added, Follows, Greater
      <4>2. ChainSuspense(T.lots, c) <= Greater(0, ChainSuspense(S.lots, c) + Added(S, c, h))
        BY DEF Suspends
      <4> QED BY <1>1, <1>3, <3>3, <4>1, <4>2 DEF Greater
    <3> QED BY <3>1, <3>2, <3>3
  <2> QED BY <1>2, <2>1, <2>3 DEF Backed
<1> QED BY <1>4, <1>5

(* Matching a chain, when its read was fresh.                              *)
LEMMA MatchFreshSettles ==
  ASSUME NEW S, Sane(S), NEW c, NEW fresh
  PROVE  Settles(S, MatchFresh(S, c, fresh)) /\ FromLots(S, MatchFresh(S, c, fresh))
<1>1. S \in DB
  BY DEF Sane
<1>2. Settles(S, S) /\ FromLots(S, S)
  BY <1>1, SettlesSame DEF FromLots
<1> QED BY <1>2, MatchChainSettles DEF MatchFresh

(* Suspense never grows by less than nothing.                              *)
LEMMA AddedNat ==
  ASSUME NEW S \in DB, ChainType, NEW c \in Chains, NEW h \in 0..Len(chain[c].balances)
  PROVE  Added(S, c, h) \in Nat
<1>1. CASE Follows(S, c, h)
  <2>1. h > 0
    BY <1>1 DEF Follows, IsFresh
  <2>2. chain[c].balances[h] \in Nat /\ S.balance[c] \in Nat
    BY <2>1, BalanceAt DEF DB
  <2>3. Delta(S, c, h) \in Int
    BY <2>2 DEF Delta
  <2> QED BY <1>1, <2>3 DEF Added, Greater
<1>2. CASE ~Follows(S, c, h)
  BY <1>2 DEF Added
<1> QED BY <1>1, <1>2

(* The transaction that applies two reads: first both balances, ...        *)
LEMMA BothReads ==
  ASSUME NEW S, Sane(S), Backed(S), ChainType, NEW at, ReadAt(at),
         NEW E, E = ObserveBalance(S, "eth", at["eth"]),
         NEW B, B = ObserveBalance(E, "sol", at["sol"])
  PROVE  /\ Sane(E) /\ Sane(B) /\ Backed(B)
         /\ B.invoice = S.invoice /\ B.price = S.price
         /\ B.auto = S.auto /\ B.manual = S.manual
         /\ Worth(B) = Worth(S) + Rise(S, "eth", at["eth"]) + Rise(S, "sol", at["sol"])
         /\ SuspenseTotal(B.lots)
              <= SuspenseTotal(S.lots) + Added(S, "eth", at["eth"]) + Added(S, "sol", at["sol"])
         /\ Len(B.lots) >= Len(S.lots)
         /\ \A i \in 1..Len(S.lots) :
              /\ B.lots[i].chain = S.lots[i].chain
              /\ S.lots[i].tainted /\ ~FallsBy(S, S.lots[i].chain, at[S.lots[i].chain])
                   => B.lots[i] = S.lots[i]
         /\ \A c \in Chains :
              /\ B.height[c]  = IF IsFresh(S, c, at[c]) THEN at[c] ELSE S.height[c]
              /\ B.balance[c] = IF IsFresh(S, c, at[c]) THEN chain[c].balances[at[c]]
                                                        ELSE S.balance[c]
              /\ B.base[c] = (S.base[c] \/ IsFresh(S, c, at[c]))
              /\ FallsBy(S, c, at[c]) => Obscured(B, c)
<1> DEFINE he == at["eth"]
           hs == at["sol"]
<1>1. "eth" \in Chains /\ "sol" \in Chains /\ Chains = {"eth", "sol"} /\ "sol" # "eth"
  BY DEF Chains
<1>2. he \in 0..Len(chain["eth"].balances) /\ hs \in 0..Len(chain["sol"].balances)
  BY <1>1 DEF ReadAt
<1>3. Sane(E) /\ Sane(B) /\ S \in DB /\ E \in DB /\ B \in DB
  <2>1. Sane(E)
    BY <1>1, <1>2, ObserveBalanceSane
  <2>2. Sane(B)
    BY <1>1, <1>2, <2>1, ObserveBalanceSane
  <2> QED BY <2>1, <2>2 DEF Sane
<1>4. /\ Reads(S, E, "eth", he) /\ Suspends(S, E, "eth", he) /\ Keeps(S, E, "eth", he)
      /\ E.invoice = S.invoice /\ E.price = S.price
      /\ E.auto = S.auto /\ E.manual = S.manual
      /\ Worth(E) = Worth(S) + Rise(S, "eth", he)
      /\ SuspenseTotal(E.lots) <= SuspenseTotal(S.lots) + Added(S, "eth", he)
  BY <1>1, <1>2, ObserveReads
<1>5. /\ Reads(E, B, "sol", hs) /\ Suspends(E, B, "sol", hs) /\ Keeps(E, B, "sol", hs)
      /\ B.invoice = E.invoice /\ B.price = E.price
      /\ B.auto = E.auto /\ B.manual = E.manual
      /\ Worth(B) = Worth(E) + Rise(E, "sol", hs)
      /\ SuspenseTotal(B.lots) <= SuspenseTotal(E.lots) + Added(E, "sol", hs)
  BY <1>1, <1>2, <1>3, ObserveReads
<1>6. /\ IsFresh(E, "sol", hs) = IsFresh(S, "sol", hs)
      /\ FallsBy(E, "sol", hs) = FallsBy(S, "sol", hs)
      /\ Rise(E, "sol", hs) = Rise(S, "sol", hs) /\ Added(E, "sol", hs) = Added(S, "sol", hs)
  BY <1>1, <1>4, ReadsApart
<1>7. Backed(B)
  <2>1. Backed(E)
    BY <1>1, <1>2, <1>3, <1>4, ReadBacked
  <2> QED BY <1>1, <1>2, <1>3, <1>5, <2>1, ReadBacked
<1>8. ASSUME NEW c \in Chains
      PROVE  /\ B.height[c]  = IF IsFresh(S, c, at[c]) THEN at[c] ELSE S.height[c]
             /\ B.balance[c] = IF IsFresh(S, c, at[c]) THEN chain[c].balances[at[c]]
                                                       ELSE S.balance[c]
             /\ B.base[c] = (S.base[c] \/ IsFresh(S, c, at[c]))
  <2>1. CASE c = "eth"
    BY <1>1, <1>4, <1>5, <2>1 DEF Reads
  <2>2. CASE c = "sol"
    BY <1>1, <1>4, <1>5, <1>6, <2>2 DEF Reads
  <2> QED BY <1>1, <2>1, <2>2
<1>9. S.lots \in Seq(Lot) /\ E.lots \in Seq(Lot) /\ B.lots \in Seq(Lot)
      /\ Len(S.lots) \in Nat /\ Len(E.lots) \in Nat /\ Len(B.lots) \in Nat
  BY <1>3 DEF DB
<1>10. ASSUME NEW c \in Chains, FallsBy(S, c, at[c]) PROVE Obscured(B, c)
  <2>1. CASE c = "eth"
    <3>1. Obscured(E, "eth")
      BY <1>4, <1>10, <2>1 DEF Keeps
    <3>2. ASSUME NEW i \in 1..Len(B.lots), B.lots[i].chain = "eth"
          PROVE  B.lots[i].tainted \/ B.lots[i].amount = 0
      <4>1. i \in 1..Len(E.lots)
        BY <1>1, <1>5, <1>9, <3>2 DEF Keeps
      <4>2. B.lots[i] = E.lots[i]
        BY <1>1, <1>5, <3>2, <4>1 DEF Keeps
      <4> QED BY <3>1, <3>2, <4>1, <4>2 DEF Obscured
    <3> QED BY <2>1, <3>2 DEF Obscured
  <2>2. CASE c = "sol"
    BY <1>5, <1>6, <1>10, <2>2 DEF Keeps
  <2> QED BY <1>1, <2>1, <2>2
<1>11. ASSUME NEW i \in 1..Len(S.lots)
       PROVE  /\ B.lots[i].chain = S.lots[i].chain
              /\ ~FallsBy(S, S.lots[i].chain, at[S.lots[i].chain]) => B.lots[i] = S.lots[i]
  <2>1. i \in 1..Len(E.lots)
    BY <1>4, <1>9 DEF Keeps
  <2>2. B.lots[i].chain = E.lots[i].chain /\ E.lots[i].chain = S.lots[i].chain
    BY <1>4, <1>5, <2>1 DEF Keeps
  <2>3. S.lots[i].chain \in Chains
    <3>1. S.lots[i] \in Lot
      BY <1>9
    <3> QED BY <3>1 DEF Lot
  <2>4. CASE S.lots[i].chain = "eth"
    BY <1>1, <1>4, <1>5, <2>1, <2>2, <2>4 DEF Keeps
  <2>5. CASE S.lots[i].chain = "sol"
    BY <1>1, <1>4, <1>5, <1>6, <2>1, <2>2, <2>5 DEF Keeps
  <2> QED BY <1>1, <2>2, <2>3, <2>4, <2>5
<1>12. /\ Worth(B) = Worth(S) + Rise(S, "eth", he) + Rise(S, "sol", hs)
       /\ SuspenseTotal(B.lots)
            <= SuspenseTotal(S.lots) + Added(S, "eth", he) + Added(S, "sol", hs)
  <2>1. /\ SuspenseTotal(S.lots) \in Nat /\ SuspenseTotal(E.lots) \in Nat
        /\ SuspenseTotal(B.lots) \in Nat
    BY <1>9, SuspenseNat
  <2>2. Added(S, "eth", he) \in Nat /\ Added(S, "sol", hs) \in Nat
    BY <1>1, <1>2, <1>3, AddedNat
  <2> HIDE DEF he, hs
  <2> QED BY <1>4, <1>5, <1>6, <2>1, <2>2
<1>13. Len(B.lots) >= Len(S.lots)
  BY <1>4, <1>5, <1>9 DEF Keeps
<1> QED BY <1>3, <1>4, <1>5, <1>7, <1>8, <1>10, <1>11, <1>12, <1>13

(* ... then the lots of the chains with a fresh read.                      *)
LEMMA ApplyReads ==
  ASSUME NEW S, Sane(S), Backed(S), ChainType, NEW at, ReadAt(at),
         NEW T, T = ApplyBalanceReads(S, at)
  PROVE  /\ T.price = S.price /\ PaysOpen(S, T) /\ Backed(T)
         /\ Worth(T) = Worth(S) + Rise(S, "eth", at["eth"]) + Rise(S, "sol", at["sol"])
         /\ T.auto + SuspenseTotal(T.lots)
              <= S.auto + SuspenseTotal(S.lots)
                   + Added(S, "eth", at["eth"]) + Added(S, "sol", at["sol"])
         /\ \A i \in 1..Len(S.lots) :
              S.lots[i].tainted /\ ~FallsBy(S, S.lots[i].chain, at[S.lots[i].chain])
                => T.lots[i] = S.lots[i]
         /\ (\A c \in Chains : IsFresh(S, c, at[c]) => FallsBy(S, c, at[c])) => T.auto = S.auto
         /\ \A c \in Chains :
              /\ T.height[c]  = IF IsFresh(S, c, at[c]) THEN at[c] ELSE S.height[c]
              /\ T.balance[c] = IF IsFresh(S, c, at[c]) THEN chain[c].balances[at[c]]
                                                        ELSE S.balance[c]
              /\ T.base[c] = (S.base[c] \/ IsFresh(S, c, at[c]))
<1> DEFINE E == ObserveBalance(S, "eth", at["eth"])
           B == ObserveBalance(E, "sol", at["sol"])
           feth == IsFresh(S, "eth", at["eth"])
           fsol == IsFresh(S, "sol", at["sol"])
           M == MatchFresh(B, "eth", feth)
<1>1. T = MatchFresh(M, "sol", fsol)
  BY DEF ApplyBalanceReads
<1>2. /\ Sane(B) /\ Backed(B)
      /\ B.invoice = S.invoice /\ B.price = S.price
      /\ B.auto = S.auto /\ B.manual = S.manual
      /\ Worth(B) = Worth(S) + Rise(S, "eth", at["eth"]) + Rise(S, "sol", at["sol"])
      /\ SuspenseTotal(B.lots)
           <= SuspenseTotal(S.lots) + Added(S, "eth", at["eth"]) + Added(S, "sol", at["sol"])
      /\ Len(B.lots) >= Len(S.lots)
      /\ \A i \in 1..Len(S.lots) :
           /\ B.lots[i].chain = S.lots[i].chain
           /\ S.lots[i].tainted /\ ~FallsBy(S, S.lots[i].chain, at[S.lots[i].chain])
                => B.lots[i] = S.lots[i]
      /\ \A c \in Chains :
           /\ B.height[c]  = IF IsFresh(S, c, at[c]) THEN at[c] ELSE S.height[c]
           /\ B.balance[c] = IF IsFresh(S, c, at[c]) THEN chain[c].balances[at[c]]
                                                     ELSE S.balance[c]
           /\ B.base[c] = (S.base[c] \/ IsFresh(S, c, at[c]))
           /\ FallsBy(S, c, at[c]) => Obscured(B, c)
  BY BothReads
<1> HIDE DEF E, B
<1>3. Sane(M) /\ Settles(B, M) /\ FromLots(B, M)
  BY <1>2, MatchFreshSane, MatchFreshSettles
<1>4. Sane(T) /\ Settles(M, T) /\ FromLots(M, T)
  <2> HIDE DEF M
  <2> QED BY <1>1, <1>3, MatchFreshSane, MatchFreshSettles
<1>5. S \in DB /\ B \in DB /\ M \in DB /\ T \in DB
  BY <1>2, <1>3, <1>4 DEF Sane
<1>6. /\ S.lots \in Seq(Lot) /\ B.lots \in Seq(Lot) /\ T.lots \in Seq(Lot)
      /\ Len(S.lots) \in Nat /\ Len(B.lots) \in Nat
      /\ S.auto \in Nat /\ T.auto \in Nat /\ S.manual \in Nat /\ B.reserved \in Nat
  BY <1>5 DEF DB
<1>7. ASSUME \A c \in Chains : IsFresh(S, c, at[c]) => FallsBy(S, c, at[c])
      PROVE  T.auto = S.auto
  <2>1. feth => Obscured(B, "eth")
    BY <1>2, <1>7 DEF Chains
  <2>2. M = B
    BY <1>5, <2>1, ObscuredNeverPays DEF MatchFresh
  <2>3. fsol => Obscured(B, "sol")
    BY <1>2, <1>7 DEF Chains
  <2>4. T = B
    BY <1>1, <1>5, <2>2, <2>3, ObscuredNeverPays DEF MatchFresh
  <2> QED BY <1>2, <2>4
<1> HIDE DEF M, feth, fsol
<1>8. Settles(B, T)
  BY <1>3, <1>4, <1>5, SettlesTwice
<1>9. /\ T.manual = B.manual /\ T.reserved = B.reserved
      /\ \A i \in 1..Len(B.lots) : B.lots[i].tainted => T.lots[i] = B.lots[i]
  BY <1>3, <1>4 DEF FromLots
<1>10. T.price = S.price /\ PaysOpen(S, T)
  BY <1>2, <1>8 DEF Settles, PaysOpen
<1>11. Backed(T)
  <2>1. ASSUME NEW c \in Chains
        PROVE  ChainSuspense(T.lots, c) <= T.balance[c] /\ (~T.base[c] => T.balance[c] = 0)
    <3>1. /\ ChainSuspense(T.lots, c) <= ChainSuspense(B.lots, c)
          /\ T.balance = B.balance /\ T.base = B.base
      BY <1>8 DEF Settles, Lessens, SameReads
    <3>2. ChainSuspense(B.lots, c) <= B.balance[c] /\ (~B.base[c] => B.balance[c] = 0)
      BY <1>2 DEF Backed
    <3>3. ChainSuspense(T.lots, c) \in Nat /\ ChainSuspense(B.lots, c) \in Nat
          /\ B.balance[c] \in Nat
      BY <1>5, <1>6, SuspenseNat DEF DB
    <3> QED BY <3>1, <3>2, <3>3
  <2> QED BY <2>1 DEF Backed
<1>12. Worth(T) = Worth(B)
  BY <1>8 DEF Settles
<1>13. T.auto + SuspenseTotal(T.lots) = S.auto + SuspenseTotal(B.lots)
  <2> DEFINE before == SuspenseTotal(B.lots)
             after  == SuspenseTotal(T.lots)
             paid   == T.auto
  <2>1. before \in Nat /\ after \in Nat /\ paid \in Nat /\ S.auto \in Nat
        /\ S.manual \in Nat /\ B.reserved \in Nat
    BY <1>6, SuspenseNat
  <2>2. paid + S.manual + after - B.reserved = S.auto + S.manual + before - B.reserved
    BY <1>2, <1>9, <1>12 DEF Worth
  <2> HIDE DEF before, after, paid
  <2>3. paid + after = S.auto + before
    BY <2>1, <2>2
  <2> QED BY <2>3 DEF before, after, paid
<1>14. T.auto + SuspenseTotal(T.lots)
         <= S.auto + SuspenseTotal(S.lots)
              + Added(S, "eth", at["eth"]) + Added(S, "sol", at["sol"])
  <2>1. SuspenseTotal(B.lots) \in Nat /\ SuspenseTotal(S.lots) \in Nat
    BY <1>6, SuspenseNat
  <2>2. ASSUME NEW c \in Chains PROVE Added(S, c, at[c]) \in Nat
    BY <1>5, AddedNat DEF ReadAt
  <2>3. Added(S, "eth", at["eth"]) \in Nat /\ Added(S, "sol", at["sol"]) \in Nat
    BY <2>2 DEF Chains
  <2> QED BY <1>2, <1>6, <1>13, <2>1, <2>3
<1>15. ASSUME NEW i \in 1..Len(S.lots),
              S.lots[i].tainted, ~FallsBy(S, S.lots[i].chain, at[S.lots[i].chain])
       PROVE  T.lots[i] = S.lots[i]
  <2>1. B.lots[i] = S.lots[i]
    BY <1>2, <1>15
  <2>2. i \in 1..Len(B.lots)
    BY <1>2, <1>6
  <2> QED BY <1>9, <1>15, <2>1, <2>2
<1>16. T.height = B.height /\ T.balance = B.balance /\ T.base = B.base
  BY <1>8 DEF Settles, SameReads
<1> QED BY <1>2, <1>7, <1>10, <1>11, <1>12, <1>14, <1>15, <1>16

-----------------------------------------------------------------------------
(* The steps of the watch, by what they do to the database.                *)

(* A chain is only ever read where it has blocks.                          *)
Reading(at) ==
  /\ ReadAt(at)
  /\ db' = ApplyBalanceReads(db, at)
  /\ recognised' = recognised + Rise(db, "eth", at["eth"]) + Rise(db, "sol", at["sol"])

(* A settlement, by hand or of what a worker has listed.                   *)
Settling ==
  /\ Settles(db, db')
  /\ \/ /\ db'.auto = db.auto
        /\ SuspenseTotal(db'.lots) <= SuspenseTotal(db.lots)
     \/ \E w \in Workers : phase[w] = "logs"

(* What a step may do to the database.                                     *)
StepKind ==
  \/ UNCHANGED <<db, recognised>>
  \/ /\ UNCHANGED <<chain, recognised>>
     /\ \E j \in Jobs : db.invoice[j].status \in {"none", "void"} /\ db' = Issue(db, j)
  \/ /\ UNCHANGED <<chain, recognised>>
     /\ \E j \in Open(db) : db' = Void(db, j)
  \/ UNCHANGED <<chain, recognised>> /\ Settling
  \/ UNCHANGED chain /\ \E at : Reading(at)

(* Every step is of one of those kinds.                                    *)
LEMMA StepKinds == ASSUME IInv, [Next]_vars PROVE StepKind
<1> USE DEF chainVars, workerVars
<1>1. TypeOK /\ Sane(db) /\ ReadsExist /\ db \in DB
  BY DEF IInv, Sane
<1>2. ASSUME NEW c \in LiveChains, ClientPays(c) PROVE StepKind
  BY <1>2 DEF ClientPays, Mine, StepKind
<1>3. ASSUME NEW c \in LiveChains, OwnerWithdraws(c) PROVE StepKind
  BY <1>3 DEF OwnerWithdraws, StepKind
<1>4. ASSUME ClientPaysTwice PROVE StepKind
  BY <1>4 DEF ClientPaysTwice, Mine, StepKind
<1>5. ASSUME NEW j \in Jobs, IssueInvoice(j) PROVE StepKind
  <2>1. CASE db.invoice[j].status \in {"open", "paid"}
    <3>1. db' = db
      BY <1>5, <2>1 DEF IssueInvoice, Issue
    <3> QED BY <1>5, <3>1 DEF IssueInvoice, StepKind
  <2>2. CASE db.invoice[j].status \in {"none", "void"}
    BY <1>5, <2>2 DEF IssueInvoice, StepKind
  <2>3. db.invoice[j].status \in {"none", "open", "paid", "void"}
    BY <1>1 DEF DB, Invoice
  <2> QED BY <2>1, <2>2, <2>3
<1>6. ASSUME NEW j \in Jobs, VoidAged(j) PROVE StepKind
  BY <1>6 DEF VoidAged, StepKind
<1>7. ASSUME NEW j \in Jobs, CollectManual(j) PROVE StepKind
  <2>1. /\ Settles(db, db') /\ db'.auto = db.auto
        /\ SuspenseTotal(db'.lots) <= SuspenseTotal(db.lots)
    BY <1>1, <1>7, ManualSettles DEF CollectManual
  <2> QED BY <1>7, <2>1 DEF CollectManual, StepKind, Settling
<1>8. ASSUME NEW w \in Workers, FetchLogs(w) PROVE StepKind
  BY <1>8 DEF FetchLogs, StepKind
<1>9. ASSUME NEW w \in Workers, SettleLogs(w) PROVE StepKind
  <2>1. listed[w] \in Seq(Transfer)
    BY <1>1 DEF TypeOK
  <2>2. Settles(db, db')
    BY <1>1, <1>9, <2>1, SettleTransfersSettle DEF SettleLogs
  <2> QED BY <1>9, <2>2 DEF SettleLogs, StepKind, Settling
<1>10. ASSUME NEW w \in Workers, FetchBalances(w) PROVE StepKind
  BY <1>10 DEF FetchBalances, StepKind
<1>11. ASSUME NEW w \in Workers, ApplyBalances(w) PROVE StepKind
  <2>1. \A c, h : Recognised(c, h) = Rise(db, c, h)
    BY DEF Recognised, Rise, Follows
  <2>2. Reading(readAt[w])
    BY <1>1, <1>11, <2>1 DEF ApplyBalances, Reading, ReadsExist
  <2> QED BY <1>11, <2>2 DEF ApplyBalances, StepKind
<1>12. ASSUME NEW w \in Workers, LoseWorker(w) PROVE StepKind
  BY <1>12 DEF LoseWorker, StepKind
<1>13. CASE UNCHANGED vars
  BY <1>13 DEF vars, StepKind
<1> QED BY <1>2, <1>3, <1>4, <1>5, <1>6, <1>7, <1>8, <1>9, <1>10, <1>11, <1>12, <1>13
        DEF Next, Watch

-----------------------------------------------------------------------------
(* The inductive invariant.                                                *)

(* All that the reads recognised is attributed or waits.                   *)
Accounted(S) == Worth(S) = recognised
(* No job is free.                                                         *)
Priced(S)    == \A j \in Jobs : S.price[j] > 0

(* The inductive invariant of the funds.                                   *)
FundsInv == IInv /\ Accounted(db) /\ Backed(db) /\ Priced(db)

(* It holds of an empty database.                                          *)
LEMMA InitFunds == Init => FundsInv
<1> SUFFICES ASSUME Init PROVE FundsInv
  OBVIOUS
<1>1. IInv
  BY InitInv
<1>2. /\ db.lots = <<>> /\ db.auto = 0 /\ db.manual = 0 /\ db.reserved = 0
      /\ db.balance = [c \in Chains |-> 0] /\ db.price \in [Jobs -> Prices]
      /\ recognised = 0
  BY DEF Init
<1>3. SuspenseTotal(db.lots) = 0 /\ \A c : ChainSuspense(db.lots, c) = 0
  <2>1. Len(db.lots) = 0
    BY <1>2
  <2> QED BY <2>1, SumToZero DEF SuspenseTotal, ChainSuspense
<1>4. Accounted(db)
  BY <1>2, <1>3 DEF Accounted, Worth
<1>5. Backed(db)
  BY <1>2, <1>3 DEF Backed
<1>6. Priced(db)
  <2>1. \A j \in Jobs : db.price[j] \in Nat \ {0}
    BY <1>2, InvoicesAssumption
  <2> QED BY <2>1 DEF Priced
<1> QED BY <1>1, <1>4, <1>5, <1>6 DEF FundsInv

(* Every step keeps it.                                                    *)
LEMMA FundsStep == ASSUME FundsInv, [Next]_vars PROVE FundsInv'
<1>1. IInv /\ Sane(db) /\ db \in DB /\ ChainType /\ Accounted(db) /\ Backed(db) /\ Priced(db)
  BY DEF FundsInv, IInv, Sane, TypeOK, ChainType
<1>2. IInv' /\ db' \in DB
  <2>1. IInv'
    BY <1>1, NextInv
  <2> QED BY <2>1 DEF IInv, TypeOK
<1>3. SUFFICES Worth(db') = recognised' /\ Backed(db') /\ Priced(db')
  BY <1>2 DEF FundsInv, Accounted, Worth, SuspenseTotal, LotAmounts, Backed, ChainSuspense,
              ChainAmounts, Priced
<1>4. CASE UNCHANGED <<db, recognised>>
  BY <1>1, <1>4 DEF Accounted
<1>5. ASSUME NEW T, T = db', Unwatched(db, T), Priced(T), UNCHANGED recognised
      PROVE  Worth(T) = recognised' /\ Backed(T)
  BY <1>1, <1>5 DEF Unwatched, SameReads, Accounted, Worth, Backed
<1>6. ASSUME NEW j \in Jobs, db.invoice[j].status \in {"none", "void"}, db' = Issue(db, j), UNCHANGED recognised
      PROVE  Worth(db') = recognised' /\ Backed(db') /\ Priced(db')
  <2>1. Unwatched(db, db') /\ Priced(db')
    BY <1>1, <1>6, IssueBills DEF Priced
  <2> QED BY <1>5, <1>6, <2>1
<1>7. ASSUME NEW j \in Open(db), db' = Void(db, j), UNCHANGED recognised
      PROVE  Worth(db') = recognised' /\ Backed(db') /\ Priced(db')
  <2>1. Unwatched(db, db') /\ Priced(db')
    BY <1>1, <1>7, VoidWritesOff DEF Priced
  <2> QED BY <1>5, <1>7, <2>1
<1>8. ASSUME Settles(db, db'), UNCHANGED recognised
      PROVE  Worth(db') = recognised' /\ Backed(db') /\ Priced(db')
  <2>1. Worth(db') = recognised' /\ Priced(db')
    BY <1>1, <1>8 DEF Settles, Accounted, Priced
  <2>2. Backed(db')
    <3>1. \A c \in Chains : /\ ChainSuspense(db.lots, c) \in Nat
                            /\ ChainSuspense(db'.lots, c) \in Nat /\ db.balance[c] \in Nat
      BY <1>1, <1>2, SuspenseNat DEF DB
    <3> QED BY <1>1, <1>8, <3>1 DEF Settles, Lessens, SameReads, Backed
  <2> QED BY <2>1, <2>2
<1>9. ASSUME NEW at, Reading(at)
      PROVE  Worth(db') = recognised' /\ Backed(db') /\ Priced(db')
  <2>1. /\ db'.price = db.price /\ Backed(db')
        /\ Worth(db') = Worth(db) + Rise(db, "eth", at["eth"]) + Rise(db, "sol", at["sol"])
    BY <1>1, <1>9, ApplyReads DEF Reading
  <2> QED BY <1>1, <1>9, <2>1 DEF Reading, Accounted, Priced
<1> QED BY <1>1, <1>4, <1>6, <1>7, <1>8, <1>9, StepKinds DEF StepKind, Settling

(* The books of the watch, its suspense and what it read agree in every    *)
(* state of every behaviour.                                               *)
THEOREM FundsInvariant == Spec => []FundsInv
<1>1. FundsInv /\ [Next]_vars => FundsInv'
  BY FundsStep
<1> QED BY InitFunds, <1>1, PTL DEF Spec

(* Money that a balance read recognised is attributed to an invoice or     *)
(* waits in suspense: none is lost or counted twice between a rise and the *)
(* match that spends it (_observe_balance, _match_suspense,                *)
(* reconcile_manual_collection).                                           *)
THEOREM FundsAreConserved == Spec => []FundsConserved
<1>1. FundsInv => FundsConserved
  <2> SUFFICES ASSUME FundsInv PROVE FundsConserved
    OBVIOUS
  <2>1. db \in DB /\ Worth(db) = recognised
    BY DEF FundsInv, IInv, Sane, Accounted
  <2> DEFINE waits == SuspenseTotal(db.lots)
  <2>2. waits \in Nat /\ db.auto \in Nat /\ db.manual \in Nat /\ db.reserved \in Nat
    BY <2>1, SuspenseNat DEF DB
  <2>3. db.auto + db.manual + waits - db.reserved = recognised
    BY <2>1 DEF Worth
  <2> HIDE DEF waits
  <2>4. db.auto + db.manual + waits = recognised + db.reserved
    BY <2>2, <2>3
  <2> QED BY <2>4 DEF waits, FundsConserved
<1> QED BY FundsInvariant, <1>1, PTL

(* What waits in suspense on a chain is never more than the balance last   *)
(* read there, whatever the owner withdrew in the meantime.                *)
THEOREM SuspenseIsBacked == Spec => []SuspenseBacked
<1>1. FundsInv => SuspenseBacked
  BY DEF FundsInv, Backed, SuspenseBacked
<1> QED BY FundsInvariant, <1>1, PTL

(* A step that reads balances leaves the tainted lots of every chain that  *)
(* did not fall as they were, and pays nothing from the chain when every   *)
(* new balance fell: _match_suspense skips what _observe_balance tainted.  *)
THEOREM TaintedLotsNeverPay == Spec => TaintedNeverPays
<1> DEFINE Spared ==
             /\ \A i \in DOMAIN db.lots :
                  db.lots[i].tainted /\ ~Fell(db.lots[i].chain) => db'.lots[i] = db.lots[i]
             /\ (\A c \in Chains : Fell(c) \/ db'.height[c] = db.height[c])
                  => db'.auto = db.auto
<1>1. ASSUME FundsInv, [Next]_vars PROVE db'.height # db.height => Spared
  <2>1. Sane(db) /\ db \in DB /\ db' \in DB /\ ChainType /\ Backed(db) /\ Priced(db)
    <3>1. TypeOK'
      BY <1>1, NextInv DEF FundsInv, IInv
    <3> QED BY <1>1, <3>1 DEF FundsInv, IInv, Sane, TypeOK, ChainType
  <2>2. CASE db' = db
    BY <2>2
  <2>3. ASSUME NEW j \in Jobs, db.invoice[j].status \in {"none", "void"}, db' = Issue(db, j)
        PROVE  db'.height = db.height
    BY <2>1, <2>3, IssueBills DEF Priced, Unwatched, SameReads
  <2>4. ASSUME NEW j \in Open(db), db' = Void(db, j) PROVE db'.height = db.height
    BY <2>1, <2>4, VoidWritesOff DEF Unwatched, SameReads
  <2>5. ASSUME Settles(db, db') PROVE db'.height = db.height
    BY <2>5 DEF Settles, SameReads
  <2>6. ASSUME NEW at, Reading(at) PROVE Spared
    <3>1. /\ \A i \in 1..Len(db.lots) :
               db.lots[i].tainted /\ ~FallsBy(db, db.lots[i].chain, at[db.lots[i].chain])
                 => db'.lots[i] = db.lots[i]
          /\ (\A c \in Chains : IsFresh(db, c, at[c]) => FallsBy(db, c, at[c]))
               => db'.auto = db.auto
          /\ \A c \in Chains :
               /\ db'.height[c]  = IF IsFresh(db, c, at[c]) THEN at[c] ELSE db.height[c]
               /\ db'.balance[c] = IF IsFresh(db, c, at[c]) THEN chain[c].balances[at[c]]
                                                            ELSE db.balance[c]
      BY <2>1, <2>6, ApplyReads DEF Reading
    <3>2. ASSUME NEW c \in Chains
          PROVE  /\ Fell(c) <=> FallsBy(db, c, at[c])
                 /\ db'.height[c] = db.height[c] <=> ~IsFresh(db, c, at[c])
      <4>1. /\ db.height[c] \in Nat /\ db.balance[c] \in Nat /\ db'.balance[c] \in Nat
            /\ at[c] \in 0..Len(chain[c].balances)
        BY <2>1, <2>6 DEF DB, Reading, ReadAt
      <4>2. at[c] \in Nat
        BY <2>1, <4>1, BalanceAt
      <4>3. db'.height[c] = db.height[c] <=> ~IsFresh(db, c, at[c])
        BY <3>1, <4>1, <4>2 DEF IsFresh
      <4>4. CASE ~IsFresh(db, c, at[c])
        BY <4>3, <4>4 DEF Fell, FallsBy, Follows
      <4>5. CASE IsFresh(db, c, at[c])
        <5>1. db'.balance[c] = chain[c].balances[at[c]]
          BY <3>1, <4>5
        <5>2. Delta(db, c, at[c]) = db'.balance[c] - db.balance[c]
          BY <5>1 DEF Delta
        <5>3. ~db.base[c] => db.balance[c] = 0
          BY <2>1 DEF Backed
        <5>4. FallsBy(db, c, at[c]) <=> db'.balance[c] < db.balance[c]
          BY <4>1, <4>5, <5>2, <5>3 DEF FallsBy, Follows
        <5> QED BY <4>3, <4>5, <5>4 DEF Fell
      <4> QED BY <4>3, <4>4, <4>5
    <3>3. DOMAIN db.lots = 1..Len(db.lots) /\ \A i \in 1..Len(db.lots) : db.lots[i].chain \in Chains
      <4>1. db.lots \in Seq(Lot)
        BY <2>1 DEF DB
      <4>2. \A i \in 1..Len(db.lots) : db.lots[i] \in Lot
        BY <4>1
      <4> QED BY <4>1, <4>2 DEF Lot
    <3>4. \A i \in DOMAIN db.lots :
            db.lots[i].tainted /\ ~Fell(db.lots[i].chain) => db'.lots[i] = db.lots[i]
      BY <3>1, <3>2, <3>3
    <3>5. (\A c \in Chains : Fell(c) \/ db'.height[c] = db.height[c]) => db'.auto = db.auto
      BY <3>1, <3>2
    <3> QED BY <3>4, <3>5
  <2> HIDE DEF Spared
  <2> QED BY <1>1, <2>2, <2>3, <2>4, <2>5, <2>6, StepKinds DEF StepKind, Settling, FundsInv
<1>2. FundsInv /\ [Next]_vars => [db'.height # db.height => Spared]_vars
  BY <1>1
<1> QED BY FundsInvariant, <1>2, PTL DEF Spec, TaintedNeverPays

-----------------------------------------------------------------------------
(* Refinement of Receivables.                                              *)

(* The status and the amount of each invoice.                              *)
Statuses(S) == [j \in Jobs |-> S.invoice[j].status]
Amounts(S)  == [j \in Jobs |-> S.invoice[j].amount]
(* What the open invoices of a set add up to.                              *)
SumOf(S, paid) == SumTo([j \in Jobs |-> IF j \in paid THEN Amounts(S)[j] ELSE 0], NumJobs)

(* A settlement brings in exactly what it settles.                         *)
LEMMA SettlesForCash ==
  ASSUME NEW S, Sane(S), NEW T, Sane(T), PaysOpen(S, T)
  PROVE  \E paid \in SUBSET Open(S) :
           /\ Statuses(T) = [j \in Jobs |-> IF j \in paid THEN "paid" ELSE Statuses(S)[j]]
           /\ T.books["usdc"] = S.books["usdc"] + SumOf(S, paid)
           /\ Amounts(T) = Amounts(S)
<1> DEFINE paid == {j \in Open(S) : T.invoice[j].status = "paid"}
           f == PaidAmount(S)
           g == [j \in Jobs |-> IF j \in paid THEN Amounts(S)[j] ELSE 0]
           h == PaidAmount(T)
<1>1. S \in DB /\ T \in DB /\ Jobs = 1..NumJobs /\ NumJobs \in Nat
  BY InvoicesAssumption DEF Sane, Jobs
<1>2. ASSUME NEW j \in Jobs
      PROVE  /\ S.invoice[j].amount \in Nat
             /\ T.invoice[j].amount = S.invoice[j].amount
             /\ j \in paid <=> (S.invoice[j].status = "open" /\ T.invoice[j].status = "paid")
             /\ j \notin paid => T.invoice[j].status = S.invoice[j].status
  <2>1. S.invoice[j].amount \in Nat
    BY <1>1 DEF DB, Invoice
  <2> QED BY <2>1 DEF Open, PaysOpen
<1> HIDE DEF paid
<1>3. ASSUME NEW j \in Jobs PROVE f[j] \in Nat /\ g[j] \in Nat /\ h[j] = f[j] + g[j]
  <2>1. /\ f[j] = IF S.invoice[j].status = "paid" THEN S.invoice[j].amount ELSE 0
        /\ g[j] = IF j \in paid THEN S.invoice[j].amount ELSE 0
        /\ h[j] = IF T.invoice[j].status = "paid" THEN T.invoice[j].amount ELSE 0
    BY DEF PaidAmount, Amounts
  <2> HIDE DEF f, g, h
  <2> QED BY <1>2, <2>1
<1>4. SumTo(h, NumJobs) = SumTo(f, NumJobs) + SumTo(g, NumJobs)
  <2> HIDE DEF f, g, h
  <2>1. Summable(f, NumJobs) /\ Summable(g, NumJobs)
    BY <1>1, <1>3 DEF Summable
  <2> QED BY <1>1, <1>3, <2>1, SumToPlus
<1>5. T.books["usdc"] = S.books["usdc"] + SumOf(S, paid)
  BY <1>4 DEF Sane, BooksFollow, InvoiceTotal, SumOf
<1>6. /\ Statuses(T) = [j \in Jobs |-> IF j \in paid THEN "paid" ELSE Statuses(S)[j]]
      /\ Amounts(T) = Amounts(S)
  BY <1>2 DEF Statuses, Amounts
<1>7. paid \in SUBSET Open(S)
  BY DEF paid
<1> QED BY <1>5, <1>6, <1>7

(* Every step of the watch is one of the promise, or no step of it.        *)
THEOREM SettlementKeepsPromise == Spec => KeepsPromise
<1>1. ASSUME Init PROVE Promise!Init
  <2>1. \A j \in Jobs : db.invoice[j] = NoInvoice
    BY <1>1 DEF Init
  <2>2. db.books["usdc"] = 0
    BY <1>1 DEF Init, Accounts
  <2>3. Jobs = Promise!Jobs
    BY DEF Jobs, Promise!Jobs
  <2> QED BY <2>1, <2>2, <2>3 DEF Promise!Init, NoInvoice
<1> DEFINE status == Statuses(db)
           amount == Amounts(db)
           cash   == db.books["usdc"]
<1>2. ASSUME FundsInv, [Next]_vars PROVE [Promise!Next]_(Promise!vars)
  <2>1. Sane(db) /\ Sane(db') /\ db \in DB /\ db' \in DB /\ ChainType /\ Backed(db) /\ Priced(db)
    <3>1. IInv'
      BY <1>2, NextInv DEF FundsInv
    <3>2. Sane(db')
      BY <3>1 DEF IInv, Sane, BooksFollow, CountersFollow, DistinctOpen, TxidsPay
    <3> QED BY <1>2, <3>2 DEF FundsInv, IInv, Sane, TypeOK, ChainType
  <2>2. Jobs = Promise!Jobs /\ Open(db) = Promise!Pending
    BY DEF Jobs, Promise!Jobs, Open, Promise!Pending
  <2>3. CASE db' = db
    BY <2>3 DEF Promise!vars
  <2>4. ASSUME NEW j \in Jobs, db.invoice[j].status \in {"none", "void"}, db' = Issue(db, j) PROVE Promise!Bill(j)
    <3>1. /\ db.invoice[j].status # "paid" /\ db'.invoice[j].status = "open"
          /\ db'.invoice[j].amount \in Nat \ {0}
          /\ \A i \in Open(db) : db.invoice[i].amount # db'.invoice[j].amount
          /\ \A i \in Jobs : i # j => db'.invoice[i] = db.invoice[i]
      BY <2>1, <2>4, IssueBills DEF Priced
    <3>2. Amounts(db') = [Amounts(db) EXCEPT ![j] = Amounts(db')[j]]
      BY <3>1 DEF Amounts
    <3>3. Statuses(db') = [Statuses(db) EXCEPT ![j] = "open"]
      BY <3>1 DEF Statuses
    <3>4. db'.books["usdc"] = db.books["usdc"]
      <4>1. PaidAmount(db') = PaidAmount(db)
        BY <3>1 DEF PaidAmount
      <4> QED BY <2>1, <4>1 DEF Sane, BooksFollow
    <3>5. /\ Statuses(db)[j] \in {"none", "void"} /\ Amounts(db')[j] \in Nat \ {0}
          /\ \A k \in Promise!Pending : Amounts(db)[k] # Amounts(db')[j]
      BY <2>2, <2>4, <3>1 DEF Statuses, Amounts, Open
    <3> QED BY <3>2, <3>3, <3>4, <3>5, Zenon DEF Promise!Bill, Statuses, Amounts
  <2>5. ASSUME NEW j \in Open(db), db' = Void(db, j) PROVE Promise!WriteOff(j)
    <3>1. /\ db.invoice[j].status = "open" /\ db'.invoice[j].status = "void"
          /\ db'.invoice[j].amount = db.invoice[j].amount /\ j \in Jobs
          /\ \A i \in Jobs : i # j => db'.invoice[i] = db.invoice[i]
      BY <2>1, <2>5, VoidWritesOff DEF Open
    <3>2. Amounts(db') = Amounts(db)
      BY <3>1 DEF Amounts
    <3>3. Statuses(db') = [Statuses(db) EXCEPT ![j] = "void"]
      BY <3>1 DEF Statuses
    <3>4. db'.books["usdc"] = db.books["usdc"]
      <4>1. PaidAmount(db') = PaidAmount(db)
        BY <3>1 DEF PaidAmount
      <4> QED BY <2>1, <4>1 DEF Sane, BooksFollow
    <3> QED BY <2>2, <3>1, <3>2, <3>3, <3>4 DEF Promise!WriteOff, Statuses, Amounts
  <2>6. ASSUME PaysOpen(db, db') PROVE \E paid \in SUBSET Promise!Pending : Promise!Settle(paid)
    <3>1. PICK paid \in SUBSET Open(db) :
            /\ Statuses(db') = [j \in Jobs |-> IF j \in paid THEN "paid" ELSE Statuses(db)[j]]
            /\ db'.books["usdc"] = db.books["usdc"] + SumOf(db, paid)
            /\ Amounts(db') = Amounts(db)
      BY <2>1, <2>6, SettlesForCash
    <3>2. Promise!Settle(paid)
      <4>1. \A f, n : Promise!SumTo(f, n) = SumTo(f, n)
        BY DEF Promise!SumTo, SumTo
      <4> QED BY <3>1, <4>1, Zenon
              DEF Promise!Settle, Promise!Jobs, Jobs, Statuses, Amounts, SumOf
    <3> QED BY <2>2, <3>1, <3>2
  <2>7. ASSUME NEW at, Reading(at) PROVE PaysOpen(db, db')
    BY <2>1, <2>7, ApplyReads DEF Reading
  <2>8. ASSUME Settling PROVE PaysOpen(db, db')
    BY <2>8 DEF Settling, Settles
  <2> QED BY <1>2, <2>2, <2>3, <2>4, <2>5, <2>6, <2>7, <2>8, StepKinds
          DEF StepKind, FundsInv, Promise!Next, Open
<1> QED BY <1>1, <1>2, FundsInvariant, PTL DEF Spec, KeepsPromise, Promise!Spec

-----------------------------------------------------------------------------
(* What the chains have credited.                                          *)

(* The amount of each transfer, and of each that block h or one before it  *)
(* credits.                                                                *)
CreditsBy(ts, h) == [i \in DOMAIN ts |-> IF ts[i].txid <= h THEN ts[i].amount ELSE 0]
AmountsOf(ts)    == [i \in DOMAIN ts |-> ts[i].amount]
(* What the transfers mined by block h brought in.                         *)
Credited(ts, h) == SumTo(CreditsBy(ts, h), Len(ts))

(* A balance only ever grows by what is transferred.                       *)
Grows(bals, ts) ==
  /\ \A i \in 1..Len(ts) : ts[i].txid <= Len(bals)
  /\ \A h, k \in 1..Len(bals) :
       h <= k => bals[k] - bals[h] <= Credited(ts, k) - Credited(ts, h)

(* The amounts of transfers can be summed, and the sums are amounts.       *)
LEMMA CreditTypes ==
  ASSUME NEW ts \in Seq(Transfer), NEW h
  PROVE  /\ Len(ts) \in Nat /\ DOMAIN ts = 1..Len(ts)
         /\ \A i \in 1..Len(ts) :
              /\ ts[i].amount \in Nat /\ ts[i].txid \in Nat
              /\ CreditsBy(ts, h)[i] = IF ts[i].txid <= h THEN ts[i].amount ELSE 0
              /\ AmountsOf(ts)[i] = ts[i].amount
         /\ Summable(CreditsBy(ts, h), Len(ts)) /\ Summable(AmountsOf(ts), Len(ts))
         /\ Credited(ts, h) \in Nat /\ SumTo(AmountsOf(ts), Len(ts)) \in Nat
<1>1. Len(ts) \in Nat /\ DOMAIN ts = 1..Len(ts) /\ \A i \in 1..Len(ts) : ts[i] \in Transfer
  OBVIOUS
<1>2. \A i \in 1..Len(ts) : ts[i].amount \in Nat /\ ts[i].txid \in Nat
  BY <1>1 DEF Transfer
<1>3. \A i \in 1..Len(ts) :
        /\ CreditsBy(ts, h)[i] = IF ts[i].txid <= h THEN ts[i].amount ELSE 0
        /\ AmountsOf(ts)[i] = ts[i].amount
  BY <1>1 DEF CreditsBy, AmountsOf
<1>4. \A i \in 1..Len(ts) : CreditsBy(ts, h)[i] \in Nat /\ AmountsOf(ts)[i] \in Nat
  BY <1>2, <1>3
<1>5. Summable(CreditsBy(ts, h), Len(ts)) /\ Summable(AmountsOf(ts), Len(ts))
  BY <1>4 DEF Summable
<1>6. Credited(ts, h) \in Nat /\ SumTo(AmountsOf(ts), Len(ts)) \in Nat
  BY <1>1, <1>4, SumToNat DEF Credited
<1> QED BY <1>1, <1>2, <1>3, <1>5, <1>6

(* More is credited by a later block, and at most all there is.            *)
LEMMA CreditedGrows ==
  ASSUME NEW ts \in Seq(Transfer), NEW h \in Nat, NEW k \in Nat, h <= k
  PROVE  /\ Credited(ts, h) <= Credited(ts, k)
         /\ Credited(ts, k) <= SumTo(AmountsOf(ts), Len(ts))
<1> DEFINE n  == Len(ts)
           f(m) == CreditsBy(ts, m)
           a  == AmountsOf(ts)
<1>1. n \in Nat /\ Summable(f(h), n) /\ Summable(f(k), n) /\ Summable(a, n)
  BY CreditTypes
<1>2. ASSUME NEW i \in 1..n PROVE f(h)[i] <= f(k)[i] /\ f(k)[i] <= a[i]
  <2>1. /\ ts[i].amount \in Nat /\ ts[i].txid \in Nat /\ a[i] = ts[i].amount
        /\ f(h)[i] = IF ts[i].txid <= h THEN ts[i].amount ELSE 0
        /\ f(k)[i] = IF ts[i].txid <= k THEN ts[i].amount ELSE 0
    BY CreditTypes
  <2> HIDE DEF f, a
  <2> QED BY <2>1
<1>3. SumTo(f(h), n) <= SumTo(f(k), n) /\ SumTo(f(k), n) <= SumTo(a, n)
  <2> HIDE DEF f, a, n
  <2> QED BY <1>1, <1>2, SumToAtMost
<1> QED BY <1>3 DEF Credited

(* Two stretches of transfers credit what each of them does.               *)
LEMMA CreditedSplit ==
  ASSUME NEW ts \in Seq(Transfer), NEW credits \in Seq(Transfer), NEW h
  PROVE  Credited(ts \o credits, h) = Credited(ts, h) + Credited(credits, h)
<1> DEFINE us == ts \o credits
           n == Len(ts)
           p == Len(us)
           m == Len(credits)
           f == CreditsBy(us, h)
           g == CreditsBy(credits, h)
           b == CreditsBy(ts, h)
<1>1. n \in Nat /\ m \in Nat
  BY CreditTypes
<1>2. /\ us \in Seq(Transfer) /\ p = n + m
      /\ \A i \in 1..n : us[i] = ts[i]
      /\ \A i \in 1..m : us[n + i] = credits[i]
  BY ConcatProperties
<1> HIDE DEF us
<1>3. Summable(f, p) /\ Summable(b, n)
  BY <1>2, CreditTypes
<1>4. ASSUME NEW i \in 1..n PROVE f[i] = b[i]
  <2>1. i \in 1..Len(us) /\ us[i] = ts[i]
    BY <1>1, <1>2
  <2>2. f[i] = IF us[i].txid <= h THEN us[i].amount ELSE 0
    BY <1>2, <2>1, CreditTypes
  <2>3. b[i] = IF ts[i].txid <= h THEN ts[i].amount ELSE 0
    BY CreditTypes
  <2> QED BY <2>1, <2>2, <2>3
<1>5. ASSUME NEW i \in 1..m PROVE g[i] = f[n + i]
  <2>1. n + i \in 1..Len(us) /\ us[n + i] = credits[i]
    BY <1>1, <1>2
  <2>2. f[n + i] = IF us[n + i].txid <= h THEN us[n + i].amount ELSE 0
    BY <1>2, <2>1, CreditTypes
  <2>3. g[i] = IF credits[i].txid <= h THEN credits[i].amount ELSE 0
    BY CreditTypes
  <2> QED BY <2>1, <2>2, <2>3
<1>6. SumTo(f, p) = SumTo(b, n) + SumTo(g, m)
  <2> HIDE DEF f, g, b, n, m, p
  <2>1. SumTo(f, p) = SumTo(f, n) + SumTo(g, m)
    <3>1. \A i \in 1..m : g[i] = f[n + i]
      BY <1>5
    <3> QED BY <1>1, <1>2, <1>3, <3>1, SumToSplit
  <2>2. SumTo(f, n) = SumTo(b, n)
    BY <1>1, <1>3, <1>4, SumToSame
  <2> QED BY <2>1, <2>2
<1> QED BY <1>2, <1>6 DEF Credited, us

(* A block with credits: the earlier blocks credit what they did.          *)
LEMMA MinedCredits ==
  ASSUME NEW bals \in Seq(Nat), NEW ts \in Seq(Transfer), Grows(bals, ts),
         NEW H \in Nat, H = Len(bals), H >= 1,
         NEW credits \in Seq(Transfer), \A i \in 1..Len(credits) : credits[i].txid = H + 1,
         NEW sum, sum = SumTo(AmountsOf(credits), Len(credits)),
         NEW grown, grown = Append(bals, bals[H] + sum), NEW us, us = ts \o credits
  PROVE  /\ \A h \in 0..H : Credited(us, h) = Credited(ts, h)
         /\ Grows(grown, us)
<1>1. /\ sum \in Nat /\ Len(ts) \in Nat /\ Len(credits) \in Nat
      /\ \A h : Credited(ts, h) \in Nat
  BY CreditTypes
<1>2. bals[H] + sum \in Nat
  BY <1>1
<1>3. /\ Len(grown) = H + 1 /\ grown[H + 1] = bals[H] + sum
      /\ \A h \in 1..H : grown[h] = bals[h] /\ bals[h] \in Nat
  BY <1>2, AppendProperties
<1>4. /\ us \in Seq(Transfer) /\ Len(us) = Len(ts) + Len(credits)
      /\ \A i \in 1..Len(ts) : us[i] = ts[i]
      /\ \A i \in 1..Len(credits) : us[Len(ts) + i] = credits[i]
  BY ConcatProperties
<1>10. ASSUME NEW h PROVE Credited(us, h) = Credited(ts, h) + Credited(credits, h)
  BY CreditedSplit
<1>5. ASSUME NEW h \in 0..H PROVE Credited(us, h) = Credited(ts, h)
  <2>1. \A i \in 1..Len(credits) : CreditsBy(credits, h)[i] = 0
    <3>1. ASSUME NEW i \in 1..Len(credits) PROVE ~(credits[i].txid <= h)
      <4>1. credits[i].txid = H + 1
        OBVIOUS
      <4> QED BY <4>1
    <3> QED BY <3>1, CreditTypes
  <2>2. Credited(credits, h) = 0
    BY <1>1, <2>1, SumToZeros DEF Credited
  <2> QED BY <1>1, <1>10, <2>2
<1>6. Credited(us, H + 1) = Credited(ts, H) + sum
  <2>1. Credited(credits, H + 1) = sum
    <3>1. ASSUME NEW i \in 1..Len(credits)
          PROVE  CreditsBy(credits, H + 1)[i] = AmountsOf(credits)[i]
      <4>1. credits[i].txid <= H + 1
        OBVIOUS
      <4> QED BY <4>1, CreditTypes
    <3>2. Summable(CreditsBy(credits, H + 1), Len(credits))
      BY CreditTypes
    <3> QED BY <1>1, <3>1, <3>2, SumToSame DEF Credited
  <2>2. Credited(ts, H + 1) = Credited(ts, H)
    <3>1. ASSUME NEW i \in 1..Len(ts) PROVE CreditsBy(ts, H + 1)[i] = CreditsBy(ts, H)[i]
      <4>1. ts[i].txid \in Nat /\ ts[i].txid <= H
        BY CreditTypes DEF Grows
      <4>2. ts[i].txid <= H + 1
        BY <4>1
      <4> QED BY <4>1, <4>2, CreditTypes
    <3>2. Summable(CreditsBy(ts, H + 1), Len(ts))
      BY CreditTypes
    <3> QED BY <1>1, <3>1, <3>2, SumToSame DEF Credited
  <2> QED BY <1>10, <2>1, <2>2
<1>7. ASSUME NEW i \in 1..Len(us) PROVE us[i].txid <= H + 1
  <2>1. CASE i \in 1..Len(ts)
    <3>1. ts[i].txid \in Nat /\ ts[i].txid <= H
      BY <2>1, CreditTypes DEF Grows
    <3>2. us[i] = ts[i]
      BY <1>4, <2>1
    <3> QED BY <3>1, <3>2
  <2>2. CASE i \notin 1..Len(ts)
    <3> DEFINE k == i - Len(ts)
    <3>1. k \in 1..Len(credits) /\ Len(ts) + k = i
      BY <1>1, <1>4, <2>2
    <3> HIDE DEF k
    <3>2. us[i] = credits[k]
      BY <1>4, <3>1
    <3>3. credits[k].txid = H + 1
      BY <3>1
    <3> QED BY <3>2, <3>3
  <2> QED BY <2>1, <2>2
<1>8. ASSUME NEW h \in 1..(H + 1), NEW k \in 1..(H + 1), h <= k
      PROVE  grown[k] - grown[h] <= Credited(us, k) - Credited(us, h)
  <2>1. CASE k \in 1..H
    <3>1. h \in 1..H
      BY <1>8, <2>1
    <3>2. bals[k] - bals[h] <= Credited(ts, k) - Credited(ts, h)
      BY <1>8, <2>1, <3>1 DEF Grows
    <3>3. grown[k] = bals[k] /\ grown[h] = bals[h]
      BY <1>3, <2>1, <3>1
    <3>4. Credited(us, k) = Credited(ts, k) /\ Credited(us, h) = Credited(ts, h)
      BY <1>5, <2>1, <3>1
    <3> QED BY <3>2, <3>3, <3>4
  <2>2. CASE k = H + 1 /\ h \in 1..H
    <3>1. bals[H] - bals[h] <= Credited(ts, H) - Credited(ts, h)
      BY <2>2 DEF Grows
    <3>2. /\ grown[k] = bals[H] + sum /\ grown[h] = bals[h]
          /\ Credited(us, k) = Credited(ts, H) + sum /\ Credited(us, h) = Credited(ts, h)
      BY <1>3, <1>5, <1>6, <2>2
    <3>3. /\ bals[H] \in Nat /\ bals[h] \in Nat
          /\ Credited(ts, H) \in Nat /\ Credited(ts, h) \in Nat
      BY <1>1, <2>2
    <3> DEFINE a == bals[H]
               b == bals[h]
               x == Credited(ts, H)
               y == Credited(ts, h)
    <3>4. a \in Nat /\ b \in Nat /\ x \in Nat /\ y \in Nat /\ a - b <= x - y
      BY <3>1, <3>3
    <3>5. /\ grown[k] = a + sum /\ grown[h] = b
          /\ Credited(us, k) = x + sum /\ Credited(us, h) = y
      BY <3>2
    <3> HIDE DEF a, b, x, y
    <3>6. (a + sum) - b <= (x + sum) - y
      BY <1>1, <3>4
    <3> QED BY <3>5, <3>6
  <2>3. CASE k = H + 1 /\ h = H + 1
    <3>1. grown[k] \in Nat /\ Credited(us, k) \in Nat
      BY <1>2, <1>3, <1>4, <2>3, CreditTypes
    <3> QED BY <2>3, <3>1
  <2> QED BY <2>1, <2>2, <2>3
<1>9. Grows(grown, us)
  BY <1>3, <1>7, <1>8 DEF Grows
<1> QED BY <1>5, <1>9

(* A withdrawal credits nothing.                                           *)
LEMMA WithdrawnCredits ==
  ASSUME NEW bals \in Seq(Nat), NEW ts \in Seq(Transfer), Grows(bals, ts),
         NEW H \in Nat, H = Len(bals), H >= 1,
         NEW left \in Nat, left <= bals[H], NEW grown, grown = Append(bals, left)
  PROVE  Grows(grown, ts)
<1>1. \A h : Credited(ts, h) \in Nat
  BY CreditTypes
<1>2. /\ Len(grown) = H + 1 /\ grown[H + 1] = left
      /\ \A h \in 1..H : grown[h] = bals[h] /\ bals[h] \in Nat
  BY AppendProperties
<1>3. ASSUME NEW i \in 1..Len(ts) PROVE ts[i].txid <= H + 1
  <2>1. ts[i].txid \in Nat /\ ts[i].txid <= H
    BY CreditTypes DEF Grows
  <2> QED BY <2>1
<1>4. ASSUME NEW h \in 1..(H + 1), NEW k \in 1..(H + 1), h <= k
      PROVE  grown[k] - grown[h] <= Credited(ts, k) - Credited(ts, h)
  <2>1. CASE k \in 1..H
    <3>1. h \in 1..H
      BY <1>4, <2>1
    <3>2. bals[k] - bals[h] <= Credited(ts, k) - Credited(ts, h)
      BY <1>4, <2>1, <3>1 DEF Grows
    <3> QED BY <1>2, <2>1, <3>1, <3>2
  <2>2. CASE k = H + 1 /\ h \in 1..H
    <3>1. bals[H] - bals[h] <= Credited(ts, H) - Credited(ts, h)
      BY <2>2 DEF Grows
    <3>2. Credited(ts, H) <= Credited(ts, k)
      BY <2>2, CreditedGrows
    <3>3. /\ grown[k] = left /\ grown[h] = bals[h]
          /\ bals[H] \in Nat /\ bals[h] \in Nat
          /\ Credited(ts, h) \in Nat /\ Credited(ts, H) \in Nat /\ Credited(ts, k) \in Nat
      BY <1>1, <1>2, <2>2
    <3>4. left <= bals[H]
      OBVIOUS
    <3> DEFINE a == bals[H]
               b == bals[h]
               x == Credited(ts, H)
               y == Credited(ts, h)
               z == Credited(ts, k)
    <3>5. /\ a \in Nat /\ b \in Nat /\ x \in Nat /\ y \in Nat /\ z \in Nat
          /\ a - b <= x - y /\ x <= z /\ left <= a
      BY <3>1, <3>2, <3>3, <3>4
    <3> HIDE DEF a, b, x, y, z
    <3>6. left - b <= z - y
      BY <3>5
    <3> QED BY <3>3, <3>6 DEF b, y, z
  <2>3. CASE k = H + 1 /\ h = H + 1
    <3>1. grown[k] \in Nat /\ Credited(ts, k) \in Nat
      BY <1>1, <1>2, <2>3
    <3> QED BY <2>3, <3>1
  <2> QED BY <2>1, <2>2, <2>3
<1> QED BY <1>2, <1>3, <1>4 DEF Grows

-----------------------------------------------------------------------------
(* What pays by balance.                                                   *)

(* No balance grows by more than was transferred.                          *)
ChainsGrow == \A c \in Chains : Grows(chain[c].balances, chain[c].transfers)

(* The last read of a chain, if any, is of a block it has.                 *)
Tracks(S, c) ==
  /\ S.height[c] \in 0..Len(chain[c].balances)
  /\ S.base[c] => S.height[c] > 0 /\ S.balance[c] = chain[c].balances[S.height[c]]
  /\ ~S.base[c] => S.height[c] = 0

(* What was paid from the chains, or may yet be, was credited by the       *)
(* blocks that were read.                                                  *)
PaidWithin(S) ==
  S.auto + SuspenseTotal(S.lots)
    <= Credited(chain["eth"].transfers, S.height["eth"])
         + Credited(chain["sol"].transfers, S.height["sol"])
(* No worker has listed transfers.                                         *)
NoneListed == \A w \in Workers : phase[w] # "logs"

(* The inductive invariant that relates the database to the chains.        *)
PaidInv ==
  /\ FundsInv
  /\ ChainsGrow
  /\ \A c \in Chains : Tracks(db, c)
  /\ UseTxLogs \/ (NoneListed /\ PaidWithin(db))

(* A chain that grew still has what it had.                                *)
Extends ==
  \A c \in Chains :
    /\ Grows(chain'[c].balances, chain'[c].transfers)
    /\ Len(chain'[c].balances) \in Nat
    /\ Len(chain'[c].balances) >= Len(chain[c].balances)
    /\ \A h \in 1..Len(chain[c].balances) : chain'[c].balances[h] = chain[c].balances[h]
    /\ \A h \in 0..Len(chain[c].balances) :
         Credited(chain'[c].transfers, h) = Credited(chain[c].transfers, h)

(* A block on one chain extends it, and the other is as it was.            *)
LEMMA BlockExtends ==
  ASSUME IInv, ChainsGrow, NEW c \in Chains, NEW bals \in Seq(Nat), NEW ts \in Seq(Transfer),
         chain' = [chain EXCEPT ![c] = [balances |-> bals, transfers |-> ts]],
         Grows(bals, ts), Len(bals) = Len(chain[c].balances) + 1,
         \A h \in 1..Len(chain[c].balances) : bals[h] = chain[c].balances[h],
         \A h \in 0..Len(chain[c].balances) : Credited(ts, h) = Credited(chain[c].transfers, h)
  PROVE  Extends
<1>1. chain \in [Chains -> [balances: Seq(Nat), transfers: Seq(Transfer)]]
  BY DEF IInv, TypeOK
<1>2. chain'[c].balances = bals /\ chain'[c].transfers = ts
      /\ \A d \in Chains : d # c => chain'[d] = chain[d]
  BY <1>1
<1>3. \A d \in Chains : Len(chain[d].balances) \in Nat
  <2>1. \A d \in Chains : chain[d].balances \in Seq(Nat)
    BY <1>1
  <2> QED BY <2>1
<1>4. ASSUME NEW d \in Chains, d # c
      PROVE  /\ Grows(chain'[d].balances, chain'[d].transfers)
             /\ Len(chain'[d].balances) \in Nat
             /\ Len(chain'[d].balances) >= Len(chain[d].balances)
             /\ \A h \in 1..Len(chain[d].balances) : chain'[d].balances[h] = chain[d].balances[h]
             /\ \A h \in 0..Len(chain[d].balances) :
                  Credited(chain'[d].transfers, h) = Credited(chain[d].transfers, h)
  <2>1. chain'[d] = chain[d]
    BY <1>2, <1>4
  <2> QED BY <1>3, <2>1 DEF ChainsGrow
<1>5. /\ Grows(chain'[c].balances, chain'[c].transfers)
      /\ Len(chain'[c].balances) \in Nat
      /\ Len(chain'[c].balances) >= Len(chain[c].balances)
      /\ \A h \in 1..Len(chain[c].balances) : chain'[c].balances[h] = chain[c].balances[h]
      /\ \A h \in 0..Len(chain[c].balances) :
           Credited(chain'[c].transfers, h) = Credited(chain[c].transfers, h)
  <2>1. Len(bals) \in Nat /\ Len(bals) >= Len(chain[c].balances)
    BY <1>3
  <2> QED BY <1>2, <2>1
<1> QED BY <1>4, <1>5 DEF Extends

(* A block of payments extends its chain.                                  *)
LEMMA MineExtends ==
  ASSUME IInv, ChainsGrow, NEW c \in Chains, NEW credits \in Seq(Transfer), Mine(c, credits),
         \A i \in 1..Len(credits) : credits[i].txid = Height(c) + 1
  PROVE  Extends
<1> DEFINE bals == chain[c].balances
           ts   == chain[c].transfers
           H    == Len(bals)
           sum  == SumTo(AmountsOf(credits), Len(credits))
           grown == Append(bals, bals[H] + sum)
           us   == ts \o credits
<1>1. bals \in Seq(Nat) /\ ts \in Seq(Transfer)
  BY DEF IInv, TypeOK
<1>2. H \in Nat /\ H >= 1 /\ Grows(bals, ts) /\ \A i \in 1..Len(credits) : credits[i].txid = H + 1
  BY <1>1 DEF IInv, Started, Height, ChainsGrow
<1>3. chain' = [chain EXCEPT ![c] = [balances |-> grown, transfers |-> us]]
  BY DEF Mine, Holding, Height, AmountsOf
<1> HIDE DEF bals, ts
<1>4. sum \in Nat
  BY CreditTypes
<1>5. us \in Seq(Transfer)
  BY <1>1, ConcatProperties
<1> HIDE DEF sum
<1>6. /\ grown \in Seq(Nat) /\ Len(grown) = H + 1
      /\ \A h \in 1..H : grown[h] = bals[h]
  <2>1. bals[H] + sum \in Nat
    BY <1>1, <1>2, <1>4
  <2> QED BY <1>1, <2>1, AppendProperties
<1> HIDE DEF grown, us, H
<1>7. (\A h \in 0..H : Credited(us, h) = Credited(ts, h)) /\ Grows(grown, us)
  BY <1>1, <1>2, MinedCredits DEF grown, us, H, sum
<1> QED BY <1>3, <1>5, <1>6, <1>7, BlockExtends DEF bals, ts, H

(* So does the block of a withdrawal.                                      *)
LEMMA WithdrawExtends ==
  ASSUME IInv, ChainsGrow, NEW c \in Chains, OwnerWithdraws(c)
  PROVE  Extends
<1> DEFINE bals == chain[c].balances
           ts   == chain[c].transfers
           H    == Len(bals)
<1>1. bals \in Seq(Nat) /\ ts \in Seq(Transfer)
      /\ chain \in [Chains -> [balances: Seq(Nat), transfers: Seq(Transfer)]]
  BY DEF IInv, TypeOK
<1>2. H \in Nat /\ H >= 1 /\ Grows(bals, ts)
  BY <1>1 DEF IInv, Started, Height, ChainsGrow
<1>3. PICK a \in Payments : /\ a <= Holding(c)
                            /\ chain' = [chain EXCEPT ![c].balances = Append(@, Holding(c) - a)]
  BY DEF OwnerWithdraws
<1> DEFINE left  == bals[H] - a
           grown == Append(bals, left)
<1>4. left \in Nat /\ left <= bals[H]
  <2>1. a \in Nat /\ bals[H] \in Nat /\ a <= bals[H]
    BY <1>1, <1>2, <1>3, SettlementAssumption DEF Holding, Height
  <2> QED BY <2>1
<1>5. chain' = [chain EXCEPT ![c] = [balances |-> grown, transfers |-> ts]]
  <2>1. chain' = [chain EXCEPT ![c].balances = grown]
    BY <1>3 DEF Holding, Height
  <2> HIDE DEF grown
  <2>2. chain[c] \in [balances: Seq(Nat), transfers: Seq(Transfer)]
    BY <1>1
  <2>3. [chain[c] EXCEPT !.balances = grown] = [balances |-> grown, transfers |-> ts]
    BY <2>2
  <2> QED BY <2>1, <2>3
<1> HIDE DEF left, bals, ts
<1>6. /\ grown \in Seq(Nat) /\ Len(grown) = H + 1
      /\ \A h \in 1..H : grown[h] = bals[h]
  BY <1>1, <1>4, AppendProperties
<1> HIDE DEF grown, H
<1>7. Grows(grown, ts)
  BY <1>1, <1>2, <1>4, WithdrawnCredits DEF grown, H
<1> QED BY <1>1, <1>5, <1>6, <1>7, BlockExtends DEF bals, ts, H

(* Only clients and the owner make blocks.                                 *)
LEMMA ChainSteps ==
  ASSUME IInv, ChainsGrow, [Next]_vars
  PROVE  UNCHANGED chain \/ (UNCHANGED <<db, phase>> /\ Extends)
<1> USE DEF chainVars, workerVars
<1>1. LiveChains \subseteq Chains /\ \A c \in Chains : Height(c) \in Nat
  <2>1. \A c \in Chains : chain[c].balances \in Seq(Nat)
    BY DEF IInv, TypeOK
  <2> QED BY <2>1, SettlementAssumption DEF Chains, Height
<1>2. ASSUME NEW c \in LiveChains, ClientPays(c) PROVE UNCHANGED <<db, phase>> /\ Extends
  <2>1. PICK a \in Payments, m \in IF c = "sol" THEN Memos ELSE {NoJob} :
          Mine(c, <<Credit(c, a, m)>>)
    BY <1>2 DEF ClientPays
  <2> DEFINE credit == Credit(c, a, m)
             credits == <<credit>>
  <2>2. credit \in Transfer /\ credit.txid = Height(c) + 1
    BY <1>1, SettlementAssumption DEF Credit, Transfer
  <2> HIDE DEF credit
  <2>3. credits \in Seq(Transfer) /\ \A i \in 1..Len(credits) : credits[i].txid = Height(c) + 1
    BY <2>2
  <2>4. Mine(c, credits)
    BY <2>1 DEF credit
  <2> HIDE DEF credits
  <2> QED BY <1>1, <2>3, <2>4, MineExtends DEF Mine
<1>3. ASSUME NEW c \in LiveChains, OwnerWithdraws(c) PROVE UNCHANGED <<db, phase>> /\ Extends
  BY <1>1, <1>3, WithdrawExtends DEF OwnerWithdraws
<1>4. ASSUME ClientPaysTwice PROVE UNCHANGED <<db, phase>> /\ Extends
  <2>1. PICK a \in Payments, b \in Payments :
          Mine("eth", <<Credit("eth", a, NoJob), Credit("eth", b, NoJob)>>)
    BY <1>4 DEF ClientPaysTwice
  <2> DEFINE first  == Credit("eth", a, NoJob)
             second == Credit("eth", b, NoJob)
             credits == <<first, second>>
  <2>2. /\ first \in Transfer /\ first.txid = Height("eth") + 1
        /\ second \in Transfer /\ second.txid = Height("eth") + 1
    BY <1>1, SettlementAssumption DEF Credit, Transfer, Chains
  <2> HIDE DEF first, second
  <2>3. credits \in Seq(Transfer) /\ \A i \in 1..Len(credits) : credits[i].txid = Height("eth") + 1
    BY <2>2
  <2>4. Mine("eth", credits) /\ "eth" \in Chains
    BY <2>1 DEF first, second, Chains
  <2> HIDE DEF credits
  <2> QED BY <2>3, <2>4, MineExtends DEF Mine
<1>5. ASSUME NEW j \in Jobs, IssueInvoice(j) \/ VoidAged(j) \/ CollectManual(j)
      PROVE  UNCHANGED chain
  BY <1>5 DEF IssueInvoice, VoidAged, CollectManual
<1>6. ASSUME NEW w \in Workers, Watch(w) \/ LoseWorker(w) PROVE UNCHANGED chain
  BY <1>6 DEF Watch, FetchLogs, SettleLogs, FetchBalances, ApplyBalances, LoseWorker
<1>7. CASE UNCHANGED vars
  BY <1>7 DEF vars
<1> QED BY <1>2, <1>3, <1>4, <1>5, <1>6, <1>7 DEF Next

(* Nothing is paid before the first block is read.                         *)
LEMMA InitPaid == Init => PaidInv
<1> SUFFICES ASSUME Init PROVE PaidInv
  OBVIOUS
<1>1. FundsInv /\ IInv /\ db \in DB
  BY InitFunds DEF FundsInv, IInv, TypeOK
<1>2. /\ db.lots = <<>> /\ db.auto = 0 /\ db.height = [c \in Chains |-> 0]
      /\ db.base = [c \in Chains |-> FALSE]
      /\ \A c \in Chains : chain[c].balances = <<0>> /\ chain[c].transfers = <<>>
  BY DEF Init
<1>3. <<>> \in Seq(Transfer) /\ Len(<<>>) = 0
  BY EmptySeq
<1>4. \A h : Credited(<<>>, h) \in Nat
  BY <1>3, CreditTypes
<1>5. ChainsGrow
  <2>1. Grows(<<0>>, <<>>)
    <3>1. Len(<<0>>) = 1
      OBVIOUS
    <3>2. \A h, k \in 1..1 : <<0>>[k] = 0 /\ <<0>>[h] = 0 /\ Credited(<<>>, k) = Credited(<<>>, h)
      OBVIOUS
    <3> QED BY <1>3, <1>4, <3>1, <3>2 DEF Grows
  <2> QED BY <1>2, <2>1 DEF ChainsGrow
<1>6. \A c \in Chains : Tracks(db, c)
  <2>1. Len(<<0>>) = 1
    OBVIOUS
  <2> QED BY <1>2, <2>1 DEF Tracks
<1>7. NoneListed
  BY DEF Init, NoneListed
<1>8. PaidWithin(db)
  <2>1. SuspenseTotal(db.lots) = 0
    BY <1>2, <1>3, SumToZero DEF SuspenseTotal
  <2>2. /\ Credited(chain["eth"].transfers, db.height["eth"]) \in Nat
        /\ Credited(chain["sol"].transfers, db.height["sol"]) \in Nat
    BY <1>2, <1>4 DEF Chains
  <2> QED BY <1>2, <2>1, <2>2 DEF PaidWithin
<1> QED BY <1>1, <1>5, <1>6, <1>7, <1>8 DEF PaidInv

(* Without transfer logs no worker lists any.                              *)
LEMMA NoneListedStep ==
  ASSUME TypeOK, NoneListed, ~UseTxLogs, [Next]_vars
  PROVE  NoneListed'
<1> USE DEF chainVars, workerVars
<1>1. ASSUME NEW w \in Workers, NEW p \in Phases, p # "logs", phase' = [phase EXCEPT ![w] = p]
      PROVE  NoneListed'
  BY <1>1 DEF TypeOK, NoneListed
<1>2. ASSUME UNCHANGED phase PROVE NoneListed'
  BY <1>2 DEF NoneListed
<1>3. ASSUME NEW w \in Workers, Watch(w) \/ LoseWorker(w) PROVE NoneListed'
  <2>1. ~FetchLogs(w)
    BY DEF FetchLogs
  <2>2. CASE SettleLogs(w) \/ ApplyBalances(w) \/ LoseWorker(w)
    BY <1>1, <2>2 DEF SettleLogs, ApplyBalances, LoseWorker, Phases
  <2>3. CASE FetchBalances(w)
    <3>1. phase' = [phase EXCEPT ![w] = "idle"] \/ phase' = [phase EXCEPT ![w] = "observed"]
      BY <2>3 DEF FetchBalances
    <3> QED BY <1>1, <3>1 DEF Phases
  <2> QED BY <1>3, <2>1, <2>2, <2>3 DEF Watch
<1>4. ASSUME NEW c \in LiveChains, ClientPays(c) \/ OwnerWithdraws(c) PROVE UNCHANGED phase
  BY <1>4 DEF ClientPays, OwnerWithdraws, Mine
<1>5. ASSUME ClientPaysTwice PROVE UNCHANGED phase
  BY <1>5 DEF ClientPaysTwice, Mine
<1>6. ASSUME NEW j \in Jobs, IssueInvoice(j) \/ VoidAged(j) \/ CollectManual(j)
      PROVE  UNCHANGED phase
  BY <1>6 DEF IssueInvoice, VoidAged, CollectManual
<1>7. CASE UNCHANGED vars
  BY <1>2, <1>7 DEF vars
<1> QED BY <1>2, <1>3, <1>4, <1>5, <1>6, <1>7 DEF Next

(* A read adds to suspense no more than was credited since the last.       *)
LEMMA AddedIsCredited ==
  ASSUME NEW S \in DB, ChainType, ChainsGrow, NEW c \in Chains, Tracks(S, c),
         NEW h \in 0..Len(chain[c].balances),
         NEW k, k = IF IsFresh(S, c, h) THEN h ELSE S.height[c]
  PROVE  /\ Added(S, c, h) <= Credited(chain[c].transfers, k)
                                - Credited(chain[c].transfers, S.height[c])
         /\ Added(S, c, h) \in Nat
         /\ Credited(chain[c].transfers, k) \in Nat
         /\ Credited(chain[c].transfers, S.height[c]) \in Nat
<1> DEFINE bals == chain[c].balances
           ts   == chain[c].transfers
           last == S.height[c]
<1>1. ts \in Seq(Transfer) /\ bals \in Seq(Nat) /\ Len(bals) \in Nat
  BY DEF ChainType
<1>2. last \in Nat /\ h \in Nat /\ last \in 0..Len(bals) /\ Grows(bals, ts)
  BY <1>1 DEF DB, Tracks, ChainsGrow
<1>3. \A i : Credited(ts, i) \in Nat
  BY <1>1, CreditTypes
<1>4. Added(S, c, h) \in Nat
  BY AddedNat
<1> HIDE DEF ts
<1>5. CASE ~IsFresh(S, c, h)
  <2>1. Added(S, c, h) = 0
    BY <1>5 DEF Added, Follows
  <2>2. k = S.height[c]
    BY <1>5
  <2>3. Credited(ts, last) \in Nat
    BY <1>3
  <2> DEFINE y == Credited(ts, last)
  <2>4. y \in Nat => 0 <= y - y /\ 0 \in Nat
    <3> HIDE DEF y
    <3> QED OBVIOUS
  <2> QED BY <2>1, <2>2, <2>3, <2>4 DEF ts
<1>6. CASE IsFresh(S, c, h) /\ ~S.base[c]
  <2>1. Added(S, c, h) = 0 /\ k = h /\ last <= h
    BY <1>2, <1>6 DEF Added, Follows, IsFresh
  <2>2. Credited(ts, last) <= Credited(ts, h)
    BY <1>1, <1>2, <2>1, CreditedGrows
  <2> QED BY <1>3, <2>1, <2>2 DEF ts
<1>7. CASE IsFresh(S, c, h) /\ S.base[c]
  <2>1. k = h /\ last <= h /\ last \in 1..Len(bals) /\ h \in 1..Len(bals)
    BY <1>1, <1>2, <1>7 DEF IsFresh, Tracks
  <2>2. Added(S, c, h) = Greater(0, bals[h] - bals[last])
    BY <1>7 DEF Added, Follows, Delta, Tracks
  <2>3. bals[h] - bals[last] <= Credited(ts, h) - Credited(ts, last)
    BY <1>2, <2>1 DEF Grows
  <2>4. Credited(ts, last) <= Credited(ts, h)
    BY <1>1, <1>2, <2>1, CreditedGrows
  <2> DEFINE x == Credited(ts, h)
             y == Credited(ts, last)
             d == bals[h] - bals[last]
  <2>5. x \in Nat /\ y \in Nat /\ d \in Int /\ d <= x - y /\ y <= x
    <3>1. bals[h] \in Nat /\ bals[last] \in Nat
      <4>1. ASSUME NEW s \in Seq(Nat), NEW i \in 1..Len(s) PROVE s[i] \in Nat
        OBVIOUS
      <4> HIDE DEF bals, last
      <4> QED BY <1>1, <2>1, <4>1
    <3>2. x \in Nat /\ y \in Nat
      BY <1>3
    <3>3. d \in Int
      BY <3>1
    <3> QED BY <2>3, <2>4, <3>2, <3>3
  <2> HIDE DEF x, y, d
  <2>6. Greater(0, d) <= x - y
    <3>1. Greater(0, d) = 0 \/ Greater(0, d) = d
      BY DEF Greater
    <3>2. 0 <= x - y
      BY <2>5
    <3> QED BY <2>5, <3>1, <3>2
  <2> QED BY <1>3, <1>4, <2>1, <2>2, <2>6 DEF x, y, d, ts
<1> QED BY <1>3, <1>4, <1>5, <1>6, <1>7 DEF ts

(* Every step keeps PaidInv: a read adds to suspense no more than the      *)
(* blocks since the last read credited.                                    *)
LEMMA PaidStep == ASSUME PaidInv, [Next]_vars PROVE PaidInv'
<1>1. FundsInv' /\ db \in DB /\ db' \in DB /\ ChainType /\ TypeOK /\ IInv /\ Sane(db)
      /\ Backed(db) /\ Priced(db) /\ ChainsGrow
  <2>1. FundsInv'
    BY FundsStep DEF PaidInv
  <2> QED BY <2>1 DEF PaidInv, FundsInv, IInv, TypeOK, ChainType
<1>2. \A c \in Chains : Tracks(db, c)
  BY DEF PaidInv
<1>3. UseTxLogs \/ (NoneListed /\ NoneListed' /\ PaidWithin(db))
  BY <1>1, NoneListedStep DEF PaidInv
<1>4. \A c \in Chains : Len(chain[c].balances) \in Nat /\ chain[c].transfers \in Seq(Transfer)
  <2>1. \A c \in Chains : chain[c].balances \in Seq(Nat) /\ chain[c].transfers \in Seq(Transfer)
    BY <1>1 DEF ChainType
  <2> QED BY <2>1
<1>5. CASE UNCHANGED <<db, phase>> /\ Extends
  <2>1. ChainsGrow'
    BY <1>5 DEF Extends, ChainsGrow
  <2>2. ASSUME NEW c \in Chains
        PROVE  /\ Tracks(db, c)'
               /\ Credited(chain'[c].transfers, db.height[c])
                    = Credited(chain[c].transfers, db.height[c])
    <3>1. db.height[c] \in 0..Len(chain[c].balances)
          /\ (db.base[c] => db.height[c] \in 1..Len(chain[c].balances))
      BY <1>2, <1>4 DEF Tracks
    <3>2. db.height[c] \in 0..Len(chain'[c].balances)
      BY <1>4, <1>5, <3>1 DEF Extends
    <3>3. db.base[c] => chain'[c].balances[db.height[c]] = chain[c].balances[db.height[c]]
      BY <1>5, <3>1 DEF Extends
    <3>4. Tracks(db, c)'
      BY <1>2, <1>5, <3>2, <3>3 DEF Tracks
    <3> QED BY <1>5, <3>1, <3>4 DEF Extends
  <2>3. PaidWithin(db) => PaidWithin(db)'
    BY <1>5, <2>2 DEF PaidWithin, Chains, SuspenseTotal, LotAmounts
  <2> QED BY <1>1, <1>3, <2>1, <2>2, <2>3 DEF PaidInv
<1>6. CASE UNCHANGED chain
  <2>1. ChainsGrow'
    BY <1>1, <1>6 DEF ChainsGrow
  <2>2. ASSUME db'.height = db.height, db'.base = db.base, db'.balance = db.balance
        PROVE  \A c \in Chains : Tracks(db, c)'
    BY <1>2, <1>6, <2>2 DEF Tracks
  <2>3. ASSUME \A c \in Chains : Tracks(db, c)',
               UseTxLogs \/ db'.auto + SuspenseTotal(db'.lots)
                              <= Credited(chain["eth"].transfers, db'.height["eth"])
                                   + Credited(chain["sol"].transfers, db'.height["sol"])
        PROVE  PaidInv'
    <3>1. UseTxLogs \/ PaidWithin(db)'
      BY <1>6, <2>3 DEF PaidWithin, SuspenseTotal, LotAmounts
    <3> QED BY <1>1, <1>3, <2>1, <2>3, <3>1 DEF PaidInv
  <2>4. ASSUME SameReads(db, db'),
               UseTxLogs \/ db'.auto + SuspenseTotal(db'.lots)
                              <= db.auto + SuspenseTotal(db.lots)
        PROVE  PaidInv'
    <3>1. db'.height = db.height /\ \A c \in Chains : Tracks(db, c)'
      BY <2>2, <2>4 DEF SameReads
    <3>2. /\ SuspenseTotal(db.lots) \in Nat /\ SuspenseTotal(db'.lots) \in Nat
          /\ db.auto \in Nat /\ db'.auto \in Nat
          /\ Credited(chain["eth"].transfers, db.height["eth"]) \in Nat
          /\ Credited(chain["sol"].transfers, db.height["sol"]) \in Nat
      BY <1>1, <1>4, SuspenseNat, CreditTypes DEF DB, Chains
    <3> DEFINE within(S) == S.auto + SuspenseTotal(S.lots)
               limit == Credited(chain["eth"].transfers, db.height["eth"])
                          + Credited(chain["sol"].transfers, db.height["sol"])
    <3>3. within(db) \in Nat /\ within(db') \in Nat /\ limit \in Nat
      BY <3>2
    <3>4. UseTxLogs \/ (within(db) <= limit /\ within(db') <= within(db))
      BY <1>3, <2>4 DEF PaidWithin
    <3> HIDE DEF within, limit
    <3>5. UseTxLogs \/ within(db') <= limit
      BY <3>3, <3>4
    <3> QED BY <2>3, <3>1, <3>5 DEF within, limit
  <2>5. ASSUME NEW T, T = db', Unwatched(db, T) PROVE PaidInv'
    <3>1. T.auto = db.auto /\ T.lots = db.lots /\ SameReads(db, T)
      BY <2>5 DEF Unwatched
    <3>2. SuspenseTotal(db.lots) \in Nat /\ db.auto \in Nat
      BY <1>1, SuspenseNat DEF DB
    <3>3. T.auto + SuspenseTotal(T.lots) <= db.auto + SuspenseTotal(db.lots)
      BY <3>1, <3>2
    <3> QED BY <2>4, <2>5, <3>1, <3>3
  <2>6. ASSUME NEW j \in Jobs, db.invoice[j].status \in {"none", "void"}, db' = Issue(db, j) PROVE PaidInv'
    BY <1>1, <2>5, <2>6, IssueBills DEF Priced
  <2>7. ASSUME NEW j \in Open(db), db' = Void(db, j) PROVE PaidInv'
    BY <1>1, <2>5, <2>7, VoidWritesOff
  <2>8. ASSUME Settling PROVE PaidInv'
    <3>1. SameReads(db, db')
      BY <2>8 DEF Settling, Settles
    <3>2. UseTxLogs \/ (db'.auto = db.auto /\ SuspenseTotal(db'.lots) <= SuspenseTotal(db.lots))
      BY <1>3, <2>8 DEF Settling, NoneListed
    <3>3. /\ SuspenseTotal(db.lots) \in Nat /\ SuspenseTotal(db'.lots) \in Nat /\ db.auto \in Nat
      BY <1>1, SuspenseNat DEF DB
    <3>4. UseTxLogs \/ db'.auto + SuspenseTotal(db'.lots) <= db.auto + SuspenseTotal(db.lots)
      BY <3>2, <3>3
    <3> QED BY <2>4, <3>1, <3>4
  <2>9. ASSUME NEW at, Reading(at) PROVE PaidInv'
    <3>1. /\ db'.auto + SuspenseTotal(db'.lots)
               <= db.auto + SuspenseTotal(db.lots)
                    + Added(db, "eth", at["eth"]) + Added(db, "sol", at["sol"])
          /\ \A c \in Chains :
               /\ db'.height[c]  = IF IsFresh(db, c, at[c]) THEN at[c] ELSE db.height[c]
               /\ db'.balance[c] = IF IsFresh(db, c, at[c]) THEN chain[c].balances[at[c]]
                                                            ELSE db.balance[c]
               /\ db'.base[c] = (db.base[c] \/ IsFresh(db, c, at[c]))
      BY <1>1, <2>9, ApplyReads DEF Reading
    <3>2. ASSUME NEW c \in Chains
          PROVE  /\ Tracks(db, c)'
                 /\ Added(db, c, at[c]) <= Credited(chain[c].transfers, db'.height[c])
                                             - Credited(chain[c].transfers, db.height[c])
                 /\ Added(db, c, at[c]) \in Nat
                 /\ Credited(chain[c].transfers, db'.height[c]) \in Nat
                 /\ Credited(chain[c].transfers, db.height[c]) \in Nat
      <4>1. at[c] \in 0..Len(chain[c].balances)
        BY <2>9 DEF Reading, ReadAt
      <4>2. Tracks(db, c)'
        BY <1>2, <1>6, <3>1, <4>1 DEF Tracks, IsFresh
      <4> QED BY <1>1, <1>2, <3>1, <4>1, <4>2, AddedIsCredited
    <3>3. UseTxLogs \/ db'.auto + SuspenseTotal(db'.lots)
                         <= Credited(chain["eth"].transfers, db'.height["eth"])
                              + Credited(chain["sol"].transfers, db'.height["sol"])
      <4> DEFINE old == db.auto + SuspenseTotal(db.lots)
                 new == db'.auto + SuspenseTotal(db'.lots)
                 ae == Added(db, "eth", at["eth"])
                 as == Added(db, "sol", at["sol"])
                 pe == Credited(chain["eth"].transfers, db.height["eth"])
                 ps == Credited(chain["sol"].transfers, db.height["sol"])
                 ne == Credited(chain["eth"].transfers, db'.height["eth"])
                 ns == Credited(chain["sol"].transfers, db'.height["sol"])
      <4>1. old \in Nat /\ new \in Nat
        <5>1. /\ SuspenseTotal(db.lots) \in Nat /\ SuspenseTotal(db'.lots) \in Nat
              /\ db.auto \in Nat /\ db'.auto \in Nat
          BY <1>1, SuspenseNat DEF DB
        <5> QED BY <5>1
      <4>2. /\ ae \in Nat /\ as \in Nat /\ pe \in Nat /\ ps \in Nat /\ ne \in Nat /\ ns \in Nat
            /\ ae <= ne - pe /\ as <= ns - ps
        BY <3>2 DEF Chains
      <4>3. new <= old + ae + as /\ (UseTxLogs \/ old <= pe + ps)
        BY <1>3, <3>1 DEF PaidWithin
      <4> HIDE DEF old, new, ae, as, pe, ps, ne, ns
      <4>4. old <= pe + ps => new <= ne + ns
        <5>1. \A a, b, p, q, m, n \in Nat :
                a <= m - p /\ b <= n - q => a + p <= m /\ b + q <= n
          OBVIOUS
        <5>2. ae + pe <= ne /\ as + ps <= ns
          BY <4>2, <5>1
        <5>3. new <= old + ae + as
          BY <4>3
        <5>4. SUFFICES ASSUME old <= pe + ps PROVE new <= ne + ns
          OBVIOUS
        <5>5. /\ ae \in Nat /\ as \in Nat /\ pe \in Nat /\ ps \in Nat
              /\ ne \in Nat /\ ns \in Nat /\ old \in Nat /\ new \in Nat
          BY <4>1, <4>2
        <5>6. \A a, b, o, p, q, w \in Nat :
                o <= p + q /\ w <= o + a + b => w <= (a + p) + (b + q)
          OBVIOUS
        <5>7. new <= (ae + pe) + (as + ps)
          BY <5>3, <5>4, <5>5, <5>6
        <5>8. \A i, k, m, n, w \in Nat : i <= m /\ k <= n /\ w <= i + k => w <= m + n
          OBVIOUS
        <5>9. ae + pe \in Nat /\ as + ps \in Nat
          <6>1. \A x, y \in Nat : x + y \in Nat
            OBVIOUS
          <6> QED BY <5>5, <6>1
        <5> QED BY <5>2, <5>5, <5>7, <5>8, <5>9
      <4>5. UseTxLogs \/ new <= ne + ns
        BY <4>3, <4>4
      <4> QED BY <4>5 DEF new, ne, ns
    <3> QED BY <2>3, <3>2, <3>3
  <2>10. ASSUME db' = db PROVE PaidInv'
    <3>1. Unwatched(db, db')
      BY <2>10 DEF Unwatched, SameReads
    <3> QED BY <2>5, <3>1
  <2> QED BY <1>1, <2>6, <2>7, <2>8, <2>9, <2>10, StepKinds DEF StepKind
<1> QED BY <1>1, <1>5, <1>6, ChainSteps

(* In every state of every behaviour the last reads are of blocks the      *)
(* chains have, and what pays by balance was credited by them.             *)
THEOREM PaidInvariant == Spec => []PaidInv
<1>1. PaidInv /\ [Next]_vars => PaidInv'
  BY PaidStep
<1> QED BY InitPaid, <1>1, PTL DEF Spec

(* While payments are settled by balance alone, the invoices the watch     *)
(* settles from the chains never add up to more than clients transferred   *)
(* there, whatever the order in which workers read and apply the balances, *)
(* and whatever the owner withdraws.                                       *)
THEOREM BalancesPayWhatCame == ~UseTxLogs /\ Spec => []ChainPaymentsBacked
<1> DEFINE H == ~UseTxLogs
<1>1. PaidInv /\ H => ChainPaymentsBacked
  <2> SUFFICES ASSUME PaidInv, ~UseTxLogs PROVE ChainPaymentsBacked
    OBVIOUS
  <2>1. db \in DB /\ ChainType /\ PaidWithin(db)
    BY DEF PaidInv, FundsInv, IInv, TypeOK, ChainType
  <2> DEFINE total(c) == SumTo(AmountsOf(chain[c].transfers), Len(chain[c].transfers))
             paid(c)  == Credited(chain[c].transfers, db.height[c])
             waits    == SuspenseTotal(db.lots)
  <2>2. waits \in Nat /\ db.auto \in Nat
    BY <2>1, SuspenseNat DEF DB
  <2>3. ASSUME NEW c \in Chains
        PROVE  paid(c) \in Nat /\ total(c) \in Nat /\ paid(c) <= total(c)
    <3>1. chain[c].transfers \in Seq(Transfer) /\ db.height[c] \in Nat
      BY <2>1 DEF ChainType, DB
    <3>2. paid(c) \in Nat /\ total(c) \in Nat
      BY <3>1, CreditTypes
    <3>3. db.height[c] <= db.height[c]
      BY <3>1
    <3>4. paid(c) <= total(c)
      BY <3>1, <3>3, CreditedGrows
    <3> QED BY <3>2, <3>4
  <2>4. db.auto + waits <= paid("eth") + paid("sol")
    BY <2>1 DEF PaidWithin
  <2>5. Received = total("eth") + total("sol")
    BY DEF Received, AmountsOf
  <2> HIDE DEF total, paid, waits
  <2>6. db.auto <= total("eth") + total("sol")
    BY <2>2, <2>3, <2>4 DEF Chains
  <2> QED BY <2>5, <2>6 DEF ChainPaymentsBacked
<1> QED
  <2>1. CASE H
    BY <1>1, <2>1, PaidInvariant, PTL
  <2>2. CASE ~H
    BY <2>2
  <2> QED BY <2>1, <2>2
=============================================================================
