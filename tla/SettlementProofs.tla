-------------------------- MODULE SettlementProofs --------------------------
(***************************************************************************)
(* Theorems about Settlement for any number of jobs, workers, blocks and   *)
(* payments, any lookback and any reliability of the nodes.                *)
(*                                                                         *)
(* The inductive invariant is Sane(db) next to TypeOK.  What the books,    *)
(* counters, open amounts and txid rows say is not inductive on its own:   *)
(* that a row of chain_txids names an invoice already paid from the chain  *)
(* (TxidsPay) is what keeps a later step from paying it.  The operations   *)
(* that loop (over suspense lots, over listed transfers) are folds of a    *)
(* step, so each invariant is proved of the step and carried over the loop *)
(* by MatchChainKeeps and SettleTransfersKeep.                             *)
(***************************************************************************)
EXTENDS Settlement, SumsProofs, FiniteSetTheorems, SequenceTheorems

-----------------------------------------------------------------------------
(* Facts about the operations of Invoices.  They need only the invoice     *)
(* fields of the database record to be typed.                              *)

(* Two different offers of the quote plus some cents differ.               *)
LEMMA OffersDiffer ==
  ASSUME NEW a \in Nat, NEW b \in Nat, a < b, NEW q \in Nat
  PROVE  q + a * Cent < q + b * Cent
<1>1. Cent \in Nat /\ Cent > 0
  BY InvoicesAssumption
<1>2. PICK d \in Nat : b = a + d /\ d > 0
  <2>1. b - a \in Nat /\ b = a + (b - a) /\ b - a > 0
    OBVIOUS
  <2> QED BY <2>1
<1>3. b * Cent = a * Cent + d * Cent
  BY <1>1, <1>2
<1>4. d * Cent > 0 /\ d * Cent \in Nat /\ a * Cent \in Nat /\ b * Cent \in Nat
  BY <1>1, <1>2
<1> QED BY <1>3, <1>4

(* The loop of _unique_open_amount ends within one step per open invoice:  *)
(* it returns an amount no open invoice has.                               *)
LEMMA UniqueOpenAmountFree ==
  ASSUME NEW S, NEW quoted \in Nat, \A j \in Jobs : S.invoice[j].amount \in Nat
  PROVE  /\ UniqueOpenAmount(S, quoted) \in Nat
         /\ UniqueOpenAmount(S, quoted) >= quoted
         /\ \A j \in Open(S) : S.invoice[j].amount # UniqueOpenAmount(S, quoted)
<1> DEFINE used     == {S.invoice[j].amount : j \in Open(S)}
           Free(k)  == quoted + k * Cent \notin used
           Least(k) == Free(k) /\ \A i \in 0..(k - 1) : quoted + i * Cent \in used
           K        == {k \in 0..NumJobs : Free(k)}
<1>1. NumJobs \in Nat /\ Cent \in Nat
  BY InvoicesAssumption
<1>2. K # {}
  <2>1. SUFFICES ASSUME \A k \in 0..NumJobs : quoted + k * Cent \in used PROVE FALSE
    OBVIOUS
  <2> DEFINE user == [k \in 0..NumJobs |-> CHOOSE j \in Open(S) : S.invoice[j].amount = quoted + k * Cent]
  <2>2. ASSUME NEW k \in 0..NumJobs
        PROVE  user[k] \in Open(S) /\ S.invoice[user[k]].amount = quoted + k * Cent
    <3>1. \E j \in Open(S) : S.invoice[j].amount = quoted + k * Cent
      BY <2>1
    <3> QED BY <3>1
  <2>3. IsFiniteSet(0..NumJobs) /\ Cardinality(0..NumJobs) = NumJobs + 1
    BY <1>1, FS_Interval
  <2>4. IsFiniteSet(1..NumJobs) /\ Cardinality(1..NumJobs) = NumJobs
    BY <1>1, FS_Interval
  <2>5. user \in [0..NumJobs -> 1..NumJobs]
    BY <2>2 DEF Open, Jobs
  <2> HIDE DEF user
  <2>6. PICK x \in 0..NumJobs, y \in 0..NumJobs : x # y /\ user[x] = user[y]
    BY <1>1, <2>3, <2>4, <2>5, FS_PigeonHole
  <2>7. quoted + x * Cent = quoted + y * Cent
    BY <2>2, <2>6
  <2>8. x < y \/ y < x
    BY <2>6, <1>1
  <2>9. quoted + x * Cent \in Nat /\ quoted + y * Cent \in Nat /\ x \in Nat /\ y \in Nat
    BY <1>1
  <2>10. CASE x < y
    <3>1. quoted + x * Cent < quoted + y * Cent
      BY <2>9, <2>10, OffersDiffer
    <3> QED BY <3>1, <2>7, <2>9
  <2>11. CASE y < x
    <3>1. quoted + y * Cent < quoted + x * Cent
      BY <2>9, <2>11, OffersDiffer
    <3> QED BY <3>1, <2>7, <2>9
  <2> QED BY <2>8, <2>10, <2>11
<1>3. \E k \in 0..NumJobs : Least(k)
  <2>1. K \subseteq Nat
    BY <1>1
  <2>2. PICK k \in K : \A y \in K : ~ (<<y, k>> \in LessThan)
    <3> HIDE DEF K
    <3> QED BY <1>2, <2>1, LessThanWellFounded, WFMin
  <2>3. ASSUME NEW i \in 0..(k - 1) PROVE quoted + i * Cent \in used
    <3>1. i \in 0..NumJobs /\ <<i, k>> \in LessThan
      BY <1>1 DEF LessThan
    <3> QED BY <2>2, <3>1
  <2> QED BY <2>2, <2>3
<1> DEFINE cents == CHOOSE k \in 0..NumJobs : Least(k)
<1>4. cents \in 0..NumJobs /\ Least(cents)
  <2> HIDE DEF Least
  <2> QED BY <1>3
<1>5. UniqueOpenAmount(S, quoted) = quoted + cents * Cent
  BY DEF UniqueOpenAmount
<1> HIDE DEF cents
<1>6. cents * Cent \in Nat
  BY <1>1, <1>4
<1>7. quoted + cents * Cent \notin used
  BY <1>4
<1> QED BY <1>5, <1>6, <1>7

(* Every total is a natural number.                                        *)
LEMMA TotalsAreNat ==
  ASSUME NEW S, S.invoice \in [Jobs -> Invoice]
  PROVE  /\ InvoiceTotal(OpenAmount(S)) \in Nat
         /\ InvoiceTotal(PaidAmount(S)) \in Nat
         /\ \A source \in Sources : InvoiceTotal(PaidVia(S, source)) \in Nat
<1>1. NumJobs \in Nat
  BY InvoicesAssumption
<1>2. \A j \in Jobs : S.invoice[j].amount \in Nat
  BY DEF Invoice
<1>3. \A i \in 1..NumJobs : OpenAmount(S)[i] \in Nat /\ PaidAmount(S)[i] \in Nat
  BY <1>2 DEF OpenAmount, PaidAmount, Jobs
<1>4. ASSUME NEW source \in Sources PROVE InvoiceTotal(PaidVia(S, source)) \in Nat
  <2>1. \A i \in 1..NumJobs : PaidVia(S, source)[i] \in Nat
    BY <1>2 DEF PaidVia, Jobs
  <2> QED BY <1>1, <2>1, SumToNat DEF InvoiceTotal
<1> QED BY <1>1, <1>3, <1>4, SumToNat DEF InvoiceTotal

(* When one invoice changes, the totals change by what that invoice adds.  *)
LEMMA TotalsChange ==
  ASSUME NEW S, NEW T, NEW j \in Jobs,
         S.invoice \in [Jobs -> Invoice], T.invoice \in [Jobs -> Invoice],
         \A i \in Jobs : i # j => T.invoice[i] = S.invoice[i]
  PROVE  /\ InvoiceTotal(OpenAmount(T))
              = InvoiceTotal(OpenAmount(S)) + OpenAmount(T)[j] - OpenAmount(S)[j]
         /\ InvoiceTotal(PaidAmount(T))
              = InvoiceTotal(PaidAmount(S)) + PaidAmount(T)[j] - PaidAmount(S)[j]
         /\ \A source \in Sources :
              InvoiceTotal(PaidVia(T, source))
                = InvoiceTotal(PaidVia(S, source)) + PaidVia(T, source)[j] - PaidVia(S, source)[j]
<1>1. NumJobs \in Nat /\ j \in 1..NumJobs
  BY InvoicesAssumption DEF Jobs
<1>2. \A i \in Jobs : S.invoice[i].amount \in Nat /\ T.invoice[i].amount \in Nat
  BY DEF Invoice
<1>3. InvoiceTotal(OpenAmount(T))
        = InvoiceTotal(OpenAmount(S)) + OpenAmount(T)[j] - OpenAmount(S)[j]
  <2>1. Summable(OpenAmount(S), NumJobs) /\ Summable(OpenAmount(T), NumJobs)
    BY <1>2 DEF Summable, OpenAmount, Jobs
  <2>2. \A i \in 1..NumJobs : i # j => OpenAmount(T)[i] = OpenAmount(S)[i]
    BY DEF OpenAmount, Jobs
  <2>3. SumTo(OpenAmount(T), NumJobs)
          = SumTo(OpenAmount(S), NumJobs) + (OpenAmount(T)[j] - OpenAmount(S)[j])
    BY <1>1, <2>1, <2>2, SumToUpdate
  <2>4. SumTo(OpenAmount(S), NumJobs) \in Int
    BY <1>1, <2>1, SumToInt
  <2> QED BY <1>1, <2>1, <2>3, <2>4 DEF InvoiceTotal, Summable
<1>4. InvoiceTotal(PaidAmount(T))
        = InvoiceTotal(PaidAmount(S)) + PaidAmount(T)[j] - PaidAmount(S)[j]
  <2>1. Summable(PaidAmount(S), NumJobs) /\ Summable(PaidAmount(T), NumJobs)
    BY <1>2 DEF Summable, PaidAmount, Jobs
  <2>2. \A i \in 1..NumJobs : i # j => PaidAmount(T)[i] = PaidAmount(S)[i]
    BY DEF PaidAmount, Jobs
  <2>3. SumTo(PaidAmount(T), NumJobs)
          = SumTo(PaidAmount(S), NumJobs) + (PaidAmount(T)[j] - PaidAmount(S)[j])
    BY <1>1, <2>1, <2>2, SumToUpdate
  <2>4. SumTo(PaidAmount(S), NumJobs) \in Int
    BY <1>1, <2>1, SumToInt
  <2> QED BY <1>1, <2>1, <2>3, <2>4 DEF InvoiceTotal, Summable
<1>5. ASSUME NEW source \in Sources
      PROVE  InvoiceTotal(PaidVia(T, source))
               = InvoiceTotal(PaidVia(S, source)) + PaidVia(T, source)[j] - PaidVia(S, source)[j]
  <2> DEFINE f == PaidVia(S, source)
             h == PaidVia(T, source)
  <2>1. Summable(f, NumJobs) /\ Summable(h, NumJobs)
    BY <1>2 DEF Summable, PaidVia, Jobs
  <2>2. \A i \in 1..NumJobs : i # j => h[i] = f[i]
    BY DEF PaidVia, Jobs
  <2> HIDE DEF f, h
  <2>3. SumTo(h, NumJobs) = SumTo(f, NumJobs) + (h[j] - f[j])
    BY <1>1, <2>1, <2>2, SumToUpdate
  <2>4. SumTo(f, NumJobs) \in Int
    BY <1>1, <2>1, SumToInt
  <2>5. InvoiceTotal(h) = InvoiceTotal(f) + h[j] - f[j]
    BY <1>1, <2>1, <2>3, <2>4 DEF InvoiceTotal, Summable
  <2> QED BY <2>5 DEF f, h
<1> QED BY <1>3, <1>4, <1>5

-----------------------------------------------------------------------------
(* The invariant of a database.                                            *)


BooksFollow(S) ==
  /\ S.books["receivable"] = InvoiceTotal(OpenAmount(S))
  /\ S.books["unearned"]   = -InvoiceTotal(OpenAmount(S))
  /\ S.books["usdc"]       = InvoiceTotal(PaidAmount(S))
  /\ S.books["income"]     = -InvoiceTotal(PaidAmount(S))
CountersFollow(S) ==
  /\ S.auto   = InvoiceTotal(PaidVia(S, "chain"))
  /\ S.manual = InvoiceTotal(PaidVia(S, "manual"))
DistinctOpen(S) ==
  \A j, k \in Open(S) : S.invoice[j].amount = S.invoice[k].amount => j = k
TxidsPay(S) ==
  \A r, s \in S.txids :
    /\ r.chain = s.chain /\ r.txid = s.txid => r = s
    /\ r.invoice # NoJob =>
         /\ r.invoice = s.invoice => r = s
         /\ S.invoice[r.invoice].status = "paid"
         /\ S.invoice[r.invoice].source = "chain"

Sane(S) ==
  S \in DB /\ BooksFollow(S) /\ CountersFollow(S) /\ DistinctOpen(S)
    /\ TxidsPay(S)

(* T is S after a step that bills nothing: settled invoices stay as they   *)
(* are, and open ones keep their amount.                                   *)
Settled(S, T) ==
  \A j \in Jobs :
    /\ S.invoice[j].status \in {"paid", "void"} => T.invoice[j] = S.invoice[j]
    /\ S.invoice[j].status = "open" =>
         /\ T.invoice[j].amount = S.invoice[j].amount
         /\ T.invoice[j].status \in {"open", "paid", "void"}

(* What SettledForGood says of a step from S to T.                         *)
Kept(S, T) ==
  \A j \in Jobs :
    LET was == S.invoice[j]  is == T.invoice[j] IN
    /\ was.status = "paid" => is = was
    /\ was.status = "open" => is.amount = was.amount
    /\ was.status = "void" => is = was \/ (is.status = "open" /\ is.source = "none")

-----------------------------------------------------------------------------
(* Loops.                                                                  *)

(* What every match of a lot keeps, matching a whole chain keeps.          *)
LEMMA MatchChainKeeps ==
  ASSUME NEW P, NEW S \in P, NEW c, Len(S.lots) \in Nat,
         \A T \in P : \A i \in 1..Len(S.lots) : MatchLot(T, c, i) \in P
  PROVE  MatchChain(S, c) \in P
<1> DEFINE n == Len(S.lots)
           g == [i \in 1..n |-> [T \in P |-> MatchLot(T, c, i)]]
           Is(m) == m = [i \in 0..n |-> IF i = 0 THEN S ELSE MatchLot(m[i - 1], c, i)]
           matched == CHOOSE m : Is(m)
<1>1. g \in [1..n -> [P -> P]] /\ n \in Nat /\ S \in P
  OBVIOUS
<1>2. PICK s \in [0..n -> P] : FoldOf(S, g, n, s)
  <2> HIDE DEF g, n
  <2> QED BY <1>1, FoldExists
<1>3. ASSUME NEW i \in 1..n PROVE s[i] = MatchLot(s[i - 1], c, i)
  <2>1. i - 1 \in 0..n
    OBVIOUS
  <2>2. s[i - 1] \in P
    BY <2>1
  <2> QED BY <1>2, <2>2 DEF FoldOf
<1>4. Is(s)
  <2>1. ASSUME NEW i \in 0..n
        PROVE  s[i] = IF i = 0 THEN S ELSE MatchLot(s[i - 1], c, i)
    BY <1>2, <1>3 DEF FoldOf
  <2> QED BY <2>1
<1>5. Is(matched)
  <2> HIDE DEF Is
  <2> QED BY <1>4
<1> DEFINE Good == {i \in Nat : i \in 0..n => matched[i] \in P}
<1>6. 0 \in Good
  <2> HIDE DEF matched
  <2> QED BY <1>5
<1>7. ASSUME NEW i \in Nat, i \in Good PROVE i + 1 \in Good
  <2>1. SUFFICES ASSUME i + 1 \in 0..n PROVE matched[i + 1] \in P
    OBVIOUS
  <2>2. i + 1 # 0 /\ (i + 1) - 1 = i /\ i + 1 \in 1..n /\ i \in 0..n
    BY <2>1
  <2>3. matched[i + 1] = MatchLot(matched[i], c, i + 1)
    <3> HIDE DEF matched
    <3> QED BY <1>5, <2>1, <2>2
  <2>4. matched[i] \in P
    BY <1>7, <2>2
  <2> HIDE DEF matched
  <2> QED BY <2>2, <2>3, <2>4
<1>8. n \in Good
  <2>1. Nat \subseteq Good
    <3> HIDE DEF Good
    <3> QED BY <1>6, <1>7, NatSetInduction
  <2> QED BY <2>1
<1>9. MatchChain(S, c) = matched[n]
  BY DEF MatchChain
<1> HIDE DEF matched
<1> QED BY <1>8, <1>9

(* What settling any one transfer keeps, settling a listing keeps.         *)
LEMMA SettleTransfersKeep ==
  ASSUME NEW P, NEW S \in P, NEW ts \in Seq(Transfer),
         \A T \in P : \A t \in Transfer : SettleTransfer(T, t) \in P
  PROVE  SettleTransfers(S, ts) \in P
<1> DEFINE n == Len(ts)
           g == [i \in 1..n |-> [T \in P |-> SettleTransfer(T, ts[i])]]
           Is(m) == m = [i \in 0..n |-> IF i = 0 THEN S ELSE SettleTransfer(m[i - 1], ts[i])]
           settled == CHOOSE m : Is(m)
<1>1. g \in [1..n -> [P -> P]] /\ n \in Nat /\ S \in P
  OBVIOUS
<1>2. PICK s \in [0..n -> P] : FoldOf(S, g, n, s)
  <2> HIDE DEF g, n
  <2> QED BY <1>1, FoldExists
<1>3. ASSUME NEW i \in 1..n PROVE s[i] = SettleTransfer(s[i - 1], ts[i])
  <2>1. s[i - 1] \in P
    OBVIOUS
  <2> QED BY <1>2, <2>1 DEF FoldOf
<1>4. Is(s)
  <2>1. ASSUME NEW i \in 0..n
        PROVE  s[i] = IF i = 0 THEN S ELSE SettleTransfer(s[i - 1], ts[i])
    BY <1>2, <1>3 DEF FoldOf
  <2> QED BY <2>1
<1>5. Is(settled)
  <2> HIDE DEF Is
  <2> QED BY <1>4
<1> DEFINE Good == {i \in Nat : i \in 0..n => settled[i] \in P}
<1>6. 0 \in Good
  <2> HIDE DEF settled
  <2> QED BY <1>5
<1>7. ASSUME NEW i \in Nat, i \in Good PROVE i + 1 \in Good
  <2>1. SUFFICES ASSUME i + 1 \in 0..n PROVE settled[i + 1] \in P
    OBVIOUS
  <2>2. i + 1 # 0 /\ (i + 1) - 1 = i /\ i + 1 \in 1..n /\ i \in 0..n
    BY <2>1
  <2>3. settled[i + 1] = SettleTransfer(settled[i], ts[i + 1])
    <3> HIDE DEF settled
    <3> QED BY <1>5, <2>1, <2>2
  <2>4. settled[i] \in P /\ ts[i + 1] \in Transfer
    BY <1>7, <2>2
  <2> HIDE DEF settled
  <2> QED BY <2>3, <2>4
<1>8. n \in Good
  <2>1. Nat \subseteq Good
    <3> HIDE DEF Good
    <3> QED BY <1>6, <1>7, NatSetInduction
  <2> QED BY <2>1
<1>9. SettleTransfers(S, ts) = settled[n]
  BY DEF SettleTransfers
<1> HIDE DEF settled
<1> QED BY <1>1, <1>8, <1>9

-----------------------------------------------------------------------------
(* Paying an invoice.                                                      *)

(* T is S after collect() of the open invoice j, in the fields it writes.  *)
Pays(S, T, j, source) ==
  LET amount == S.invoice[j].amount IN
  /\ T.invoice = [S.invoice EXCEPT ![j] = [status |-> "paid", amount |-> amount, source |-> source]]
  /\ T.books = Post(Post(S.books, "usdc", "receivable", amount), "unearned", "income", amount)
(* The fields collect() leaves alone.                                      *)
Watched(S) == <<S.price, S.base, S.balance, S.height, S.lots, S.reserved, S.manual, S.auto, S.txids>>

(* Posting moves an amount between two different accounts.                 *)
LEMMA PostType ==
  ASSUME NEW books \in [Accounts -> Int], NEW amount \in Int, NEW d, NEW c
  PROVE  Post(books, d, c, amount) \in [Accounts -> Int]
BY DEF Post

(* What one posting adds to an account.                                    *)
LEMMA PostValue ==
  ASSUME NEW books \in [Accounts -> Int], NEW amount \in Int, NEW d, NEW c, NEW a \in Accounts
  PROVE  Post(books, d, c, amount)[a] =
           books[a] + (IF a = d THEN amount ELSE 0) - (IF a = c THEN amount ELSE 0)
BY DEF Post

(* The two postings of collect(), account by account.                      *)
LEMMA CollectPostings ==
  ASSUME NEW books \in [Accounts -> Int], NEW amount \in Int
  PROVE  LET after == Post(Post(books, "usdc", "receivable", amount), "unearned", "income", amount)
         IN  /\ after["usdc"] = books["usdc"] + amount
             /\ after["receivable"] = books["receivable"] - amount
             /\ after["unearned"] = books["unearned"] + amount
             /\ after["income"] = books["income"] - amount
<1> DEFINE cash  == Post(books, "usdc", "receivable", amount)
           after == Post(cash, "unearned", "income", amount)
<1>1. cash \in [Accounts -> Int]
  BY PostType
<1>2. \A a \in Accounts :
        cash[a] = books[a] + (IF a = "usdc" THEN amount ELSE 0) - (IF a = "receivable" THEN amount ELSE 0)
  BY PostValue
<1> HIDE DEF cash
<1>3. \A a \in Accounts :
        after[a] = cash[a] + (IF a = "unearned" THEN amount ELSE 0) - (IF a = "income" THEN amount ELSE 0)
  BY <1>1, PostValue
<1> HIDE DEF after
<1>4. \A a \in Accounts : books[a] \in Int
  OBVIOUS
<1> QED BY <1>2, <1>3, <1>4 DEF Accounts, after, cash

(* An open invoice is an invoice of a job.                                 *)
LEMMA OpenJobs == \A S : Open(S) \subseteq Jobs
BY DEF Open

(* collect() of an open invoice pays it and touches nothing else.          *)
LEMMA CollectPays ==
  ASSUME NEW S \in DB, NEW j \in Open(S), NEW source \in {"chain", "manual"}
  PROVE  /\ Collect(S, j, source) \in DB
         /\ Pays(S, Collect(S, j, source), j, source)
         /\ Watched(Collect(S, j, source)) = Watched(S)
<1> DEFINE amount == S.invoice[j].amount
           books  == Post(Post(S.books, "usdc", "receivable", amount), "unearned", "income", amount)
           inv    == [S.invoice EXCEPT ![j] = [status |-> "paid", amount |-> amount, source |-> source]]
<1>1. j \in Jobs /\ S.invoice[j].status = "open"
  BY DEF Open
<1>2. S.invoice[j] \in Invoice /\ amount \in Nat
  BY <1>1 DEF DB, Invoice
<1>3. books \in [Accounts -> Int]
  <2>1. S.books \in [Accounts -> Int] /\ amount \in Int
    BY <1>2 DEF DB
  <2> HIDE DEF amount
  <2>2. Post(S.books, "usdc", "receivable", amount) \in [Accounts -> Int]
    BY <2>1, PostType
  <2> QED BY <2>1, <2>2, PostType
<1>4. inv \in [Jobs -> Invoice]
  BY <1>1, <1>2 DEF DB, Invoice, Sources
<1>6. Collect(S, j, source) = [S EXCEPT !.invoice = inv, !.books = books]
  BY <1>1 DEF Collect
<1> HIDE DEF books, inv
<1>7. Collect(S, j, source) \in DB
  BY <1>3, <1>4, <1>6 DEF DB
<1>8. /\ Collect(S, j, source).invoice = inv
      /\ Collect(S, j, source).books = books
      /\ Watched(Collect(S, j, source)) = Watched(S)
  BY <1>6 DEF DB, Watched
<1> QED BY <1>7, <1>8 DEF Pays, books, inv

(* What a payment keeps of the invoice invariants, and what it adds to the *)
(* total paid by its source.                                               *)
LEMMA PaysKeeps ==
  ASSUME NEW S \in DB, NEW T \in DB, NEW j \in Open(S), NEW source \in {"chain", "manual"},
         Pays(S, T, j, source)
  PROVE  /\ BooksFollow(S) => BooksFollow(T)
         /\ DistinctOpen(S) => DistinctOpen(T)
         /\ Settled(S, T)
         /\ T.invoice[j].status = "paid" /\ T.invoice[j].source = source
         /\ \A via \in Sources :
              InvoiceTotal(PaidVia(T, via)) = InvoiceTotal(PaidVia(S, via))
                + (IF via = source THEN S.invoice[j].amount ELSE 0)
<1> DEFINE amount == S.invoice[j].amount
<1>1. j \in Jobs /\ S.invoice[j].status = "open" /\ S.invoice[j] \in Invoice /\ amount \in Nat
  BY DEF Open, DB, Invoice
<1>2. S.invoice \in [Jobs -> Invoice] /\ T.invoice \in [Jobs -> Invoice]
  BY DEF DB
<1>3. T.invoice[j] = [status |-> "paid", amount |-> amount, source |-> source]
  BY <1>1, <1>2 DEF Pays
<1>4. \A i \in Jobs : i # j => T.invoice[i] = S.invoice[i]
  BY <1>1, <1>2 DEF Pays
<1>5. OpenAmount(S)[j] = amount /\ OpenAmount(T)[j] = 0
  BY <1>1, <1>3 DEF OpenAmount
<1>6. PaidAmount(S)[j] = 0 /\ PaidAmount(T)[j] = amount
  BY <1>1, <1>3 DEF PaidAmount
<1>7. \A via \in Sources :
        PaidVia(S, via)[j] = 0 /\ PaidVia(T, via)[j] = IF via = source THEN amount ELSE 0
  BY <1>1, <1>3 DEF PaidVia
<1>8. /\ InvoiceTotal(OpenAmount(S)) \in Nat
      /\ InvoiceTotal(PaidAmount(S)) \in Nat
      /\ \A via \in Sources : InvoiceTotal(PaidVia(S, via)) \in Nat
  BY <1>2, TotalsAreNat
<1>9. /\ InvoiceTotal(OpenAmount(T)) = InvoiceTotal(OpenAmount(S)) - amount
      /\ InvoiceTotal(PaidAmount(T)) = InvoiceTotal(PaidAmount(S)) + amount
  <2>1. /\ InvoiceTotal(OpenAmount(T))
             = InvoiceTotal(OpenAmount(S)) + OpenAmount(T)[j] - OpenAmount(S)[j]
        /\ InvoiceTotal(PaidAmount(T))
             = InvoiceTotal(PaidAmount(S)) + PaidAmount(T)[j] - PaidAmount(S)[j]
    BY <1>1, <1>2, <1>4, TotalsChange
  <2> HIDE DEF amount
  <2> QED BY <1>1, <1>5, <1>6, <1>8, <2>1
<1>10. \A via \in Sources :
         InvoiceTotal(PaidVia(T, via))
           = InvoiceTotal(PaidVia(S, via)) + (IF via = source THEN amount ELSE 0)
  <2> SUFFICES ASSUME NEW via \in Sources
               PROVE  InvoiceTotal(PaidVia(T, via))
                        = InvoiceTotal(PaidVia(S, via)) + (IF via = source THEN amount ELSE 0)
    OBVIOUS
  <2>1. InvoiceTotal(PaidVia(T, via))
          = InvoiceTotal(PaidVia(S, via)) + PaidVia(T, via)[j] - PaidVia(S, via)[j]
    BY <1>1, <1>2, <1>4, TotalsChange
  <2>2. InvoiceTotal(PaidVia(S, via)) \in Nat
    BY <1>8
  <2>3. PaidVia(S, via)[j] = 0 /\ PaidVia(T, via)[j] = IF via = source THEN amount ELSE 0
    BY <1>7
  <2> HIDE DEF amount
  <2> QED BY <1>1, <2>1, <2>2, <2>3
<1>11. ASSUME BooksFollow(S) PROVE BooksFollow(T)
  <2>1. /\ T.books["usdc"] = S.books["usdc"] + amount
        /\ T.books["receivable"] = S.books["receivable"] - amount
        /\ T.books["unearned"] = S.books["unearned"] + amount
        /\ T.books["income"] = S.books["income"] - amount
    <3>1. T.books = Post(Post(S.books, "usdc", "receivable", amount), "unearned", "income", amount)
      BY DEF Pays
    <3>2. S.books \in [Accounts -> Int] /\ amount \in Int
      BY <1>1 DEF DB
    <3> HIDE DEF amount
    <3> QED BY <3>1, <3>2, CollectPostings
  <2> QED BY <1>1, <1>8, <1>9, <1>11, <2>1 DEF BooksFollow
<1>12. Open(T) = Open(S) \ {j}
  BY <1>1, <1>3, <1>4 DEF Open
<1>13. ASSUME DistinctOpen(S) PROVE DistinctOpen(T)
  BY <1>4, <1>12, <1>13, OpenJobs DEF DistinctOpen
<1>14. Settled(S, T)
  BY <1>1, <1>3, <1>4 DEF Settled
<1> QED BY <1>3, <1>10, <1>11, <1>13, <1>14

-----------------------------------------------------------------------------
(* What keeps a database sane.                                             *)

SameInvoices(S, T) ==
  /\ T.invoice = S.invoice /\ T.books = S.books
  /\ T.auto = S.auto /\ T.manual = S.manual /\ T.txids = S.txids

(* A step that touches no invoice, posting, counter or row.                *)
LEMMA SameInvoicesSane ==
  ASSUME NEW S, NEW T \in DB, Sane(S), SameInvoices(S, T)
  PROVE  Sane(T) /\ Settled(S, T)
<1>1. BooksFollow(T)
  BY DEF Sane, SameInvoices, BooksFollow, OpenAmount, PaidAmount
<1>2. CountersFollow(T)
  BY DEF Sane, SameInvoices, CountersFollow, PaidVia
<1>3. DistinctOpen(T) /\ TxidsPay(T)
  BY DEF Sane, SameInvoices, DistinctOpen, TxidsPay, Open
<1> QED BY <1>1, <1>2, <1>3 DEF Sane, Settled, SameInvoices

(* A new row leaves the rows distinct when its transaction had none.       *)
NewRow(S, T, row) ==
  /\ T.txids = S.txids \cup {row}
  /\ \A r \in S.txids : ~ (r.chain = row.chain /\ r.txid = row.txid)

(* A payment that is counted where it came from, with or without a row.    *)
LEMMA PaymentSane ==
  ASSUME NEW S, NEW T \in DB, Sane(S), NEW j \in Open(S), NEW source \in {"chain", "manual"},
         Pays(S, T, j, source),
         T.auto   = S.auto   + (IF source = "chain"  THEN S.invoice[j].amount ELSE 0),
         T.manual = S.manual + (IF source = "manual" THEN S.invoice[j].amount ELSE 0),
         \/ T.txids = S.txids
         \/ /\ source = "chain"
            /\ \E row \in TxRow : row.invoice = j /\ NewRow(S, T, row)
  PROVE  Sane(T) /\ Settled(S, T)
<1>1. S \in DB /\ BooksFollow(S) /\ CountersFollow(S) /\ DistinctOpen(S) /\ TxidsPay(S)
  BY DEF Sane
<1>2. /\ BooksFollow(T) /\ DistinctOpen(T) /\ Settled(S, T)
      /\ T.invoice[j].status = "paid" /\ T.invoice[j].source = source
      /\ \A via \in Sources :
           InvoiceTotal(PaidVia(T, via)) = InvoiceTotal(PaidVia(S, via))
             + (IF via = source THEN S.invoice[j].amount ELSE 0)
  BY <1>1, PaysKeeps
<1>3. CountersFollow(T)
  BY <1>1, <1>2 DEF CountersFollow, Sources
<1>4. j \in Jobs /\ S.invoice[j].status = "open"
  BY DEF Open
<1>5. \A r \in S.txids : r \in TxRow /\ (r.invoice # NoJob => r.invoice \in Jobs)
  BY <1>1 DEF DB, TxRow, NoJob
<1>6. \A r \in S.txids : r.invoice # NoJob =>
        /\ r.invoice # j
        /\ T.invoice[r.invoice].status = "paid" /\ T.invoice[r.invoice].source = "chain"
  BY <1>1, <1>2, <1>4, <1>5 DEF TxidsPay, Settled
<1>7. CASE T.txids = S.txids
  BY <1>1, <1>2, <1>3, <1>6, <1>7 DEF Sane, TxidsPay
<1>8. CASE source = "chain" /\ \E row \in TxRow : row.invoice = j /\ NewRow(S, T, row)
  <2>1. PICK row \in TxRow : row.invoice = j /\ NewRow(S, T, row)
    BY <1>8
  <2>2. SUFFICES ASSUME NEW r \in T.txids, NEW s \in T.txids
        PROVE  /\ r.chain = s.chain /\ r.txid = s.txid => r = s
               /\ r.invoice # NoJob =>
                    /\ r.invoice = s.invoice => r = s
                    /\ T.invoice[r.invoice].status = "paid"
                    /\ T.invoice[r.invoice].source = "chain"
    BY <1>2, <1>3 DEF Sane, TxidsPay
  <2>3. CASE r \in S.txids /\ s \in S.txids
    BY <1>1, <1>6, <2>3 DEF TxidsPay
  <2>4. CASE r = row /\ s \in S.txids
    BY <1>2, <1>4, <1>6, <1>8, <2>1, <2>4 DEF NewRow, Jobs, NoJob
  <2>5. CASE r \in S.txids /\ s = row
    BY <1>6, <2>1, <2>5 DEF NewRow
  <2>6. CASE r = row /\ s = row
    BY <1>2, <1>8, <2>1, <2>6
  <2> QED BY <2>1, <2>3, <2>4, <2>5, <2>6 DEF NewRow
<1> QED BY <1>7, <1>8

(* A transfer that pays nobody leaves a row without an invoice.            *)
LEMMA UnattributedSane ==
  ASSUME NEW S, NEW T \in DB, Sane(S), NEW row \in TxRow, row.invoice = NoJob,
         T.invoice = S.invoice, T.books = S.books,
         T.auto = S.auto, T.manual = S.manual, NewRow(S, T, row)
  PROVE  Sane(T) /\ Settled(S, T)
<1>1. BooksFollow(T)
  BY DEF Sane, BooksFollow, OpenAmount, PaidAmount
<1>2. CountersFollow(T)
  BY DEF Sane, CountersFollow, PaidVia
<1>3. DistinctOpen(T)
  BY DEF Sane, DistinctOpen, Open
<1>4. TxidsPay(T)
  BY DEF Sane, TxidsPay, NewRow
<1> QED BY <1>1, <1>2, <1>3, <1>4 DEF Sane, Settled

-----------------------------------------------------------------------------
(* Suspense.                                                               *)

(* What waits in suspense is never negative, in any prefix of the lots.    *)
LEMMA SuspenseNat ==
  ASSUME NEW lots \in Seq(Lot), NEW c
  PROVE  /\ Len(lots) \in Nat /\ DOMAIN lots = 1..Len(lots)
         /\ \A i \in 1..Len(lots) : lots[i] \in Lot /\ lots[i].amount \in Nat
                                      /\ ChainAmounts(lots, c)[i] \in Nat
         /\ \A i \in 0..Len(lots) : SumTo(ChainAmounts(lots, c), i) \in Nat
         /\ ChainSuspense(lots, c) \in Nat
         /\ SuspenseTotal(lots) \in Nat
<1>1. Len(lots) \in Nat /\ DOMAIN lots = 1..Len(lots)
  OBVIOUS
<1>2. \A i \in 1..Len(lots) : lots[i] \in Lot /\ lots[i].amount \in Nat
  <2>1. \A i \in 1..Len(lots) : lots[i] \in Lot
    OBVIOUS
  <2>2. \A lot \in Lot : lot.amount \in Nat
    BY DEF Lot
  <2> QED BY <2>1, <2>2
<1>3. \A i \in 1..Len(lots) : ChainAmounts(lots, c)[i] \in Nat /\ LotAmounts(lots)[i] \in Nat
  BY <1>1, <1>2 DEF ChainAmounts, LotAmounts
<1>4. SumTo(ChainAmounts(lots, c), Len(lots)) \in Nat
      /\ \A i \in 0..Len(lots) : SumTo(ChainAmounts(lots, c), i) \in Nat
  BY <1>1, <1>3, SumToNat
<1>5. SumTo(LotAmounts(lots), Len(lots)) \in Nat
  BY <1>1, <1>3, SumToNat
<1> QED BY <1>1, <1>2, <1>3, <1>4, <1>5 DEF ChainSuspense, SuspenseTotal

(* A lot gives no more than it holds.                                      *)
LEMMA TakeBounds ==
  ASSUME NEW lots \in Seq(Lot), NEW c, NEW i \in 1..Len(lots), NEW amount \in Int
  PROVE  Take(lots, c, i, amount) \in 0..lots[i].amount
<1>1. i - 1 \in 0..Len(lots) /\ Len(lots) \in Nat
  OBVIOUS
<1>2. SumTo(ChainAmounts(lots, c), i - 1) \in Nat
  BY <1>1, SuspenseNat
<1>3. ChainAmounts(lots, c)[i] \in 0..lots[i].amount /\ lots[i].amount \in Nat
  <2>1. lots[i].amount \in Nat /\ DOMAIN lots = 1..Len(lots)
    BY SuspenseNat
  <2> QED BY <2>1 DEF ChainAmounts
<1> QED BY <1>2, <1>3 DEF Take, Lesser, Greater

(* Consuming keeps the lots lots, and their number.                        *)
LEMMA ConsumeChainLots ==
  ASSUME NEW lots \in Seq(Lot), NEW c \in Chains, NEW amount \in Int
  PROVE  /\ ConsumeChain(lots, c, amount) \in Seq(Lot)
         /\ Len(ConsumeChain(lots, c, amount)) = Len(lots)
<1> DEFINE left(i) == lots[i].amount - Take(lots, c, i, amount)
           lot(i)  == IF lots[i].chain # c \/ amount = 0 THEN lots[i]
                      ELSE [chain |-> c, amount |-> left(i), tainted |-> left(i) > 0]
<1>1. Len(lots) \in Nat /\ DOMAIN lots = 1..Len(lots)
  OBVIOUS
<1>2. ASSUME NEW i \in 1..Len(lots) PROVE lot(i) \in Lot
  <2>1. lots[i] \in Lot /\ lots[i].amount \in Nat
    BY SuspenseNat
  <2>2. left(i) \in Nat
    BY <2>1, TakeBounds
  <2> HIDE DEF left
  <2> QED BY <2>1, <2>2 DEF Lot
<1>3. ConsumeChain(lots, c, amount) = [i \in 1..Len(lots) |-> lot(i)]
  BY <1>1 DEF ConsumeChain
<1> HIDE DEF lot
<1> QED BY <1>1, <1>2, <1>3, IsASeq

(* The same for both chains.                                               *)
LEMMA ConsumeAnyLots ==
  ASSUME NEW lots \in Seq(Lot), NEW amount \in Nat
  PROVE  /\ ConsumeAny(lots, amount) \in Seq(Lot)
         /\ Len(ConsumeAny(lots, amount)) = Len(lots)
<1> DEFINE rest == ConsumeChain(lots, "eth", amount)
           more == amount - Lesser(amount, ChainSuspense(lots, "eth"))
<1>1. rest \in Seq(Lot) /\ Len(rest) = Len(lots)
  BY ConsumeChainLots DEF Chains
<1>2. more \in Int
  <2>1. ChainSuspense(lots, "eth") \in Nat
    BY SuspenseNat
  <2> QED BY <2>1 DEF Lesser
<1>3. ConsumeAny(lots, amount) = ConsumeChain(rest, "sol", more)
  BY DEF ConsumeAny
<1> HIDE DEF rest, more
<1> QED BY <1>1, <1>2, <1>3, ConsumeChainLots DEF Chains

(* Reconciling touches the lots and the reservation only.                  *)
LEMMA ReconcileType ==
  ASSUME NEW S \in DB, NEW amount \in Nat
  PROVE  /\ Reconcile(S, amount) \in DB
         /\ SameInvoices(S, Reconcile(S, amount))
         /\ Reconcile(S, amount).price = S.price
<1> DEFINE lots == ConsumeAny(S.lots, amount)
           reserved == S.reserved + amount - Lesser(amount, SuspenseTotal(S.lots))
<1>1. S.lots \in Seq(Lot) /\ S.reserved \in Nat
  BY DEF DB
<1>2. lots \in Seq(Lot)
  BY <1>1, ConsumeAnyLots
<1>3. reserved \in Nat
  <2>1. SuspenseTotal(S.lots) \in Nat
    BY <1>1, SuspenseNat
  <2> QED BY <1>1, <2>1 DEF Lesser
<1>4. Reconcile(S, amount) = [S EXCEPT !.lots = lots, !.reserved = reserved]
  BY DEF Reconcile
<1> HIDE DEF lots, reserved
<1> QED BY <1>2, <1>3, <1>4 DEF DB, SameInvoices

-----------------------------------------------------------------------------
(* Every operation keeps the database sane and settled invoices settled.   *)

(* A set of one element has an element.                                    *)
LEMMA OnlyChoice ==
  ASSUME NEW fits, Cardinality(fits) = 1
  PROVE  (CHOOSE j \in fits : TRUE) \in fits
<1>1. fits # {}
  BY FS_EmptySet
<1> QED BY <1>1

(* issue() of a job that has no bill, or one that was written off.         *)
LEMMA BillSane ==
  ASSUME NEW S, Sane(S), NEW j \in Jobs, S.invoice[j].status \in {"none", "void"}
  PROVE  Sane(Issue(S, j)) /\ Kept(S, Issue(S, j))
<1> DEFINE amount == UniqueOpenAmount(S, S.price[j])
           bill   == [status |-> "open", amount |-> amount, source |-> "none"]
           inv    == [S.invoice EXCEPT ![j] = bill]
           books  == Post(S.books, "receivable", "unearned", amount)
           T      == [S EXCEPT !.invoice = inv, !.books = books]
<1>1. S \in DB /\ BooksFollow(S) /\ CountersFollow(S) /\ DistinctOpen(S) /\ TxidsPay(S)
  BY DEF Sane
<1>2. S.invoice[j].status \notin {"open", "paid"}
  OBVIOUS
<1>3. Issue(S, j) = T
  BY <1>2 DEF Issue
<1>4. amount \in Nat /\ \A i \in Open(S) : S.invoice[i].amount # amount
  <2>1. S.price[j] \in Nat /\ \A i \in Jobs : S.invoice[i].amount \in Nat
    BY <1>1 DEF DB, Invoice
  <2> QED BY <2>1, UniqueOpenAmountFree
<1> HIDE DEF amount
<1>5. inv \in [Jobs -> Invoice] /\ S.invoice \in [Jobs -> Invoice]
  BY <1>1, <1>4 DEF DB, Invoice, Sources
<1>7. books \in [Accounts -> Int]
  <2>1. S.books \in [Accounts -> Int] /\ amount \in Int
    BY <1>1, <1>4 DEF DB
  <2> QED BY <2>1, PostType
<1>8. /\ inv[j] = bill
      /\ \A i \in Jobs : i # j => inv[i] = S.invoice[i]
  BY <1>1 DEF DB
<1>9. /\ books["receivable"] = S.books["receivable"] + amount
      /\ books["unearned"] = S.books["unearned"] - amount
      /\ books["usdc"] = S.books["usdc"] /\ books["income"] = S.books["income"]
  <2>1. S.books \in [Accounts -> Int] /\ \A a \in Accounts : S.books[a] \in Int
    BY <1>1 DEF DB
  <2>2. \A a \in Accounts :
          books[a] = S.books[a] + (IF a = "receivable" THEN amount ELSE 0)
                                - (IF a = "unearned" THEN amount ELSE 0)
    BY <1>4, <2>1, PostValue
  <2> HIDE DEF books
  <2> QED BY <1>4, <2>1, <2>2 DEF Accounts
<1> HIDE DEF inv, books
<1>10. T \in DB
  BY <1>1, <1>5, <1>7 DEF DB
<1>11. /\ T.invoice = inv /\ T.books = books
       /\ T.auto = S.auto /\ T.manual = S.manual /\ T.txids = S.txids
  BY <1>1 DEF DB
<1> HIDE DEF T
<1>12. /\ OpenAmount(S)[j] = 0 /\ PaidAmount(S)[j] = 0
       /\ OpenAmount(T)[j] = amount /\ PaidAmount(T)[j] = 0
       /\ \A via \in Sources : PaidVia(S, via)[j] = 0 /\ PaidVia(T, via)[j] = 0
  BY <1>2, <1>8, <1>11 DEF OpenAmount, PaidAmount, PaidVia
<1>13. /\ InvoiceTotal(OpenAmount(S)) \in Nat /\ InvoiceTotal(PaidAmount(S)) \in Nat
       /\ \A via \in Sources : InvoiceTotal(PaidVia(S, via)) \in Nat
  BY <1>5, TotalsAreNat
<1>14. /\ InvoiceTotal(OpenAmount(T)) = InvoiceTotal(OpenAmount(S)) + OpenAmount(T)[j] - OpenAmount(S)[j]
       /\ InvoiceTotal(PaidAmount(T)) = InvoiceTotal(PaidAmount(S)) + PaidAmount(T)[j] - PaidAmount(S)[j]
       /\ \A via \in Sources :
            InvoiceTotal(PaidVia(T, via))
              = InvoiceTotal(PaidVia(S, via)) + PaidVia(T, via)[j] - PaidVia(S, via)[j]
  <2>1. T.invoice \in [Jobs -> Invoice] /\ \A i \in Jobs : i # j => T.invoice[i] = S.invoice[i]
    BY <1>5, <1>8, <1>11
  <2> QED BY <1>5, <2>1, TotalsChange
<1>15. BooksFollow(T)
  BY <1>1, <1>4, <1>9, <1>11, <1>12, <1>13, <1>14 DEF BooksFollow
<1>16. CountersFollow(T)
  BY <1>1, <1>11, <1>12, <1>13, <1>14 DEF CountersFollow, Sources
<1>17. DistinctOpen(T)
  <2>1. Open(T) = Open(S) \cup {j}
    BY <1>8, <1>11 DEF Open
  <2>2. \A i \in Open(S) : i # j /\ T.invoice[i] = S.invoice[i]
    BY <1>2, <1>8, <1>11 DEF Open
  <2>3. T.invoice[j].amount = amount
    BY <1>8, <1>11
  <2> QED BY <1>1, <1>4, <2>1, <2>2, <2>3 DEF DistinctOpen
<1>18. TxidsPay(T)
  <2>1. \A r \in S.txids : r.invoice # NoJob => r.invoice \in Jobs /\ r.invoice # j
    BY <1>1, <1>2 DEF TxidsPay, DB, TxRow
  <2> QED BY <1>1, <1>8, <1>11, <2>1 DEF TxidsPay
<1>19. Kept(S, T)
  BY <1>2, <1>8, <1>11 DEF Kept
<1> QED BY <1>3, <1>10, <1>15, <1>16, <1>17, <1>18, <1>19 DEF Sane

(* issue() of any job.                                                     *)
LEMMA IssueSane ==
  ASSUME NEW S, Sane(S), NEW j \in Jobs
  PROVE  Sane(Issue(S, j)) /\ Kept(S, Issue(S, j))
<1>1. CASE S.invoice[j].status \in {"open", "paid"}
  <2>1. Issue(S, j) = S
    BY <1>1 DEF Issue
  <2> QED BY <2>1 DEF Kept
<1>2. S.invoice[j].status \in {"none", "open", "paid", "void"}
  BY DEF Sane, DB, Invoice
<1> QED BY <1>1, <1>2, BillSane

(* void() of an open invoice.                                              *)
LEMMA VoidSane ==
  ASSUME NEW S, Sane(S), NEW j \in Open(S)
  PROVE  Sane(Void(S, j)) /\ Settled(S, Void(S, j))
<1> DEFINE amount == S.invoice[j].amount
           inv    == [S.invoice EXCEPT ![j].status = "void"]
           books  == Post(S.books, "unearned", "receivable", amount)
           T      == [S EXCEPT !.invoice = inv, !.books = books]
<1>1. S \in DB /\ BooksFollow(S) /\ CountersFollow(S) /\ DistinctOpen(S) /\ TxidsPay(S)
  BY DEF Sane
<1>2. j \in Jobs /\ S.invoice[j].status = "open" /\ S.invoice[j] \in Invoice
  BY <1>1 DEF Open, DB
<1>3. Void(S, j) = T
  BY <1>2 DEF Void
<1>4. amount \in Nat
  BY <1>2 DEF Invoice
<1>5. inv \in [Jobs -> Invoice] /\ S.invoice \in [Jobs -> Invoice]
  BY <1>1, <1>2 DEF DB, Invoice
<1>6. /\ inv[j].status = "void" /\ inv[j].amount = amount
      /\ \A i \in Jobs : i # j => inv[i] = S.invoice[i]
  BY <1>2, <1>5 DEF Invoice
<1> HIDE DEF amount
<1>7. books \in [Accounts -> Int]
  <2>1. S.books \in [Accounts -> Int] /\ amount \in Int
    BY <1>1, <1>4 DEF DB
  <2> QED BY <2>1, PostType
<1>8. /\ books["receivable"] = S.books["receivable"] - amount
      /\ books["unearned"] = S.books["unearned"] + amount
      /\ books["usdc"] = S.books["usdc"] /\ books["income"] = S.books["income"]
  <2>1. S.books \in [Accounts -> Int] /\ \A a \in Accounts : S.books[a] \in Int
    BY <1>1 DEF DB
  <2> QED BY <1>4, <2>1, PostValue DEF Accounts
<1> HIDE DEF inv, books
<1>9. T \in DB
  BY <1>1, <1>5, <1>7 DEF DB
<1>10. /\ T.invoice = inv /\ T.books = books
       /\ T.auto = S.auto /\ T.manual = S.manual /\ T.txids = S.txids
  BY <1>1 DEF DB
<1> HIDE DEF T
<1>11. /\ OpenAmount(S)[j] = amount /\ PaidAmount(S)[j] = 0
       /\ OpenAmount(T)[j] = 0 /\ PaidAmount(T)[j] = 0
       /\ \A via \in Sources : PaidVia(S, via)[j] = 0 /\ PaidVia(T, via)[j] = 0
  BY <1>2, <1>6, <1>10 DEF OpenAmount, PaidAmount, PaidVia, amount
<1>12. /\ InvoiceTotal(OpenAmount(S)) \in Nat /\ InvoiceTotal(PaidAmount(S)) \in Nat
       /\ \A via \in Sources : InvoiceTotal(PaidVia(S, via)) \in Nat
  BY <1>5, TotalsAreNat
<1>13. /\ InvoiceTotal(OpenAmount(T)) = InvoiceTotal(OpenAmount(S)) + OpenAmount(T)[j] - OpenAmount(S)[j]
       /\ InvoiceTotal(PaidAmount(T)) = InvoiceTotal(PaidAmount(S)) + PaidAmount(T)[j] - PaidAmount(S)[j]
       /\ \A via \in Sources :
            InvoiceTotal(PaidVia(T, via))
              = InvoiceTotal(PaidVia(S, via)) + PaidVia(T, via)[j] - PaidVia(S, via)[j]
  BY <1>2, <1>5, <1>6, <1>10, TotalsChange
<1>14. BooksFollow(T)
  BY <1>1, <1>4, <1>8, <1>10, <1>11, <1>12, <1>13 DEF BooksFollow
<1>15. CountersFollow(T)
  BY <1>1, <1>10, <1>11, <1>12, <1>13 DEF CountersFollow, Sources
<1>16. DistinctOpen(T)
  <2>1. Open(T) = Open(S) \ {j}
    BY <1>2, <1>6, <1>10 DEF Open
  <2> QED BY <1>1, <1>6, <1>10, <2>1, OpenJobs DEF DistinctOpen
<1>18. TxidsPay(T)
  <2>1. \A r \in S.txids : r.invoice # NoJob => r.invoice \in Jobs /\ r.invoice # j
    BY <1>1, <1>2 DEF TxidsPay, DB, TxRow
  <2> QED BY <1>1, <1>6, <1>10, <2>1 DEF TxidsPay
<1>19. Settled(S, T)
  <2>1. T.invoice[j].status = "void" /\ T.invoice[j].amount = S.invoice[j].amount
    BY <1>6, <1>10 DEF amount
  <2>2. \A i \in Jobs : i # j => T.invoice[i] = S.invoice[i]
    BY <1>6, <1>10
  <2> QED BY <1>2, <2>1, <2>2 DEF Settled
<1> QED BY <1>3, <1>9, <1>14, <1>15, <1>16, <1>18, <1>19 DEF Sane

(* Settled invoices stay settled over two steps.                           *)
LEMMA SettledTwice ==
  ASSUME NEW S, NEW T, NEW U, Settled(S, T), Settled(T, U)
  PROVE  Settled(S, U)
BY DEF Settled

(* A step that bills nothing keeps what SettledForGood asks for.           *)
LEMMA SettledIsKept ==
  ASSUME NEW S, NEW T, Settled(S, T)
  PROVE  Kept(S, T)
BY DEF Settled, Kept

(* The candidates of an amount are open invoices of that amount.           *)
LEMMA CandidatesOpen ==
  \A S, amount : \A j \in Candidates(S, amount) : j \in Open(S) /\ S.invoice[j].amount = amount
BY DEF Candidates

(* One suspense lot.                                                       *)
LEMMA MatchLotSane ==
  ASSUME NEW S, Sane(S), NEW c, NEW i \in 1..Len(S.lots)
  PROVE  /\ Sane(MatchLot(S, c, i)) /\ Settled(S, MatchLot(S, c, i))
         /\ Len(MatchLot(S, c, i).lots) = Len(S.lots)
<1> DEFINE lot   == S.lots[i]
           fits  == Candidates(S, lot.amount)
           payee == CHOOSE j \in fits : TRUE
           paid  == Collect(S, payee, "chain")
           lots  == [S.lots EXCEPT ![i].amount = 0]
           auto  == paid.auto + lot.amount
           T     == [paid EXCEPT !.auto = auto, !.lots = lots]
           pays  == lot.chain = c /\ lot.amount > 0 /\ ~lot.tainted /\ Cardinality(fits) = 1
<1>1. S \in DB
  BY DEF Sane
<1>2. CASE ~pays
  <2>1. MatchLot(S, c, i) = S
    BY <1>2 DEF MatchLot
  <2> QED BY <2>1 DEF Settled
<1>3. CASE pays
  <2>1. payee \in fits
    BY <1>3, OnlyChoice
  <2>2. payee \in Open(S) /\ S.invoice[payee].amount = lot.amount
    <3> HIDE DEF payee
    <3> QED BY <2>1, CandidatesOpen
  <2> HIDE DEF payee
  <2>3. paid \in DB /\ Pays(S, paid, payee, "chain") /\ Watched(paid) = Watched(S)
    BY <1>1, <2>2, CollectPays
  <2>4. S.lots \in Seq(Lot) /\ lot \in Lot /\ lot.amount \in Nat
    <3>1. S.lots \in Seq(Lot)
      BY <1>1 DEF DB
    <3> QED BY <3>1, SuspenseNat
  <2>5. lots \in Seq(Lot) /\ Len(lots) = Len(S.lots)
    <3>1. [lot EXCEPT !.amount = 0] \in Lot
      BY <2>4 DEF Lot
    <3>2. lots = [S.lots EXCEPT ![i] = [lot EXCEPT !.amount = 0]]
      OBVIOUS
    <3> QED BY <2>4, <3>1, <3>2, ExceptSeq
  <2>6. paid.lots = S.lots /\ paid.auto = S.auto /\ paid.manual = S.manual /\ paid.txids = S.txids
    BY <2>3 DEF Watched
  <2>7. MatchLot(S, c, i) = T
    BY <1>3, <2>6 DEF MatchLot, payee
  <2> HIDE DEF lots, paid, lot
  <2>8. T \in DB
    <3>1. auto \in Nat
      BY <2>3, <2>4 DEF DB
    <3> HIDE DEF auto
    <3> QED BY <2>3, <2>5, <3>1 DEF DB
  <2>9. /\ T.invoice = paid.invoice /\ T.books = paid.books
        /\ T.auto = S.auto + lot.amount /\ T.manual = S.manual /\ T.txids = S.txids /\ T.lots = lots
    BY <2>3, <2>6 DEF DB
  <2> HIDE DEF T
  <2>10. Pays(S, T, payee, "chain")
    BY <2>3, <2>9 DEF Pays
  <2>11. T.manual = S.manual + (IF "chain" = "manual" THEN S.invoice[payee].amount ELSE 0)
    BY <1>1, <2>9 DEF DB
  <2>12. T.auto = S.auto + (IF "chain" = "chain" THEN S.invoice[payee].amount ELSE 0)
    BY <2>2, <2>9
  <2>13. Sane(T) /\ Settled(S, T)
    BY <2>2, <2>8, <2>9, <2>10, <2>11, <2>12, PaymentSane
  <2> QED BY <2>5, <2>7, <2>9, <2>13
<1> QED BY <1>2, <1>3

(* All the lots of a chain.                                                *)
LEMMA MatchChainSane ==
  ASSUME NEW S, Sane(S), NEW c
  PROVE  Sane(MatchChain(S, c)) /\ Settled(S, MatchChain(S, c))
<1> DEFINE P == {T \in DB : Sane(T) /\ Settled(S, T) /\ Len(T.lots) = Len(S.lots)}
<1>1. S \in P /\ Len(S.lots) \in Nat
  <2>1. S.lots \in Seq(Lot)
    BY DEF Sane, DB
  <2> QED BY <2>1 DEF Sane, Settled
<1>2. ASSUME NEW T \in P, NEW i \in 1..Len(S.lots) PROVE MatchLot(T, c, i) \in P
  <2>1. Sane(T) /\ i \in 1..Len(T.lots) /\ Settled(S, T) /\ Len(T.lots) = Len(S.lots)
    OBVIOUS
  <2>2. /\ Sane(MatchLot(T, c, i)) /\ Settled(T, MatchLot(T, c, i))
        /\ Len(MatchLot(T, c, i).lots) = Len(T.lots)
    BY <2>1, MatchLotSane
  <2>3. MatchLot(T, c, i) \in DB
    BY <2>2 DEF Sane
  <2> QED BY <2>1, <2>2, <2>3, SettledTwice
<1>3. MatchChain(S, c) \in P
  <2> HIDE DEF P
  <2> QED BY <1>1, <1>2, MatchChainKeeps
<1> QED BY <1>3

(* One listed transfer: skipped, recorded only, or paying an invoice.      *)
LEMMA SettleTransferSane ==
  ASSUME NEW S, Sane(S), NEW t \in Transfer
  PROVE  Sane(SettleTransfer(S, t)) /\ Settled(S, SettleTransfer(S, t))
<1> DEFINE fits  == Matches(S, t)
           payee == CHOOSE j \in fits : TRUE
           row(j) == [chain |-> t.chain, txid |-> t.txid, invoice |-> j]
<1>1. S \in DB /\ t.amount \in Nat /\ t.chain \in Chains /\ t.txid \in Nat
  BY DEF Sane, Transfer
<1>2. CASE Recorded(S, t)
  <2>1. SettleTransfer(S, t) = S
    BY <1>2 DEF SettleTransfer
  <2> QED BY <2>1 DEF Settled
<1>3. CASE ~Recorded(S, t) /\ Cardinality(fits) # 1
  <2> DEFINE T == [S EXCEPT !.txids = @ \cup {row(NoJob)}]
  <2>1. SettleTransfer(S, t) = T
    BY <1>3 DEF SettleTransfer, RecordTxid
  <2>2. row(NoJob) \in TxRow /\ row(NoJob).invoice = NoJob
    BY <1>1 DEF TxRow
  <2> HIDE DEF row
  <2>3. T \in DB
    BY <1>1, <2>2 DEF DB
  <2>4. /\ T.invoice = S.invoice /\ T.books = S.books
        /\ T.auto = S.auto /\ T.manual = S.manual /\ T.txids = S.txids \cup {row(NoJob)}
    BY <1>1 DEF DB
  <2> HIDE DEF T
  <2>5. NewRow(S, T, row(NoJob))
    BY <1>3, <2>4 DEF NewRow, Recorded, row
  <2> QED BY <2>1, <2>2, <2>3, <2>4, <2>5, UnattributedSane
<1>4. CASE ~Recorded(S, t) /\ Cardinality(fits) = 1
  <2>1. payee \in fits
    BY <1>4, OnlyChoice
  <2>2. payee \in Open(S) /\ S.invoice[payee].amount = t.amount /\ payee \in Jobs
    <3>1. fits \subseteq Candidates(S, t.amount)
      BY DEF Matches
    <3> HIDE DEF payee, fits
    <3> QED BY <2>1, <3>1, CandidatesOpen, OpenJobs
  <2> DEFINE paid == Collect(S, payee, "chain")
             R    == Reconcile(paid, t.amount)
             auto == R.auto + t.amount
             txids == R.txids \cup {row(payee)}
             T    == [R EXCEPT !.auto = auto, !.txids = txids]
  <2>3. SettleTransfer(S, t) = [[R EXCEPT !.auto = auto] EXCEPT !.txids = @ \cup {row(payee)}]
    BY <1>4 DEF SettleTransfer, RecordTxid
  <2> HIDE DEF payee
  <2>4. paid \in DB /\ Pays(S, paid, payee, "chain") /\ Watched(paid) = Watched(S)
    BY <1>1, <2>2, CollectPays
  <2> HIDE DEF paid
  <2>5. R \in DB /\ SameInvoices(paid, R) /\ R.price = paid.price
    BY <1>1, <2>4, ReconcileType
  <2> HIDE DEF R
  <2>6. auto \in Nat /\ txids \subseteq TxRow /\ row(payee) \in TxRow
    <3>1. R.auto \in Nat /\ R.txids \subseteq TxRow
      BY <2>5 DEF DB
    <3>2. row(payee) \in TxRow
      BY <1>1, <2>2 DEF TxRow
    <3>3. auto \in Nat
      BY <1>1, <3>1
    <3> HIDE DEF row
    <3> QED BY <3>1, <3>2, <3>3
  <2>7. SettleTransfer(S, t) = T
    BY <2>3, <2>5 DEF DB
  <2>8. R.auto = S.auto /\ R.manual = S.manual /\ R.txids = S.txids
    BY <2>4, <2>5 DEF Watched, SameInvoices
  <2>9. auto = S.auto + S.invoice[payee].amount /\ txids = S.txids \cup {row(payee)}
    BY <2>2, <2>8
  <2> HIDE DEF auto, txids
  <2>10. T \in DB
    BY <2>5, <2>6 DEF DB
  <2>11. /\ T.invoice = paid.invoice /\ T.books = paid.books
         /\ T.auto = auto /\ T.manual = S.manual /\ T.txids = txids
    BY <2>5, <2>8 DEF DB, SameInvoices
  <2> HIDE DEF T
  <2>12. Pays(S, T, payee, "chain")
    BY <2>4, <2>11 DEF Pays
  <2>13. row(payee).invoice = payee /\ NewRow(S, T, row(payee))
    BY <1>4, <2>9, <2>11 DEF NewRow, Recorded
  <2>14. T.manual = S.manual + (IF "chain" = "manual" THEN S.invoice[payee].amount ELSE 0)
    BY <1>1, <2>11 DEF DB
  <2>15. T.auto = S.auto + (IF "chain" = "chain" THEN S.invoice[payee].amount ELSE 0)
    BY <2>9, <2>11
  <2> HIDE DEF row
  <2>16. Sane(T) /\ Settled(S, T)
    BY <2>2, <2>6, <2>10, <2>12, <2>13, <2>14, <2>15, PaymentSane
  <2> QED BY <2>7, <2>16
<1> QED BY <1>2, <1>3, <1>4

(* A whole listing.                                                        *)
LEMMA SettleTransfersSane ==
  ASSUME NEW S, Sane(S), NEW ts \in Seq(Transfer)
  PROVE  Sane(SettleTransfers(S, ts)) /\ Settled(S, SettleTransfers(S, ts))
<1> DEFINE P == {T \in DB : Sane(T) /\ Settled(S, T)}
<1>1. S \in P
  BY DEF Sane, Settled
<1>2. ASSUME NEW T \in P, NEW t \in Transfer PROVE SettleTransfer(T, t) \in P
  <2>1. Sane(T) /\ Settled(S, T)
    OBVIOUS
  <2>2. Sane(SettleTransfer(T, t)) /\ Settled(T, SettleTransfer(T, t))
    BY <2>1, SettleTransferSane
  <2>3. SettleTransfer(T, t) \in DB
    BY <2>2 DEF Sane
  <2> QED BY <2>1, <2>2, <2>3, SettledTwice
<1>3. SettleTransfers(S, ts) \in P
  <2> HIDE DEF P
  <2> QED BY <1>1, <1>2, SettleTransfersKeep
<1> QED BY <1>3

(* `paid --confirm` on an open invoice.                                    *)
LEMMA ManualSane ==
  ASSUME NEW S, Sane(S), NEW j \in Open(S)
  PROVE  LET amount == S.invoice[j].amount
             T == Collect([Reconcile(S, amount) EXCEPT !.manual = @ + amount], j, "manual")
         IN  Sane(T) /\ Settled(S, T)
<1> DEFINE amount == S.invoice[j].amount
           R == Reconcile(S, amount)
           manual == R.manual + amount
           M == [R EXCEPT !.manual = manual]
           T == Collect(M, j, "manual")
<1>1. S \in DB /\ j \in Jobs /\ amount \in Nat
  BY DEF Sane, Open, DB, Invoice
<1>2. R \in DB /\ SameInvoices(S, R) /\ R.price = S.price
  BY <1>1, ReconcileType
<1> HIDE DEF R
<1>3. manual \in Nat /\ manual = S.manual + amount
  <2>1. R.manual \in Nat /\ R.manual = S.manual
    BY <1>2 DEF DB, SameInvoices
  <2> QED BY <1>1, <2>1
<1> HIDE DEF manual
<1>4. M \in DB
  BY <1>2, <1>3 DEF DB
<1>5. /\ M.invoice = S.invoice /\ M.books = S.books
      /\ M.auto = S.auto /\ M.manual = manual /\ M.txids = S.txids
  BY <1>2 DEF DB, SameInvoices
<1> HIDE DEF M
<1>6. j \in Open(M)
  BY <1>5 DEF Open
<1>7. T \in DB /\ Pays(M, T, j, "manual") /\ Watched(T) = Watched(M)
  BY <1>4, <1>6, CollectPays
<1> HIDE DEF T
<1>8. Pays(S, T, j, "manual")
  BY <1>5, <1>7 DEF Pays
<1>9. T.auto = S.auto /\ T.manual = manual /\ T.txids = S.txids
  BY <1>5, <1>7 DEF Watched
<1>10. T.auto = S.auto + (IF "manual" = "chain" THEN S.invoice[j].amount ELSE 0)
  BY <1>1, <1>9 DEF DB
<1>11. T.manual = S.manual + (IF "manual" = "manual" THEN S.invoice[j].amount ELSE 0)
  BY <1>3, <1>9
<1>12. Sane(T) /\ Settled(S, T)
  BY <1>7, <1>8, <1>9, <1>10, <1>11, PaymentSane
<1> QED BY <1>12 DEF T, M, manual, R

-----------------------------------------------------------------------------
(* The balance path.                                                       *)

ChainType == chain \in [Chains -> [balances: Seq(Nat), transfers: Seq(Transfer)]]
ReadAt(at) == \A c \in Chains : at[c] \in 0..Len(chain[c].balances)

(* A read of a block that exists has a balance.                            *)
LEMMA BalanceAt ==
  ASSUME ChainType, NEW c \in Chains, NEW h \in 0..Len(chain[c].balances)
  PROVE  h \in Nat /\ (h > 0 => chain[c].balances[h] \in Nat)
<1>1. chain[c].balances \in Seq(Nat)
  BY DEF ChainType
<1>2. Len(chain[c].balances) \in Nat
  BY <1>1
<1>3. h \in Nat /\ (h > 0 => h \in 1..Len(chain[c].balances))
  BY <1>2
<1> QED BY <1>1, <1>3

(* Suspense grows by whole lots.                                           *)
LEMMA AddSuspenseLots ==
  ASSUME NEW lots \in Seq(Lot), NEW c \in Chains, NEW amount \in Nat
  PROVE  AddSuspense(lots, c, amount) \in Seq(Lot)
<1>1. [chain |-> c, amount |-> amount, tainted |-> FALSE] \in Lot
  BY DEF Lot
<1>2. Append(lots, [chain |-> c, amount |-> amount, tainted |-> FALSE]) \in Seq(Lot)
  BY <1>1, AppendProperties
<1> QED BY <1>2 DEF AddSuspense

(* Observing a balance touches no invoice.                                 *)
LEMMA ObserveBalanceSane ==
  ASSUME NEW S, Sane(S), ChainType, NEW c \in Chains, NEW h \in 0..Len(chain[c].balances)
  PROVE  Sane(ObserveBalance(S, c, h)) /\ Settled(S, ObserveBalance(S, c, h))
<1> DEFINE delta == Delta(S, c, h)
           used  == Lesser(delta, S.reserved)
           balance == [S.balance EXCEPT ![c] = chain[c].balances[h]]
           height == [S.height EXCEPT ![c] = h]
           base == [S.base EXCEPT ![c] = TRUE]
           seen  == [S EXCEPT !.balance = balance, !.height = height, !.base = base]
           less  == ConsumeChain(seen.lots, c, -delta)
           more  == AddSuspense(seen.lots, c, delta - used)
           held  == seen.reserved - used
           T == ObserveBalance(S, c, h)
<1>1. S \in DB
  BY DEF Sane
<1>2. CASE ~IsFresh(S, c, h)
  <2>1. T = S
    BY <1>2 DEF ObserveBalance
  <2> QED BY <2>1 DEF Settled
<1>3. CASE IsFresh(S, c, h)
  <2>1. h \in Nat /\ chain[c].balances[h] \in Nat
    BY <1>3, BalanceAt DEF IsFresh
  <2>2. balance \in [Chains -> Nat] /\ height \in [Chains -> Nat] /\ base \in [Chains -> BOOLEAN]
    BY <1>1, <2>1 DEF DB
  <2>3. delta \in Int
    BY <1>1, <2>1 DEF DB, Delta
  <2>4. T = IF ~S.base[c] THEN seen
            ELSE IF delta < 0 THEN [seen EXCEPT !.lots = less]
            ELSE [seen EXCEPT !.reserved = held, !.lots = more]
    BY <1>3 DEF ObserveBalance
  <2> HIDE DEF balance, height, base, delta
  <2>5. seen \in DB
    BY <1>1, <2>2 DEF DB
  <2>6. SameInvoices(S, seen) /\ seen.lots = S.lots /\ seen.reserved = S.reserved
    BY <1>1 DEF SameInvoices, DB
  <2> HIDE DEF seen
  <2>7. seen.lots \in Seq(Lot) /\ S.reserved \in Nat
    BY <1>1, <2>5 DEF DB
  <2>8. CASE ~S.base[c]
    BY <2>4, <2>5, <2>6, <2>8, SameInvoicesSane
  <2>9. CASE S.base[c] /\ delta < 0
    <3>1. less \in Seq(Lot)
      BY <2>3, <2>7, ConsumeChainLots
    <3> HIDE DEF less
    <3>2. T \in DB /\ SameInvoices(S, T)
      BY <2>4, <2>5, <2>6, <2>9, <3>1 DEF DB, SameInvoices
    <3> QED BY <3>2, SameInvoicesSane
  <2>10. CASE S.base[c] /\ ~(delta < 0)
    <3>1. used \in Nat /\ delta - used \in Nat /\ held \in Nat
      BY <2>3, <2>6, <2>7, <2>10 DEF Lesser
    <3>2. more \in Seq(Lot)
      <4> HIDE DEF used
      <4> QED BY <2>7, <3>1, AddSuspenseLots
    <3> HIDE DEF more, held
    <3>3. T = [seen EXCEPT !.reserved = held, !.lots = more]
      BY <2>4, <2>10
    <3> HIDE DEF T
    <3>4. T \in DB /\ SameInvoices(S, T)
      BY <2>5, <2>6, <3>1, <3>2, <3>3 DEF DB, SameInvoices
    <3> QED BY <3>4, SameInvoicesSane DEF T
  <2> QED BY <2>8, <2>9, <2>10
<1> QED BY <1>2, <1>3

(* A chain with a fresh read is matched, any other is not.                 *)
LEMMA MatchFreshSane ==
  ASSUME NEW S, Sane(S), NEW c, NEW fresh
  PROVE  Sane(MatchFresh(S, c, fresh)) /\ Settled(S, MatchFresh(S, c, fresh))
<1>1. Settled(S, S)
  BY DEF Settled
<1> QED BY <1>1, MatchChainSane DEF MatchFresh

(* The transaction that applies two reads.                                 *)
LEMMA ApplyBalanceReadsSane ==
  ASSUME NEW S, Sane(S), ChainType, NEW at, ReadAt(at)
  PROVE  Sane(ApplyBalanceReads(S, at)) /\ Settled(S, ApplyBalanceReads(S, at))
<1> DEFINE eth == ObserveBalance(S, "eth", at["eth"])
           sol == ObserveBalance(eth, "sol", at["sol"])
           one == MatchFresh(sol, "eth", IsFresh(S, "eth", at["eth"]))
           two == MatchFresh(one, "sol", IsFresh(S, "sol", at["sol"]))
<1>1. "eth" \in Chains /\ "sol" \in Chains
  BY DEF Chains
<1>2. at["eth"] \in 0..Len(chain["eth"].balances) /\ at["sol"] \in 0..Len(chain["sol"].balances)
  BY <1>1 DEF ReadAt
<1>3. Sane(eth) /\ Settled(S, eth)
  BY <1>1, <1>2, ObserveBalanceSane
<1> HIDE DEF eth
<1>4. Sane(sol) /\ Settled(eth, sol)
  BY <1>1, <1>2, <1>3, ObserveBalanceSane
<1> HIDE DEF sol
<1>5. Sane(one) /\ Settled(sol, one)
  BY <1>4, MatchFreshSane
<1> HIDE DEF one
<1>6. Sane(two) /\ Settled(one, two)
  BY <1>5, MatchFreshSane
<1>7. ApplyBalanceReads(S, at) = two
  BY DEF ApplyBalanceReads, two, one, sol, eth
<1> HIDE DEF two
<1>8. Settled(S, sol) /\ Settled(S, one) /\ Settled(S, two)
  BY <1>3, <1>4, <1>5, <1>6, SettledTwice
<1> QED BY <1>6, <1>7, <1>8

-----------------------------------------------------------------------------
(* What the log path lists.                                                *)

(* No more transfers are mined by a block than there are.                  *)
LEMMA MinedByBound ==
  ASSUME ChainType, NEW c \in Chains, NEW h
  PROVE  /\ Len(chain[c].transfers) \in Nat
         /\ chain[c].transfers \in Seq(Transfer)
         /\ MinedBy(c, h) \in 0..Len(chain[c].transfers)
<1> DEFINE n == Len(chain[c].transfers)
           mined == {i \in DOMAIN chain[c].transfers : chain[c].transfers[i].txid <= h}
<1>1. chain[c].transfers \in Seq(Transfer)
  BY DEF ChainType
<1>2. n \in Nat /\ DOMAIN chain[c].transfers = 1..n
  BY <1>1
<1>3. IsFiniteSet(1..n) /\ Cardinality(1..n) = n
  BY <1>2, FS_Interval
<1>4. mined \in SUBSET (1..n)
  BY <1>2
<1> HIDE DEF mined
<1>5. IsFiniteSet(mined) /\ Cardinality(mined) <= n
  BY <1>3, <1>4, FS_Subset
<1>6. Cardinality(mined) \in Nat
  BY <1>5, FS_CardinalityType
<1> QED BY <1>1, <1>2, <1>5, <1>6 DEF MinedBy, mined

(* A listing of the Ethereum logs is a sequence of transfers.              *)
LEMMA EthListingType ==
  ASSUME ChainType, NEW h
  PROVE  EthListing(h) \in Seq(Transfer)
<1> DEFINE s == chain["eth"].transfers
           m == MinedBy("eth", h - Lookback)
           n == MinedBy("eth", h)
<1>1. s \in Seq(Transfer) /\ Len(s) \in Nat /\ m \in 0..Len(s) /\ n \in 0..Len(s)
  BY MinedByBound DEF Chains
<1>2. EthListing(h) = SubSeq(s, m + 1, n)
  BY DEF EthListing
<1> HIDE DEF s, m, n
<1>3. CASE n >= m
  <2>1. SubSeq(s, m + 1, n) \in Seq(Transfer)
    BY <1>1, <1>3, SubSeqProperties
  <2> QED BY <1>2, <2>1
<1>4. CASE n < m
  <2>1. SubSeq(s, m + 1, n) = << >>
    BY <1>1, <1>4, SubSeqEmpty
  <2> QED BY <1>2, <2>1, EmptySeq
<1> QED BY <1>1, <1>3, <1>4

(* So is a listing of the Solana transactions that loaded.                 *)
LEMMA SolListingType ==
  ASSUME ChainType, NEW h, NEW picks \in SolPicks(h)
  PROVE  SolListing(picks) \in Seq(Transfer)
<1> DEFINE s == chain["sol"].transfers
           visible == (MinedBy("sol", h - Lookback) + 1)..MinedBy("sol", h)
<1>1. s \in Seq(Transfer) /\ Len(s) \in Nat /\ visible \subseteq 1..Len(s)
  BY MinedByBound DEF Chains
<1>2. PICK n \in 0..Cardinality(visible) : picks \in [1..n -> visible]
  BY DEF SolPicks
<1>3. n \in Nat
  BY <1>2
<1>4. \A i \in 1..n : s[picks[i]] \in Transfer
  BY <1>1, <1>2
<1>5. SolListing(picks) = [i \in 1..n |-> s[picks[i]]]
  BY <1>2 DEF SolListing
<1> HIDE DEF s
<1> QED BY <1>3, <1>4, <1>5, IsASeq

-----------------------------------------------------------------------------
(* The inductive invariant.                                                *)

(* Blocks that were read exist, and every chain has a first block.         *)
ReadsExist == \A w \in Workers : ReadAt(readAt[w])
Started    == \A c \in Chains : Height(c) >= 1

IInv == TypeOK /\ Sane(db) /\ ReadsExist /\ Started

(* It holds at the start.                                                  *)
LEMMA InitInv == Init => IInv
<1> SUFFICES ASSUME Init PROVE IInv
  OBVIOUS
<1>1. Jobs = 1..NumJobs /\ NumJobs \in Nat /\ Prices \subseteq Nat
  BY InvoicesAssumption DEF Jobs
<1>2. /\ db.invoice = [j \in Jobs |-> NoInvoice]
      /\ db.books = [a \in Accounts |-> 0] /\ db.auto = 0 /\ db.manual = 0 /\ db.txids = {}
  BY DEF Init
<1>3. db \in DB
  <2>1. NoInvoice \in Invoice
    BY DEF NoInvoice, Invoice, Sources
  <2>2. <<>> \in Seq(Lot)
    BY EmptySeq
  <2>3. /\ [j \in Jobs |-> NoInvoice] \in [Jobs -> Invoice]
        /\ [Jobs -> Prices] \subseteq [Jobs -> Nat]
        /\ [a \in Accounts |-> 0] \in [Accounts -> Int]
        /\ [c \in Chains |-> FALSE] \in [Chains -> BOOLEAN]
        /\ [c \in Chains |-> 0] \in [Chains -> Nat]
        /\ {} \subseteq TxRow /\ 0 \in Nat
    <3>1. [j \in Jobs |-> NoInvoice] \in [Jobs -> Invoice]
      BY <2>1
    <3>3. [Jobs -> Prices] \subseteq [Jobs -> Nat]
      BY <1>1
    <3>4. [a \in Accounts |-> 0] \in [Accounts -> Int]
      OBVIOUS
    <3>5. [c \in Chains |-> FALSE] \in [Chains -> BOOLEAN]
      OBVIOUS
    <3>6. [c \in Chains |-> 0] \in [Chains -> Nat]
      OBVIOUS
    <3> QED BY <3>1, <3>3, <3>4, <3>5, <3>6
  <2> DEFINE D == [invoice: {[j \in Jobs |-> NoInvoice]},
             price: [Jobs -> Prices], books: {[a \in Accounts |-> 0]},
             base: {[c \in Chains |-> FALSE]}, balance: {[c \in Chains |-> 0]},
             height: {[c \in Chains |-> 0]}, lots: {<<>>},
             reserved: {0}, manual: {0}, auto: {0}, txids: {{}}]
  <2>4. db \in D
    BY DEF Init
  <2>5. \A d \in D : d \in DB
    BY <2>2, <2>3 DEF DB
  <2> QED BY <2>4, <2>5
<1>4. \A j \in Jobs : db.invoice[j].status = "none" /\ db.invoice[j].amount = 0
  BY <1>2 DEF NoInvoice
<1>5. BooksFollow(db)
  <2>1. \A i \in 1..NumJobs : OpenAmount(db)[i] = 0 /\ PaidAmount(db)[i] = 0
    BY <1>1, <1>4 DEF OpenAmount, PaidAmount
  <2>2. InvoiceTotal(OpenAmount(db)) = 0 /\ InvoiceTotal(PaidAmount(db)) = 0
    BY <1>1, <2>1, SumToZeros DEF InvoiceTotal
  <2>3. \A a \in Accounts : db.books[a] = 0
    BY <1>2
  <2>4. \A n \in Int : -n = 0 - n
    OBVIOUS
  <2>5. InvoiceTotal(OpenAmount(db)) \in Int /\ InvoiceTotal(PaidAmount(db)) \in Int
    BY <2>2
  <2>6. /\ -InvoiceTotal(OpenAmount(db)) = 0 - InvoiceTotal(OpenAmount(db))
        /\ -InvoiceTotal(PaidAmount(db)) = 0 - InvoiceTotal(PaidAmount(db))
    BY ONLY <2>4, <2>5
  <2>7. /\ db.books["receivable"] = InvoiceTotal(OpenAmount(db))
        /\ db.books["usdc"] = InvoiceTotal(PaidAmount(db))
    BY <2>2, <2>3 DEF Accounts
  <2>8. /\ db.books["unearned"] = 0 - InvoiceTotal(OpenAmount(db))
        /\ db.books["income"] = 0 - InvoiceTotal(PaidAmount(db))
    BY <2>2, <2>3 DEF Accounts
  <2> QED BY ONLY <2>6, <2>7, <2>8 DEF BooksFollow
<1>6. CountersFollow(db)
  <2>1. ASSUME NEW via \in Sources PROVE InvoiceTotal(PaidVia(db, via)) = 0
    <3>1. \A i \in 1..NumJobs : PaidVia(db, via)[i] = 0
      BY <1>1, <1>4 DEF PaidVia
    <3> QED BY <1>1, <3>1, SumToZeros DEF InvoiceTotal
  <2> QED BY <1>2, <2>1 DEF CountersFollow, Sources
<1>7. DistinctOpen(db) /\ TxidsPay(db)
  BY <1>2, <1>4 DEF DistinctOpen, TxidsPay, Open
<1>8. chain \in [Chains -> [balances: Seq(Nat), transfers: Seq(Transfer)]]
  <2>1. <<0>> \in Seq(Nat) /\ <<>> \in Seq(Transfer)
    BY EmptySeq
  <2> QED BY <2>1 DEF Init
<1>9. TypeOK
  <2>1. listed \in [Workers -> Seq(Transfer)]
    BY EmptySeq DEF Init
  <2>2. readAt \in [Workers -> [Chains -> Nat]] /\ phase \in [Workers -> Phases]
    BY DEF Init, Phases
  <2>3. {withdrawals, manuals} \subseteq Nat /\ recognised \in Int
    BY DEF Init
  <2> QED BY <1>3, <1>8, <2>1, <2>2, <2>3 DEF TypeOK
<1>10. Started
  <2>1. \A c \in Chains : chain[c].balances = <<0>>
    BY DEF Init
  <2>2. Len(<<0>>) = 1
    OBVIOUS
  <2> QED BY <2>1, <2>2 DEF Started, Height
<1>11. ReadsExist
  <2>1. \A c \in Chains : Len(chain[c].balances) \in Nat
    BY <1>8
  <2>2. \A w \in Workers : \A c \in Chains : readAt[w][c] = 0
    BY DEF Init
  <2> QED BY <2>1, <2>2 DEF ReadsExist, ReadAt
<1> QED BY <1>3, <1>5, <1>6, <1>7, <1>9, <1>10, <1>11 DEF IInv, Sane

(* Chains only grow: blocks that were read stay read.                      *)
LEMMA GrowthKeeps ==
  ASSUME IInv, TypeOK',
         \A c \in Chains : Len(chain'[c].balances) \in Nat
                             /\ Len(chain'[c].balances) >= Len(chain[c].balances),
         UNCHANGED <<db, readAt>>
  PROVE  IInv' /\ Settled(db, db')
<1>1. \A c \in Chains : Len(chain[c].balances) \in Nat
  <2>1. \A c \in Chains : chain[c].balances \in Seq(Nat)
    BY DEF IInv, TypeOK
  <2> QED BY <2>1
<1>2. ReadsExist'
  BY <1>1 DEF IInv, ReadsExist, ReadAt
<1>3. Started'
  BY <1>1 DEF IInv, Started, Height
<1>4. Sane(db)'
  BY DEF IInv, Sane, BooksFollow, CountersFollow, DistinctOpen, TxidsPay
<1> QED BY <1>2, <1>3, <1>4 DEF IInv, Settled

(* Mining a transaction.                                                   *)
LEMMA MineInv ==
  ASSUME IInv, NEW c \in Chains, NEW credits \in Seq(Transfer), Mine(c, credits)
  PROVE  IInv' /\ Settled(db, db')
<1> DEFINE amounts == [i \in DOMAIN credits |-> credits[i].amount]
           balances == Append(chain[c].balances, Holding(c) + SumTo(amounts, Len(credits)))
           transfers == chain[c].transfers \o credits
<1>1. chain \in [Chains -> [balances: Seq(Nat), transfers: Seq(Transfer)]]
  BY DEF IInv, TypeOK
<1>2. SumTo(amounts, Len(credits)) \in Nat
  <2>1. Len(credits) \in Nat /\ DOMAIN credits = 1..Len(credits)
    OBVIOUS
  <2>2. \A i \in 1..Len(credits) : credits[i] \in Transfer
    OBVIOUS
  <2>3. \A t \in Transfer : t.amount \in Nat
    BY DEF Transfer
  <2>4. \A i \in 1..Len(credits) : amounts[i] \in Nat
    BY <2>1, <2>2, <2>3
  <2> QED BY <2>1, <2>4, SumToNat
<1>3. chain[c].balances \in Seq(Nat) /\ chain[c].transfers \in Seq(Transfer)
  BY <1>1
<1>4. Holding(c) \in Nat
  <2>1. Height(c) \in 1..Len(chain[c].balances)
    BY <1>3 DEF IInv, Started, Height
  <2> QED BY <1>3, <2>1 DEF Holding
<1>5. balances \in Seq(Nat) /\ Len(balances) = Len(chain[c].balances) + 1
  <2> HIDE DEF amounts
  <2>1. Holding(c) + SumTo(amounts, Len(credits)) \in Nat
    BY <1>2, <1>4
  <2> QED BY <1>3, <2>1, AppendProperties
<1>6. transfers \in Seq(Transfer)
  BY <1>3, ConcatProperties
<1>7. chain' = [chain EXCEPT ![c] = [balances |-> balances, transfers |-> transfers]]
  BY DEF Mine
<1> HIDE DEF balances, transfers
<1>8. chain' \in [Chains -> [balances: Seq(Nat), transfers: Seq(Transfer)]]
  BY <1>1, <1>5, <1>6, <1>7
<1>9. TypeOK'
  BY <1>8 DEF Mine, workerVars, IInv, TypeOK
<1>10. ASSUME NEW d \in Chains
       PROVE  /\ Len(chain'[d].balances) \in Nat
              /\ Len(chain'[d].balances) >= Len(chain[d].balances)
  <2>1. Len(chain[d].balances) \in Nat /\ Len(chain[c].balances) \in Nat
    BY <1>1
  <2>2. CASE d = c
    BY <1>1, <1>5, <1>7, <2>1, <2>2
  <2>3. CASE d # c
    BY <1>1, <1>7, <2>1, <2>3
  <2> QED BY <2>2, <2>3
<1>11. UNCHANGED <<db, readAt>>
  BY DEF Mine, workerVars
<1> QED BY <1>9, <1>10, <1>11, GrowthKeeps

(* The owner spends no more than there is.                                 *)
LEMMA WithdrawInv ==
  ASSUME IInv, NEW c \in Chains, OwnerWithdraws(c)
  PROVE  IInv' /\ Settled(db, db')
<1>1. chain \in [Chains -> [balances: Seq(Nat), transfers: Seq(Transfer)]]
  BY DEF IInv, TypeOK
<1>2. PICK a \in Payments : /\ a <= Holding(c)
                            /\ chain' = [chain EXCEPT ![c].balances = Append(@, Holding(c) - a)]
  BY DEF OwnerWithdraws
<1>3. chain[c].balances \in Seq(Nat)
  BY <1>1
<1>4. Holding(c) \in Nat
  <2>1. Height(c) \in 1..Len(chain[c].balances)
    BY <1>3 DEF IInv, Started, Height
  <2> QED BY <1>3, <2>1 DEF Holding
<1> DEFINE left == Holding(c) - a
           balances == Append(chain[c].balances, left)
<1>5. left \in Nat
  BY <1>2, <1>4, SettlementAssumption
<1>6. balances \in Seq(Nat) /\ Len(balances) = Len(chain[c].balances) + 1
  <2> HIDE DEF left
  <2> QED BY <1>3, <1>5, AppendProperties
<1>7. chain' = [chain EXCEPT ![c].balances = balances]
  BY <1>2
<1> HIDE DEF balances
<1>8. chain' \in [Chains -> [balances: Seq(Nat), transfers: Seq(Transfer)]]
  BY <1>1, <1>6, <1>7
<1>9. TypeOK'
  <2>1. withdrawals' \in Nat
    BY DEF IInv, TypeOK, OwnerWithdraws
  <2> QED BY <1>8, <2>1 DEF OwnerWithdraws, workerVars, IInv, TypeOK
<1>10. ASSUME NEW d \in Chains
       PROVE  /\ Len(chain'[d].balances) \in Nat
              /\ Len(chain'[d].balances) >= Len(chain[d].balances)
  <2>1. Len(chain[d].balances) \in Nat /\ Len(chain[c].balances) \in Nat
    BY <1>1
  <2>2. CASE d = c
    BY <1>1, <1>6, <1>7, <2>1, <2>2
  <2>3. CASE d # c
    BY <1>1, <1>7, <2>1, <2>3
  <2> QED BY <2>2, <2>3
<1>11. UNCHANGED <<db, readAt>>
  BY DEF OwnerWithdraws, workerVars
<1> QED BY <1>9, <1>10, <1>11, GrowthKeeps

(* A step that changes the database, and not what it is read from.         *)
LEMMA DatabaseStep ==
  ASSUME IInv, Sane(db'), TypeOK', ReadsExist', UNCHANGED chain
  PROVE  IInv'
<1>1. Started'
  BY DEF IInv, Started, Height
<1>2. Sane(db)'
  BY DEF Sane, BooksFollow, CountersFollow, DistinctOpen, TxidsPay
<1> QED BY <1>1, <1>2 DEF IInv

(* No worker learns of a block it has not read.                            *)
LEMMA NoReadAt ==
  ASSUME ChainType
  PROVE  ReadAt([c \in Chains |-> 0])
<1>1. \A c \in Chains : Len(chain[c].balances) \in Nat
  <2>1. \A c \in Chains : chain[c].balances \in Seq(Nat)
    BY DEF ChainType
  <2> QED BY <2>1
<1> QED BY <1>1 DEF ReadAt

(* Every step keeps the invariant, and settled invoices settled.           *)
LEMMA NextInv ==
  ASSUME IInv, [Next]_vars
  PROVE  IInv' /\ Kept(db, db')
<1> USE DEF chainVars, workerVars
<1>1. TypeOK /\ Sane(db) /\ ReadsExist /\ Started /\ ChainType /\ LiveChains \subseteq Chains
  BY SettlementAssumption DEF IInv, TypeOK, ChainType, Chains
<1>2. ASSUME NEW c \in LiveChains, ClientPays(c) PROVE IInv' /\ Settled(db, db')
  <2>1. PICK a \in Payments, m \in IF c = "sol" THEN Memos ELSE {NoJob} : Mine(c, <<Credit(c, a, m)>>)
    BY <1>2 DEF ClientPays
  <2>2. c \in Chains /\ Height(c) \in Nat
    BY <1>1, <1>2 DEF ChainType, Height
  <2>3. Credit(c, a, m) \in Transfer
    BY <2>2, SettlementAssumption DEF Credit, Transfer
  <2>4. <<Credit(c, a, m)>> \in Seq(Transfer)
    BY <2>3
  <2> QED BY <2>1, <2>2, <2>4, MineInv
<1>3. ASSUME NEW c \in LiveChains, OwnerWithdraws(c) PROVE IInv' /\ Settled(db, db')
  BY <1>1, <1>3, WithdrawInv
<1>4. ASSUME ClientPaysTwice PROVE IInv' /\ Settled(db, db')
  <2>1. PICK a \in Payments, b \in Payments :
          Mine("eth", <<Credit("eth", a, NoJob), Credit("eth", b, NoJob)>>)
    BY <1>4 DEF ClientPaysTwice
  <2>2. "eth" \in Chains /\ Height("eth") \in Nat
    BY <1>1 DEF ChainType, Height, Chains
  <2>3. Credit("eth", a, NoJob) \in Transfer /\ Credit("eth", b, NoJob) \in Transfer
    BY <2>2, SettlementAssumption DEF Credit, Transfer
  <2>4. <<Credit("eth", a, NoJob), Credit("eth", b, NoJob)>> \in Seq(Transfer)
    BY <2>3
  <2> QED BY <2>1, <2>2, <2>4, MineInv
<1>5. ASSUME NEW j \in Jobs, IssueInvoice(j) PROVE IInv' /\ Kept(db, db')
  <2>1. Sane(db') /\ Kept(db, db')
    BY <1>1, <1>5, IssueSane DEF IssueInvoice
  <2>2. TypeOK' /\ ReadsExist'
    BY <1>1, <1>5, <2>1 DEF IssueInvoice, TypeOK, Sane, ReadsExist, ReadAt
  <2> QED BY <1>5, <2>1, <2>2, DatabaseStep DEF IssueInvoice
<1>6. ASSUME NEW j \in Jobs, VoidAged(j) PROVE IInv' /\ Settled(db, db')
  <2>1. Sane(db') /\ Settled(db, db')
    BY <1>1, <1>6, VoidSane DEF VoidAged
  <2>2. TypeOK' /\ ReadsExist'
    BY <1>1, <1>6, <2>1 DEF VoidAged, TypeOK, Sane, ReadsExist, ReadAt
  <2> QED BY <1>6, <2>1, <2>2, DatabaseStep DEF VoidAged
<1>7. ASSUME NEW j \in Jobs, CollectManual(j) PROVE IInv' /\ Settled(db, db')
  <2>1. Sane(db') /\ Settled(db, db')
    BY <1>1, <1>7, ManualSane DEF CollectManual
  <2>2. manuals' \in Nat
    BY <1>1, <1>7 DEF CollectManual, TypeOK
  <2>3. TypeOK' /\ ReadsExist'
    BY <1>1, <1>7, <2>1, <2>2 DEF CollectManual, TypeOK, Sane, ReadsExist, ReadAt
  <2> QED BY <1>7, <2>1, <2>3, DatabaseStep DEF CollectManual
<1>8. ASSUME NEW w \in Workers, FetchLogs(w) PROVE IInv' /\ Settled(db, db')
  <2>1. PICK eth \in Answers("eth", LogListings), sol \in Answers("sol", LogListings) :
        \E picks \in IF sol = 0 THEN {<<>>} ELSE SolPicks(sol) :
          LET ethLogs == IF eth = 0 THEN <<>> ELSE EthListing(eth)
          IN  listed' = [listed EXCEPT ![w] = ethLogs \o SolListing(picks)]
    BY <1>8 DEF FetchLogs
  <2>2. PICK picks \in IF sol = 0 THEN {<<>>} ELSE SolPicks(sol) :
          listed' = [listed EXCEPT ![w] =
                       (IF eth = 0 THEN <<>> ELSE EthListing(eth)) \o SolListing(picks)]
    BY <2>1
  <2>3. (IF eth = 0 THEN <<>> ELSE EthListing(eth)) \in Seq(Transfer)
    BY <1>1, EthListingType, EmptySeq
  <2>4. SolListing(picks) \in Seq(Transfer)
    <3>1. CASE sol = 0
      <4>1. picks = <<>>
        BY <3>1
      <4>2. SolListing(<<>>) = <<>>
        BY DEF SolListing
      <4> QED BY <4>1, <4>2, EmptySeq
    <3>2. CASE sol # 0
      BY <1>1, <3>2, SolListingType
    <3> QED BY <3>1, <3>2
  <2>5. listed' \in [Workers -> Seq(Transfer)]
    <3>1. (IF eth = 0 THEN <<>> ELSE EthListing(eth)) \o SolListing(picks) \in Seq(Transfer)
      BY <2>3, <2>4, ConcatProperties
    <3> QED BY <1>1, <2>2, <3>1 DEF TypeOK
  <2>6. phase' \in [Workers -> Phases]
    BY <1>1, <1>8 DEF FetchLogs, TypeOK, Phases
  <2>7. TypeOK' /\ ReadsExist'
    BY <1>1, <1>8, <2>5, <2>6 DEF FetchLogs, TypeOK, ReadsExist, ReadAt
  <2>8. Sane(db') /\ UNCHANGED <<db, chain>>
    BY <1>1, <1>8 DEF FetchLogs
  <2> QED BY <2>7, <2>8, DatabaseStep DEF Settled
<1>9. ASSUME NEW w \in Workers, SettleLogs(w) PROVE IInv' /\ Settled(db, db')
  <2>1. listed[w] \in Seq(Transfer)
    BY <1>1 DEF TypeOK
  <2>2. Sane(db') /\ Settled(db, db')
    BY <1>1, <1>9, <2>1, SettleTransfersSane DEF SettleLogs
  <2>3. listed' \in [Workers -> Seq(Transfer)] /\ phase' \in [Workers -> Phases]
    BY <1>1, <1>9, EmptySeq DEF SettleLogs, TypeOK, Phases
  <2>4. TypeOK' /\ ReadsExist'
    BY <1>1, <1>9, <2>2, <2>3 DEF SettleLogs, TypeOK, Sane, ReadsExist, ReadAt
  <2> QED BY <1>9, <2>2, <2>4, DatabaseStep DEF SettleLogs
<1>10. ASSUME NEW w \in Workers, FetchBalances(w) PROVE IInv' /\ Settled(db, db')
  <2>1. PICK eth \in Answers("eth", BalanceReads), sol \in Answers("sol", BalanceReads) :
          readAt' = [readAt EXCEPT ![w] = [c \in Chains |-> IF c = "eth" THEN eth ELSE sol]]
    BY <1>10 DEF FetchBalances
  <2>2. \A c \in Chains : Height(c) \in Nat
    BY <1>1 DEF ChainType, Height
  <2>3. eth \in 0..Height("eth") /\ sol \in 0..Height("sol")
    BY <2>1, <2>2 DEF Answers, Chains
  <2> DEFINE at == [c \in Chains |-> IF c = "eth" THEN eth ELSE sol]
  <2>4. at \in [Chains -> Nat] /\ \A c \in Chains : at[c] \in 0..Height(c)
    BY <2>2, <2>3 DEF Chains
  <2> HIDE DEF at
  <2>5. readAt' = [readAt EXCEPT ![w] = at]
    BY <2>1 DEF at
  <2>6. phase' \in [Workers -> Phases]
    BY <1>1, <1>10 DEF FetchBalances, TypeOK, Phases
  <2>7. UNCHANGED <<db, chain, withdrawals, listed, manuals, recognised>>
    BY <1>10 DEF FetchBalances
  <2>8. readAt' \in [Workers -> [Chains -> Nat]]
    BY <1>1, <2>4, <2>5 DEF TypeOK
  <2>9. TypeOK'
    BY <1>1, <2>6, <2>7, <2>8 DEF TypeOK
  <2>10. ReadsExist'
    BY <1>1, <2>4, <2>5, <2>7 DEF ReadsExist, ReadAt, Height, TypeOK
  <2> QED BY <1>1, <2>7, <2>9, <2>10, DatabaseStep DEF Settled
<1>11. ASSUME NEW w \in Workers, ApplyBalances(w) PROVE IInv' /\ Settled(db, db')
  <2>1. ReadAt(readAt[w])
    BY <1>1 DEF ReadsExist
  <2>2. Sane(db') /\ Settled(db, db')
    BY <1>1, <1>11, <2>1, ApplyBalanceReadsSane DEF ApplyBalances
  <2>3. readAt' \in [Workers -> [Chains -> Nat]] /\ phase' \in [Workers -> Phases]
    BY <1>1, <1>11 DEF ApplyBalances, TypeOK, Phases
  <2>4. recognised' \in Int
    <3>1. ASSUME NEW c \in Chains, NEW h \in 0..Len(chain[c].balances)
          PROVE  Recognised(c, h) \in Int
      <4>1. db \in DB /\ db.lots \in Seq(Lot) /\ db.balance[c] \in Nat
        BY <1>1 DEF Sane, DB
      <4>2. CASE IsFresh(db, c, h)
        <5>1. chain[c].balances[h] \in Nat
          BY <1>1, <4>2, BalanceAt DEF IsFresh
        <5>2. Delta(db, c, h) \in Int
          BY <4>1, <5>1 DEF Delta
        <5>3. ChainSuspense(db.lots, c) \in Nat
          BY <4>1, SuspenseNat
        <5> QED BY <5>2, <5>3 DEF Recognised, Greater
      <4>3. CASE ~IsFresh(db, c, h)
        BY <4>3 DEF Recognised
      <4> QED BY <4>2, <4>3
    <3>2. Recognised("eth", readAt[w]["eth"]) \in Int /\ Recognised("sol", readAt[w]["sol"]) \in Int
      BY <2>1, <3>1 DEF ReadAt, Chains
    <3> QED BY <1>1, <1>11, <3>2 DEF ApplyBalances, TypeOK
  <2>5. TypeOK'
    BY <1>1, <1>11, <2>2, <2>3, <2>4 DEF ApplyBalances, TypeOK, Sane
  <2>6. ReadsExist'
    <3>1. ReadAt([c \in Chains |-> 0])
      BY <1>1, NoReadAt
    <3> QED BY <1>1, <1>11, <3>1 DEF ApplyBalances, ReadsExist, ReadAt, TypeOK
  <2> QED BY <1>11, <2>2, <2>5, <2>6, DatabaseStep DEF ApplyBalances
<1>12. ASSUME NEW w \in Workers, LoseWorker(w) PROVE IInv' /\ Settled(db, db')
  <2>1. readAt' \in [Workers -> [Chains -> Nat]] /\ phase' \in [Workers -> Phases]
    BY <1>1, <1>12 DEF LoseWorker, TypeOK, Phases
  <2>2. listed' \in [Workers -> Seq(Transfer)]
    BY <1>1, <1>12, EmptySeq DEF LoseWorker, TypeOK
  <2>3. TypeOK'
    BY <1>1, <1>12, <2>1, <2>2 DEF LoseWorker, TypeOK
  <2>4. ReadsExist'
    <3>1. ReadAt([c \in Chains |-> 0])
      BY <1>1, NoReadAt
    <3> QED BY <1>1, <1>12, <3>1 DEF LoseWorker, ReadsExist, ReadAt, TypeOK
  <2>5. Sane(db') /\ UNCHANGED <<db, chain>>
    BY <1>1, <1>12 DEF LoseWorker
  <2> QED BY <2>3, <2>4, <2>5, DatabaseStep DEF Settled
<1>13. ASSUME UNCHANGED vars PROVE IInv' /\ Settled(db, db')
  <2>1. TypeOK' /\ ReadsExist' /\ Sane(db') /\ UNCHANGED <<db, chain>>
    BY <1>1, <1>13 DEF vars, TypeOK, ReadsExist, ReadAt
  <2> QED BY <2>1, DatabaseStep DEF Settled
<1>14. ASSUME Settled(db, db') PROVE Kept(db, db')
  BY <1>14, SettledIsKept
<1> QED BY <1>2, <1>3, <1>4, <1>5, <1>6, <1>7, <1>8, <1>9, <1>10, <1>11, <1>12, <1>13, <1>14
        DEF Next, Watch

-----------------------------------------------------------------------------
(* The theorems.                                                           *)

(* The inductive invariant holds in every state of every behaviour.        *)
THEOREM Invariant == Spec => []IInv
<1>1. IInv /\ [Next]_vars => IInv'
  BY NextInv
<1> QED BY InitInv, <1>1, PTL DEF Spec

(* Type correctness: the watcher's counters never go below zero, and no    *)
(* operation leaves a malformed row behind.                                *)
THEOREM Types == Spec => []TypeOK
<1>1. IInv => TypeOK
  BY DEF IInv
<1> QED BY Invariant, <1>1, PTL

(* The ledger always says what the invoices say, through every interleaving*)
(* of issue, void, manual collection and chain settlement.                 *)
THEOREM BooksAgree == Spec => []BooksMatchInvoices
<1>1. IInv => BooksMatchInvoices
  BY DEF IInv, Sane, BooksFollow, BooksMatchInvoices
<1> QED BY Invariant, <1>1, PTL

(* Any number of open invoices have amounts of their own, so an exact      *)
(* amount names at most one of them.                                       *)
THEOREM AmountsIdentify == Spec => []OpenAmountsDistinct
<1>1. IInv => OpenAmountsDistinct
  BY DEF IInv, Sane, DistinctOpen, OpenAmountsDistinct
<1> QED BY Invariant, <1>1, PTL

(* The payment counters are the sums of the invoices paid by each route.   *)
THEOREM CountersAgree == Spec => []CountersMatchInvoices
<1>1. IInv => CountersMatchInvoices
  BY DEF IInv, Sane, CountersFollow, CountersMatchInvoices
<1> QED BY Invariant, <1>1, PTL

(* However many workers apply however many listings, one transaction pays  *)
(* at most one invoice, and no invoice is paid by two.                     *)
THEOREM TxidsSettleOnce == Spec => []TxidSettlesOnce
<1>1. IInv => TxidSettlesOnce
  BY DEF IInv, Sane, TxidsPay, TxidSettlesOnce
<1> QED BY Invariant, <1>1, PTL

(* A paid invoice is never touched again, an open one keeps its amount,    *)
(* and one that was written off is at most billed anew.                    *)
THEOREM SettlementIsFinal == Spec => SettledForGood
<1>1. IInv /\ [Next]_vars => [Kept(db, db')]_vars
  BY NextInv
<1>2. [Kept(db, db')]_vars =>
        [\A j \in Jobs :
           LET was == db.invoice[j]  is == db'.invoice[j] IN
           /\ was.status = "paid" => is = was
           /\ was.status = "open" => is.amount = was.amount
           /\ was.status = "void" =>
                is = was \/ (is.status = "open" /\ is.source = "none")]_vars
  BY DEF Kept
<1> QED BY Invariant, <1>1, <1>2, PTL DEF Spec, SettledForGood
=============================================================================
