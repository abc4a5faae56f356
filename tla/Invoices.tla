------------------------------ MODULE Invoices ------------------------------
(***************************************************************************)
(* The invoice life cycle of sovereign/capital/invoice.py over the         *)
(* double-entry books of capital/ledger.py.  An operation is a function    *)
(* from one committed database S to the next: the code runs each of them   *)
(* inside store.transaction(), so nothing in between can be observed.      *)
(*                                                                         *)
(* S is a record; this module reads and writes the fields                  *)
(*   invoice  one row per job (an invoice's id is derived from its job's   *)
(*            id, so they share the index)                                 *)
(*   price    price_usd in the copies of the job a treasurer may bill: they *)
(*            are copies of a row that said 'delivered', and only a crafter *)
(*            writes that, with the price the job was queued at            *)
(*   books    account balances, debits minus credits                       *)
(*                                                                         *)
(* The status and the amount issue() and collect() also write into the     *)
(* job's own row are in Jobs.tla; nothing here reads them.                 *)
(***************************************************************************)
EXTENDS Integers, FiniteSets, Sums

CONSTANTS
  NumJobs,  (* jobs the firm has delivered; jobs are numbered as stored     *)
  Prices,   (* amounts a job can be quoted at, in the smallest USDC unit    *)
  Cent      (* one cent in the smallest USDC unit: the step that keeps the  *)
            (* amounts of open invoices apart                               *)

ASSUME InvoicesAssumption ==
  /\ NumJobs \in Nat \ {0}
  /\ Prices \subseteq Nat \ {0}
  /\ Cent \in Nat \ {0}

Jobs     == 1..NumJobs
NoJob    == 0
Accounts == {"usdc", "receivable", "unearned", "income"}
Sources  == {"none", "chain", "manual"}
Invoice  == [status: {"none", "open", "paid", "void"}, amount: Nat, source: Sources]
NoInvoice == [status |-> "none", amount |-> 0, source |-> "none"]

Post(books, debit, credit, amount) ==
  [a \in Accounts |-> books[a] + (IF a = debit  THEN amount ELSE 0)
                               - (IF a = credit THEN amount ELSE 0)]

(* The rows store.invoices("open") lists.                                  *)
Open(S) == {j \in Jobs : S.invoice[j].status = "open"}

(* The open invoices of exactly this amount.                               *)
Candidates(S, amount) == {j \in Open(S) : S.invoice[j].amount = amount}

(* Mutant: the quote is used as it is.                                     *)
UniqueOpenAmount_AsQuoted(S, quoted) == quoted

(* The first amount at or above the quote that no open invoice uses.       *)
UniqueOpenAmount(S, quoted) ==
  LET used  == {S.invoice[j].amount : j \in Open(S)}
      cents == CHOOSE k \in 0..NumJobs :
                 /\ quoted + k * Cent \notin used
                 /\ \A i \in 0..(k - 1) : quoted + i * Cent \in used
  IN  quoted + cents * Cent

(* Mutant: only an open invoice is returned as it is.                      *)
Issue_PaidAgain(S, j) ==
  LET amount == UniqueOpenAmount(S, S.price[j])
  IN  IF S.invoice[j].status = "open"
      THEN S
      ELSE [S EXCEPT
              !.invoice = [@ EXCEPT ![j] = [status |-> "open", amount |-> amount,
                                            source |-> "none"]],
              !.books   = Post(@, "receivable", "unearned", amount)]

(* issue(): bill job j.  An open or paid invoice is returned as it is; one *)
(* that was written off is overwritten by a new bill under the same id.    *)
(* The status of the job is not looked at.                                 *)
Issue(S, j) ==
  LET amount == UniqueOpenAmount(S, S.price[j])
  IN  IF S.invoice[j].status \in {"open", "paid"}
      THEN S
      ELSE [S EXCEPT
              !.invoice = [@ EXCEPT ![j] = [status |-> "open", amount |-> amount,
                                            source |-> "none"]],
              !.books   = Post(@, "receivable", "unearned", amount)]

(* Mutant: the income is recognised but the cash leg is never posted.      *)
Collect_NoCash(S, j, source) ==
  IF S.invoice[j].status \in {"paid", "void"}
  THEN S
  ELSE [S EXCEPT
          !.invoice = [@ EXCEPT ![j].status = "paid", ![j].source = source],
          !.books   = Post(@, "unearned", "income", S.invoice[j].amount)]

(* collect(): settle the invoice of job j and recognise its income.        *)
Collect(S, j, source) ==
  LET amount == S.invoice[j].amount
      cash   == Post(S.books, "usdc", "receivable", amount)
  IN  IF S.invoice[j].status \in {"paid", "void"}
      THEN S
      ELSE [S EXCEPT
              !.invoice = [@ EXCEPT ![j] = [status |-> "paid", amount |-> amount,
                                            source |-> source]],
              !.books   = Post(cash, "unearned", "income", amount)]

(* Mutant: the write-off does not reverse the receivable.                  *)
Void_NoReversal(S, j) ==
  IF S.invoice[j].status # "open"
  THEN S
  ELSE [S EXCEPT !.invoice = [@ EXCEPT ![j].status = "void"]]

(* void(): write an open invoice off.                                      *)
Void(S, j) ==
  IF S.invoice[j].status # "open"
  THEN S
  ELSE [S EXCEPT
          !.invoice = [@ EXCEPT ![j].status = "void"],
          !.books   = Post(@, "unearned", "receivable", S.invoice[j].amount)]

-----------------------------------------------------------------------------
(* What the amounts of the invoices that satisfy a condition add up to.    *)

OpenAmount(S) ==
  [j \in Jobs |-> IF S.invoice[j].status = "open" THEN S.invoice[j].amount ELSE 0]
PaidAmount(S) ==
  [j \in Jobs |-> IF S.invoice[j].status = "paid" THEN S.invoice[j].amount ELSE 0]
PaidVia(S, source) ==
  [j \in Jobs |-> IF S.invoice[j].status = "paid" /\ S.invoice[j].source = source
                  THEN S.invoice[j].amount ELSE 0]
InvoiceTotal(amounts) == SumTo(amounts, NumJobs)
=============================================================================
