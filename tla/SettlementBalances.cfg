CONSTANTS
  NumJobs = 2
  Prices = {1}
  Cent = 1
  Workers = {w1, w2}
  Payments = {1, 2}
  Memos = {0}
  MaxBlocks = 2
  MaxWithdrawn = 1
  MaxManual = 1
  Lookback = 4
  UseTxLogs = FALSE
  LogListings = "always"
  BalanceReads = "sometimes"
  LiveChains = {"eth", "sol"}
  Batches = FALSE
SPECIFICATION Spec
CHECK_DEADLOCK FALSE
INVARIANTS
  TypeOK
  BooksMatchInvoices
  OpenAmountsDistinct
  SuspenseBacked
  ChainPaymentsBacked
PROPERTIES
  TaintedNeverPays
  SettledForGood
