CONSTANTS
  NumJobs = 2
  Prices = {1}
  Cent = 1
  Workers = {w1}
  Payments = {1, 2}
  Memos = {0}
  MaxBlocks = 2
  MaxWithdrawn = 1
  MaxManual = 1
  Lookback = 4
  UseTxLogs = TRUE
  LogListings = "sometimes"
  BalanceReads = "sometimes"
  LiveChains = {"eth"}
  Batches = TRUE
SPECIFICATION Spec
CHECK_DEADLOCK FALSE
INVARIANTS
  FundsConserved
  CountersMatchInvoices
PROPERTIES
  KeepsPromise
