CONSTANTS
  NumJobs = 2
  Prices = {1}
  Cent = 1
  Workers = {w1}
  Payments = {1}
  Memos = {0}
  MaxBlocks = 1
  MaxWithdrawn = 0
  MaxManual = 0
  Lookback = 4
  UseTxLogs = TRUE
  LogListings = "always"
  BalanceReads = "always"
  LiveChains = {"eth"}
  Batches = FALSE
SPECIFICATION Spec
CHECK_DEADLOCK FALSE
INVARIANTS
  ChainPaymentsBacked
