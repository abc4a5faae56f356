CONSTANTS
  NumJobs = 2
  Prices = {1}
  Cent = 1
  Workers = {w1, w2}
  Payments = {1, 2}
  Memos = {0, 1}
  MaxBlocks = 2
  MaxWithdrawn = 0
  MaxManual = 0
  Lookback = 4
  UseTxLogs = TRUE
  LogListings = "sometimes"
  BalanceReads = "never"
  LiveChains = {"eth", "sol"}
  Batches = FALSE
SPECIFICATION Spec
CHECK_DEADLOCK FALSE
INVARIANTS
  TxidSettlesOnce
