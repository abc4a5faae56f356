CONSTANTS
  NumJobs = 2
  Prices = {1}
  Cent = 1
  Workers = {w1}
  Payments = {1}
  Memos = {0}
  MaxBlocks = 2
  MaxWithdrawn = 0
  MaxManual = 0
  Lookback = 4
  UseTxLogs = TRUE
  LogListings = "sometimes"
  BalanceReads = "sometimes"
  LiveChains = {"sol"}
  Batches = FALSE
SPECIFICATION FairSpec
CHECK_DEADLOCK FALSE
PROPERTIES
  ExactTransferSettles
