SPECIFICATION WorkSpec
CONSTANTS
  Under = {"jobs", "letters", "human", "balances", "router", "market",
           "browsing", "alerts", "backup", "trials", "bridge"}
  Gigs = {x1, x2}
  Threads = {t1, t2}
  Cap = 1
  Faults = {"crash", "late", "meddle"}
  Keys = {k1}
  Senders = {t1, t2}
  Drops = {x1, x2}
  MaxRows = 2
  Services = {"smtp", "exchange"}
  MaxItems = 3
  Values = {"a", "b"}
  Tidy = TRUE
  Callers = {c1}
  Genesis = 1
  MaxRevision = 5
  MaxExternal = 3
  Entries = {"craft_provider_retry", "market_prices", "market_certification"}
  MaxTime = 12
  Askers = {t1, t2}
  Budget = 2
  Sizes = {1, 2}
  MaxReply = 1
  DayLength = 2
  CraftEvery = 1
  MaxDays = 2
  PriceEvery = 3
  PriceAgain = 1
  CertEvery = 5
  CertFirst = 3
  CertAgain = 2
  Sites = {x1, x2}
  Forbidden = none
  PerTick = 3
  PerSession = 2
  MaxLogin = 3
  Manners = {"one site", "turns"}
  Kinds = {x1, x2}
  Window = 2
  MaxClock = 5
  Papers = {x1, x2}
  Stray = stray
  Offers = {1, 2}
  Uses = 1
  MaxTrials = 2
  MaxUses = 1
  MaxTroubles = 2
  Servers = {k1}
  Users = {t1, t2}
  CallsPerTick = 1
  MaxBuilt = 2
SYMMETRY Symmetric
CHECK_DEADLOCK FALSE
INVARIANTS
  BilledWorkWasOrdered CapKept
  MailIsSafe
  ReplyIsVaulted
  CashIsReal
  RouterRestrained
  LoginKept
  BackupIsWhole
  NothingRunsOn
PROPERTIES
  RejectedIsFinal TriedOnTime ToldInTime JudgedOnUse
