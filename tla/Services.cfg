SPECIFICATION ServicesSpec
CONSTANTS
  Under = {"vault", "world"}
  Procs = {p1, p2}
  Creds = {c1, c2}
  MaxKeys = 6
  Careful = TRUE
  Engines = {p1, p2}
  Commands = {p3}
  MaxFiles = 2
  Cooldown = 1
  Flaky = {"trader"}
  MaxTicks = 2
  Quiet = TRUE
SYMMETRY Symmetric
CHECK_DEADLOCK FALSE
INVARIANTS
  Recoverable OpenedIsNewest
  OneHeart CompletedIsPersisted TraderFollowsBroker
PROPERTIES
  OldKeyRetired
  TicksUnique
