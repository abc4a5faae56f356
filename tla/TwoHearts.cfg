SPECIFICATION ServicesSpec
CONSTANTS
  Under = {"world"}
  Procs = {p1, p2}
  Creds = {c1, c2}
  MaxKeys = 6
  Careful = TRUE
  Engines = {p1, p2}
  Commands = {p3}
  MaxFiles = 2
  Cooldown = 1
  Flaky = {"trader"}
  MaxTicks = 1
  Quiet = FALSE
CHECK_DEADLOCK FALSE
INVARIANTS OneHeart
