SPECIFICATION Spec
CONSTANTS
  MaxAttempts = 2
  DeadlineTicks = 1
  MaxAge = 2
  Workers = {1, 2}
  MaxRequests = 2
  MaxNotes = 0
  Notified = {}
  Dissenters = {"director"}
  Freezable = {}
  MaxFaults = 1
  Faults = {"pump_hangs", "pump_raises", "role_hangs", "role_raises", "crash", "purge"}
INVARIANTS DoneMeansAnswered PurchaseApproved BoughtOnce
PROPERTIES EndedStaysEnded
