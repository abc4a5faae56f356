SPECIFICATION FairSpec
CONSTANTS
  MaxAttempts = 2
  DeadlineTicks = 1
  MaxAge = 2
  Workers = {1, 2}
  MaxRequests = 1
  MaxNotes = 1
  Notified = {"director"}
  Dissenters = {}
  Freezable = {"risk"}
  MaxFaults = 2
  Faults = {"pump_raises", "requeue"}
PROPERTIES QuorumEnds RequestsEnd
