SPECIFICATION Spec
CONSTANTS
  MaxAttempts = 2
  DeadlineTicks = 1
  MaxAge = 2
  Workers = {1, 2}
  MaxRequests = 2
  MaxNotes = 0
  Notified = {}
  Dissenters = {"director"}
  Freezable = {"risk"}
  MaxFaults = 2
  Faults = {"pump_raises", "role_raises", "crash", "requeue", "purge"}
PROPERTIES KeepsPromise OneAttemptPerTick
