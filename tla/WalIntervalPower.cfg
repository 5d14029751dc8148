CONSTANTS
  SyncPolicy = "SyncInterval"
  CrashKinds = {"power"}
  MaxCapacity = 2
  BufferFrames = 2
  BatchSize = 2
  Callers = 1
  MaxAttempts = 2
  MaxRestarts = 2
  MaxFaults = 0
SPECIFICATION Spec
INVARIANTS AckedNotSkipped
