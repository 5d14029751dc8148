CONSTANTS
  SyncPolicy = "SyncEveryRecord"
  CrashKinds = {"power"}
  MaxCapacity = 2
  BufferFrames = 1
  BatchSize = 2
  Callers = 2
  MaxAttempts = 4
  MaxRestarts = 3
  MaxFaults = 2
SPECIFICATION Spec
INVARIANTS AckedNotLost UniqueIds
