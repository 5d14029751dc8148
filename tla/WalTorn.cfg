CONSTANTS
  SyncPolicy = "SyncBatchCommit"
  CrashKinds = {}
  Sizes = {1, 2}
  MaxSegmentSize = 3
  BufferSize = 2
  MaxRecoverable = 2
  MaxCapacity = 3
  BatchSize = 2
  MaxAttempts = 4
  MaxRestarts = 1
  MaxFaults = 1
  MaxStrays = 1
SPECIFICATION Spec
INVARIANT DurableKept
CHECK_DEADLOCK FALSE
