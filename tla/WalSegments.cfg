CONSTANTS
  SyncPolicy = "SyncBatchCommit"
  CrashKinds = {"process", "power"}
  Sizes = {1, 2}
  MaxSegmentSize = 3
  BufferSize = 2
  MaxRecoverable = 2
  MaxCapacity = 3
  BatchSize = 2
  MaxAttempts = 4
  MaxRestarts = 2
  MaxFaults = 2
  MaxStrays = 1
SPECIFICATION Spec
INVARIANTS TypeOK RestartFindsIndex NothingSkipped DurableUnlessCut
PROPERTIES OnlySettledRemoved
CHECK_DEADLOCK FALSE
