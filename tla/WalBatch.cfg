CONSTANTS
  SyncPolicy = "SyncBatchCommit"
  CrashKinds = {"process", "power"}
  MaxCapacity = 3
  BufferFrames = 2
  BatchSize = 2
  Callers = 1
  MaxAttempts = 4
  MaxRestarts = 2
  MaxFaults = 1
SPECIFICATION FairSpec
INVARIANTS TypeOK NothingSkipped HandIsCurrent
PROPERTIES MetaNeverRegresses DurablePrefixKept ImplementsQueue DurableDelivered
