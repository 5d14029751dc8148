CONSTANTS
  k1 = k1
  f1 = f1
  c1 = c1
  c2 = c2
  Callers = {c1, c2}
  Flushers = {f1}
  Closers = {k1}
  Impatient = {f1}
  MaxCapacity = 2
  BatchSize = 1
SPECIFICATION FairSpec
INVARIANTS TypeOK StorageLeftAlone FlushMeansDrained
PROPERTIES RecordsLeave CloseReturns FlushEndsAtClose
