CONSTANTS
  k1 = k1
  f1 = f1
  c1 = c1
  Callers = {c1}
  Flushers = {f1}
  Closers = {k1}
  Impatient = {}
  MaxCapacity = 2
  BatchSize = 2
SPECIFICATION BrokenDiskSpec
PROPERTIES CloseReturns
