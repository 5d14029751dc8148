CONSTANTS
  Ids = {1, 2, 3, 4}
  MaxCapacity = 2
  BatchSize = 2
SPECIFICATION Spec
INVARIANTS TypeOK HandIsCurrent
PROPERTIES ImplementsQueue
