CONSTANTS
  many = many
  one = one
  viewer = viewer
  Requests <- MCRequests
  Impatient = {many}
  Asks <- MCAsks
  Streams = {viewer}
  Sinks = {"target", "moved", "unusable"}
  Statuses = {200, 422, 429}
  MaxCapacity = 2
  BatchSize = 2
  MaxFaults = 1
SPECIFICATION FairSpec
INVARIANTS TypeOK IngestedExact  
PROPERTIES AnswersTrue ShutdownEnds
