CONSTANTS
  p1 = p1
  all = all
  errors = errors
  k1 = k1
  Publishers = {p1}
  Streams <- MCStreams
  Closers = {k1}
  Nobody = Nobody
  Kinds <- MCKinds
  Wanted <- MCWanted
  ChanCap = 1
  MaxIngest = 2
SPECIFICATION FairSpec
INVARIANTS NoSendOnClosed StreamsReleased EntriesAccounted
PROPERTIES IngestReturns StreamsEnd
