SPECIFICATION FairSpec
CONSTANTS
  c1 = c1
  m1 = m1
  Calls = {c1, c2}
  Metrics = {m1}
  Series = {s1}
  Copiers = {k1}
  Buffers = {b1, b2, b3}
  Rows <- MCRows
  Size <- MCSize
  Labels <- MCLabels
  FlushSize = 2
  ChanCap = 1
  CopyCap = 1
  AsyncAcks = TRUE
  Faults = {"create", "lostCreate", "series", "insert", "compressed", "decompress", "finalize"}
  MaxFaults = 1
  MaxCrashes = 0
  None = None
INVARIANTS
  WaitGroupExact
  NoSendOnClosedChannel
  SuccessMeansStored
PROPERTIES
  EveryCallReturns
