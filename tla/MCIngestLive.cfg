SPECIFICATION FairSpec
CONSTANTS
  c1 = c1
  m1 = m1
  Calls = {c1}
  Metrics = {m1, m2}
  Series = {s1}
  Copiers = {k1}
  Buffers = {b1, b2, b3, b4}
  Rows <- MCRows
  Size <- MCSize
  Labels <- MCLabels
  FlushSize = 1
  ChanCap = 1
  CopyCap = 1
  AsyncAcks = FALSE
  Faults = {"create"}
  MaxFaults = 1
  MaxCrashes = 1
  None = None
PROPERTIES
  EveryCallReturns
  CreatedIsCompleted
