SPECIFICATION Spec
CONSTANTS
  c1 = c1
  m1 = m1
  Calls = {c1, c2}
  Metrics = {m1, m2}
  Series = {s1}
  Copiers = {k1}
  Buffers = {b1, b2, b3, b4}
  Rows <- MCRows
  Size <- MCSize
  Labels <- MCLabels
  FlushSize = 1
  ChanCap = 1
  CopyCap = 1
  AsyncAcks = FALSE
  Faults = {"create", "series", "insert", "compressed", "decompress"}
  MaxFaults = 2
  MaxCrashes = 0
  None = None
SYMMETRY Symmetry
INVARIANTS
  TypeOK
  WaitGroupExact
  NoSendOnClosedChannel
  SuccessMeansStored
  BufferHasOneOwner
  RowsReachTheirTable
  BatchPosition
  BlockedRoutineOwesNothing
PROPERTIES
  ImplementsWriteService
