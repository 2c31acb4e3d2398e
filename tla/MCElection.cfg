SPECIFICATION Spec
CONSTANTS
  Instances = {i1, i2}
  Sending = {i1, i2}
  NoOne = NoOne
  Orphan = Orphan
  MaxFaults = 2
  Timeout = 1
  MaxTime = 2
SYMMETRY Symmetry
INVARIANTS
  TypeOK
  LeaderHoldsLock
  ObtainedHasConnection
  LeakedDoesNotLead
PROPERTY
  ImplementsLeadership
CHECK_DEADLOCK FALSE
