SPECIFICATION FairSpec
CONSTANTS
  Instances = {i1, i2}
  Sending = {}
  NoOne = NoOne
  Orphan = Orphan
  MaxFaults = 2
  Timeout = 1
  MaxTime = 2
PROPERTY
  RunningGroupHasLeader
CHECK_DEADLOCK FALSE
