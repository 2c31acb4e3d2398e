SPECIFICATION FairSpec
CONSTANTS
  Instances = {i1, i2}
  Sending = {i1, i2}
  NoOne = NoOne
  Orphan = Orphan
  MaxFaults = 3
  Timeout = 0
  MaxTime = 0
PROPERTIES
  AnotherLeads
  StaleLeaderStepsDown
