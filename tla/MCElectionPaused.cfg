SPECIFICATION Spec
CONSTANTS
  Instances = {i1}
  Sending = {i1}
  NoOne = NoOne
  Orphan = Orphan
  MaxFaults = 0
  Timeout = 1
  MaxTime = 2
PROPERTY
  PausedStaysOut
