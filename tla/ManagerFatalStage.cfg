SPECIFICATION FairSpec
CONSTANTS
  Document = {}
  Stage = {p1}
  Fatal = {p1}
  Version = {1}
  Arguments = {a1}
  Sources = {s1}
  Capacity = 4
  MaxEntries = 1
  MaxCalls = 1
  MaxFaults = 0
PROPERTIES
  StageReported
CHECK_DEADLOCK FALSE
