SPECIFICATION FairSpec
CONSTANTS
  v1 = v1
  v2 = v2
  p1 = p1
  p2 = p2
  w1 = w1
  w2 = w2
  Visitors = {v1}
  Passes = {p1}
  Names = {w1}
  NoName = NoName
  MaxTime = 6
  LastEvent = 2
  MaxEvents = 3
  MaxRuns = 0
  MaxFaults = 0
  Inactivity = 1
  Cap = 2
  Lateness = 1
  LeaseTTL = 0
  PassTime = 1
  RowCap = 3
  Width = 2
PROPERTY BacklogDrains
CHECK_DEADLOCK FALSE
