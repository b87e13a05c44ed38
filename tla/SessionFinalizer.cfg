SPECIFICATION Spec
CONSTANTS
  v1 = v1
  v2 = v2
  p1 = p1
  p2 = p2
  w1 = w1
  w2 = w2
  Visitors = {v1, v2}
  Passes = {p1, p2}
  Names = {w1}
  NoName = NoName
  MaxTime = 6
  LastEvent = 2
  MaxEvents = 3
  MaxRuns = 3
  MaxFaults = 1
  Inactivity = 1
  Cap = 2
  Lateness = 2
  LeaseTTL = 0
  PassTime = 1
  RowCap = 3
  Width = 2
INVARIANTS TypeOK NoEventTwice BehindWatermarkIsCounted RollupsMatch
PROPERTIES BehindWatermarkIsFinal SameAsFromScratch
SYMMETRY Symmetry
CHECK_DEADLOCK FALSE
