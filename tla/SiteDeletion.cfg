SPECIFICATION Spec
CONSTANTS
  w1 = w1
  w2 = w2
  Workers = {w1, w2}
  NoWorker = NoWorker
  MaxAttempts = 1
  CacheTTL = 1
  Margin = 2
  FillTime = 1
  RequestTime = 1
  Skew = 0
  MaxFaults = 1
INVARIANTS TypeOK VerifiedIsGone
PROPERTIES DrainClosesIngest CompletedIsFinal
SYMMETRY Symmetry
CHECK_DEADLOCK FALSE
