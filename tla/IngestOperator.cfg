SPECIFICATION Spec
CONSTANTS
  w1 = w1
  w2 = w2
  s1 = s1
  s2 = s2
  Workers = {w1}
  NoWorker = NoWorker
  Msgs = {1, 2}
  Sites = {s1, s2}
  Deletable = {s1}
  SiteOf <- TwoSites
  TextRank <- LaterSortsFirst
  MaxAttempts = 2
  MaxFaults = 2
  MaxReplays = 1
  Horizon = 1
  LateReplay = TRUE
INVARIANTS RowAtMostOnce BilledOnceAndStored CompletedReconciles
PROPERTY DeadLetteredAfterRetries
