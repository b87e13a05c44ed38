SPECIFICATION FairSpec
CONSTANTS
  w1 = w1
  w2 = w2
  s1 = s1
  s2 = s2
  Workers = {w1, w2}
  NoWorker = NoWorker
  Msgs = {1}
  Sites = {s1}
  Deletable = {}
  SiteOf <- OneSite
  TextRank <- LaterSortsFirst
  MaxAttempts = 1
  MaxFaults = 1
  MaxReplays = 0
  Horizon = 0
  LateReplay = FALSE
INVARIANTS AckedIsSettled
PROPERTIES PendingIsReleased ManifestIsDecided
