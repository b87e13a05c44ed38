SPECIFICATION FairSpec
CONSTANTS
  Rows = {r1, r2}
  Drains = {d1, d2}
  NoRow = NoRow
  MaxAttempts = 3
  Limit = 2
INVARIANTS SentBounded VerdictIsTrue
PROPERTY RowIsSettled
CHECK_DEADLOCK FALSE
