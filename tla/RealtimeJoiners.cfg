SPECIFICATION Spec
CONSTANTS
  c1 = c1
  c2 = c2
  Clients = {c1, c2}
  CacheTime = 1
  RefreshTime = 5
  MaxAge = 20
  ReadTime = 1
INVARIANT OldMeansDead
SYMMETRY Symmetry
