SPECIFICATION Spec
CONSTANTS
  c1 = c1
  c2 = c2
  Clients = {c1, c2}
  CacheTime = 2
  RefreshTime = 5
  MaxAge = 20
  ReadTime = 2
INVARIANTS TypeOK StaysFresh DegradedIsLifted
PROPERTY OneReadPerWindow
SYMMETRY Symmetry
