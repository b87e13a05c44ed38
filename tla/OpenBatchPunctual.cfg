SPECIFICATION FairSpec
CONSTANTS
  MaxRows = 3
  MaxBytes = 4
  MaxFlush = 3
  Sizes = {1, 2}
  MaxWork = 1
  MaxBackoff = 2
  MaxQueued = 2
INVARIANTS TypeOK LimitsClose BlockEndsAtTrigger
PROPERTIES HeldIsClosed EmptyLoopStops
CHECK_DEADLOCK FALSE
