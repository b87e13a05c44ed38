SPECIFICATION Spec
CONSTANTS
  s1 = s1
  s2 = s2
  j1 = j1
  j2 = j2
  j3 = j3
  Workers = {w1, w2}
  NoWorker = NoWorker
  Jobs = {j1, j2, j3}
  NoJob = NoJob
  Subjects = {s1, s2}
  SubjectOf <- TwoSubjects
  MaxAttempts = 2
  Limit = 2
  MaxFaults = 1
INVARIANTS OneLivePerSubject CountIsCurrent
PROPERTIES LeaseSpec GivenUpWhenSpent
SYMMETRY Symmetry
CHECK_DEADLOCK FALSE
