SPECIFICATION MCSpec
CONSTANTS
  f1 = f1
  ci = ci
  b1 = b1
  b2 = b2
  s1 = s1
  s2 = s2
  w1 = "w1"
  w2 = "w2"
  r1 = r1
  r2 = r2
  Finding <- MCFinding
  Boundary <- MCBoundary
  CiFinding = ci
  MaxRuns = 3
  MaxCycles = 1
  MaxExtensions = 1
  MaxWait = 1
  MaxBase = 1
  Batch <- MCBatch
  Stream <- MCStream
  Work <- MCWork
  Resumer <- MCResumer
SYMMETRY MCSymmetry
INVARIANTS HostTypeOK ReadyIsReviewed AgentsAreAccounted PublishedIsRecorded DraftRequestedOnce
CHECK_DEADLOCK FALSE
