SPECIFICATION MCSpec
CONSTANTS
  t1 = t1  t2 = t2  o1 = o1  o2 = o2  workers = workers  tool = tool
  p1 = p1  p2 = p2  r1 = r1  r2 = r2  g1 = g1  g2 = g2  s1 = s1  s2 = s2
  b1 = b1  b2 = b2  b3 = b3  k1 = k1  k2 = k2  None = None
  c1 = c1  c2 = c2  h1 = h1  h2 = h2  m1 = m1  m2 = m2  NoCommit = NoCommit
  Task <- MCTask  Owner <- MCOwner  Class <- MCClass  Demand <- MCDemand  Limit <- MCLimit
  Operation <- MCOperation  Request <- MCRequest  Gate <- MCGate  SourceEvent <- MCSourceEvent
  Run <- MCRun  Ticket <- MCTicket  Cost <- MCCost  Caller <- MCCaller  Commit <- MCCommit
  Controller <- MCController
  w1 = w1  w2 = w2  begin = begin  done = done  todo = todo  doing = doing  closed = closed
  Writer <- MCWriter  Event <- MCEvent  JiraStatus <- MCJiraStatus  Target <- MCTarget
  Opening = todo  Closing = done  WriteRun = {0}
  RunLimit = 2  CostLimit = 2  DailyLimit = 3  TTL = 1  DayLength = 2
  MaxClock = 2  MaxGeneration = 3  MaxLeases = 3  MaxRevision = 4  MaxHead = 1  MaxMoves = 3
SYMMETRY MCSymmetry
INVARIANTS CoordinatorTypeOK OnlyTheCurrentActs HandedOutOnce NothingOvercommitted
           MergeIsAuthorized SyncIsSafe SuccessIsItsOwn
PROPERTIES NoStartUnderGate NoWriteOverUncertainty
CHECK_DEADLOCK FALSE
