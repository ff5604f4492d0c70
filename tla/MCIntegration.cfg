SPECIFICATION MCSpec
CONSTANTS
  a1 = a1
  b1 = b1
  d1 = d1
  ka = ka
  kb = kb
  kd = kd
  ha = ha
  hb = hb
  hd = hd
  h2 = h2
  i1 = i1
  v1 = v1
  v2 = v2
  x1 = x1
  x2 = x2
  q1 = q1
  q2 = q2
  n1 = n1
  n2 = n2
  u1 = u1
  u2 = u2
  None = None
  Pr <- MCPr
  Sha <- MCSha
  Ticket <- MCTicket
  Own <- MCOwn
  Offer <- MCOffer
  Instruction <- MCInstruction
  StallAfter = 1
  MaxTip = 2
  MaxClock = 2
  HeavyRun <- MCHeavyRun
  Partition <- MCPartition
  Parallel <- MCParallel
  MaxWorkers = 2
  RetryLimit = 1
  Candidate <- MCCandidate
  Reviewer <- MCReviewer
  ReviewerSet <- MCReviewerSet
  Submitter <- MCSubmitter
  MaxCycle = 2
SYMMETRY MCSymmetry
INVARIANTS DeliveryTypeOK QueueIsSound FrontGetsItsTime
  TreesWithinCapacity SubmissionHoldsItsCycle
CHECK_DEADLOCK FALSE
