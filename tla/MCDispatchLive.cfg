SPECIFICATION FairSpec
CONSTANTS
  a = a
  b = b
  x = x
  t1 = t1
  t2 = t2
  d1 = d1
  d2 = d2
  Cycle = {c1}
  NumStreams = 1
  Ticket = {a, b}
  Tuple = {t1}
  Digest = {d1}
  Content <- LiveContent
  Overlaps = {}
  Policy <- LivePolicy
  MaxCapacity = 1
  MaxGen = 2
  MaxSeals = 0
  None = None
PROPERTIES ClaimsSettle ProofsSettle
