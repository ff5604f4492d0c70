SPECIFICATION Spec
CONSTANTS
  a = a
  b = b
  x = x
  t1 = t1
  t2 = t2
  d1 = d1
  d2 = d2
  Cycle = {c1}
  NumStreams = 2
  Ticket = {a, b, x}
  Tuple = {t1}
  Digest = {d1}
  Content <- PathContent
  Overlaps <- PathOverlaps
  Policy <- PathPolicy
  MaxCapacity = 2
  MaxGen = 1
  MaxSeals = 0
  None = None
INVARIANTS OneWriterPerPath

