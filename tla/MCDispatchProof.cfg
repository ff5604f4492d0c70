SPECIFICATION Spec
CONSTANTS
  a = a
  b = b
  x = x
  t1 = t1
  t2 = t2
  d1 = d1
  d2 = d2
  Cycle = {c1}
  NumStreams = 1
  Ticket = {a}
  Tuple = {t1, t2}
  Digest = {d1, d2}
  Content <- ProofContent
  Overlaps = {}
  Policy <- PathPolicy
  MaxCapacity = 1
  MaxGen = 1
  MaxSeals = 1
  None = None
INVARIANTS ProofIsAccepted

