SPECIFICATION StreamsSpec
CONSTANTS
  c1 = c1
  c2 = c2
  a = a
  b = b
  x = x
  t1 = t1
  t2 = t2
  d1 = d1
  d2 = d2
  Cycle = {c1, c2}
  NumStreams = 2
  Ticket = {a, b}
  Tuple = {t1}
  Digest = {d1}
  Content <- StreamsContent
  Overlaps = {}
  Policy <- StreamsPolicy
  MaxCapacity = 2
  MaxGen = 1
  MaxSeals = 0
  None = None
INVARIANTS TypeOK OneStreamPerTicket UnknownBlocksItsTicket HostAndLedgerAgree
PROPERTIES StatusChangeIsRevised
