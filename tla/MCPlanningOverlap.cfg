SPECIFICATION Spec
CONSTANTS
  e1 = e1
  e2 = e2
  e3 = e3
  Cycle = {c1, c2}
  Input = {i1}
  Source = {e2}
  Trigger <- OverlapTrigger
  Override <- OverlapOverride
  Window = 2
  Retain = 2
  MinTick = 1
  MaxClock = 2
  MaxCycles = 2
  None = None
INVARIANTS OwnerChainGrows
