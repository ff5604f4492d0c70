SPECIFICATION Spec
CONSTANTS
  e1 = e1
  e2 = e2
  e3 = e3
  Cycle = {c1}
  Input = {i1, i2}
  Source = {e1}
  Trigger <- ClockTrigger
  Override <- ClockOverride
  Window = 0
  Retain = 2
  MinTick = 0
  MaxClock = 1
  MaxCycles = 4
  None = None
INVARIANTS PlanIsCurrent
