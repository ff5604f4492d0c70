SPECIFICATION FairSpec
CONSTANTS
  e1 = e1
  e2 = e2
  e3 = e3
  Cycle = {c1}
  Input = {i1, i2}
  Source = {e1, e2, e3}
  Trigger <- JournalTrigger
  Override <- JournalOverride
  Window = 2
  Retain = 2
  MinTick = 1
  MaxClock = 3
  MaxCycles = 3
  None = None
INVARIANTS TypeOK PlanIsCurrent OwnerChainGrows
PROPERTIES PlanningEnds ReportedIsRemembered ImplementsPlanLedger
