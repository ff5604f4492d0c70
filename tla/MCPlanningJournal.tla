------------------------- MODULE MCPlanningJournal --------------------------
(* Small instances of PlanningJournal for TLC.                             *)
EXTENDS PlanningJournal, TLC

CONSTANTS e1, e2, e3

(* planning_journal: an event and a chain of two owner decisions.          *)

JournalTrigger == e1 :> "ticket_added" @@ e2 :> "override_changed" @@ e3 :> "override_changed"
JournalOverride == e1 :> << >> @@ e2 :> <<1>> @@ e3 :> <<1, 2>>

(* planning_overlap: two cycles, one owner decision.                       *)

OverlapTrigger == e2 :> "override_changed"
OverlapOverride == e2 :> <<1>>

(* planning_clock: no events, only inputs that change.                     *)

ClockTrigger == e1 :> "ticket_added"
ClockOverride == e1 :> << >>

=============================================================================
