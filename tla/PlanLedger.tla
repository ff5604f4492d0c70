----------------------------- MODULE PlanLedger -----------------------------
(***************************************************************************)
(* What the planning journal promises: an accepted event stays due until   *)
(* one plan that covers it is recorded, in the same step, and plans are    *)
(* recorded once, for ever, one after the other.                           *)
(***************************************************************************)
EXTENDS Sequences

CONSTANTS Id,    \* identities of planning events
          Plan   \* plan records

VARIABLES due,   \* accepted events that no recorded plan covers
          log    \* the recorded plans

Recorded == {log[k] : k \in DOMAIN log}

Init == due \in SUBSET Id /\ log \in Seq(Plan)

Accept == /\ due' \in SUBSET Id
          /\ due \subseteq due'
          /\ log' = log

Record(p) == /\ p \notin Recorded
             /\ due' \subseteq due /\ due' # due
             /\ log' = Append(log, p)

Next == Accept \/ \E p \in Plan : Record(p)

Spec == Init /\ [][Next]_<<due, log>>
=============================================================================
