------------------------- MODULE CoordinatorProofs -------------------------
(***************************************************************************)
(* What the revision check makes of truthful but late callers: the head    *)
(* that is merged is the one the gate passed for, and no merge is lost.    *)
(* Then the tables together: each one keeps its shape, from every state    *)
(* the behaviours of MCCoordinator start in.                               *)
(***************************************************************************)
EXTENDS MCCoordinator, CoordinatorStoreProofs, OverlapSyncProofs, JiraLifecycleProofs, TLAPS

-----------------------------------------------------------------------------
(* One ticket.                                                             *)

\* The states a ticket can be in while a permit is live although its merge came from elsewhere.
Quiet == {"REOPENED", "BLOCKED", "FAILED", "CANCELLED", "SUPERSEDED"}

\* What the rows of the table have in common, as far as the proofs need it.
RowFacts(row) ==
  /\ row[1] \in States /\ row[3] \in States
  /\ row[3] = "READY_FOR_OWNER_AUTHORIZATION" => row[2] = "FINAL_GATE_PASSED"
  /\ row[3] = "OWNER_AUTHORIZED" => row[2] = "OWNER_AUTHORIZED"
  /\ row[3] = "MERGING" => row[2] = "MERGE_STARTED"
  /\ row[3] \in AfterMerge => "merge_confirmed" \in row[4]
  /\ row[1] \in Merging => row[3] \in AfterMerge \/ {"no_merge_confirmed", "old_permit_revoked"} \subseteq row[4]
  /\ row[1] \in AfterMerge => row[3] \in AfterMerge
  /\ row[1] \in Quiet => row[3] \in Quiet
  /\ row[2] = "FINAL_GATE_PASSED" =>
       row[1] = "FINAL_REVIEW" /\ row[3] = "READY_FOR_OWNER_AUTHORIZATION"
  /\ row[2] = "OWNER_AUTHORIZED" =>
       row[1] = "READY_FOR_OWNER_AUTHORIZATION" /\ row[3] = "OWNER_AUTHORIZED"
  /\ row[2] = "MERGE_STARTED" => row[1] = "OWNER_AUTHORIZED" /\ row[3] = "MERGING"
  /\ row[2] \notin CandidateChanged

LEMMA NormalRows == ASSUME NEW row \in Normal PROVE RowFacts(row)
BY DEF Normal, RowFacts, States, AfterMerge, Merging, Quiet, CandidateChanged

LEMMA StateSets ==
  /\ Terminal \subseteq States /\ Review \subseteq States /\ AfterMerge \subseteq States
  /\ Merging \subseteq States /\ Resume \subseteq States /\ Quiet \subseteq States
  /\ Resume \cap {"READY_FOR_OWNER_AUTHORIZATION", "OWNER_AUTHORIZED", "MERGING"} = {}
BY DEF Terminal, Review, AfterMerge, Merging, Resume, Quiet, States

LEMMA InvalidatedStates ==
  ASSUME NEW s \in States, NEW event
  PROVE  /\ Invalidated(s, event) \in {"BLOCKED", "READY_FOR_CRITIC", "CHANGES_REQUESTED",
                                       "READY_FOR_OWNER_AUTHORIZATION", s}
         /\ Invalidated(s, event) = "READY_FOR_OWNER_AUTHORIZATION" =>
              s \in {"OWNER_AUTHORIZED", "READY_FOR_OWNER_AUTHORIZATION"}
         /\ event \in CandidateChanged /\ s \in Review => Invalidated(s, event) = "READY_FOR_CRITIC"
         /\ event \in Invalidating \cup {"REVIEW_DISMISSED"} /\ s = "OWNER_AUTHORIZED"
              => Invalidated(s, event) # s
         /\ s \in Quiet => Invalidated(s, event) \in Quiet
         /\ event \in CandidateChanged /\ s = "READY_FOR_OWNER_AUTHORIZATION"
              => Invalidated(s, event) = "READY_FOR_CRITIC"
BY DEF Invalidated, CandidateChanged, Setback, Review, Quiet, Invalidating

\* What any accepted event does to the state of the ticket.
StepFacts(s, event, facts, t) ==
  /\ t \in States
  /\ t = "READY_FOR_OWNER_AUTHORIZATION" =>
       event = "FINAL_GATE_PASSED" \/ s \in {"OWNER_AUTHORIZED", "READY_FOR_OWNER_AUTHORIZATION"}
  /\ t = "OWNER_AUTHORIZED" => event = "OWNER_AUTHORIZED"
  /\ t = "MERGING" => event = "MERGE_STARTED" \/ s = "MERGING"
  /\ t \in AfterMerge => s \in AfterMerge \/ "merge_confirmed" \in facts
  /\ s \in Merging /\ t \notin Merging \cup AfterMerge =>
       {"no_merge_confirmed", "old_permit_revoked"} \subseteq facts
  /\ s \in AfterMerge /\ t \notin AfterMerge => "revert_confirmed" \in facts /\ t \in Quiet
  /\ s \in Quiet /\ t \notin Quiet \cup AfterMerge => "old_permit_revoked" \in facts
  /\ event = "FINAL_GATE_PASSED" => s = "FINAL_REVIEW" /\ t = "READY_FOR_OWNER_AUTHORIZATION"
  /\ event = "OWNER_AUTHORIZED" => s = "READY_FOR_OWNER_AUTHORIZATION" /\ t = "OWNER_AUTHORIZED"
  /\ event = "MERGE_STARTED" => s = "OWNER_AUTHORIZED" /\ t = "MERGING"
  /\ event \in CandidateChanged => t \notin {"READY_FOR_OWNER_AUTHORIZATION", "OWNER_AUTHORIZED", "MERGING"}
  /\ event \in {"WORKER_COMPLETED", "PR_READY", "AMENDMENT_COMPLETED"} =>
       t \notin {"READY_FOR_OWNER_AUTHORIZATION", "OWNER_AUTHORIZED", "MERGING"}

LEMMA TransitionFacts ==
  ASSUME NEW s \in States, NEW event, NEW facts, NEW resume, NEW t, Transition(s, event, facts, resume, t)
  PROVE  StepFacts(s, event, facts, t)
<1> USE DEF StepFacts
<1> DEFINE Live == s \notin Terminal \cup AfterMerge \cup Merging
<1>1. CASE s \in AfterMerge /\ event = "REVERT_OBSERVED" /\ "revert_confirmed" \in facts /\ t = "REOPENED"
  BY <1>1 DEF AfterMerge, Merging, Quiet, States, CandidateChanged
<1>2. CASE s \in AfterMerge /\ event = "POST_MERGE_FINDING" /\ t = s
  BY <1>2 DEF AfterMerge, Merging, Quiet, CandidateChanged
<1>3. CASE s \in Terminal /\ event \in Invalidating /\ t = s
  BY <1>3 DEF Terminal, AfterMerge, Merging, Quiet, CandidateChanged, Invalidating
<1>4. CASE s \in Review /\ event = "OWNER_CHANGES_REQUESTED" /\ t = "CHANGES_REQUESTED"
  BY <1>4 DEF Review, AfterMerge, Merging, Quiet, States, CandidateChanged
<1>5. CASE s \notin Terminal \cup AfterMerge /\ event = "MANUAL_MERGE_OBSERVED"
           /\ "merge_confirmed" \in facts /\ t = "MERGED"
  BY <1>5 DEF AfterMerge, Merging, Quiet, States, CandidateChanged
<1>6. CASE s \in Merging /\ event \in Invalidating \cup Ending \cup {"FAIL", "BLOCK", "MERGE_TIMEOUT"}
           /\ t = "MERGE_UNKNOWN"
  BY <1>6 DEF AfterMerge, Merging, Quiet, States, CandidateChanged, Invalidating, Ending
<1>7. CASE Live /\ event \in Ending /\ t = (IF event = "SUPERSEDE" THEN "SUPERSEDED" ELSE "CANCELLED")
  BY <1>7 DEF AfterMerge, Merging, Quiet, States, CandidateChanged, Ending
<1>8. CASE s \in AfterMerge \ Terminal /\ event \in Invalidating \cup {"REVIEW_DISMISSED"} /\ t = s
  BY <1>8 DEF AfterMerge, Merging, Quiet, CandidateChanged, Invalidating
<1>9. CASE s \in Merging /\ event = "REVIEW_DISMISSED" /\ t = s
  BY <1>9 DEF AfterMerge, Merging, Quiet, CandidateChanged
<1>10. CASE Live /\ event \in Invalidating \cup {"REVIEW_DISMISSED"} /\ t = Invalidated(s, event)
  <2>1. t \in {"BLOCKED", "READY_FOR_CRITIC", "CHANGES_REQUESTED", "READY_FOR_OWNER_AUTHORIZATION", s}
    BY <1>10, InvalidatedStates
  <2>2. t = "READY_FOR_OWNER_AUTHORIZATION" => s \in {"OWNER_AUTHORIZED", "READY_FOR_OWNER_AUTHORIZATION"}
    BY <1>10, InvalidatedStates
  <2>3. t # "OWNER_AUTHORIZED" BY <1>10, <2>1, InvalidatedStates
  <2>4. t # "MERGING" /\ t \notin AfterMerge /\ s \notin Merging /\ s \notin AfterMerge
    BY <1>10, <2>1 DEF Merging, AfterMerge
  <2>5. s \in Quiet => t \in Quiet BY <1>10, InvalidatedStates
  <2>6. event \in CandidateChanged => t # "READY_FOR_OWNER_AUTHORIZATION"
    <3>1. SUFFICES ASSUME event \in CandidateChanged, t = "READY_FOR_OWNER_AUTHORIZATION" PROVE FALSE
      OBVIOUS
    <3>2. s \in Review BY <2>2, <3>1 DEF Review
    <3> QED BY <1>10, <3>1, <3>2, InvalidatedStates
  <2>7. event \notin {"FINAL_GATE_PASSED", "OWNER_AUTHORIZED", "MERGE_STARTED", "WORKER_COMPLETED",
                      "PR_READY", "AMENDMENT_COMPLETED"}
    BY <1>10 DEF Invalidating, CandidateChanged
  <2>8. t \in States BY <2>1 DEF States
  <2> QED BY <2>2, <2>3, <2>4, <2>5, <2>6, <2>7, <2>8
<1>11. CASE Live /\ event = "BLOCK" /\ t = "BLOCKED"
  BY <1>11 DEF AfterMerge, Merging, Quiet, States, CandidateChanged
<1>12. CASE Live /\ event = "FAIL" /\ t = "FAILED"
  BY <1>12 DEF AfterMerge, Merging, Quiet, States, CandidateChanged
<1>13. CASE s = "BLOCKED" /\ event = "RECOVER" /\ Recovers(facts, resume) /\ t = resume
  BY <1>13, StateSets DEF Recovers, AfterMerge, Merging, CandidateChanged
<1>14. CASE \E row \in Normal : row[1] = s /\ row[2] = event /\ row[4] \subseteq facts /\ t = row[3]
  <2>1. PICK row \in Normal : row[1] = s /\ row[2] = event /\ row[4] \subseteq facts /\ t = row[3]
    BY <1>14
  <2>2. RowFacts(row) BY <2>1, NormalRows
  <2>3. event \in {"WORKER_COMPLETED", "PR_READY", "AMENDMENT_COMPLETED"} =>
          t \notin {"READY_FOR_OWNER_AUTHORIZATION", "OWNER_AUTHORIZED", "MERGING"}
    BY <2>1, <2>2 DEF RowFacts
  <2> QED BY <2>1, <2>2, <2>3 DEF RowFacts, AfterMerge, Merging
<1> QED BY <1>1, <1>2, <1>3, <1>4, <1>5, <1>6, <1>7, <1>8, <1>9, <1>10, <1>11, <1>12, <1>13, <1>14
        DEF Transition

-----------------------------------------------------------------------------
(* What a reading still says about the world when it is used.              *)

ReadingHolds(r) ==
  /\ r.revision <= revision
  /\ r.merged # "no" => merged # "no"
  /\ r.merged = "reverted" => merged = "reverted"
  /\ r.revision = revision => r.known = known
  /\ r.revision = revision /\ r.permit # "live" => permit # "live"
  /\ r.revision = revision /\ r.permit # "live" /\ r.merged = "no" => merged # "executor"

ReadingsHold == \A c \in Caller : \A r \in seen[c] : ReadingHolds(r)

PermitIsTracked == permit = "live" => state \in Merging \cup AfterMerge \cup Quiet

TicketInv == TicketTypeOK /\ AuthorizedIsGated /\ MergeIsTracked /\ PermitIsTracked /\ ReadingsHold

LEMMA TicketInvInit == ASSUME LifecycleAssumption, TicketInit PROVE TicketInv
BY DEF TicketInit, TicketInv, TicketTypeOK, AuthorizedIsGated, MergeIsTracked, PermitIsTracked,
       ReadingsHold, States, Merging, AfterMerge

\* A step that leaves the ticket alone keeps the readings, if it keeps what they say of the host.
LEMMA HostStep ==
  ASSUME TicketInv,
         \/ \E h \in Commit : Push(h)
         \/ ExecutorMerge \/ RevokePermit \/ HumanMerge \/ Revert
  PROVE  TicketInv'
<1> USE DEF TicketInv, TicketTypeOK
<1>1. CASE \E h \in Commit : Push(h)
  BY <1>1 DEF Push, AuthorizedIsGated, MergeIsTracked, PermitIsTracked, ReadingsHold, ReadingHolds
<1>2. CASE ExecutorMerge
  <2>1. MergeIsTracked' BY <1>2 DEF ExecutorMerge, MergeIsTracked
  <2>2. ReadingsHold' BY <1>2 DEF ExecutorMerge, ReadingsHold, ReadingHolds
  <2> QED BY <1>2, <2>1, <2>2 DEF ExecutorMerge, AuthorizedIsGated, PermitIsTracked
<1>3. CASE RevokePermit
  BY <1>3 DEF RevokePermit, AuthorizedIsGated, MergeIsTracked, PermitIsTracked, ReadingsHold, ReadingHolds
<1>4. CASE HumanMerge
  BY <1>4 DEF HumanMerge, AuthorizedIsGated, MergeIsTracked, PermitIsTracked, ReadingsHold, ReadingHolds
<1>5. CASE Revert
  BY <1>5 DEF Revert, AuthorizedIsGated, MergeIsTracked, PermitIsTracked, ReadingsHold, ReadingHolds
<1> QED BY <1>1, <1>2, <1>3, <1>4, <1>5

LEMMA ReadStep == ASSUME TicketInv, NEW c \in Caller, Read(c) PROVE TicketInv'
<1> DEFINE new == [revision |-> revision, known |-> known, head |-> head, merged |-> merged, permit |-> permit]
<1>1. seen' = [seen EXCEPT ![c] = {new}] /\ UNCHANGED <<state, revision, known, gate, granted, permit, head, merged>>
  BY DEF Read
<1>2. new \in Reading BY DEF TicketInv, TicketTypeOK, Reading
<1>3. TicketTypeOK'
  BY <1>1, <1>2 DEF TicketInv, TicketTypeOK
<1>4. revision \in Nat BY DEF TicketInv, TicketTypeOK
<1>5. ASSUME NEW d \in Caller, NEW r \in seen'[d] PROVE ReadingHolds(r)'
  <2>1. CASE r = new BY <1>1, <1>4, <2>1 DEF ReadingHolds
  <2>2. CASE r \in seen[d] BY <1>1, <2>2 DEF TicketInv, ReadingsHold, ReadingHolds
  <2> QED BY <1>1, <2>1, <2>2 DEF TicketInv, TicketTypeOK
<1> QED BY <1>1, <1>3, <1>5 DEF TicketInv, AuthorizedIsGated, MergeIsTracked, PermitIsTracked, ReadingsHold

LEMMA AdvanceStep ==
  ASSUME LifecycleAssumption, TicketInv, NEW c \in Caller, NEW r \in seen[c], NEW event, NEW resume,
         Advance(c, r, event, resume)
  PROVE  TicketInv'
<1>1. StepFacts(state, event, Facts(r), state')
  BY TransitionFacts DEF Advance, TicketInv, TicketTypeOK
<1>2. /\ ReadingHolds(r) /\ r \in Reading /\ r.revision = revision
  BY DEF TicketInv, TicketTypeOK, ReadingsHold, Advance, UnchangedSince
<1>3. UNCHANGED <<head, merged>> /\ revision' = revision + 1
      /\ (event # "FINAL_GATE_PASSED" => gate' = gate) /\ (event = "FINAL_GATE_PASSED" => gate' = known)
      /\ (event # "OWNER_AUTHORIZED" => granted' = granted) /\ (event = "OWNER_AUTHORIZED" => granted' = known)
      /\ (event # "MERGE_STARTED" => permit' = permit) /\ (event = "MERGE_STARTED" => permit' = "live")
  BY <1>2 DEF Advance, ReadingHolds
<1>4. known' = known \/ state' \notin {"READY_FOR_OWNER_AUTHORIZATION", "OWNER_AUTHORIZED", "MERGING"}
  BY <1>1 DEF StepFacts, Advance, Registers
<1>5. /\ "old_permit_revoked" \in Facts(r) => permit # "live"
      /\ {"no_merge_confirmed", "old_permit_revoked"} \subseteq Facts(r) => merged # "executor" /\ permit # "live"
      /\ "merge_confirmed" \in Facts(r) => merged # "no"
      /\ "revert_confirmed" \in Facts(r) => merged = "reverted"
  BY <1>2 DEF Facts, PermitOver, ReadingHolds
<1>6. TicketTypeOK'
  <2>1. state' \in States BY <1>1 DEF StepFacts
  <2>2. r.head \in Commit /\ r.known \in Commit \cup {NoCommit} BY <1>2 DEF Reading
  <2>3. \A d \in Caller : seen'[d] \subseteq Reading BY DEF Advance, TicketInv, TicketTypeOK
  <2> QED BY <1>3, <2>1, <2>2, <2>3 DEF Advance, TicketInv, TicketTypeOK
<1>7. PermitIsTracked'
  BY <1>1, <1>3, <1>5 DEF StepFacts, TicketInv, PermitIsTracked, Merging
<1>8. MergeIsTracked'
  <2>1. ASSUME (permit' = "live" /\ merged = "no") \/ merged = "executor", state' \notin Merging \cup AfterMerge
        PROVE  FALSE
    <3>1. event # "MERGE_STARTED" BY <1>1, <2>1 DEF StepFacts, Merging
    <3>2. state \in Merging \cup AfterMerge BY <1>3, <2>1, <3>1 DEF TicketInv, MergeIsTracked
    <3> QED BY <1>1, <1>3, <1>5, <2>1, <3>1, <3>2 DEF StepFacts
  <2>2. state' \in AfterMerge => merged # "no"
    BY <1>1, <1>5 DEF StepFacts, TicketInv, MergeIsTracked
  <2> QED BY <1>3, <2>1, <2>2 DEF MergeIsTracked
<1>9. AuthorizedIsGated'
  <2>1. state' = "READY_FOR_OWNER_AUTHORIZATION" => gate' = known'
    BY <1>1, <1>3, <1>4 DEF StepFacts, TicketInv, AuthorizedIsGated
  <2>2. state' = "OWNER_AUTHORIZED" => gate' = known' /\ granted' = known'
    BY <1>1, <1>3, <1>4 DEF StepFacts, TicketInv, AuthorizedIsGated
  <2>3. state' = "MERGING" => gate' = known' /\ granted' = known'
    BY <1>1, <1>3, <1>4 DEF StepFacts, TicketInv, AuthorizedIsGated
  <2>4. permit' = "live" => granted' = gate'
    <3>1. CASE event = "MERGE_STARTED"
      BY <1>1, <1>3, <3>1 DEF StepFacts, TicketInv, AuthorizedIsGated
    <3>2. CASE event # "MERGE_STARTED" /\ permit = "live"
      <4>1. state \notin {"FINAL_REVIEW", "READY_FOR_OWNER_AUTHORIZATION"}
        BY <3>2 DEF TicketInv, PermitIsTracked, Merging, AfterMerge, Quiet
      <4> QED BY <1>1, <1>3, <3>2, <4>1 DEF StepFacts, TicketInv, AuthorizedIsGated
    <3> QED BY <1>3, <3>1, <3>2
  <2> QED BY <2>1, <2>2, <2>3, <2>4 DEF AuthorizedIsGated
<1>10. ReadingsHold'
  <2> SUFFICES ASSUME NEW d \in Caller, NEW q \in seen'[d] PROVE ReadingHolds(q)'
    BY DEF ReadingsHold
  <2>1. q \in seen[d] BY DEF Advance, TicketInv, TicketTypeOK
  <2>2. ReadingHolds(q) /\ q \in Reading BY <2>1 DEF TicketInv, TicketTypeOK, ReadingsHold
  <2>3. q.revision \in Nat /\ revision \in Nat BY <2>2 DEF Reading, TicketInv, TicketTypeOK
  <2>4. q.revision <= revision' /\ q.revision # revision' BY <1>3, <2>2, <2>3 DEF ReadingHolds
  <2> QED BY <1>3, <2>2, <2>4 DEF ReadingHolds
<1> QED BY <1>6, <1>7, <1>8, <1>9, <1>10 DEF TicketInv

LEMMA TicketInvStep == ASSUME TicketInv, [TicketNext]_ticketVars PROVE TicketInv'
<1>1. ASSUME NEW c \in Caller, NEW r \in seen[c], NEW event \in Events, NEW resume,
             Advance(c, r, event, resume)
      PROVE  TicketInv'
  BY <1>1, AdvanceStep, LifecycleAssumption
<1>2. CASE UNCHANGED ticketVars
  BY <1>2 DEF ticketVars, TicketInv, TicketTypeOK, AuthorizedIsGated, MergeIsTracked, PermitIsTracked,
              ReadingsHold, ReadingHolds
<1> QED BY <1>1, <1>2, ReadStep, HostStep DEF TicketNext

LEMMA TicketInvHolds == TicketSpec => []TicketInv
<1>1. TicketInit => TicketInv BY TicketInvInit, LifecycleAssumption
<1> QED BY <1>1, TicketInvStep, PTL DEF TicketSpec

\* The row of a ticket, and what callers remember of it, stay of their types (advance).
THEOREM TicketTypeCorrect == TicketSpec => []TicketTypeOK
<1>1. TicketInv => TicketTypeOK BY DEF TicketInv
<1> QED BY <1>1, TicketInvHolds, PTL

\* From the gate to the merge call a ticket speaks of one head, however late its callers are.
THEOREM GateBindsTheHead == TicketSpec => []AuthorizedIsGated
<1>1. TicketInv => AuthorizedIsGated BY DEF TicketInv
<1> QED BY <1>1, TicketInvHolds, PTL

\* A merge that can happen or has happened keeps its ticket in the merge states, and only
\* a merged candidate closes a ticket as merged.
THEOREM NoMergeIsLost == TicketSpec => []MergeIsTracked
<1>1. TicketInv => MergeIsTracked BY DEF TicketInv
<1> QED BY <1>1, TicketInvHolds, PTL

\* Both together: the merge that happens is the one that was gated and authorized.
THEOREM MergesAreAuthorized == TicketSpec => []MergeIsAuthorized
BY GateBindsTheHead, NoMergeIsLost, PTL DEF MergeIsAuthorized

-----------------------------------------------------------------------------
(* All tables.                                                             *)

\* A candidate under final review, or one whose gate has passed, is a state of a ticket that
\* the events reach.
LEMMA FurtherInv == ASSUME LifecycleAssumption, Further PROVE TicketInv
<1>1. seen = [c \in Caller |-> {}] /\ head \in Commit BY DEF Further
<1> QED BY <1>1 DEF Further, TicketInv, TicketTypeOK, AuthorizedIsGated, MergeIsTracked, PermitIsTracked,
            ReadingsHold, States, Merging, AfterMerge

LEMMA ExpiryTyped ==
  ASSUME SyncAssumption, NEW busy \in SUBSET Lane, AtExpiry(busy)
  PROVE  Typed
<1>1. Approved \in [Side -> Nat] BY DEF Approved
<1>2. Idle \in LocalType BY <1>1 DEF Idle, LocalType
<1>3. NoRow \in RowType /\ [state |-> "WORKING", head |-> 0] \in RowType BY DEF NoRow, RowType
<1>4. local \in [Controller -> LocalType] BY <1>2 DEF AtExpiry
<1>5. shown \in [Side -> RowType] BY <1>3, Zenon DEF AtExpiry
<1> QED BY <1>1, <1>4, <1>5 DEF AtExpiry, Typed, OverlapTypeOK, RowType, Unresolved

TablesInv == StoreTypeOK /\ TicketInv /\ Typed /\ JiraTypeOK /\ Busy

LEMMA TablesInit == MCInit => TablesInv
<1> SUFFICES ASSUME MCInit PROVE TablesInv OBVIOUS
<1>1. StoreTypeOK BY StoreTypeInit, StoreAssumption DEF MCInit
<1>2. TicketInv BY TicketInvInit, FurtherInv, LifecycleAssumption DEF MCInit
<1>3. JiraTypeOK /\ Busy BY JiraTypeInit DEF MCInit
<1>4. Side \X {0} \in SUBSET Lane BY SyncAssumption DEF Lane, HeadId
<1>5. Typed BY <1>4, TypeInit, ExpiryTyped, SyncAssumption DEF MCInit, Typed
<1> QED BY <1>1, <1>2, <1>3, <1>5 DEF TablesInv

LEMMA TablesStep ==
  ASSUME TablesInv, [MCNext]_<<storeVars, ticketVars, syncVars, jiraVars, table>>
  PROVE  TablesInv'
<1>1. [StoreNext]_storeVars /\ [TicketNext]_ticketVars /\ [SyncNext]_syncVars /\ [JiraNext]_jiraVars
  BY DEF MCNext, MCStoreNext, MCTicketNext, MCSyncNext, MCJiraNext
<1>2. StoreTypeOK' BY <1>1, StoreTypeStep, StoreAssumption DEF TablesInv
<1>3. TicketInv' BY <1>1, TicketInvStep DEF TablesInv
<1>4. Typed' BY <1>1, TypedStep DEF TablesInv
<1>5. JiraTypeOK' /\ Busy' BY <1>1, JiraTypeStep DEF TablesInv
<1> QED BY <1>2, <1>3, <1>4, <1>5 DEF TablesInv

\* Every table keeps its shape, whichever of them a behaviour fills and wherever in the
\* lifecycle of a ticket or of an allowance it starts.
THEOREM CoordinatorTypeCorrect == MCSpec => []CoordinatorTypeOK
<1>1. TablesInv => CoordinatorTypeOK
  BY DEF TablesInv, TicketInv, Typed, CoordinatorTypeOK
<1> QED BY <1>1, TablesInit, TablesStep, PTL DEF MCSpec
=============================================================================
