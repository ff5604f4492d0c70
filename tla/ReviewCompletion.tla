--------------------------- MODULE ReviewCompletion ---------------------------
(***************************************************************************)
(* Review completion: a reviewer set is frozen for a candidate, every      *)
(* reviewer's result is recorded once under the binding it was dispatched  *)
(* with, and the aggregate is submitted to the provider once.  A           *)
(* submission whose receipt was not recorded is uncertain and holds its    *)
(* cycle until an observation of the provider settles it.                  *)
(*                                                                         *)
(* Abstractions.  A cycle is its number: the newest one is active.  The    *)
(* documents that are bound to a cycle (aggregate, snapshot, receipt,      *)
(* removal disposition) either fit or do not; the authority that is pinned *)
(* before the first dispatch, and the audit exports, are left out.         *)
(***************************************************************************)
EXTENDS Integers, Sequences

CONSTANTS
  Candidate,    \* candidate tuples
  Reviewer,
  ReviewerSet,  \* the sets that may be required
  Submitter,    \* processes that call submit
  MaxCycle      \* bound on cycles

ASSUME ReviewAssumption == ReviewerSet \subseteq SUBSET Reviewer /\ MaxCycle \in Nat

VARIABLES
  cycles,       \* review_cycles with their reviewer_results
  bindings,     \* dispatched bindings, whose results may still come
  submitter,    \* the cycle each process has prepared and not finished
  sent,         \* history: mutations sent to the provider
  underway,     \* those that neither arrived nor got lost
  submissions   \* the provider's submissions

reviewVars == <<cycles, bindings, submitter, sent, underway, submissions>>
remote == <<sent, underway, submissions>>

Idling == 0
active == Len(cycles)
Matches(c, R) == cycles[active].cand = c /\ cycles[active].required = R
Row(k, q) == cycles[k].result[q]
\* Only while the call is under way.
MHeld(state) == state = "SUBMITTING"
Held(state) == state \in {"SUBMITTING", "SUBMISSION_UNKNOWN"}

ReviewInit ==
  /\ cycles = <<>> /\ bindings = {} /\ submitter = [s \in Submitter |-> Idling]
  /\ sent = {} /\ underway = {} /\ submissions = {}

-----------------------------------------------------------------------------
(* The cycle and its results: one transaction each.                        *)

Set(state) == cycles' = [cycles EXCEPT ![active].state = state]
NewCycle(c, R) == [cand |-> c, required |-> R, state |-> "COLLECTING", twice |-> {},
                   result |-> [q \in Reviewer |-> "none"]]

\* A reviewer of a cycle that has begun is removed only with an owner's disposition, for
\* the same candidate.
Freeze(c, R, disposition) ==
  LET dispatched == \E q \in Reviewer : Row(active, q) # "none"
      removed == cycles[active].required \ R
  IN
  /\ active < MaxCycle
  /\ active > 0 => /\ ~Matches(c, R) \/ cycles[active].state = "INVALIDATED"
                   /\ ~Held(cycles[active].state)
                   /\ disposition <=> removed # {} /\ dispatched
                   /\ disposition => cycles[active].cand = c
  /\ active = 0 => ~disposition
  /\ cycles' = Append([k \in DOMAIN cycles |-> IF k = active /\ cycles[k].state # "SUBMITTED"
                         THEN [cycles[k] EXCEPT !.state = "INVALIDATED"] ELSE cycles[k]], NewCycle(c, R))
  /\ UNCHANGED <<bindings, submitter, remote>>

\* A reviewer that is still running may be dispatched again, under the same binding.
DispatchReviewer(q) ==
  /\ active > 0 /\ cycles[active].state = "COLLECTING" /\ q \in cycles[active].required
  /\ Row(active, q) \in {"none", "RUNNING"}
  /\ cycles' = [cycles EXCEPT ![active].result[q] = "RUNNING"]
  /\ bindings' = bindings \cup {<<active, q>>}
  /\ UNCHANGED <<submitter, remote>>

\* A result for an earlier binding counts as stale, a second one spoils the first, and one
\* that comes after the aggregate was taken is only noted.
RecordResult(b, outcome) ==
  LET q == b[2] IN
  /\ b \in bindings /\ cycles[active].state = "COLLECTING" /\ Row(active, q) # "none"
  /\ cycles' = IF Row(active, q) # "RUNNING" THEN [cycles EXCEPT ![active].twice = @ \cup {q}]
               ELSE [cycles EXCEPT ![active].result[q] = IF b[1] = active THEN outcome ELSE "STALE"]
  /\ UNCHANGED <<bindings, submitter, remote>>

\* status() of a candidate or a set that has moved.
ObserveMoved ==
  /\ active > 0
  /\ \/ cycles[active].state = "COLLECTING" /\ Set("INVALIDATED")
     \/ cycles[active].state = "SUBMITTING" /\ Set("SUBMISSION_UNKNOWN")
  /\ UNCHANGED <<bindings, submitter, remote>>

RecoverSubmission ==
  /\ active > 0 /\ cycles[active].state = "SUBMITTING" /\ Set("SUBMISSION_UNKNOWN")
  /\ UNCHANGED <<bindings, submitter, remote>>

-----------------------------------------------------------------------------
(* submit(): admission, mutation, observation, receipt.                    *)

Complete(k) == \A q \in cycles[k].required : Row(k, q) = "ACCEPTABLE" /\ q \notin cycles[k].twice

PrepareSubmission(s) ==
  /\ submitter[s] = Idling /\ active > 0 /\ cycles[active].state = "COLLECTING" /\ Complete(active)
  /\ Set("SUBMITTING") /\ submitter' = [submitter EXCEPT ![s] = active]
  /\ UNCHANGED <<bindings, remote>>

Mutate(s) ==
  /\ submitter[s] # Idling /\ submitter[s] \notin sent
  /\ sent' = sent \cup {submitter[s]} /\ underway' = underway \cup {submitter[s]}
  /\ UNCHANGED <<cycles, bindings, submitter, submissions>>

\* complete_submission after an observation of the provider.
CompleteSubmission(s) ==
  /\ submitter[s] = active /\ active \in submissions /\ cycles[active].state = "SUBMITTING"
  /\ Set("SUBMITTED") /\ submitter' = [submitter EXCEPT ![s] = Idling]
  /\ UNCHANGED <<bindings, remote>>

\* Mutation, observation or completion raises; the state is no longer ours, or becomes
\* uncertain.
MarkSubmissionUnknown(s) ==
  /\ submitter[s] # Idling /\ submitter' = [submitter EXCEPT ![s] = Idling]
  /\ IF submitter[s] = active /\ cycles[active].state = "SUBMITTING" THEN Set("SUBMISSION_UNKNOWN")
     ELSE cycles' = cycles
  /\ UNCHANGED <<bindings, remote>>

SubmitterDies(s) ==
  /\ submitter[s] # Idling /\ submitter' = [submitter EXCEPT ![s] = Idling]
  /\ UNCHANGED <<cycles, bindings, remote>>

\* A fresh observation shows the submission.
ReconcileSubmission ==
  /\ active \in submissions /\ cycles[active].state = "SUBMISSION_UNKNOWN"
  /\ Set("SUBMITTED")
  /\ UNCHANGED <<bindings, submitter, remote>>

MutationArrives(k) ==
  /\ k \in underway /\ underway' = underway \ {k} /\ submissions' = submissions \cup {k}
  /\ UNCHANGED <<cycles, bindings, submitter, sent>>

MutationIsLost(k) ==
  /\ k \in underway /\ underway' = underway \ {k}
  /\ UNCHANGED <<cycles, bindings, submitter, sent, submissions>>

ReviewNext ==
  \/ \E c \in Candidate, R \in ReviewerSet, d \in BOOLEAN : Freeze(c, R, d)
  \/ \E q \in Reviewer : DispatchReviewer(q)
  \/ \E b \in bindings, outcome \in {"ACCEPTABLE", "REJECTED"} : RecordResult(b, outcome)
  \/ ObserveMoved \/ RecoverSubmission \/ ReconcileSubmission
  \/ \E s \in Submitter : \/ PrepareSubmission(s) \/ Mutate(s) \/ CompleteSubmission(s)
                          \/ MarkSubmissionUnknown(s) \/ SubmitterDies(s)
  \/ \E k \in underway : MutationArrives(k) \/ MutationIsLost(k)

ReviewSpec == ReviewInit /\ [][ReviewNext]_reviewVars

-----------------------------------------------------------------------------
(* Properties.                                                             *)

ReviewTypeOK ==
  /\ cycles \in Seq([cand : Candidate, required : ReviewerSet, twice : SUBSET Reviewer,
       state : {"COLLECTING", "INVALIDATED", "SUBMITTING", "SUBMISSION_UNKNOWN", "SUBMITTED"},
       result : [Reviewer -> {"none", "RUNNING", "ACCEPTABLE", "REJECTED", "STALE"}]])
  /\ bindings \subseteq (DOMAIN cycles) \X Reviewer
  /\ submitter \in [Submitter -> {Idling} \cup DOMAIN cycles]
  /\ underway \cup submissions \subseteq sent /\ sent \subseteq DOMAIN cycles

\* A mutation that was sent holds its cycle: nothing replaces the cycle until the provider
\* shows the submission, whatever recoveries, late results and other processes do, and what
\* it submits was accepted by every required reviewer under that cycle's own binding.
SubmissionHoldsItsCycle ==
  \A k \in sent :
    /\ Complete(k) /\ \A q \in cycles[k].required : <<k, q>> \in bindings
    /\ \/ k = active /\ Held(cycles[k].state)
       \/ k \in submissions /\ cycles[k].state = "SUBMITTED"
=============================================================================
