-------------------------- MODULE TicketLifecycle --------------------------
(***************************************************************************)
(* The ticket state machine (lifecycle.py, transition) behind the revision *)
(* check of the coordinator store (store.py, advance), used by controllers *)
(* that read the world, and later advance the ticket with what they read.  *)
(*                                                                         *)
(* transition trusts the facts its caller passes.  Callers are modelled as *)
(* truthful at the time they read: a fact is a statement about the pull    *)
(* request that held then.  Facts that say nothing about the candidate     *)
(* (leases, budgets, recorded blockers) are taken as given; modules of     *)
(* their own model those.  The events CAP_EXTEND_ONE_CYCLE and PR_READY    *)
(* carry further evidence checks that are left out.                        *)
(***************************************************************************)
EXTENDS Integers, FiniteSets

CONSTANTS
  Caller,        \* controllers and hooks that advance the ticket
  Commit,        \* commits the branch of the candidate may point to
  NoCommit,        \* no commit, or nothing read
  MaxRevision    \* bound on the advances of a behaviour

ASSUME LifecycleAssumption == NoCommit \notin Commit /\ MaxRevision \in Nat

VARIABLES
  state, revision,   \* the row of the ticket
  known,             \* the head the ticket's evidence is bound to
  gate, granted,     \* the heads the final gate passed for and the owner authorized
  permit,            \* the merge permit: none, live, revoked or spent
  head, merged,      \* on the host: the branch's head and the merged commit
  seen               \* what a caller read and has not used yet

ticketVars == <<state, revision, known, gate, granted, permit, head, merged, seen>>

Terminal == {"DONE", "CANCELLED", "SUPERSEDED"}
Review == {"READY_FOR_CRITIC", "CHANGES_REQUESTED", "SPECIALIST_REVIEW", "FINAL_REVIEW",
           "READY_FOR_OWNER_AUTHORIZATION", "OWNER_AUTHORIZED", "REVIEW_CAP_REACHED"}
AfterMerge == {"MERGED", "MERGED_PENDING_JIRA", "MERGED_PENDING_OWNER_CLOSURE", "DONE"}
Resume == {"READY", "IN_PROGRESS", "READY_FOR_CRITIC", "CHANGES_REQUESTED", "SPECIALIST_REVIEW",
           "FINAL_REVIEW", "MERGED_PENDING_JIRA", "REVIEW_CAP_REACHED", "MERGED_PENDING_OWNER_CLOSURE"}
States == {"BACKLOG", "READY", "DISPATCHED", "IN_PROGRESS", "PR_DRAFT", "READY_FOR_CRITIC",
  "CHANGES_REQUESTED", "AMENDING", "SPECIALIST_REVIEW", "FINAL_REVIEW",
  "READY_FOR_OWNER_AUTHORIZATION", "OWNER_AUTHORIZED", "MERGING", "MERGE_UNKNOWN", "MERGED",
  "MERGED_PENDING_JIRA", "DONE", "BLOCKED", "FAILED", "CANCELLED", "SUPERSEDED", "REOPENED",
  "REVIEW_CAP_REACHED", "MERGED_PENDING_OWNER_CLOSURE"}

\* The plain transitions, with the guards that speak of the candidate.
Normal == {
  <<"BACKLOG", "TICKET_READY", "READY", {}>>,
  <<"READY", "DISPATCH_ACCEPTED", "DISPATCHED", {}>>,
  <<"DISPATCHED", "WORKER_STARTED", "IN_PROGRESS", {}>>,
  <<"IN_PROGRESS", "WORKER_COMPLETED", "PR_DRAFT", {}>>,
  <<"PR_DRAFT", "PR_READY", "READY_FOR_CRITIC", {}>>,
  <<"READY_FOR_CRITIC", "CRITIC_REJECTED", "CHANGES_REQUESTED", {}>>,
  <<"CHANGES_REQUESTED", "AMENDMENT_ACCEPTED", "AMENDING", {}>>,
  <<"CHANGES_REQUESTED", "CAP_REACHED", "REVIEW_CAP_REACHED", {}>>,
  <<"REVIEW_CAP_REACHED", "CAP_MERGE_WITH_NOTES", "FINAL_REVIEW", {}>>,
  <<"REVIEW_CAP_REACHED", "CAP_PARK", "BLOCKED", {}>>,
  <<"REVIEW_CAP_REACHED", "CAP_RESCOPE", "SUPERSEDED", {}>>,
  <<"REVIEW_CAP_REACHED", "CAP_EXTEND_ONE_CYCLE", "CHANGES_REQUESTED", {}>>,
  <<"AMENDING", "AMENDMENT_COMPLETED", "READY_FOR_CRITIC", {}>>,
  <<"READY_FOR_CRITIC", "CRITIC_APPROVED_SPECIALISTS", "SPECIALIST_REVIEW", {"current"}>>,
  <<"READY_FOR_CRITIC", "CRITIC_APPROVED_FINAL", "FINAL_REVIEW", {"current"}>>,
  <<"SPECIALIST_REVIEW", "SPECIALIST_REJECTED", "CHANGES_REQUESTED", {}>>,
  <<"SPECIALIST_REVIEW", "SPECIALISTS_APPROVED", "FINAL_REVIEW", {"current"}>>,
  <<"FINAL_REVIEW", "FINAL_GATE_PASSED", "READY_FOR_OWNER_AUTHORIZATION", {"current"}>>,
  <<"READY_FOR_OWNER_AUTHORIZATION", "OWNER_AUTHORIZED", "OWNER_AUTHORIZED", {"current"}>>,
  <<"OWNER_AUTHORIZED", "MERGE_STARTED", "MERGING", {"current"}>>,
  <<"MERGING", "MERGE_OBSERVED", "MERGED", {"merge_confirmed"}>>,
  <<"MERGE_UNKNOWN", "MERGE_OBSERVED", "MERGED", {"merge_confirmed"}>>,
  <<"MERGE_UNKNOWN", "NO_MERGE_CONFIRMED", "FINAL_REVIEW", {"no_merge_confirmed", "old_permit_revoked"}>>,
  <<"MERGED", "JIRA_UNAVAILABLE", "MERGED_PENDING_JIRA", {"merge_confirmed"}>>,
  <<"MERGED", "OWNER_CLOSURE_REQUIRED", "MERGED_PENDING_OWNER_CLOSURE", {"merge_confirmed"}>>,
  <<"MERGED_PENDING_JIRA", "OWNER_CLOSURE_REQUIRED", "MERGED_PENDING_OWNER_CLOSURE", {"merge_confirmed"}>>,
  <<"MERGED", "JIRA_RECONCILED", "DONE", {"merge_confirmed"}>>,
  <<"MERGED_PENDING_JIRA", "JIRA_RECONCILED", "DONE", {"merge_confirmed"}>>,
  <<"MERGED_PENDING_OWNER_CLOSURE", "JIRA_RECONCILED", "DONE", {"merge_confirmed"}>>,
  <<"FAILED", "RECOVERABLE_FAILURE", "BLOCKED", {}>>,
  <<"REOPENED", "REOPEN_DISPOSITION", "CANCELLED", {}>> }

CandidateChanged == {"HEAD_CHANGED", "BASE_CHANGED", "BASE_RETARGETED", "MERGE_METHOD_CHANGED"}
Setback == {"CI_FAILED", "BLOCKING_THREAD_REOPENED", "REVIEW_DISMISSED"}
Invalidating == CandidateChanged \cup
  {"REQUIREMENTS_CHANGED", "POLICY_CHANGED", "CI_UNAVAILABLE", "CI_FAILED",
   "BLOCKING_THREAD_REOPENED", "AUTHORIZATION_REVOKED"}
Ending == {"CANCEL", "SUPERSEDE", "PR_CLOSED", "BRANCH_DELETED"}

\* What an invalidating event does to a ticket that is neither terminal, merging nor merged.
Invalidated(s, event) ==
  CASE event \in {"REQUIREMENTS_CHANGED", "POLICY_CHANGED", "CI_UNAVAILABLE"} -> "BLOCKED"
    [] event \in CandidateChanged /\ s \in Review -> "READY_FOR_CRITIC"
    [] event \in Setback /\ s \in Review -> "CHANGES_REQUESTED"
    [] event = "AUTHORIZATION_REVOKED" /\ s \in {"OWNER_AUTHORIZED", "READY_FOR_OWNER_AUTHORIZATION"}
         -> "READY_FOR_OWNER_AUTHORIZATION"
    [] OTHER -> s

Merging == {"MERGING", "MERGE_UNKNOWN"}

Recovers(facts, resume) ==
  /\ "old_permit_revoked" \in facts /\ resume \in Resume
  /\ resume \in AfterMerge => "merge_confirmed" \in facts

\* transition(s, event) = t, given the facts its caller passes and the state to resume in.
\* The code tries its rules in this order, so each one excludes the states of those above.
Transition(s, event, facts, resume, t) ==
  \/ s \in AfterMerge /\ event = "REVERT_OBSERVED" /\ "revert_confirmed" \in facts /\ t = "REOPENED"
  \/ s \in AfterMerge /\ event = "POST_MERGE_FINDING" /\ t = s
  \/ s \in Terminal /\ event \in Invalidating /\ t = s
  \/ s \in Review /\ event = "OWNER_CHANGES_REQUESTED" /\ t = "CHANGES_REQUESTED"
  \/ /\ s \notin Terminal \cup AfterMerge /\ event = "MANUAL_MERGE_OBSERVED"
     /\ "merge_confirmed" \in facts /\ t = "MERGED"
  \/ /\ s \in Merging /\ event \in Invalidating \cup Ending \cup {"FAIL", "BLOCK", "MERGE_TIMEOUT"}
     /\ t = "MERGE_UNKNOWN"
  \/ /\ s \notin Terminal \cup AfterMerge \cup Merging /\ event \in Ending
     /\ t = IF event = "SUPERSEDE" THEN "SUPERSEDED" ELSE "CANCELLED"
  \/ /\ s \in AfterMerge \ Terminal /\ event \in Invalidating \cup {"REVIEW_DISMISSED"} /\ t = s
  \/ s \in Merging /\ event = "REVIEW_DISMISSED" /\ t = s
  \/ /\ s \notin Terminal \cup AfterMerge \cup Merging /\ event \in Invalidating \cup {"REVIEW_DISMISSED"}
     /\ t = Invalidated(s, event)
  \/ s \notin Terminal \cup AfterMerge \cup Merging /\ event = "BLOCK" /\ t = "BLOCKED"
  \/ s \notin Terminal \cup AfterMerge \cup Merging /\ event = "FAIL" /\ t = "FAILED"
  \/ s = "BLOCKED" /\ event = "RECOVER" /\ Recovers(facts, resume) /\ t = resume
  \/ \E row \in Normal : row[1] = s /\ row[2] = event /\ row[4] \subseteq facts /\ t = row[3]

Events == {row[2] : row \in Normal} \cup Invalidating \cup Ending \cup
  {"BLOCK", "FAIL", "RECOVER", "MERGE_TIMEOUT", "MANUAL_MERGE_OBSERVED", "REVERT_OBSERVED",
   "REVIEW_DISMISSED", "OWNER_CHANGES_REQUESTED", "POST_MERGE_FINDING"}

-----------------------------------------------------------------------------
Reading == [revision : Nat, known : Commit \cup {NoCommit}, head : Commit,
            merged : {"no", "executor", "human", "reverted"},
            permit : {"none", "live", "revoked", "spent"}]

TicketTypeOK ==
  /\ state \in States /\ revision \in Nat
  /\ known \in Commit \cup {NoCommit} /\ gate \in Commit \cup {NoCommit} /\ granted \in Commit \cup {NoCommit}
  /\ permit \in {"none", "live", "revoked", "spent"}
  /\ head \in Commit /\ merged \in {"no", "executor", "human", "reverted"}
  /\ \A c \in Caller : seen[c] \subseteq Reading

\* A caller reads the ticket and the pull request before it decides on an event.
Read(c) ==
  /\ seen' = [seen EXCEPT ![c] = {[revision |-> revision, known |-> known, head |-> head,
                                   merged |-> merged, permit |-> permit]}]
  /\ UNCHANGED <<state, revision, known, gate, granted, permit, head, merged>>

\* A permit that has not led to a merge yet counts as revoked.
MPermitOver(r) == r.permit # "live" \/ r.merged = "no"

PermitOver(r) == r.permit # "live"

\* The facts a truthful caller passes.  "current" stands for the guards that say that a
\* review, a gate or an authorization is for the candidate: the registered head is the
\* branch's head.
Facts(r) ==
  {f \in {"current", "merge_confirmed", "no_merge_confirmed", "old_permit_revoked", "revert_confirmed"} :
     \/ f = "current" /\ r.head = r.known
     \/ f = "merge_confirmed" /\ r.merged \in {"executor", "human"}
     \/ f = "no_merge_confirmed" /\ r.merged = "no"
     \/ f = "old_permit_revoked" /\ PermitOver(r)
     \/ f = "revert_confirmed" /\ r.merged = "reverted"}

\* A ticket that is read, and written without comparing the revision.
MUnchangedSince(r) == r.revision <= revision

UnchangedSince(r) == r.revision = revision

Registers(event) == event \in CandidateChanged \cup {"WORKER_COMPLETED", "PR_READY", "AMENDMENT_COMPLETED"}

\* Store.advance; the evidence the event stands for is recorded with it.
Advance(c, r, event, resume) ==
  /\ r \in seen[c] /\ UnchangedSince(r) /\ revision < MaxRevision
  /\ Transition(state, event, Facts(r), resume, state')
  /\ revision' = revision + 1
  /\ known' = IF Registers(event) THEN r.head ELSE known
  /\ gate' = IF event = "FINAL_GATE_PASSED" THEN r.known ELSE gate
  /\ granted' = IF event = "OWNER_AUTHORIZED" THEN r.known ELSE granted
  /\ permit' = IF event = "MERGE_STARTED" THEN "live" ELSE permit
  /\ seen' = [seen EXCEPT ![c] = {}]
  /\ UNCHANGED <<head, merged>>

-----------------------------------------------------------------------------
(* The host: the branch moves, and merges happen, whatever the ticket says. *)

Push(h) ==
  /\ merged = "no" /\ head' = h
  /\ UNCHANGED <<state, revision, known, gate, granted, permit, merged, seen>>

\* The executor's merge is atomic for the authorized head; it may come late.
ExecutorMerge ==
  /\ permit = "live" /\ merged = "no" /\ head = granted
  /\ merged' = "executor" /\ permit' = "spent"
  /\ UNCHANGED <<state, revision, known, gate, granted, head, seen>>

RevokePermit ==
  /\ permit = "live" /\ permit' = "revoked"
  /\ UNCHANGED <<state, revision, known, gate, granted, head, merged, seen>>

HumanMerge ==
  /\ merged = "no" /\ merged' = "human"
  /\ UNCHANGED <<state, revision, known, gate, granted, permit, head, seen>>

Revert ==
  /\ merged \in {"executor", "human"} /\ merged' = "reverted"
  /\ UNCHANGED <<state, revision, known, gate, granted, permit, head, seen>>

TicketInit ==
  /\ state = "BACKLOG" /\ revision = 0
  /\ known = NoCommit /\ gate = NoCommit /\ granted = NoCommit /\ permit = "none"
  /\ head \in Commit /\ merged = "no" /\ seen = [c \in Caller |-> {}]

TicketNext ==
  \/ \E c \in Caller : Read(c)
  \/ \E c \in Caller : \E r \in seen[c] : \E event \in Events :
       \E resume \in IF event = "RECOVER" THEN Resume ELSE {NoCommit} : Advance(c, r, event, resume)
  \/ \E h \in Commit : Push(h)
  \/ ExecutorMerge \/ RevokePermit \/ HumanMerge \/ Revert

TicketSpec == TicketInit /\ [][TicketNext]_ticketVars

-----------------------------------------------------------------------------
(* What the state machine and the revision check achieve together.         *)

\* From the gate to the merge call the ticket speaks of one head: the one the gate passed
\* for is the registered one, and what the owner authorized is what may be merged, although
\* reviewers, owners and hooks advance the ticket from readings of different ages.
AuthorizedIsGated ==
  /\ state \in {"READY_FOR_OWNER_AUTHORIZATION", "OWNER_AUTHORIZED", "MERGING"} => gate = known
  /\ state \in {"OWNER_AUTHORIZED", "MERGING"} => granted = known
  /\ permit = "live" => granted = gate

\* While a merge call can still take effect, and after it did, the ticket is merging, of
\* unknown merge, or merged: neither a block, a failure, a cancellation nor a late reading
\* that saw no merge takes it back to review or out of the lifecycle.  And no reading closes
\* a ticket as merged whose candidate never was.
MergeIsTracked ==
  /\ ((permit = "live" /\ merged = "no") \/ merged = "executor") => state \in Merging \cup AfterMerge
  /\ state \in AfterMerge => merged # "no"

\* From the gate to the record of the merge, nothing is merged but what the owner authorized,
\* and nothing that was merged is forgotten.
MergeIsAuthorized == AuthorizedIsGated /\ MergeIsTracked
=============================================================================
