--------------------------- MODULE OwnerPublication ---------------------------
(***************************************************************************)
(* The owner's publication: completed streams are handed to the owner, who *)
(* pushes all their branches with one atomic command, and afterwards a     *)
(* draft pull request is requested for each.  A request whose outcome is   *)
(* uncertain is observed, never repeated.                                  *)
(*                                                                         *)
(* Abstractions.  A handoff is a batch; its authorization, command and     *)
(* retained request are left out but for the head of each stream.  An      *)
(* operation is a stream of a batch.  The reviewed adapter creates a pull  *)
(* request only over the operation's exact head, and the provider has one  *)
(* per branch.                                                             *)
(***************************************************************************)
EXTENDS Integers

CONSTANTS
  Batch, Stream,
  Work,         \* the commits of completed work: Work[b][s]
  Resumer       \* processes that resume a batch

VARIABLES
  handoff,      \* owner_publication_pr: the state of each operation, "none" before its batch is prepared
  resumer,      \* what each process does, and for which operation
  requests,     \* history: how often each operation was requested
  creating,     \* requests under way
  branch,       \* the provider's branches
  drafts        \* the operation each of its pull requests was created for

handoffVars == <<handoff, resumer, requests, creating, branch, drafts>>
provider == <<requests, creating, branch, drafts>>

Operation == Batch \X Stream
NoBranch == "none"
Waiting == [at |-> "idle", op |-> <<>>]
OfBatch(b) == {o \in Operation : o[1] = b}

HandoffInit ==
  /\ handoff = [o \in Operation |-> "none"] /\ resumer = [p \in Resumer |-> Waiting]
  /\ requests = [o \in Operation |-> 0] /\ creating = {}
  /\ branch = [s \in Stream |-> NoBranch] /\ drafts = {}

Does(p, at, o) == resumer' = [resumer EXCEPT ![p] = [at |-> at, op |-> o]]

\* The same request prepares the same batch; a new authorization makes another one.
Prepare(b) ==
  /\ \A o \in OfBatch(b) : handoff[o] = "none"
  /\ handoff' = [o \in Operation |-> IF o[1] = b THEN "WAITING_OWNER_PUSH" ELSE handoff[o]]
  /\ UNCHANGED <<resumer, provider>>

\* Every head must be that of the completed work before anything is requested.
RecordHeads(p, b) ==
  /\ resumer[p] = Waiting /\ \E o \in OfBatch(b) : handoff[o] \notin {"none", "PR_CREATED"}
  /\ \A s \in Stream : branch[s] = Work[b][s]
  /\ handoff' = [o \in Operation |-> IF o[1] = b /\ handoff[o] = "WAITING_OWNER_PUSH" THEN "PR_PENDING"
                                     ELSE handoff[o]]
  /\ Does(p, "resuming", <<b>>)
  /\ UNCHANGED provider

\* As if an uncertain request could be sent again.
MRequestable(state) == state \in {"PR_PENDING", "PR_UNKNOWN"}
Requestable(state) == state = "PR_PENDING"

BeginPr(p, o) ==
  /\ resumer[p] = [at |-> "resuming", op |-> <<o[1]>>] /\ handoff[o] # "PR_CREATED"
  /\ IF Requestable(handoff[o])
       THEN handoff' = [handoff EXCEPT ![o] = "PR_IN_FLIGHT"] /\ Does(p, "requesting", o)
       ELSE handoff' = handoff /\ Does(p, "observing", o)
  /\ UNCHANGED provider

CreateDraft(p) ==
  LET o == resumer[p].op IN
  /\ resumer[p].at = "requesting" /\ Does(p, "observing", o)
  /\ requests' = [requests EXCEPT ![o] = @ + 1] /\ creating' = creating \cup {o}
  /\ UNCHANGED <<handoff, branch, drafts>>

Open(state) == state \in {"PR_IN_FLIGHT", "PR_UNKNOWN"}

\* The separate readback shows the exact retained operation.
FinishPr(p) ==
  LET o == resumer[p].op IN
  /\ resumer[p].at = "observing" /\ Open(handoff[o])
  /\ o \in drafts /\ branch[o[2]] = Work[o[1]][o[2]]
  /\ handoff' = [handoff EXCEPT ![o] = "PR_CREATED"] /\ Does(p, "resuming", <<o[1]>>)
  /\ UNCHANGED provider

\* Request or readback raised, or the readback differs; another process may be between the two.
UncertainPr(p) ==
  LET o == resumer[p].op IN
  /\ resumer[p].at \in {"requesting", "observing"}
  /\ handoff' = IF handoff[o] = "PR_IN_FLIGHT" THEN [handoff EXCEPT ![o] = "PR_UNKNOWN"] ELSE handoff
  /\ Does(p, "resuming", <<o[1]>>)
  /\ UNCHANGED provider

\* It has gone through its operations, or dies.
ResumerEnds(p) ==
  /\ resumer[p] # Waiting /\ resumer' = [resumer EXCEPT ![p] = Waiting]
  /\ UNCHANGED <<handoff, provider>>

-----------------------------------------------------------------------------
(* The owner and the provider.                                             *)

OwnerPushes(b) ==
  /\ \A o \in OfBatch(b) : handoff[o] # "none"
  /\ branch' = Work[b]
  /\ UNCHANGED <<handoff, resumer, requests, creating, drafts>>

RequestEnds(o) ==
  /\ o \in creating /\ creating' = creating \ {o}
  /\ \/ /\ branch[o[2]] = Work[o[1]][o[2]] /\ \A d \in drafts : d[2] # o[2]
        /\ drafts' = drafts \cup {o}
     \/ drafts' = drafts
  /\ UNCHANGED <<handoff, resumer, requests, branch>>

HandoffNext ==
  \/ \E b \in Batch : Prepare(b) \/ OwnerPushes(b)
  \/ \E p \in Resumer : \/ \E b \in Batch : RecordHeads(p, b)
                        \/ \E o \in Operation : BeginPr(p, o)
                        \/ CreateDraft(p) \/ FinishPr(p) \/ UncertainPr(p) \/ ResumerEnds(p)
  \/ \E o \in creating : RequestEnds(o)

HandoffSpec == HandoffInit /\ [][HandoffNext]_handoffVars

-----------------------------------------------------------------------------
(* Properties.                                                             *)

HandoffTypeOK ==
  /\ handoff \in [Operation -> {"none", "WAITING_OWNER_PUSH", "PR_PENDING", "PR_IN_FLIGHT", "PR_UNKNOWN", "PR_CREATED"}]
  /\ resumer \in [Resumer -> {Waiting} \cup [at : {"resuming"}, op : {<<b>> : b \in Batch}]
                             \cup [at : {"requesting", "observing"}, op : Operation]]
  /\ requests \in [Operation -> Nat] /\ creating \subseteq Operation /\ drafts \subseteq Operation
  /\ \A s \in Stream : branch[s] \in {NoBranch} \cup {Work[b][s] : b \in Batch}

\* However often a batch is resumed, by two processes at once or after a crash between the
\* durable intent and the request, an operation's draft pull request is requested at most
\* once; a stream is recorded as created only for its own operation's pull request, and
\* two operations are never created for one stream.
DraftRequestedOnce ==
  /\ \A o \in Operation : requests[o] <= 1 /\ (handoff[o] = "PR_CREATED" => requests[o] = 1 /\ o \in drafts)
  /\ \A o, d \in Operation : o # d /\ o[2] = d[2] => ~(handoff[o] = "PR_CREATED" /\ handoff[d] = "PR_CREATED")
=============================================================================
