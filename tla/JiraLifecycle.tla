--------------------------- MODULE JiraLifecycle ---------------------------
(***************************************************************************)
(* The Jira transitions of one ticket (production_jira_lifecycle).         *)
(*                                                                         *)
(* An invocation reads the ticket's status, recovers what earlier ones     *)
(* left open, journals an intent, claims it, takes the ticket's lock,      *)
(* records the provider boundary, sends the transition and reads it back.  *)
(* A result that is not proved stops the ticket until an observation or    *)
(* the owner settles it.  The module has the journal, the invocations, the *)
(* owner's disposition, the check after the merge and the provider.        *)
(*                                                                         *)
(* Abstractions.  One ticket: every query is by issue.  An intent's bytes  *)
(* are its event, its source status and the run.  The two file locks are   *)
(* held by position: the operating system frees them when their holder     *)
(* ends.  Times, and the journal of batch closeouts, are left out.         *)
(***************************************************************************)
EXTENDS Integers, Sequences

CONSTANTS
  Writer,       \* processes that run jira-lifecycle
  Event,        \* lifecycle events with a mapped write
  JiraStatus,   \* statuses of the ticket
  Target,       \* status_map of each event
  Opening,      \* the status a ticket starts in
  Closing,      \* the event of the write after the merge
  WriteRun,     \* what tells two intents of one event and status apart
  MaxMoves      \* bound on the ticket's changelog

ASSUME JiraAssumption ==
  /\ Target \in [Event -> JiraStatus] /\ Opening \in JiraStatus /\ Closing \in Event
  /\ "BLOCK" \notin Event /\ WriteRun # {} /\ MaxMoves \in Nat

JiraOperation == Event \X JiraStatus \X WriteRun
Job == (Event \cup {"BLOCK"}) \X JiraStatus \X WriteRun

EventOf(o) == o[1]
FromOf(o) == o[2]
ToOf(o) == Target[o[1]]

Unproved == {"IN_FLIGHT", "UNKNOWN", "FAILED"}
NoAttempt == -1
NoJob == <<"BLOCK", Opening, CHOOSE r \in WriteRun : TRUE>>

VARIABLES
  journal,      \* controller_jira_operation.status
  unattempted,  \* the jira-not-attempted marks
  attempt,      \* length of the changelog in the boundary file of an attempt
  underway,     \* transitions sent that neither arrived nor got lost
  posted,       \* history: transitions ever sent
  moves,        \* the ticket's changelog
  step, job,    \* control and locals of each writer
  rows          \* the open rows a recovery has read

jiraVars == <<journal, unattempted, attempt, underway, posted, moves, step, job, rows>>
books == <<journal, unattempted>>
provider == <<attempt, underway, posted, moves>>

JiraNow == IF moves = <<>> THEN Opening ELSE moves[Len(moves)].to

JiraInit ==
  /\ journal = [o \in JiraOperation |-> "absent"] /\ unattempted = {}
  /\ attempt = [o \in JiraOperation |-> NoAttempt] /\ underway = {} /\ posted = {} /\ moves = <<>>
  /\ step = [w \in Writer |-> "idle"] /\ job = [w \in Writer |-> NoJob]
  /\ rows = [w \in Writer |-> {}]

-----------------------------------------------------------------------------
(* Locks, and what a recovery or a write looks at.                         *)

Claiming == {"own", "write", "post", "answer"}
Owning == {"recovering", "write", "post", "answer"}

ClaimFree(o) == \A w \in Writer : ~(step[w] \in Claiming /\ job[w] = o)
IssueFree == \A w \in Writer : step[w] \notin Owning

Unsettled == {o \in JiraOperation : journal[o] \in Unproved}
OthersUnsettled(o) == Unsettled \ {o}

\* The status alone, whoever brought the ticket there.
MProved(o) == JiraNow = ToOf(o)

\* read_transition: exactly one entry after the recorded boundary, from the status the
\* intent names to its target, by the controller's account.
Proved(o) ==
  /\ attempt[o] # NoAttempt /\ Len(moves) = attempt[o] + 1
  /\ LET last == moves[Len(moves)]
     IN  last.from = FromOf(o) /\ last.to = ToOf(o) /\ last.by # {}

Go(w, place) == step' = [step EXCEPT ![w] = place] /\ UNCHANGED <<job, rows>>
Leave(w) == /\ step' = [step EXCEPT ![w] = "idle"] /\ job' = [job EXCEPT ![w] = NoJob]
            /\ rows' = [rows EXCEPT ![w] = {}]
Continue(w, done) ==
  IF EventOf(job[w]) \in done \cup {"BLOCK"} THEN Leave(w)
  ELSE /\ step' = [step EXCEPT ![w] = "prepare"] /\ rows' = [rows EXCEPT ![w] = {}]
       /\ job' = job
Enter(o, status) == journal' = [journal EXCEPT ![o] = status]

-----------------------------------------------------------------------------
(* One invocation.                                                         *)

\* The ticket's status is read.  An event the owner has abandoned is not run again.
ReadCurrentStatus(w, e, r) ==
  /\ step[w] = "idle"
  /\ \A o \in JiraOperation : EventOf(o) = e => journal[o] # "HELD"
  /\ job' = [job EXCEPT ![w] = <<e, JiraNow, r>>] /\ step' = [step EXCEPT ![w] = "recover"]
  /\ rows' = rows
  /\ UNCHANGED <<books, provider>>

\* Refusals, exceptions no handler catches, and crashes: locks go, nothing is written.
Ends(w) ==
  /\ step[w] # "idle" /\ Leave(w)
  /\ UNCHANGED <<books, provider>>

NothingToRecover(w) ==
  /\ step[w] = "recover" /\ Unsettled = {}
  /\ Continue(w, {})
  /\ UNCHANGED <<books, provider>>

\* recover_jira_operations: claims whose holder is gone become unknown, unless an earlier
\* failure is still open.
BeginRecovery(w) ==
  /\ step[w] = "recover" /\ Unsettled # {} /\ IssueFree
  /\ \A o \in Unsettled : ClaimFree(o)
  /\ journal' = IF \A o \in Unsettled : journal[o] = "IN_FLIGHT"
                THEN [o \in JiraOperation |-> IF o \in Unsettled THEN "UNKNOWN" ELSE journal[o]]
                ELSE journal
  /\ step' = [step EXCEPT ![w] = "recovering"] /\ rows' = [rows EXCEPT ![w] = Unsettled]
  /\ UNCHANGED <<unattempted, provider, job>>

\* All rows read are settled in one transaction or none is.  Intents stopped before their
\* write are resumed by BLOCK only; an event whose own row was proved last ends here.
SettleRecovered(w) ==
  LET resumed == rows[w] \cap unattempted
      proved == rows[w] \ unattempted
  IN
  /\ step[w] = "recovering"
  /\ resumed # {} => EventOf(job[w]) = "BLOCK"
  /\ \A o \in proved : Proved(o)
  /\ journal' = [o \in JiraOperation |-> IF o \in proved THEN "SUCCEEDED"
                                      ELSE IF o \in resumed THEN "PENDING" ELSE journal[o]]
  /\ unattempted' = unattempted \ resumed
  /\ \/ proved = {} /\ Leave(w)
     \/ \E last \in proved : Continue(w, {EventOf(last)})
  /\ UNCHANGED provider

\* planned_write and prepare_jira_operation.
PrepareJiraOperation(w) ==
  LET o == job[w] IN
  /\ step[w] = "prepare" /\ FromOf(o) # ToOf(o)
  /\ \A p \in JiraOperation : journal[p] \notin {"UNKNOWN", "FAILED"}
  /\ journal[o] \in {"absent", "PENDING"}
  /\ Enter(o, "PENDING") /\ Go(w, "claim")
  /\ UNCHANGED <<unattempted, provider>>

BeginJiraOperation(w) ==
  /\ step[w] = "claim" /\ ClaimFree(job[w]) /\ journal[job[w]] = "PENDING"
  /\ Enter(job[w], "IN_FLIGHT") /\ Go(w, "own")
  /\ UNCHANGED <<unattempted, provider>>

OwnIssue(w) ==
  /\ step[w] = "own" /\ journal[job[w]] = "IN_FLIGHT" /\ IssueFree /\ OthersUnsettled(job[w]) = {}
  /\ Go(w, "write")
  /\ UNCHANGED <<books, provider>>

\* The lock is taken or something is open; later, the policy was refused or something has
\* become open.
StopUnattempted(w) ==
  /\ \/ step[w] = "own" /\ (~IssueFree \/ OthersUnsettled(job[w]) # {})
     \/ step[w] = "write"
  /\ Enter(job[w], "FAILED") /\ unattempted' = unattempted \cup {job[w]}
  /\ Leave(w)
  /\ UNCHANGED provider

\* The lock file fails, or prepare_transition raises: the claim is given back.
NotAttempted(w) ==
  /\ \/ step[w] = "own"
     \/ step[w] = "write" /\ OthersUnsettled(job[w]) = {} /\ attempt[job[w]] = NoAttempt
  /\ Enter(job[w], "PENDING") /\ Leave(w)
  /\ UNCHANGED <<unattempted, provider>>

\* prepare_transition: the boundary file is the last thing before the request.
PrepareTransition(w) ==
  LET o == job[w] IN
  /\ step[w] = "write" /\ OthersUnsettled(o) = {}
  /\ JiraNow = FromOf(o) /\ attempt[o] = NoAttempt
  /\ attempt' = [attempt EXCEPT ![o] = Len(moves)] /\ Go(w, "post")
  /\ UNCHANGED <<books, underway, posted, moves>>

Post(w) ==
  /\ step[w] = "post"
  /\ posted' = posted \cup {job[w]} /\ underway' = underway \cup {job[w]} /\ Go(w, "answer")
  /\ UNCHANGED <<books, attempt, moves>>

FinishWrite(w) ==
  /\ step[w] = "answer" /\ job[w] \notin underway /\ Proved(job[w])
  /\ Enter(job[w], "SUCCEEDED") /\ Leave(w)
  /\ UNCHANGED <<unattempted, provider>>

\* The request, its receipt or the read-back failed.
MarkUnknown(w) ==
  /\ step[w] \in {"post", "answer"}
  /\ Enter(job[w], "UNKNOWN") /\ Leave(w)
  /\ UNCHANGED <<unattempted, provider>>

-----------------------------------------------------------------------------
(* The owner, the check after the merge, and the provider.                 *)

\* A disposition that looks at the row but takes neither lock.
MResolveJiraOperation(o) ==
  /\ journal[o] \in Unproved \cup {"PENDING"}
  /\ Enter(o, "HELD")
  /\ UNCHANGED <<unattempted, provider, step, job, rows>>

\* ABANDON_NO_REPLAY.
ResolveJiraOperation(o) ==
  /\ ClaimFree(o) /\ IssueFree /\ journal[o] \in Unproved \cup {"PENDING"}
  /\ Enter(o, "HELD")
  /\ UNCHANGED <<unattempted, provider, step, job, rows>>

\* The status no longer is the one that was written after the merge.
PostMergeConflict(o) ==
  /\ EventOf(o) = Closing /\ journal[o] = "SUCCEEDED" /\ IssueFree /\ Unsettled = {}
  /\ JiraNow # ToOf(o)
  /\ Enter(o, "FAILED")
  /\ UNCHANGED <<unattempted, provider, step, job, rows>>

Moved(to, by) == moves' = Append(moves, [from |-> JiraNow, to |-> to, by |-> by])

Arrive(o) ==
  /\ o \in underway /\ underway' = underway \ {o}
  /\ JiraNow # ToOf(o) /\ Len(moves) < MaxMoves /\ Moved(ToOf(o), {o})
  /\ UNCHANGED <<books, attempt, posted, step, job, rows>>

GetLost(o) ==
  /\ o \in underway /\ underway' = underway \ {o}
  /\ UNCHANGED <<books, attempt, posted, moves, step, job, rows>>

SomeoneMoves(s) ==
  /\ s # JiraNow /\ Len(moves) < MaxMoves /\ Moved(s, {})
  /\ UNCHANGED <<books, attempt, underway, posted, step, job, rows>>

JiraNext ==
  \/ \E w \in Writer :
       \/ \E e \in Event \cup {"BLOCK"}, r \in WriteRun : ReadCurrentStatus(w, e, r)
       \/ Ends(w) \/ NothingToRecover(w) \/ BeginRecovery(w) \/ SettleRecovered(w)
       \/ PrepareJiraOperation(w) \/ BeginJiraOperation(w) \/ OwnIssue(w)
       \/ StopUnattempted(w) \/ NotAttempted(w) \/ PrepareTransition(w)
       \/ Post(w) \/ FinishWrite(w) \/ MarkUnknown(w)
  \/ \E o \in JiraOperation : ResolveJiraOperation(o) \/ PostMergeConflict(o) \/ Arrive(o) \/ GetLost(o)
  \/ \E s \in JiraStatus : SomeoneMoves(s)

JiraSpec == JiraInit /\ [][JiraNext]_jiraVars

-----------------------------------------------------------------------------
(* Properties.                                                             *)

JiraTypeOK ==
  /\ journal \in [JiraOperation -> {"absent", "PENDING", "SUCCEEDED", "HELD"} \cup Unproved]
  /\ unattempted \subseteq JiraOperation
  /\ attempt \in [JiraOperation -> Nat \cup {NoAttempt}]
  /\ underway \subseteq JiraOperation /\ posted \subseteq JiraOperation
  /\ moves \in Seq([from : JiraStatus, to : JiraStatus, by : SUBSET JiraOperation])
  /\ step \in [Writer -> {"idle", "recover", "recovering", "prepare", "claim"} \cup Claiming]
  /\ job \in [Writer -> Job] /\ rows \in [Writer -> SUBSET JiraOperation]

\* What may be tried again was never sent: an intent that is pending, or is stopped with
\* the mark that lets BLOCK resume it, has neither a boundary file nor a request.
ResumableIsUnsent ==
  \A o \in JiraOperation : journal[o] = "PENDING" \/ (journal[o] = "FAILED" /\ o \in unattempted)
    => o \notin posted /\ attempt[o] = NoAttempt

\* A transition is sent at most once, and only while every other transition that was ever
\* sent for the ticket is proved or was given up by the owner.
NoWriteOverUncertainty ==
  [][\A o \in posted' \ posted :
        /\ journal[o] = "IN_FLIGHT"
        /\ \A p \in posted : journal[p] \in {"SUCCEEDED", "HELD"}]_jiraVars

\* Unless the owner has abandoned an operation, a transition counted as a success is in
\* the changelog because of its own request, whatever else was sent, moved or repeated.
SuccessIsItsOwn ==
  (\A p \in JiraOperation : journal[p] # "HELD") =>
    \A o \in JiraOperation : journal[o] = "SUCCEEDED" => \E i \in 1..Len(moves) : moves[i].by = {o}
=============================================================================
