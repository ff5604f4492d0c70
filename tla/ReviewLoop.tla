------------------------------ MODULE ReviewLoop ------------------------------
(***************************************************************************)
(* The host review loop of one pull request: the first draft that is       *)
(* written, published and enrolled, and the ticks that review, amend and   *)
(* wait for CI until the final gate.  One file lock covers each tick and   *)
(* each step of the first draft; an agent run is saved as inflight before  *)
(* it starts, and a run that is found inflight pauses the loop until an    *)
(* operator has reconciled it.                                             *)
(*                                                                         *)
(* Abstractions.  A commit is the number of the agent run that wrote it.   *)
(* Of a finding only the severity that blocks is kept, so a finding is     *)
(* open or not; a critic that only asks for minor changes has none open.   *)
(* The operation that is frozen before the commit repeats the receipt and  *)
(* is left out, as are identities of configurations, digests and scans.    *)
(* The inspection that a resume demands of the operator is modelled by its *)
(* outcome: no agent and no first-draft process is left when it resumes.   *)
(***************************************************************************)
EXTENDS Integers, FiniteSets

CONSTANTS
  Finding,        \* findings a critic may raise
  Boundary,       \* those whose basis is a mandatory boundary
  CiFinding,      \* AWF-CI
  MaxRuns,        \* max_agent_runs
  MaxCycles,      \* max_amendment_cycles
  MaxExtensions,  \* max_cap_extensions
  MaxWait,        \* max_ci_wait_ticks
  MaxBase         \* bound on the moves of the target branch

ASSUME LoopAssumption ==
  /\ CiFinding \in Boundary /\ Boundary \subseteq Finding
  /\ MaxRuns \in Nat \ {0} /\ MaxCycles \in Nat \ {0} /\ MaxExtensions \in 0..3
  /\ MaxWait \in Nat /\ MaxBase \in Nat

VARIABLES
  loop,      \* the enrollment's record, without what only the first draft keeps
  draft,     \* the first draft's receipt, publication, status, resume_ready; and the bound configuration
  drafter,   \* the process that runs first-draft: where it is, and the base it saw
  tick,      \* the tick that holds the writer lock, and the candidate it works on
  agents,    \* the runs whose agent process is alive
  started,   \* history: agent processes started
  flight,    \* pushes under way
  posting,   \* a pull request is being created
  host,      \* the provider's branch, target and pull request
  looked     \* the snapshot an operator resumes with

store == <<loop, draft>>
processes == <<drafter, tick, agents, started>>
remote == <<flight, posting, host>>
loopVars == <<loop, draft, drafter, tick, agents, started, flight, posting, host, looked>>

Cand(h, b) == [head |-> h, base |-> b]
NoCand == Cand(0, 0)
NoReview == [cand |-> NoCand, verdict |-> "none"]
Adopted == MaxRuns + 1   \* the head of a pull request that existed before
Foreign == MaxRuns + 2   \* a commit of another writer
Now == Cand(host.head, host.base)
Idle == [at |-> "idle", base |-> 0]
FreeLock == [at |-> "free", cand |-> NoCand]
Enrolled == loop.cand # NoCand
Reserved == loop.phase # "none" /\ ~Enrolled
CapLimit == MaxCycles + loop.ext

LoopInit ==
  /\ loop = [phase |-> "none", cand |-> NoCand, cycles |-> 0, ext |-> 0, runs |-> 0, inflight |-> 0,
             last |-> NoReview, open |-> {}, notes |-> {}, waits |-> 0, reason |-> "other"]
  /\ draft = [ready |-> FALSE, receipt |-> NoCand, pub |-> NoCand, status |-> "none", bound |-> FALSE]
  /\ drafter = Idle /\ tick = FreeLock /\ agents = {} /\ started = 0
  /\ flight = {} /\ posting = FALSE /\ looked = NoCand
  /\ host \in {[head |-> 0, base |-> 0, pr |-> "none"], [head |-> Adopted, base |-> 0, pr |-> "open"]}

Paused(s, reason) == [s EXCEPT !.phase = "PAUSED", !.reason = reason]
\* Every operation of the store is one transaction under the writer lock.
Lock == tick = FreeLock

-----------------------------------------------------------------------------
(* The first draft.                                                        *)

At(place) == drafter.at = place
Goes(place) == drafter' = [drafter EXCEPT !.at = place]

\* reserve_first_draft: the run is charged before the worker is called.
Reserve ==
  /\ At("idle") /\ loop.phase = "none" /\ host.pr = "none"
  /\ loop' = [loop EXCEPT !.phase = "FIRST_DRAFT", !.runs = 1, !.inflight = 1]
  /\ drafter' = [at |-> "working", base |-> host.base]
  /\ agents' = {1} /\ started' = started + 1
  /\ UNCHANGED <<draft, tick, remote, looked>>

\* The retry that a resume allows: a worker whose output survives is not run again.
\* As if only a confirmed push kept it from running.
MReplay == draft.status # "PUSHED"
Replay == draft.pub = NoCand /\ draft.receipt = NoCand

RetryWithWorker ==
  /\ At("idle") /\ loop.phase = "FIRST_DRAFT" /\ draft.ready /\ ~draft.bound
  /\ Replay /\ loop.runs < MaxRuns
  /\ loop' = [loop EXCEPT !.runs = @ + 1] /\ draft' = [draft EXCEPT !.ready = FALSE]
  /\ drafter' = [at |-> "working", base |-> host.base]
  /\ agents' = agents \cup {loop.runs + 1} /\ started' = started + 1
  /\ UNCHANGED <<tick, remote, looked>>

RetryPublication ==
  /\ At("idle") /\ loop.phase = "FIRST_DRAFT" /\ draft.ready /\ ~draft.bound /\ ~Replay
  /\ draft.pub # NoCand => draft.pub.base = host.base
  /\ draft' = [draft EXCEPT !.ready = FALSE]
  /\ drafter' = [base |-> host.base,
                 at |-> IF draft.pub = NoCand THEN "publishing"
                        ELSE IF draft.status = "RETRY_PUSH" THEN "prepared" ELSE "pushed"]
  /\ UNCHANGED <<loop, tick, agents, started, remote, looked>>

\* The worker has returned.
RecordReceipt ==
  /\ At("working") /\ loop.phase = "FIRST_DRAFT" /\ loop.runs \in agents
  /\ draft' = [draft EXCEPT !.receipt = Cand(loop.runs, drafter.base)]
  /\ agents' = agents \ {loop.runs} /\ Goes("publishing")
  /\ UNCHANGED <<loop, tick, started, remote, looked>>

\* The tested tree is committed on the base it was tested on, and its identity is frozen.
RecordPublication ==
  /\ At("publishing") /\ loop.phase = "FIRST_DRAFT" /\ draft.receipt.base = host.base
  /\ draft' = [draft EXCEPT !.pub = draft.receipt, !.status = IF @ = "none" THEN "PREPARED" ELSE @]
  /\ Goes("prepared")
  /\ UNCHANGED <<loop, tick, agents, started, remote, looked>>

Push ==
  /\ At("prepared") /\ flight' = flight \cup {[to |-> draft.pub.head, over |-> 0]} /\ Goes("pushing")
  /\ UNCHANGED <<store, tick, agents, started, posting, host, looked>>

ConfirmPublication ==
  /\ At("pushing") /\ host.head = draft.pub.head /\ loop.phase \in {"FIRST_DRAFT", "PAUSED"}
  /\ draft' = [draft EXCEPT !.status = "PUSHED"] /\ Goes("pushed")
  /\ UNCHANGED <<loop, tick, agents, started, remote, looked>>

\* The provider refuses a second pull request for the branch.
CreatePr ==
  /\ At("pushed") /\ host.pr = "none" /\ posting' = TRUE /\ Goes("created")
  /\ UNCHANGED <<store, tick, agents, started, flight, host, looked>>

\* The number is bound in the configuration before anything else is read.
BindPr ==
  /\ At("created") /\ host.pr # "none" /\ draft' = [draft EXCEPT !.bound = TRUE] /\ Goes("bound")
  /\ UNCHANGED <<loop, tick, agents, started, remote, looked>>

\* complete_first_draft with the observed pull request.
Completes ==
  /\ draft.status = "PUSHED" /\ host.pr = "open" /\ Now = draft.pub
  /\ loop' = [loop EXCEPT !.phase = "REVIEW", !.cand = Now, !.inflight = 0, !.reason = "other"]

EnrollDraft ==
  /\ At("bound") /\ loop.phase = "FIRST_DRAFT" /\ Completes
  /\ draft' = [draft EXCEPT !.ready = FALSE] /\ drafter' = Idle
  /\ UNCHANGED <<tick, agents, started, remote, looked>>

\* first_draft_failure after any exception; a worker that was cut off may live on.
DraftFails ==
  /\ ~At("idle") /\ drafter' = Idle /\ agents' \in SUBSET agents
  /\ IF loop.phase = "FIRST_DRAFT"
       THEN loop' = Paused(loop, "other") /\ draft' = [draft EXCEPT !.ready = FALSE]
       ELSE UNCHANGED store
  /\ UNCHANGED <<tick, started, remote, looked>>

DraftDies ==
  /\ ~At("idle") /\ drafter' = Idle /\ agents' \in SUBSET agents
  /\ UNCHANGED <<store, tick, started, remote, looked>>

Reconciled == At("idle") /\ agents = {} /\ Lock

\* What a missing pull request leaves to be done.
Inspected == IF draft.pub = NoCand THEN "none" ELSE IF host.head = 0 THEN "RETRY_PUSH" ELSE "PUSHED"

\* The resume of a first draft looks for its pull request, then for its branch.
ResumeDraft ==
  /\ Reserved /\ loop.phase \in {"FIRST_DRAFT", "PAUSED"} /\ Reconciled
  /\ \/ host.pr # "none" /\ Completes /\ draft' = [draft EXCEPT !.ready = FALSE, !.bound = TRUE]
     \/ \* It is bound before the enrollment is refused, or the process dies.
        host.pr # "none" /\ Now = draft.pub /\ draft' = [draft EXCEPT !.bound = TRUE] /\ loop' = loop
     \/ /\ host.pr = "none" /\ (draft.pub # NoCand => host.head \in {0, draft.pub.head})
        /\ loop' = [loop EXCEPT !.phase = "FIRST_DRAFT", !.reason = "other"]
        /\ draft' = [draft EXCEPT !.ready = TRUE, !.status = Inspected]
  /\ UNCHANGED <<processes, remote, looked>>

-----------------------------------------------------------------------------
(* Ticks.                                                                  *)

\* An open pull request is adopted with the findings its operator knows of.
EnrollExisting(known) ==
  /\ Lock /\ At("idle") /\ loop.phase = "none" /\ host.pr = "open"
  /\ loop' = [loop EXCEPT !.phase = "REVIEW", !.cand = Now, !.open = known]
  /\ UNCHANGED <<draft, processes, remote, looked>>

\* A tick finds what an earlier one left behind; it also finds a first draft that is running.
TickFindsInflight ==
  /\ Lock /\ loop.phase \notin {"none", "PAUSED", "CLOSED"} /\ loop.inflight # 0
  /\ Reserved => ~draft.bound
  /\ loop' = Paused(loop, "other")
  /\ UNCHANGED <<draft, processes, remote, looked>>

\* As if a lock that nobody holds proved that the run is over.
MUntouched == Lock
Untouched == loop.inflight = 0
Ticks == Lock /\ Enrolled /\ loop.phase \notin {"PAUSED", "CLOSED"} /\ Untouched

TickCloses ==
  /\ Ticks /\ host.pr = "closed" /\ loop' = [loop EXCEPT !.phase = "CLOSED", !.reason = "other"]
  /\ UNCHANGED <<draft, processes, remote, looked>>

Again(s) == [s EXCEPT !.phase = "REVIEW", !.last = NoReview, !.waits = 0]
\* The target moved: everything is reviewed again.
Rebased == IF host.head = loop.cand.head /\ Now # loop.cand THEN Again([loop EXCEPT !.cand = Now]) ELSE loop
\* A review may be too old by now.
Seen == {Rebased} \cup
  IF Rebased.phase \in {"WAIT_CI", "READY"} /\ Rebased.last # NoReview THEN {Again(Rebased)} ELSE {}

\* Any observation may fail or show another writer, the budget of runs may be exhausted, a
\* review missing; what the tick had decided by then is saved.
TickFails(s) ==
  /\ Ticks /\ loop' \in {Paused(loop, "other"), Paused(s, "other")}
  /\ UNCHANGED <<draft, processes, remote, looked>>

\* Only the target may move between two ticks.
Observes == Ticks /\ host.pr = "open" /\ host.head = loop.cand.head

\* Any review will do.
MReviewed(s) == s.last # NoReview
Reviewed(s) == s.last # NoReview /\ s.last.cand = s.cand

CiPasses(s) ==
  /\ Observes /\ s.phase = "WAIT_CI" /\ Reviewed(s)
  /\ loop' = [s EXCEPT !.phase = "READY", !.reason = "other"]
  /\ UNCHANGED <<draft, processes, remote, looked>>

\* As if one could wait for CI for ever.
MCiIsPending(s) ==
  /\ Observes /\ s.phase \in {"WAIT_CI", "READY"}
  /\ loop' = [s EXCEPT !.phase = "WAIT_CI", !.waits = IF s.phase = "READY" THEN 0 ELSE @ + 1]
  /\ UNCHANGED <<draft, processes, remote, looked>>

\* The wait is counted before it is compared with its budget, and saved with the refusal.
Waited(s) == IF s.waits < MaxWait THEN [s EXCEPT !.waits = @ + 1]
             ELSE Paused([s EXCEPT !.waits = @ + 1], "other")

CiIsPending(s) ==
  /\ Observes
  /\ \/ /\ s.phase = "WAIT_CI" /\ loop' = Waited(s)
     \/ /\ s.phase = "READY" /\ loop' = [s EXCEPT !.phase = "WAIT_CI", !.waits = 0]
  /\ UNCHANGED <<draft, processes, remote, looked>>

\* Failed CI is a boundary finding of its own; no other finding is dropped for it.
CiFails(s) ==
  /\ Observes
  /\ \/ /\ s.phase = "WAIT_CI"
        /\ loop' = [s EXCEPT !.phase = "AMEND", !.open = @ \cup {CiFinding}, !.last = NoReview, !.reason = "other"]
     \/ /\ s.phase = "READY" /\ loop' = [s EXCEPT !.phase = "WAIT_CI", !.waits = 0]
  /\ UNCHANGED <<draft, processes, remote, looked>>

TickReachesCap(s) ==
  /\ Observes /\ s.phase = "AMEND" /\ s.runs < MaxRuns /\ s.cycles >= CapLimit
  /\ loop' = Paused(s, "cap")
  /\ UNCHANGED <<draft, processes, remote, looked>>

\* The charge and the intent are saved before the agent starts.
TickStarts(s) ==
  /\ Observes /\ s.phase \in {"REVIEW", "AMEND"} /\ s.runs < MaxRuns
  /\ s.phase = "AMEND" => s.cycles < CapLimit
  /\ loop' = [s EXCEPT !.runs = @ + 1, !.inflight = s.runs + 1,
                       !.cycles = IF s.phase = "AMEND" THEN @ + 1 ELSE @]
  /\ tick' = [at |-> IF s.phase = "AMEND" THEN "amending" ELSE "reviewing", cand |-> Now]
  /\ agents' = agents \cup {s.runs + 1} /\ started' = started + 1
  /\ UNCHANGED <<draft, drafter, remote, looked>>

Returned == loop.inflight \in agents /\ Now = tick.cand /\ host.pr = "open"
Verdict == {"APPROVE", "CHANGES_REQUESTED", "BLOCKED"}
NextPhase(verdict) == CASE verdict = "APPROVE" -> "WAIT_CI" [] verdict = "BLOCKED" -> "PAUSED" [] OTHER -> "AMEND"

\* validate_review: findings are kept until a critic resolves them, and an approval leaves
\* none that blocks.
ReviewReturns(verdict, F) ==
  /\ tick.at = "reviewing" /\ Returned /\ (verdict = "APPROVE" => F = {})
  /\ loop' = [loop EXCEPT !.open = F, !.last = [cand |-> tick.cand, verdict |-> verdict], !.inflight = 0,
                          !.phase = NextPhase(verdict), !.reason = "other",
                          !.waits = IF verdict = "APPROVE" THEN 0 ELSE @]
  /\ agents' = agents \ {loop.inflight} /\ tick' = FreeLock
  /\ UNCHANGED <<draft, drafter, started, remote, looked>>

\* The worker has returned; its commit is pushed over the candidate.
AmendPushes ==
  /\ tick.at = "amending" /\ Returned
  /\ flight' = flight \cup {[to |-> loop.inflight, over |-> tick.cand.head]}
  /\ agents' = agents \ {loop.inflight} /\ tick' = [tick EXCEPT !.at = "pushing"]
  /\ UNCHANGED <<store, drafter, started, posting, host, looked>>

\* An amendment of evidence alone gives its cycle back.
AmendReturns(evidence) ==
  /\ tick.at = "pushing" /\ Now = Cand(loop.inflight, tick.cand.base) /\ host.pr = "open"
  /\ loop' = [Again(loop) EXCEPT !.cand = Now, !.inflight = 0, !.reason = "other",
                                 !.cycles = IF evidence THEN @ - 1 ELSE @]
  /\ tick' = FreeLock
  /\ UNCHANGED <<draft, drafter, agents, started, remote, looked>>

\* The intent is kept; the agent may live on.
RunFails ==
  /\ ~Lock /\ loop' = Paused(loop, "other") /\ tick' = FreeLock /\ agents' \in SUBSET agents
  /\ UNCHANGED <<draft, drafter, started, remote, looked>>

TickDies ==
  /\ ~Lock /\ tick' = FreeLock /\ agents' \in SUBSET agents
  /\ UNCHANGED <<store, drafter, started, remote, looked>>

-----------------------------------------------------------------------------
(* The operator and the owner.                                             *)

Pause ==
  /\ Lock /\ loop.phase # "none" /\ (Reserved => ~draft.bound)
  /\ loop' = Paused(loop, "other")
  /\ UNCHANGED <<draft, processes, remote, looked>>

\* The snapshot of a resume is taken before its transaction.
Look ==
  /\ Enrolled /\ host.pr = "open" /\ looked' = Now
  /\ UNCHANGED <<store, processes, remote>>

Resumes == Enrolled /\ loop.phase = "PAUSED" /\ Reconciled /\ looked # NoCand /\ looked' = NoCand
AtCap == loop.cycles >= CapLimit
OnlyByDisposition == AtCap \/ loop.reason \in {"cap", "parked"}

Resume ==
  /\ Resumes /\ ~OnlyByDisposition
  /\ loop' = [Again(loop) EXCEPT !.cand = looked, !.inflight = 0, !.reason = "other"]
  /\ UNCHANGED <<draft, processes, remote>>

Disposes == Resumes /\ OnlyByDisposition

ExtendOneCycle ==
  /\ Disposes /\ loop.ext < MaxExtensions
  /\ loop' = [Again(loop) EXCEPT !.phase = "AMEND", !.cand = looked, !.inflight = 0, !.ext = @ + 1, !.reason = "other"]
  /\ UNCHANGED <<draft, processes, remote>>

\* Findings of a boundary cannot be carried.
MergeWithNotes ==
  /\ Disposes /\ loop.open \cap Boundary = {}
  /\ loop' = [loop EXCEPT !.phase = "WAIT_CI", !.cand = looked, !.inflight = 0, !.waits = 0,
                          !.notes = loop.open, !.reason = "other"]
  /\ UNCHANGED <<draft, processes, remote>>

Park ==
  /\ Disposes /\ loop' = Paused(loop, "parked")
  /\ UNCHANGED <<draft, processes, remote>>

Rescope ==
  /\ Disposes /\ loop' = [loop EXCEPT !.phase = "CLOSED", !.reason = "other"]
  /\ UNCHANGED <<draft, processes, remote>>

-----------------------------------------------------------------------------
(* The provider and what outlives a process.                               *)

\* A normal push: refused unless the branch is where the commit starts from.
PushEnds(p) ==
  /\ p \in flight /\ flight' = flight \ {p}
  /\ \/ host.head = p.over /\ host' = [host EXCEPT !.head = p.to]
     \/ host' = host
  /\ UNCHANGED <<store, processes, posting, looked>>

CreationEnds ==
  /\ posting /\ posting' = FALSE
  /\ \/ host.pr = "none" /\ host.head # 0 /\ host' = [host EXCEPT !.pr = "open"]
     \/ host' = host
  /\ UNCHANGED <<store, processes, flight, looked>>

HostMoves ==
  /\ \/ host.pr = "open" /\ host' \in {[host EXCEPT !.head = Foreign], [host EXCEPT !.pr = "closed"]}
     \/ host.base < MaxBase /\ host' = [host EXCEPT !.base = @ + 1]
  /\ UNCHANGED <<store, processes, flight, posting, looked>>

\* It ends by itself, or an operator stops it.
AgentEnds(r) ==
  /\ r \in agents /\ At("idle") /\ Lock /\ agents' = agents \ {r}
  /\ UNCHANGED <<store, drafter, tick, started, remote, looked>>

LoopNext ==
  \/ Reserve \/ RetryWithWorker \/ RetryPublication \/ RecordReceipt \/ RecordPublication \/ Push
  \/ ConfirmPublication \/ CreatePr \/ BindPr \/ EnrollDraft \/ DraftFails \/ DraftDies \/ ResumeDraft
  \/ \E known \in SUBSET Finding : EnrollExisting(known)
  \/ TickFindsInflight \/ TickCloses
  \/ \E s \in Seen : \/ TickFails(s) \/ CiPasses(s) \/ CiIsPending(s) \/ CiFails(s)
                     \/ TickReachesCap(s) \/ TickStarts(s)
  \/ \E verdict \in Verdict, F \in SUBSET Finding : ReviewReturns(verdict, F)
  \/ AmendPushes \/ \E evidence \in BOOLEAN : AmendReturns(evidence)
  \/ RunFails \/ TickDies
  \/ Pause \/ Look \/ Resume \/ ExtendOneCycle \/ MergeWithNotes \/ Park \/ Rescope
  \/ \E p \in flight : PushEnds(p)
  \/ CreationEnds \/ HostMoves
  \/ \E r \in agents : AgentEnds(r)

LoopSpec == LoopInit /\ [][LoopNext]_loopVars

-----------------------------------------------------------------------------
(* Properties.                                                             *)

Heads == 0..Foreign
Bases == 0..MaxBase
Runs == 0..MaxRuns
Candidates == [head : Heads, base : Bases]
Phases == {"none", "FIRST_DRAFT", "REVIEW", "AMEND", "WAIT_CI", "READY", "PAUSED", "CLOSED"}
Reviews == [cand : Candidates, verdict : {"none"} \cup Verdict]
Cycles == 0..(MaxCycles + MaxExtensions)
Extensions == 0..MaxExtensions
Waits == 0..(MaxWait + 1)
Reasons == {"cap", "parked", "other"}

LoopRecord ==
  [phase : Phases, cand : Candidates, cycles : Cycles, ext : Extensions, runs : Runs, inflight : Runs,
   last : Reviews, open : SUBSET Finding, notes : SUBSET Finding, waits : Waits, reason : Reasons]
DraftRecord ==
  [ready : BOOLEAN, receipt : Candidates, pub : Candidates, bound : BOOLEAN,
   status : {"none", "PREPARED", "RETRY_PUSH", "PUSHED"}]

DrafterRecord ==
  [at : {"idle", "working", "publishing", "prepared", "pushing", "pushed", "created", "bound"}, base : Bases]
TickRecord == [at : {"free", "reviewing", "amending", "pushing"}, cand : Candidates]
HostRecord == [head : Heads, base : Bases, pr : {"none", "open", "closed"}]
PushRecord == [to : 1..MaxRuns, over : Heads]

LoopTypeOK ==
  /\ loop \in LoopRecord /\ draft \in DraftRecord /\ drafter \in DrafterRecord /\ tick \in TickRecord
  /\ agents \subseteq 1..MaxRuns /\ started \in Nat /\ flight \subseteq PushRecord /\ posting \in BOOLEAN
  /\ host \in HostRecord /\ looked \in Candidates

\* Only an enrolled loop waits for CI, and only one that was stopped for it has waited for
\* longer than it may.
WaitsAreBounded ==
  /\ loop.waits # 0 => Enrolled
  /\ loop.waits > MaxWait => loop.phase \in {"PAUSED", "CLOSED"}

\* What the loop reports as ready for the final gate was reviewed as it stands: the last
\* review is of this very head and target, and every finding still open that blocks was
\* carried by an owner's disposition and is of no boundary, however ticks crashed, the
\* branch moved and the operator resumed with what he saw earlier.
ReadyIsReviewed ==
  loop.phase = "READY" =>
    /\ loop.last.cand = loop.cand
    /\ loop.open # {} => loop.open \subseteq loop.notes /\ loop.open \cap Boundary = {}

\* There is never more than one agent, also after a crash left one behind, and every
\* process that was started was charged to the budget before.
AgentsAreAccounted == Cardinality(agents) <= 1 /\ started <= loop.runs /\ loop.runs <= MaxRuns

\* As long as the first draft is not enrolled, what the provider shows of it is on record:
\* the branch holds the frozen publication and no other, and a pull request that exists
\* can be enrolled unless somebody else moved it.
PublishedIsRecorded ==
  Reserved => /\ host.head \in 1..MaxRuns => host.head = draft.pub.head
              /\ host.pr # "none" => draft.status = "PUSHED"
=============================================================================
