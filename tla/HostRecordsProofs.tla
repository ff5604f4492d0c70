-------------------------- MODULE HostRecordsProofs --------------------------
(***************************************************************************)
(* Theorems about what a host keeps while it publishes a candidate: the    *)
(* owner's publication and the review loop, for any sets of batches,       *)
(* streams, processes and findings and any limits.                         *)
(***************************************************************************)
EXTENDS MCHostRecords, FiniteSetTheorems, TLAPS

-----------------------------------------------------------------------------
(* The owner's publication.                                                *)

Unrequested == {"none", "WAITING_OWNER_PUSH", "PR_PENDING"}

\* Who is about to request a pull request is alone with it, and nothing of it was sent yet.
Requesting ==
  \A p \in Resumer : resumer[p].at = "requesting" =>
    /\ Open(handoff[resumer[p].op]) /\ requests[resumer[p].op] = 0
    /\ \A q \in Resumer : resumer[q].at = "requesting" /\ resumer[q].op = resumer[p].op => q = p

\* What is recorded of an operation, and what the provider has of it, was requested.
Requested ==
  \A o \in Operation :
    /\ requests[o] <= 1
    /\ handoff[o] \in Unrequested => requests[o] = 0
    /\ o \in creating \cup drafts => requests[o] = 1
    /\ handoff[o] = "PR_CREATED" => o \in drafts

\* The provider has one pull request per branch.
OneDraft == \A o, d \in drafts : o[2] = d[2] => o = d

HandoffInv == HandoffTypeOK /\ Requesting /\ Requested /\ OneDraft

LEMMA HandoffStarts == HandoffInit => HandoffInv
BY DEF HandoffInit, HandoffInv, HandoffTypeOK, Requesting, Requested, OneDraft, Operation, Waiting, NoBranch

\* The state of an operation and the process that works on it.
LEMMA HandoffTypes ==
  ASSUME HandoffTypeOK
  PROVE  /\ \A p \in Resumer : resumer[p].at \in {"requesting", "observing"} => resumer[p].op \in Operation
         /\ \A o \in Operation : o = <<o[1], o[2]>> /\ o[1] \in Batch /\ o[2] \in Stream
BY DEF HandoffTypeOK, Operation, Waiting

LEMMA HandoffKeepsTypes ==
  ASSUME HandoffTypeOK, [HandoffNext]_handoffVars
  PROVE  HandoffTypeOK'
<1> USE DEF HandoffTypeOK
<1>1. ASSUME NEW b \in Batch, Prepare(b) PROVE HandoffTypeOK'
  BY <1>1 DEF Prepare, provider
<1>2. ASSUME NEW b \in Batch, OwnerPushes(b) PROVE HandoffTypeOK'
  BY <1>2 DEF OwnerPushes
<1>3. ASSUME NEW p \in Resumer, NEW b \in Batch, RecordHeads(p, b) PROVE HandoffTypeOK'
  BY <1>3 DEF RecordHeads, Does, provider
<1>4. ASSUME NEW p \in Resumer, NEW o \in Operation, BeginPr(p, o) PROVE HandoffTypeOK'
  BY <1>4 DEF BeginPr, Does, provider
<1>5. ASSUME NEW p \in Resumer, CreateDraft(p) PROVE HandoffTypeOK'
  BY <1>5, HandoffTypes DEF CreateDraft, Does
<1>6. ASSUME NEW p \in Resumer, FinishPr(p) PROVE HandoffTypeOK'
  BY <1>6, HandoffTypes DEF FinishPr, Does, provider
<1>7. ASSUME NEW p \in Resumer, UncertainPr(p) PROVE HandoffTypeOK'
  BY <1>7, HandoffTypes DEF UncertainPr, Does, provider
<1>8. ASSUME NEW p \in Resumer, ResumerEnds(p) PROVE HandoffTypeOK'
  BY <1>8 DEF ResumerEnds, provider
<1>9. ASSUME NEW o \in creating, RequestEnds(o) PROVE HandoffTypeOK'
  BY <1>9 DEF RequestEnds
<1>10. CASE UNCHANGED handoffVars
  BY <1>10 DEF handoffVars
<1> QED
  BY <1>1, <1>2, <1>3, <1>4, <1>5, <1>6, <1>7, <1>8, <1>9, <1>10 DEF HandoffNext

LEMMA HandoffKeepsRequesting ==
  ASSUME HandoffInv, [HandoffNext]_handoffVars
  PROVE  Requesting'
<1> USE DEF HandoffInv, HandoffTypeOK, Requesting, Requested, Open, Unrequested
<1>1. ASSUME NEW b \in Batch, Prepare(b) PROVE Requesting'
  BY <1>1, HandoffTypes DEF Prepare, provider, OfBatch
<1>2. ASSUME NEW b \in Batch, OwnerPushes(b) PROVE Requesting'
  BY <1>2 DEF OwnerPushes
<1>3. ASSUME NEW p \in Resumer, NEW b \in Batch, RecordHeads(p, b) PROVE Requesting'
  BY <1>3, HandoffTypes DEF RecordHeads, Does, provider
<1>4. ASSUME NEW p \in Resumer, NEW o \in Operation, BeginPr(p, o) PROVE Requesting'
  BY <1>4, HandoffTypes DEF BeginPr, Does, provider, Requestable
<1>5. ASSUME NEW p \in Resumer, CreateDraft(p) PROVE Requesting'
  BY <1>5, HandoffTypes DEF CreateDraft, Does
<1>6. ASSUME NEW p \in Resumer, FinishPr(p) PROVE Requesting'
  BY <1>6, HandoffTypes DEF FinishPr, Does, provider
<1>7. ASSUME NEW p \in Resumer, UncertainPr(p) PROVE Requesting'
  BY <1>7, HandoffTypes DEF UncertainPr, Does, provider
<1>8. ASSUME NEW p \in Resumer, ResumerEnds(p) PROVE Requesting'
  BY <1>8 DEF ResumerEnds, provider, Waiting
<1>9. ASSUME NEW o \in creating, RequestEnds(o) PROVE Requesting'
  BY <1>9 DEF RequestEnds
<1>10. CASE UNCHANGED handoffVars
  BY <1>10 DEF handoffVars
<1> QED
  BY <1>1, <1>2, <1>3, <1>4, <1>5, <1>6, <1>7, <1>8, <1>9, <1>10 DEF HandoffNext

LEMMA HandoffKeepsRequested ==
  ASSUME HandoffInv, [HandoffNext]_handoffVars
  PROVE  Requested' /\ OneDraft'
<1> DEFINE Goal == Requested' /\ OneDraft'
<1> USE DEF HandoffInv, HandoffTypeOK, Requested, OneDraft, Unrequested
<1>1. ASSUME NEW b \in Batch, Prepare(b) PROVE Goal
  BY <1>1 DEF Prepare, provider, OfBatch
<1>2. ASSUME NEW b \in Batch, OwnerPushes(b) PROVE Goal
  BY <1>2 DEF OwnerPushes
<1>3. ASSUME NEW p \in Resumer, NEW b \in Batch, RecordHeads(p, b) PROVE Goal
  BY <1>3 DEF RecordHeads, Does, provider
<1>4. ASSUME NEW p \in Resumer, NEW o \in Operation, BeginPr(p, o) PROVE Goal
  BY <1>4 DEF BeginPr, Does, provider, Requestable
<1>5. ASSUME NEW p \in Resumer, CreateDraft(p) PROVE Goal
  BY <1>5, HandoffTypes DEF CreateDraft, Does, Requesting, Open
<1>6. ASSUME NEW p \in Resumer, FinishPr(p) PROVE Goal
  BY <1>6, HandoffTypes DEF FinishPr, Does, provider
<1>7. ASSUME NEW p \in Resumer, UncertainPr(p) PROVE Goal
  BY <1>7, HandoffTypes DEF UncertainPr, Does, provider
<1>8. ASSUME NEW p \in Resumer, ResumerEnds(p) PROVE Goal
  BY <1>8 DEF ResumerEnds, provider
<1>9. ASSUME NEW o \in creating, RequestEnds(o) PROVE Goal
  BY <1>9 DEF RequestEnds
<1>10. CASE UNCHANGED handoffVars
  BY <1>10 DEF handoffVars
<1> QED
  BY <1>1, <1>2, <1>3, <1>4, <1>5, <1>6, <1>7, <1>8, <1>9, <1>10 DEF HandoffNext

LEMMA HandoffStep == HandoffInv /\ [HandoffNext]_handoffVars => HandoffInv'
BY HandoffKeepsTypes, HandoffKeepsRequesting, HandoffKeepsRequested DEF HandoffInv

\* What the invariant says of an operation whose pull request is on record.
LEMMA HandoffSafe == HandoffInv => DraftRequestedOnce
BY HandoffTypes DEF HandoffInv, Requested, OneDraft, DraftRequestedOnce, HandoffTypeOK

\* However many processes resume however many batches, an operation's pull request is
\* requested at most once and recorded only when it exists.
THEOREM DraftRequestedOnceHolds == HandoffSpec => []DraftRequestedOnce
<1>1. HandoffSpec => []HandoffInv
  BY HandoffStarts, HandoffStep, PTL DEF HandoffSpec
<1> QED
  BY <1>1, HandoffSafe, PTL

-----------------------------------------------------------------------------
(* The review loop.                                                        *)

Written(c) == c = NoCand \/ c.head \in 1..MaxRuns

\* Before an enrollment or a reservation nothing has happened.
Untried ==
  loop.phase = "none" =>
    /\ loop.cand = NoCand /\ loop.runs = 0 /\ loop.inflight = 0 /\ started = 0 /\ agents = {}
    /\ At("idle") /\ Lock /\ flight = {} /\ ~posting /\ host.head \notin 1..MaxRuns
    /\ draft = [ready |-> FALSE, receipt |-> NoCand, pub |-> NoCand, status |-> "none", bound |-> FALSE]

\* The only agent is the one charged last, and a record without a run in flight has none.
Charged ==
  /\ agents \subseteq {loop.runs} /\ started <= loop.runs
  /\ loop.inflight = 0 => agents = {}

\* A first-draft process works on a reservation, alone; what it needs next is on record.
Drafting ==
  /\ Reserved => loop.inflight # 0
  /\ draft.ready => Reserved /\ agents = {} /\ draft.status # "PREPARED"
  /\ ~At("idle") => Reserved /\ ~draft.ready /\ (~At("working") => agents = {})
  /\ At("working") \/ At("publishing") => draft.pub = NoCand
  /\ At("publishing") => draft.receipt # NoCand
  /\ drafter.at \in {"prepared", "pushing", "pushed", "created", "bound"} => draft.pub # NoCand
  /\ drafter.at \in {"pushed", "created", "bound"} => draft.status = "PUSHED"

\* A tick works on the enrolled candidate, with the run that is in flight.
Ticking ==
  ~Lock => /\ Enrolled /\ At("idle") /\ tick.cand = loop.cand
           /\ loop.inflight = loop.runs /\ loop.runs # 0
           /\ loop.phase = (IF tick.at = "reviewing" THEN "REVIEW" ELSE "AMEND")
           /\ tick.at # "reviewing" => loop.cycles # 0
           /\ tick.at = "pushing" => agents = {}

\* Candidates are commits, and a pull request has one.
Commits ==
  /\ Written(draft.receipt) /\ Written(draft.pub) /\ (draft.status = "none" => draft.pub = NoCand)
  /\ Enrolled => loop.cand.head # 0
  /\ looked # NoCand => looked.head # 0
  /\ host.pr # "none" => host.head # 0

\* What can reach the provider from a reservation is the publication on record.
OnRecord ==
  Reserved =>
    /\ host.head \in 1..MaxRuns => host.head = draft.pub.head
    /\ \A p \in flight : p.to = draft.pub.head
    /\ posting \/ host.pr # "none" => draft.status = "PUSHED"
    /\ draft.status = "PUSHED" => host.head # 0
    /\ draft.pub = NoCand => flight = {} /\ draft.status = "none"

\* A candidate waits for CI only without findings that block, but for those its owner carries.
Carried ==
  /\ loop.phase \in {"WAIT_CI", "READY"} => loop.open \subseteq loop.notes /\ loop.open \cap Boundary = {}
  /\ loop.phase = "READY" => loop.last.cand = loop.cand

LoopInv == LoopTypeOK /\ WaitsAreBounded /\ Untried /\ Charged /\ Drafting /\ Ticking /\ Commits /\ OnRecord /\ Carried

\* The sets the records range over, by their members.
LEMMA LoopSets ==
  /\ "none" \in Phases /\ "FIRST_DRAFT" \in Phases /\ "REVIEW" \in Phases /\ "AMEND" \in Phases
  /\ "WAIT_CI" \in Phases /\ "READY" \in Phases /\ "PAUSED" \in Phases /\ "CLOSED" \in Phases
  /\ "cap" \in Reasons /\ "parked" \in Reasons /\ "other" \in Reasons
  /\ 0 \in Runs /\ 1 \in Runs /\ 0 \in Cycles /\ 0 \in Extensions /\ 0 \in Waits /\ 0 \in Heads /\ 0 \in Bases
  /\ \A n \in 1..MaxRuns : n \in Runs /\ n # 0
  /\ \A n \in Runs : n \in Nat /\ n \in Heads /\ (n # 0 => n \in 1..MaxRuns)
  /\ \A n \in Runs : n < MaxRuns => n + 1 \in Runs /\ n + 1 # 0
  /\ Foreign \in Heads /\ Foreign \notin 1..MaxRuns /\ Foreign # 0
  /\ Adopted \in Heads /\ Adopted \notin 1..MaxRuns /\ Adopted # 0
  /\ \A n \in Waits : n <= MaxWait => n + 1 \in Waits
  /\ \A n \in Bases : n < MaxBase => n + 1 \in Bases
  /\ \A n \in Extensions : n < MaxExtensions => n + 1 \in Extensions
  /\ \A n \in Cycles, e \in Extensions : n < MaxCycles + e => n + 1 \in Cycles
  /\ \A n \in Cycles : n + 1 # 0 /\ (n # 0 => n - 1 \in Cycles)
BY LoopAssumption DEF Phases, Reasons, Runs, Cycles, Extensions, Waits, Heads, Bases, Foreign, Adopted

\* A candidate is its head and its target.
LEMMA CandidateFacts ==
  /\ NoCand \in Candidates /\ NoCand.head = 0 /\ NoReview \in Reviews /\ NoReview.cand = NoCand
  /\ \A h \in Heads, b \in Bases : Cand(h, b) \in Candidates /\ Cand(h, b).head = h /\ Cand(h, b).base = b
  /\ \A c \in Candidates : c.head \in Heads /\ c.base \in Bases /\ c = Cand(c.head, c.base)
  /\ \A c \in Candidates, v \in Verdict : [cand |-> c, verdict |-> v] \in Reviews
BY LoopSets DEF Cand, NoCand, NoReview, Candidates, Reviews

\* Nothing has happened yet, but for a pull request that may exist already.
LEMMA LoopStarts == LoopInit => LoopInv
<1> USE LoopSets, CandidateFacts
<1>1. LoopInit => LoopTypeOK
  <2> SUFFICES ASSUME LoopInit PROVE LoopTypeOK
    OBVIOUS
  <2>1. loop \in LoopRecord /\ draft \in DraftRecord
    BY DEF LoopInit, LoopRecord, DraftRecord
  <2>2. drafter \in DrafterRecord /\ tick \in TickRecord
    BY DEF LoopInit, Idle, FreeLock, DrafterRecord, TickRecord
  <2>3. host \in HostRecord
    BY DEF LoopInit, HostRecord
  <2> QED
    BY <2>1, <2>2, <2>3 DEF LoopInit, LoopTypeOK
<1>2. LoopInit => WaitsAreBounded /\ Untried /\ Charged /\ Drafting /\ Ticking /\ Commits /\ OnRecord /\ Carried
  BY LoopAssumption DEF LoopInit, WaitsAreBounded, Untried, Charged, Drafting, Ticking, Commits, OnRecord, Carried, Written,
         Lock, Idle, At, Enrolled, Reserved
<1> QED BY <1>1, <1>2 DEF LoopInv

\* What the provider shows is a candidate.
LEMMA NowTyped == ASSUME LoopTypeOK PROVE Now \in Candidates /\ Now.head = host.head /\ Now.base = host.base
BY CandidateFacts DEF Now, LoopTypeOK, HostRecord

\* What the resume of a first draft makes of its status.
LEMMA InspectedIs ==
  \/ draft.pub = NoCand /\ Inspected = "none"
  \/ draft.pub # NoCand /\ host.head = 0 /\ Inspected = "RETRY_PUSH"
  \/ draft.pub # NoCand /\ host.head # 0 /\ Inspected = "PUSHED"
BY DEF Inspected

\* The two ways in which an action rewrites the record as a whole.
LEMMA PausedTyped ==
  ASSUME NEW r \in LoopRecord, NEW reason \in Reasons
  PROVE  /\ Paused(r, reason) \in LoopRecord /\ Paused(r, reason).phase = "PAUSED" /\ Paused(r, reason).cand = r.cand
         /\ Paused(r, reason).cycles = r.cycles /\ Paused(r, reason).ext = r.ext /\ Paused(r, reason).runs = r.runs
         /\ Paused(r, reason).inflight = r.inflight
BY LoopSets DEF LoopRecord, Paused

LEMMA AgainTyped ==
  ASSUME NEW r \in LoopRecord
  PROVE  /\ Again(r) \in LoopRecord /\ Again(r).phase = "REVIEW" /\ Again(r).cand = r.cand
         /\ Again(r).cycles = r.cycles /\ Again(r).ext = r.ext /\ Again(r).runs = r.runs
         /\ Again(r).inflight = r.inflight /\ Again(r).open = r.open /\ Again(r).notes = r.notes
         /\ Again(r).waits = 0
BY LoopSets, CandidateFacts DEF LoopRecord, Again

\* What a tick decides on: the record as it is, or one that is to be reviewed again.
LEMMA SeenKeeps ==
  ASSUME LoopTypeOK, WaitsAreBounded, Untried, Commits, Ticks, NEW s \in Seen
  PROVE  /\ s \in LoopRecord /\ s.waits <= MaxWait
         /\ s.cand.head = loop.cand.head /\ s.cand.head # 0 /\ s.cand # NoCand
         /\ s.cycles = loop.cycles /\ s.ext = loop.ext /\ s.runs = loop.runs /\ s.inflight = loop.inflight
         /\ s.open = loop.open /\ s.notes = loop.notes
         /\ s.phase = "REVIEW" \/ (s.phase = loop.phase /\ s.last = loop.last /\ s.cand = loop.cand)
         /\ s.phase \notin {"none", "PAUSED", "CLOSED"}
         /\ host.head = loop.cand.head => s.cand = Now
<1> DEFINE moved == [loop EXCEPT !.cand = Now]
<1>1. loop \in LoopRecord /\ loop.cand \in Candidates
  BY DEF LoopTypeOK, LoopRecord
<1>2. loop.cand # NoCand /\ loop.cand.head # 0 /\ loop.phase \notin {"none", "PAUSED", "CLOSED"}
  <2>1. loop.phase # "none"
    BY DEF Ticks, Untried, Enrolled
  <2> QED
    BY <2>1 DEF Commits, Ticks, Enrolled
<1>3. /\ moved \in LoopRecord /\ moved.cand = Now
      /\ moved.cycles = loop.cycles /\ moved.ext = loop.ext /\ moved.runs = loop.runs /\ moved.inflight = loop.inflight
      /\ moved.open = loop.open /\ moved.notes = loop.notes
  BY <1>1, NowTyped DEF LoopRecord
<1>4. CASE host.head = loop.cand.head /\ Now # loop.cand
  <2>1. Rebased = Again(moved)
    BY <1>4 DEF Rebased
  <2>2. Again(moved) \in LoopRecord
    BY <1>3, AgainTyped
  <2>3. s = Again(moved) \/ s = Again(Again(moved))
    BY <2>1 DEF Seen
  <2> DEFINE same(r) == /\ r.cycles = loop.cycles /\ r.ext = loop.ext /\ r.runs = loop.runs /\ r.inflight = loop.inflight
                        /\ r.open = loop.open /\ r.notes = loop.notes /\ r.cand = Now /\ r.waits = 0
  <2> HIDE DEF moved
  <2>4. same(Again(moved)) /\ same(Again(Again(moved)))
    BY <1>3, <2>2, AgainTyped
  <2>5. s \in LoopRecord /\ s.phase = "REVIEW" /\ same(s)
    BY <1>3, <2>2, <2>3, <2>4, AgainTyped
  <2>6. Now.head = loop.cand.head /\ Now.head # 0 /\ Now # NoCand
    BY <1>2, <1>4, NowTyped, CandidateFacts
  <2> QED
    BY <2>5, <2>6, LoopAssumption
<1>5. CASE ~(host.head = loop.cand.head /\ Now # loop.cand)
  <2>1. Rebased = loop
    BY <1>5 DEF Rebased
  <2>2. s = loop \/ s = Again(loop)
    BY <2>1 DEF Seen
  <2>3. loop.waits <= MaxWait
    BY <1>2, LoopAssumption DEF WaitsAreBounded, LoopTypeOK, LoopRecord, Waits
  <2> QED
    BY <1>1, <1>2, <1>5, <2>2, <2>3, AgainTyped, LoopAssumption
<1> QED
  BY <1>4, <1>5

\* Every action keeps the types.
LEMMA LoopKeepsTypes ==
  ASSUME LoopInv, [LoopNext]_loopVars
  PROVE  LoopTypeOK'
<1> USE LoopSets, CandidateFacts DEF LoopInv
<1>1. ASSUME Reserve PROVE LoopTypeOK'
  <2>1. loop' \in LoopRecord /\ drafter' \in DrafterRecord
    BY <1>1 DEF Reserve, LoopTypeOK, LoopRecord, DrafterRecord, HostRecord
  <2> QED
    BY <1>1, <2>1 DEF Reserve, LoopTypeOK, store, processes, remote
<1>2. ASSUME RetryWithWorker PROVE LoopTypeOK'
  <2>1. loop.runs \in Runs /\ loop.runs + 1 \in 1..MaxRuns
    BY <1>2 DEF RetryWithWorker, LoopTypeOK, LoopRecord
  <2>2. loop' \in LoopRecord
    BY <1>2, <2>1 DEF RetryWithWorker, LoopTypeOK, LoopRecord
  <2>3. draft' \in DraftRecord /\ drafter' \in DrafterRecord
    BY <1>2 DEF RetryWithWorker, LoopTypeOK, DraftRecord, DrafterRecord, HostRecord
  <2>4. agents' \subseteq 1..MaxRuns /\ started' \in Nat
    BY <1>2, <2>1 DEF RetryWithWorker, LoopTypeOK
  <2> QED
    BY <1>2, <2>1, <2>2, <2>3, <2>4 DEF RetryWithWorker, LoopTypeOK, store, processes, remote
<1>3. ASSUME RetryPublication PROVE LoopTypeOK'
  <2>1. draft' \in DraftRecord
    BY <1>3 DEF RetryPublication, LoopTypeOK, DraftRecord
  <2>2. host.base \in Bases
    BY DEF LoopTypeOK, HostRecord
  <2>3. \A at \in {"publishing", "prepared", "pushed"} : [base |-> host.base, at |-> at] \in DrafterRecord
    BY <2>2 DEF DrafterRecord
  <2>4. (IF draft.pub = NoCand THEN "publishing" ELSE IF draft.status = "RETRY_PUSH" THEN "prepared" ELSE "pushed") \in {"publishing", "prepared", "pushed"}
    OBVIOUS
  <2>5. drafter' \in DrafterRecord
    BY <1>3, <2>3, <2>4 DEF RetryPublication
  <2> QED
    BY <1>3, <2>1, <2>2, <2>3, <2>4, <2>5 DEF RetryPublication, LoopTypeOK, store, processes, remote
<1>4. ASSUME RecordReceipt PROVE LoopTypeOK'
  BY <1>4 DEF RecordReceipt, LoopTypeOK, store, processes, remote, DraftRecord, DrafterRecord, Goes
<1>5. ASSUME RecordPublication PROVE LoopTypeOK'
  BY <1>5 DEF RecordPublication, LoopTypeOK, store, processes, remote, DraftRecord, DrafterRecord, Goes
<1>6. ASSUME Push PROVE LoopTypeOK'
  BY <1>6 DEF Push, LoopTypeOK, store, processes, remote, DrafterRecord, DraftRecord, PushRecord, Goes, Drafting, Commits, Written, At
<1>7. ASSUME ConfirmPublication PROVE LoopTypeOK'
  BY <1>7 DEF ConfirmPublication, LoopTypeOK, store, processes, remote, DraftRecord, DrafterRecord, Goes
<1>8. ASSUME CreatePr PROVE LoopTypeOK'
  BY <1>8 DEF CreatePr, LoopTypeOK, store, processes, remote, DrafterRecord, Goes
<1>9. ASSUME BindPr PROVE LoopTypeOK'
  BY <1>9 DEF BindPr, LoopTypeOK, store, processes, remote, DraftRecord, DrafterRecord, Goes
<1>10. ASSUME EnrollDraft PROVE LoopTypeOK'
  BY <1>10 DEF EnrollDraft, Completes, LoopTypeOK, store, processes, remote, LoopRecord, DraftRecord, DrafterRecord, Idle
<1>11. ASSUME DraftFails PROVE LoopTypeOK'
  <2>1. loop' \in LoopRecord
    BY <1>11, PausedTyped DEF DraftFails, LoopTypeOK, store
  <2>2. [draft EXCEPT !.ready = FALSE] \in DraftRecord
    BY DEF LoopTypeOK, DraftRecord
  <2>3. draft' \in DraftRecord
    BY <1>11, <2>2 DEF DraftFails, LoopTypeOK, store
  <2>4. drafter' \in DrafterRecord
    BY <1>11 DEF DraftFails, DrafterRecord, Idle
  <2> QED
    BY <1>11, <2>1, <2>2, <2>3, <2>4 DEF DraftFails, LoopTypeOK, store, processes, remote
<1>12. ASSUME DraftDies PROVE LoopTypeOK'
  BY <1>12 DEF DraftDies, LoopTypeOK, store, processes, remote, DrafterRecord, Idle
<1>13. ASSUME ResumeDraft PROVE LoopTypeOK'
  <2>1. loop \in LoopRecord /\ Now \in Candidates
    BY NowTyped DEF LoopTypeOK
  <2>2. [loop EXCEPT !.phase = "REVIEW", !.cand = Now, !.inflight = 0, !.reason = "other"] \in LoopRecord
    BY <2>1 DEF LoopRecord
  <2>3. [loop EXCEPT !.phase = "FIRST_DRAFT", !.reason = "other"] \in LoopRecord
    BY <2>1 DEF LoopRecord
  <2>4. loop' \in LoopRecord
    BY <1>13, <2>1, <2>2, <2>3 DEF ResumeDraft, Completes
  <2>5. [draft EXCEPT !.ready = FALSE, !.bound = TRUE] \in DraftRecord /\ [draft EXCEPT !.bound = TRUE] \in DraftRecord
    BY DEF LoopTypeOK, DraftRecord
  <2>6. Inspected \in {"none", "RETRY_PUSH", "PUSHED"}
    BY DEF Inspected
  <2>7. [draft EXCEPT !.ready = TRUE, !.status = Inspected] \in DraftRecord
    BY <2>6 DEF LoopTypeOK, DraftRecord
  <2>8. draft' \in DraftRecord
    BY <1>13, <2>5, <2>7 DEF ResumeDraft
  <2> QED
    BY <1>13, <2>4, <2>8 DEF ResumeDraft, LoopTypeOK, store, processes, remote
<1>14. ASSUME NEW known \in SUBSET Finding, EnrollExisting(known) PROVE LoopTypeOK'
  BY <1>14, NowTyped DEF EnrollExisting, LoopTypeOK, store, processes, remote, LoopRecord
<1>15. ASSUME TickFindsInflight PROVE LoopTypeOK'
  BY <1>15 DEF TickFindsInflight, Paused, LoopTypeOK, store, processes, remote, LoopRecord
<1>16. ASSUME TickCloses PROVE LoopTypeOK'
  BY <1>16 DEF TickCloses, Ticks, Untouched, LoopTypeOK, store, processes, remote, LoopRecord
<1>17. ASSUME NEW s \in Seen, TickFails(s) PROVE LoopTypeOK'
  <2>1. s \in LoopRecord /\ s.phase \notin {"none", "PAUSED", "CLOSED"} /\ Now \in Candidates
    BY <1>17, SeenKeeps, NowTyped DEF TickFails
  <2>2. loop' \in LoopRecord
    BY <1>17, <2>1, PausedTyped DEF TickFails, LoopTypeOK
  <2> QED
    BY <1>17, <2>1, <2>2 DEF TickFails, LoopTypeOK, store, processes, remote
<1>18. ASSUME NEW s \in Seen, CiPasses(s) PROVE LoopTypeOK'
  <2>1. s \in LoopRecord /\ s.phase \notin {"none", "PAUSED", "CLOSED"} /\ Now \in Candidates
    BY <1>18, SeenKeeps, NowTyped DEF CiPasses, Observes
  <2>2. loop' \in LoopRecord
    BY <1>18, <2>1 DEF CiPasses, LoopRecord
  <2> QED
    BY <1>18, <2>1, <2>2 DEF CiPasses, LoopTypeOK, store, processes, remote
<1>19. ASSUME NEW s \in Seen, CiIsPending(s) PROVE LoopTypeOK'
  <2>1. s \in LoopRecord /\ s.phase \notin {"none", "PAUSED", "CLOSED"} /\ Now \in Candidates
    BY <1>19, SeenKeeps, NowTyped DEF CiIsPending, Observes
  <2>2. [s EXCEPT !.waits = @ + 1] \in LoopRecord
    BY <1>19, <2>1, SeenKeeps DEF LoopRecord, CiIsPending, Observes
  <2>3. Waited(s) \in LoopRecord
    BY <2>2, PausedTyped DEF Waited
  <2>4. [s EXCEPT !.phase = "WAIT_CI", !.waits = 0] \in LoopRecord
    BY <2>1 DEF LoopRecord
  <2> QED
    BY <1>19, <2>1, <2>3, <2>4 DEF CiIsPending, LoopTypeOK, store, processes, remote
<1>20. ASSUME NEW s \in Seen, CiFails(s) PROVE LoopTypeOK'
  <2>1. s \in LoopRecord /\ s.phase \notin {"none", "PAUSED", "CLOSED"} /\ Now \in Candidates
    BY <1>20, SeenKeeps, NowTyped DEF CiFails, Observes
  <2>2. CiFinding \in Finding
    BY LoopAssumption
  <2>3. s.open \cup {CiFinding} \in SUBSET Finding
    BY <2>1, <2>2 DEF LoopRecord
  <2>4. [s EXCEPT !.phase = "AMEND", !.open = @ \cup {CiFinding}, !.last = NoReview, !.reason = "other"] \in LoopRecord
    BY <2>1, <2>3 DEF LoopRecord
  <2>5. [s EXCEPT !.phase = "WAIT_CI", !.waits = 0] \in LoopRecord
    BY <2>1 DEF LoopRecord
  <2> QED
    BY <1>20, <2>1, <2>2, <2>3, <2>4, <2>5 DEF CiFails, LoopTypeOK, store, processes, remote
<1>21. ASSUME NEW s \in Seen, TickReachesCap(s) PROVE LoopTypeOK'
  <2>1. s \in LoopRecord /\ s.phase \notin {"none", "PAUSED", "CLOSED"} /\ Now \in Candidates
    BY <1>21, SeenKeeps, NowTyped DEF TickReachesCap, Observes
  <2>2. loop' \in LoopRecord
    BY <1>21, <2>1, PausedTyped DEF TickReachesCap
  <2> QED
    BY <1>21, <2>1, <2>2 DEF TickReachesCap, LoopTypeOK, store, processes, remote
<1>22. ASSUME NEW s \in Seen, TickStarts(s) PROVE LoopTypeOK'
  <2>1. s \in LoopRecord /\ s.phase \notin {"none", "PAUSED", "CLOSED"} /\ Now \in Candidates
    BY <1>22, SeenKeeps, NowTyped DEF TickStarts, Observes
  <2>2. s.runs \in Runs /\ s.cycles \in Cycles /\ s.ext \in Extensions /\ s.ext = loop.ext
    BY <1>22, <2>1, SeenKeeps DEF TickStarts, Observes, LoopRecord
  <2>3. s.phase = "AMEND" => s.cycles + 1 \in Cycles
    BY <1>22, <2>2 DEF TickStarts, CapLimit
  <2>4. s.runs + 1 \in Runs /\ s.runs + 1 \in 1..MaxRuns
    BY <1>22, <2>2 DEF TickStarts
  <2>5. loop' \in LoopRecord
    BY <1>22, <2>1, <2>3, <2>4 DEF TickStarts, LoopRecord
  <2>6. tick' \in TickRecord
    BY <1>22, <2>1 DEF TickStarts, TickRecord
  <2> QED
    BY <1>22, <2>1, <2>2, <2>3, <2>4, <2>5, <2>6 DEF TickStarts, LoopTypeOK, store, processes, remote
<1>23. ASSUME NEW verdict \in Verdict, NEW F \in SUBSET Finding, ReviewReturns(verdict, F) PROVE LoopTypeOK'
  BY <1>23 DEF ReviewReturns, Returned, NextPhase, LoopTypeOK, store, processes, remote, LoopRecord, TickRecord, FreeLock
<1>24. ASSUME AmendPushes PROVE LoopTypeOK'
  BY <1>24 DEF AmendPushes, Returned, LoopTypeOK, store, processes, remote, TickRecord, PushRecord, LoopRecord
<1>25. ASSUME NEW evidence \in BOOLEAN, AmendReturns(evidence) PROVE LoopTypeOK'
  <2>1. tick' \in TickRecord
    BY <1>25 DEF AmendReturns, FreeLock, TickRecord
  <2>2. Again(loop) \in LoopRecord /\ Again(loop).cycles = loop.cycles /\ Now \in Candidates
    BY AgainTyped, NowTyped DEF LoopTypeOK
  <2>3. loop.cycles # 0
    BY <1>25 DEF AmendReturns, Ticking, Lock, FreeLock
  <2>4. loop' \in LoopRecord
    BY <1>25, <2>2, <2>3 DEF AmendReturns, LoopRecord
  <2> QED
    BY <1>25, <2>1, <2>2, <2>3, <2>4 DEF AmendReturns, LoopTypeOK, store, processes, remote
<1>26. ASSUME RunFails PROVE LoopTypeOK'
  BY <1>26 DEF RunFails, Paused, LoopTypeOK, store, processes, remote, LoopRecord, TickRecord, FreeLock
<1>27. ASSUME TickDies PROVE LoopTypeOK'
  BY <1>27 DEF TickDies, LoopTypeOK, store, processes, remote, TickRecord, FreeLock
<1>28. ASSUME Pause PROVE LoopTypeOK'
  BY <1>28 DEF Pause, Paused, LoopTypeOK, store, processes, remote, LoopRecord
<1>29. ASSUME Look PROVE LoopTypeOK'
  BY <1>29, NowTyped DEF Look, LoopTypeOK, store, processes, remote
<1>30. ASSUME Resume PROVE LoopTypeOK'
  BY <1>30 DEF Resume, Resumes, Reconciled, Again, LoopTypeOK, store, processes, remote, LoopRecord
<1>31. ASSUME ExtendOneCycle PROVE LoopTypeOK'
  BY <1>31 DEF ExtendOneCycle, Disposes, Resumes, Reconciled, Again, LoopTypeOK, store, processes, remote, LoopRecord
<1>32. ASSUME MergeWithNotes PROVE LoopTypeOK'
  BY <1>32 DEF MergeWithNotes, Disposes, Resumes, Reconciled, LoopTypeOK, store, processes, remote, LoopRecord
<1>33. ASSUME Park PROVE LoopTypeOK'
  BY <1>33 DEF Park, Disposes, Resumes, Reconciled, Paused, LoopTypeOK, store, processes, remote, LoopRecord
<1>34. ASSUME Rescope PROVE LoopTypeOK'
  BY <1>34 DEF Rescope, Disposes, Resumes, Reconciled, LoopTypeOK, store, processes, remote, LoopRecord
<1>35. ASSUME NEW p \in flight, PushEnds(p) PROVE LoopTypeOK'
  <2>1. host' \in HostRecord
    BY <1>35 DEF PushEnds, LoopTypeOK, HostRecord, PushRecord
  <2> QED
    BY <1>35, <2>1 DEF PushEnds, LoopTypeOK, store, processes, remote
<1>36. ASSUME CreationEnds PROVE LoopTypeOK'
  <2>1. host' \in HostRecord
    BY <1>36 DEF CreationEnds, LoopTypeOK, HostRecord
  <2> QED
    BY <1>36, <2>1 DEF CreationEnds, LoopTypeOK, store, processes, remote
<1>37. ASSUME HostMoves PROVE LoopTypeOK'
  <2>1. host' \in HostRecord
    BY <1>37 DEF HostMoves, LoopTypeOK, HostRecord
  <2> QED
    BY <1>37, <2>1 DEF HostMoves, LoopTypeOK, store, processes, remote
<1>38. ASSUME NEW r \in agents, AgentEnds(r) PROVE LoopTypeOK'
  BY <1>38 DEF AgentEnds, LoopTypeOK, store, processes, remote
<1>39. CASE UNCHANGED loopVars
  BY <1>39 DEF loopVars, LoopTypeOK
<1> HIDE DEF LoopInv
<1> QED
  BY <1>1, <1>2, <1>3, <1>4, <1>5, <1>6, <1>7, <1>8, <1>9, <1>10, <1>11, <1>12, <1>13, <1>14,
     <1>15, <1>16, <1>17, <1>18, <1>19, <1>20, <1>21, <1>22, <1>23, <1>24, <1>25, <1>26, <1>27,
     <1>28, <1>29, <1>30, <1>31, <1>32, <1>33, <1>34, <1>35, <1>36, <1>37, <1>38, <1>39
     DEF LoopNext

\* An action that starts anything leaves the phase it starts from.
LEMMA LoopKeepsUntried ==
  ASSUME LoopInv, [LoopNext]_loopVars
  PROVE  Untried'
<1> USE LoopSets, CandidateFacts DEF LoopInv, LoopTypeOK, Untried, Drafting, Ticking, Commits, LoopRecord, DraftRecord,
          DrafterRecord, TickRecord, HostRecord, PushRecord,
          Now, Lock, FreeLock, Idle, At, Goes, Enrolled, Reserved, store, processes, remote
<1>1. ASSUME Reserve PROVE Untried'
  BY <1>1 DEF Reserve
<1>2. ASSUME RetryWithWorker PROVE Untried'
  BY <1>2 DEF RetryWithWorker, Replay
<1>3. ASSUME RetryPublication PROVE Untried'
  BY <1>3 DEF RetryPublication, Replay
<1>4. ASSUME RecordReceipt PROVE Untried'
  BY <1>4 DEF RecordReceipt
<1>5. ASSUME RecordPublication PROVE Untried'
  BY <1>5 DEF RecordPublication
<1>6. ASSUME Push PROVE Untried'
  BY <1>6 DEF Push
<1>7. ASSUME ConfirmPublication PROVE Untried'
  BY <1>7 DEF ConfirmPublication
<1>8. ASSUME CreatePr PROVE Untried'
  BY <1>8 DEF CreatePr
<1>9. ASSUME BindPr PROVE Untried'
  BY <1>9 DEF BindPr
<1>10. ASSUME EnrollDraft PROVE Untried'
  BY <1>10 DEF EnrollDraft, Completes
<1>11. ASSUME DraftFails PROVE Untried'
  <2>1. ~At("idle") /\ drafter' = Idle /\ agents' \subseteq agents /\ UNCHANGED <<tick, started, remote, looked>>
    BY <1>11 DEF DraftFails
  <2>2. CASE loop.phase = "FIRST_DRAFT" /\ loop' = Paused(loop, "other") /\ draft' = [draft EXCEPT !.ready = FALSE]
    BY <2>1, <2>2 DEF Paused
  <2>3. CASE UNCHANGED store
    BY <2>1, <2>3
  <2> QED
    BY <1>11, <2>2, <2>3 DEF DraftFails
<1>12. ASSUME DraftDies PROVE Untried'
  BY <1>12 DEF DraftDies
<1>13. ASSUME ResumeDraft PROVE Untried'
  <2>1. CASE host.pr # "none" /\ Completes /\ draft' = [draft EXCEPT !.ready = FALSE, !.bound = TRUE]
    BY <1>13, <2>1 DEF ResumeDraft, Completes, Reconciled
  <2>2. CASE host.pr # "none" /\ Now = draft.pub /\ draft' = [draft EXCEPT !.bound = TRUE] /\ loop' = loop
    BY <1>13, <2>2 DEF ResumeDraft, Completes, Reconciled
  <2>3. CASE /\ host.pr = "none" /\ (draft.pub # NoCand => host.head \in {0, draft.pub.head})
            /\ loop' = [loop EXCEPT !.phase = "FIRST_DRAFT", !.reason = "other"]
            /\ draft' = [draft EXCEPT !.ready = TRUE, !.status = Inspected]
    BY <1>13, <2>3 DEF ResumeDraft, Inspected, Completes, Reconciled
  <2> QED
    BY <1>13, <2>1, <2>2, <2>3 DEF ResumeDraft
<1>14. ASSUME NEW known \in SUBSET Finding, EnrollExisting(known) PROVE Untried'
  BY <1>14 DEF EnrollExisting
<1>15. ASSUME TickFindsInflight PROVE Untried'
  BY <1>15 DEF TickFindsInflight, Paused
<1>16. ASSUME TickCloses PROVE Untried'
  BY <1>16 DEF TickCloses, Ticks, Untouched
<1>17. ASSUME NEW s \in Seen, TickFails(s) PROVE Untried'
  <2>1. CASE loop' = Paused(loop, "other")
    BY <1>17, <2>1 DEF TickFails, Ticks, Untouched, Paused
  <2>2. CASE loop' = Paused(s, "other")
    BY <1>17, <2>2, SeenKeeps DEF TickFails, Ticks, Untouched, Paused
  <2> QED
    BY <1>17, <2>1, <2>2 DEF TickFails
<1>18. ASSUME NEW s \in Seen, CiPasses(s) PROVE Untried'
  BY <1>18, SeenKeeps DEF CiPasses, Observes, Ticks, Untouched, Reviewed
<1>19. ASSUME NEW s \in Seen, CiIsPending(s) PROVE Untried'
  <2>1. CASE s.phase = "WAIT_CI" /\ loop' = [s EXCEPT !.waits = @ + 1]
    BY <1>19, <2>1, SeenKeeps DEF CiIsPending, Observes, Ticks
  <2>2. CASE s.phase = "WAIT_CI" /\ loop' = Paused([s EXCEPT !.waits = @ + 1], "other")
    BY <1>19, <2>2, SeenKeeps DEF CiIsPending, Observes, Ticks, Untouched, Paused
  <2>3. CASE s.phase = "READY" /\ loop' = [s EXCEPT !.phase = "WAIT_CI", !.waits = 0]
    BY <1>19, <2>3, SeenKeeps DEF CiIsPending, Observes, Ticks
  <2> QED
    BY <1>19, <2>1, <2>2, <2>3 DEF CiIsPending, Waited
<1>20. ASSUME NEW s \in Seen, CiFails(s) PROVE Untried'
  <2>1. CASE s.phase = "WAIT_CI" /\ loop' = [s EXCEPT !.phase = "AMEND", !.open = @ \cup {CiFinding}, !.last = NoReview, !.reason = "other"]
    BY <1>20, <2>1, SeenKeeps DEF CiFails, Observes, Ticks
  <2>2. CASE s.phase = "READY" /\ loop' = [s EXCEPT !.phase = "WAIT_CI", !.waits = 0]
    BY <1>20, <2>2, SeenKeeps DEF CiFails, Observes, Ticks
  <2> QED
    BY <1>20, <2>1, <2>2 DEF CiFails
<1>21. ASSUME NEW s \in Seen, TickReachesCap(s) PROVE Untried'
  BY <1>21, SeenKeeps DEF TickReachesCap, Observes, Ticks, Untouched, Paused
<1>22. ASSUME NEW s \in Seen, TickStarts(s) PROVE Untried'
  <2>1. /\ Observes /\ Ticks /\ s.runs < MaxRuns
        /\ tick' = [at |-> IF s.phase = "AMEND" THEN "amending" ELSE "reviewing", cand |-> Now]
        /\ agents' = agents \cup {s.runs + 1} /\ started' = started + 1
        /\ UNCHANGED <<draft, drafter, remote, looked>>
    BY <1>22 DEF TickStarts, Observes
  <2>2. CASE s.phase = "AMEND" /\ loop' = [s EXCEPT !.runs = @ + 1, !.inflight = s.runs + 1, !.cycles = @ + 1]
    BY <2>1, <2>2, SeenKeeps DEF Observes, Ticks, Untouched
  <2>3. CASE s.phase = "REVIEW" /\ loop' = [s EXCEPT !.runs = @ + 1, !.inflight = s.runs + 1, !.cycles = @]
    BY <2>1, <2>3, SeenKeeps DEF Observes, Ticks, Untouched
  <2> QED
    BY <1>22, <2>2, <2>3 DEF TickStarts
<1>23. ASSUME NEW verdict \in Verdict, NEW F \in SUBSET Finding, ReviewReturns(verdict, F) PROVE Untried'
  BY <1>23 DEF ReviewReturns, Returned, NextPhase
<1>24. ASSUME AmendPushes PROVE Untried'
  BY <1>24 DEF AmendPushes, Returned
<1>25. ASSUME NEW evidence \in BOOLEAN, AmendReturns(evidence) PROVE Untried'
  BY <1>25 DEF AmendReturns, Again
<1>26. ASSUME RunFails PROVE Untried'
  BY <1>26 DEF RunFails, Paused
<1>27. ASSUME TickDies PROVE Untried'
  BY <1>27 DEF TickDies
<1>28. ASSUME Pause PROVE Untried'
  BY <1>28 DEF Pause, Paused
<1>29. ASSUME Look PROVE Untried'
  BY <1>29 DEF Look
<1>30. ASSUME Resume PROVE Untried'
  BY <1>30 DEF Resume, Resumes, Reconciled, Again
<1>31. ASSUME ExtendOneCycle PROVE Untried'
  BY <1>31 DEF ExtendOneCycle, Disposes, Resumes, Reconciled, Again
<1>32. ASSUME MergeWithNotes PROVE Untried'
  BY <1>32 DEF MergeWithNotes, Disposes, Resumes, Reconciled
<1>33. ASSUME Park PROVE Untried'
  BY <1>33 DEF Park, Disposes, Resumes, Reconciled, Paused
<1>34. ASSUME Rescope PROVE Untried'
  BY <1>34 DEF Rescope, Disposes, Resumes, Reconciled
<1>35. ASSUME NEW p \in flight, PushEnds(p) PROVE Untried'
  BY <1>35 DEF PushEnds
<1>36. ASSUME CreationEnds PROVE Untried'
  BY <1>36 DEF CreationEnds
<1>37. ASSUME HostMoves PROVE Untried'
  BY <1>37 DEF HostMoves
<1>38. ASSUME NEW r \in agents, AgentEnds(r) PROVE Untried'
  BY <1>38 DEF AgentEnds
<1>39. CASE UNCHANGED loopVars
  BY <1>39 DEF loopVars
<1> HIDE DEF LoopInv, LoopTypeOK, Untried, Drafting, Ticking, Commits, LoopRecord, DraftRecord,
          DrafterRecord, TickRecord, HostRecord, PushRecord,
          Now, Lock, FreeLock, Idle, At, Goes, Enrolled, Reserved, store, processes, remote
<1> QED
  BY <1>1, <1>2, <1>3, <1>4, <1>5, <1>6, <1>7, <1>8, <1>9, <1>10, <1>11, <1>12, <1>13, <1>14,
     <1>15, <1>16, <1>17, <1>18, <1>19, <1>20, <1>21, <1>22, <1>23, <1>24, <1>25, <1>26, <1>27,
     <1>28, <1>29, <1>30, <1>31, <1>32, <1>33, <1>34, <1>35, <1>36, <1>37, <1>38, <1>39
     DEF LoopNext

\* An agent is started for a run that was just charged, when no other is alive.
LEMMA LoopKeepsCharged ==
  ASSUME LoopInv, [LoopNext]_loopVars
  PROVE  Charged'
<1> USE LoopSets, CandidateFacts DEF LoopInv, LoopTypeOK, Untried, Charged, Drafting, Ticking, LoopRecord, DraftRecord,
          DrafterRecord, TickRecord, HostRecord, PushRecord,
          Now, Lock, FreeLock, Idle, At, Goes, Enrolled, Reserved, store, processes, remote
<1>1. ASSUME Reserve PROVE Charged'
  BY <1>1 DEF Reserve
<1>2. ASSUME RetryWithWorker PROVE Charged'
  BY <1>2 DEF RetryWithWorker, Replay
<1>3. ASSUME RetryPublication PROVE Charged'
  BY <1>3 DEF RetryPublication, Replay
<1>4. ASSUME RecordReceipt PROVE Charged'
  BY <1>4 DEF RecordReceipt
<1>5. ASSUME RecordPublication PROVE Charged'
  BY <1>5 DEF RecordPublication
<1>6. ASSUME Push PROVE Charged'
  BY <1>6 DEF Push
<1>7. ASSUME ConfirmPublication PROVE Charged'
  BY <1>7 DEF ConfirmPublication
<1>8. ASSUME CreatePr PROVE Charged'
  BY <1>8 DEF CreatePr
<1>9. ASSUME BindPr PROVE Charged'
  BY <1>9 DEF BindPr
<1>10. ASSUME EnrollDraft PROVE Charged'
  BY <1>10 DEF EnrollDraft, Completes
<1>11. ASSUME DraftFails PROVE Charged'
  <2>1. ~At("idle") /\ drafter' = Idle /\ agents' \subseteq agents /\ UNCHANGED <<tick, started, remote, looked>>
    BY <1>11 DEF DraftFails
  <2>2. CASE loop.phase = "FIRST_DRAFT" /\ loop' = Paused(loop, "other") /\ draft' = [draft EXCEPT !.ready = FALSE]
    BY <2>1, <2>2 DEF Paused
  <2>3. CASE UNCHANGED store
    BY <2>1, <2>3
  <2> QED
    BY <1>11, <2>2, <2>3 DEF DraftFails
<1>12. ASSUME DraftDies PROVE Charged'
  BY <1>12 DEF DraftDies
<1>13. ASSUME ResumeDraft PROVE Charged'
  <2>1. CASE host.pr # "none" /\ Completes /\ draft' = [draft EXCEPT !.ready = FALSE, !.bound = TRUE]
    BY <1>13, <2>1 DEF ResumeDraft, Completes, Reconciled
  <2>2. CASE host.pr # "none" /\ Now = draft.pub /\ draft' = [draft EXCEPT !.bound = TRUE] /\ loop' = loop
    BY <1>13, <2>2 DEF ResumeDraft, Completes, Reconciled
  <2>3. CASE /\ host.pr = "none" /\ (draft.pub # NoCand => host.head \in {0, draft.pub.head})
            /\ loop' = [loop EXCEPT !.phase = "FIRST_DRAFT", !.reason = "other"]
            /\ draft' = [draft EXCEPT !.ready = TRUE, !.status = Inspected]
    BY <1>13, <2>3 DEF ResumeDraft, Inspected, Completes, Reconciled
  <2> QED
    BY <1>13, <2>1, <2>2, <2>3 DEF ResumeDraft
<1>14. ASSUME NEW known \in SUBSET Finding, EnrollExisting(known) PROVE Charged'
  BY <1>14 DEF EnrollExisting
<1>15. ASSUME TickFindsInflight PROVE Charged'
  BY <1>15 DEF TickFindsInflight, Paused
<1>16. ASSUME TickCloses PROVE Charged'
  BY <1>16 DEF TickCloses, Ticks, Untouched
<1>17. ASSUME NEW s \in Seen, TickFails(s) PROVE Charged'
  <2>1. CASE loop' = Paused(loop, "other")
    BY <1>17, <2>1 DEF TickFails, Ticks, Untouched, Paused
  <2>2. CASE loop' = Paused(s, "other")
    BY <1>17, <2>2, SeenKeeps DEF TickFails, Ticks, Untouched, Paused
  <2> QED
    BY <1>17, <2>1, <2>2 DEF TickFails
<1>18. ASSUME NEW s \in Seen, CiPasses(s) PROVE Charged'
  BY <1>18, SeenKeeps DEF CiPasses, Observes, Ticks, Untouched, Reviewed
<1>19. ASSUME NEW s \in Seen, CiIsPending(s) PROVE Charged'
  <2>1. CASE s.phase = "WAIT_CI" /\ loop' = [s EXCEPT !.waits = @ + 1]
    BY <1>19, <2>1, SeenKeeps DEF CiIsPending, Observes, Ticks
  <2>2. CASE s.phase = "WAIT_CI" /\ loop' = Paused([s EXCEPT !.waits = @ + 1], "other")
    BY <1>19, <2>2, SeenKeeps DEF CiIsPending, Observes, Ticks, Untouched, Paused
  <2>3. CASE s.phase = "READY" /\ loop' = [s EXCEPT !.phase = "WAIT_CI", !.waits = 0]
    BY <1>19, <2>3, SeenKeeps DEF CiIsPending, Observes, Ticks
  <2> QED
    BY <1>19, <2>1, <2>2, <2>3 DEF CiIsPending, Waited
<1>20. ASSUME NEW s \in Seen, CiFails(s) PROVE Charged'
  <2>1. CASE s.phase = "WAIT_CI" /\ loop' = [s EXCEPT !.phase = "AMEND", !.open = @ \cup {CiFinding}, !.last = NoReview, !.reason = "other"]
    BY <1>20, <2>1, SeenKeeps DEF CiFails, Observes, Ticks
  <2>2. CASE s.phase = "READY" /\ loop' = [s EXCEPT !.phase = "WAIT_CI", !.waits = 0]
    BY <1>20, <2>2, SeenKeeps DEF CiFails, Observes, Ticks
  <2> QED
    BY <1>20, <2>1, <2>2 DEF CiFails
<1>21. ASSUME NEW s \in Seen, TickReachesCap(s) PROVE Charged'
  BY <1>21, SeenKeeps DEF TickReachesCap, Observes, Ticks, Untouched, Paused
<1>22. ASSUME NEW s \in Seen, TickStarts(s) PROVE Charged'
  <2>1. /\ Observes /\ Ticks /\ s.runs < MaxRuns
        /\ tick' = [at |-> IF s.phase = "AMEND" THEN "amending" ELSE "reviewing", cand |-> Now]
        /\ agents' = agents \cup {s.runs + 1} /\ started' = started + 1
        /\ UNCHANGED <<draft, drafter, remote, looked>>
    BY <1>22 DEF TickStarts, Observes
  <2>2. CASE s.phase = "AMEND" /\ loop' = [s EXCEPT !.runs = @ + 1, !.inflight = s.runs + 1, !.cycles = @ + 1]
    BY <2>1, <2>2, SeenKeeps DEF Observes, Ticks, Untouched
  <2>3. CASE s.phase = "REVIEW" /\ loop' = [s EXCEPT !.runs = @ + 1, !.inflight = s.runs + 1, !.cycles = @]
    BY <2>1, <2>3, SeenKeeps DEF Observes, Ticks, Untouched
  <2> QED
    BY <1>22, <2>2, <2>3 DEF TickStarts
<1>23. ASSUME NEW verdict \in Verdict, NEW F \in SUBSET Finding, ReviewReturns(verdict, F) PROVE Charged'
  BY <1>23 DEF ReviewReturns, Returned, NextPhase
<1>24. ASSUME AmendPushes PROVE Charged'
  BY <1>24 DEF AmendPushes, Returned
<1>25. ASSUME NEW evidence \in BOOLEAN, AmendReturns(evidence) PROVE Charged'
  BY <1>25 DEF AmendReturns, Again
<1>26. ASSUME RunFails PROVE Charged'
  BY <1>26 DEF RunFails, Paused
<1>27. ASSUME TickDies PROVE Charged'
  BY <1>27 DEF TickDies
<1>28. ASSUME Pause PROVE Charged'
  BY <1>28 DEF Pause, Paused
<1>29. ASSUME Look PROVE Charged'
  BY <1>29 DEF Look
<1>30. ASSUME Resume PROVE Charged'
  BY <1>30 DEF Resume, Resumes, Reconciled, Again
<1>31. ASSUME ExtendOneCycle PROVE Charged'
  BY <1>31 DEF ExtendOneCycle, Disposes, Resumes, Reconciled, Again
<1>32. ASSUME MergeWithNotes PROVE Charged'
  BY <1>32 DEF MergeWithNotes, Disposes, Resumes, Reconciled
<1>33. ASSUME Park PROVE Charged'
  BY <1>33 DEF Park, Disposes, Resumes, Reconciled, Paused
<1>34. ASSUME Rescope PROVE Charged'
  BY <1>34 DEF Rescope, Disposes, Resumes, Reconciled
<1>35. ASSUME NEW p \in flight, PushEnds(p) PROVE Charged'
  BY <1>35 DEF PushEnds
<1>36. ASSUME CreationEnds PROVE Charged'
  BY <1>36 DEF CreationEnds
<1>37. ASSUME HostMoves PROVE Charged'
  BY <1>37 DEF HostMoves
<1>38. ASSUME NEW r \in agents, AgentEnds(r) PROVE Charged'
  BY <1>38 DEF AgentEnds
<1>39. CASE UNCHANGED loopVars
  BY <1>39 DEF loopVars
<1> HIDE DEF LoopInv, LoopTypeOK, Untried, Charged, Drafting, Ticking, LoopRecord, DraftRecord,
          DrafterRecord, TickRecord, HostRecord, PushRecord,
          Now, Lock, FreeLock, Idle, At, Goes, Enrolled, Reserved, store, processes, remote
<1> QED
  BY <1>1, <1>2, <1>3, <1>4, <1>5, <1>6, <1>7, <1>8, <1>9, <1>10, <1>11, <1>12, <1>13, <1>14,
     <1>15, <1>16, <1>17, <1>18, <1>19, <1>20, <1>21, <1>22, <1>23, <1>24, <1>25, <1>26, <1>27,
     <1>28, <1>29, <1>30, <1>31, <1>32, <1>33, <1>34, <1>35, <1>36, <1>37, <1>38, <1>39
     DEF LoopNext

\* A first-draft process starts on a reservation and ends before another begins.
LEMMA LoopKeepsDrafting ==
  ASSUME LoopInv, [LoopNext]_loopVars
  PROVE  Drafting'
<1> USE LoopSets, CandidateFacts DEF LoopInv, LoopTypeOK, Untried, Charged, Drafting, Ticking, Commits, OnRecord, LoopRecord, DraftRecord,
          DrafterRecord, TickRecord, HostRecord, PushRecord,
          Now, Lock, FreeLock, Idle, At, Goes, Enrolled, Reserved, store, processes, remote, Written
<1>1. ASSUME Reserve PROVE Drafting'
  BY <1>1 DEF Reserve
<1>2. ASSUME RetryWithWorker PROVE Drafting'
  BY <1>2 DEF RetryWithWorker, Replay
<1>3. ASSUME RetryPublication PROVE Drafting'
  <2>1. /\ At("idle") /\ loop.phase = "FIRST_DRAFT" /\ draft.ready /\ draft' = [draft EXCEPT !.ready = FALSE]
        /\ (draft.receipt # NoCand \/ draft.pub # NoCand) /\ UNCHANGED <<loop, tick, agents, started, remote, looked>>
    BY <1>3 DEF RetryPublication, Replay
  <2>2. CASE draft.pub = NoCand /\ drafter' = [base |-> host.base, at |-> "publishing"]
    BY <2>1, <2>2
  <2>3. CASE draft.pub # NoCand /\ draft.status = "RETRY_PUSH" /\ drafter' = [base |-> host.base, at |-> "prepared"]
    BY <2>1, <2>3
  <2>4. CASE draft.pub # NoCand /\ draft.status # "RETRY_PUSH" /\ drafter' = [base |-> host.base, at |-> "pushed"]
    BY <2>1, <2>4
  <2> QED
    BY <1>3, <2>2, <2>3, <2>4 DEF RetryPublication
<1>4. ASSUME RecordReceipt PROVE Drafting'
  BY <1>4 DEF RecordReceipt
<1>5. ASSUME RecordPublication PROVE Drafting'
  BY <1>5 DEF RecordPublication
<1>6. ASSUME Push PROVE Drafting'
  BY <1>6 DEF Push
<1>7. ASSUME ConfirmPublication PROVE Drafting'
  BY <1>7 DEF ConfirmPublication
<1>8. ASSUME CreatePr PROVE Drafting'
  BY <1>8 DEF CreatePr
<1>9. ASSUME BindPr PROVE Drafting'
  BY <1>9 DEF BindPr
<1>10. ASSUME EnrollDraft PROVE Drafting'
  BY <1>10 DEF EnrollDraft, Completes
<1>11. ASSUME DraftFails PROVE Drafting'
  <2>1. ~At("idle") /\ drafter' = Idle /\ agents' \subseteq agents /\ UNCHANGED <<tick, started, remote, looked>>
    BY <1>11 DEF DraftFails
  <2>2. CASE loop.phase = "FIRST_DRAFT" /\ loop' = Paused(loop, "other") /\ draft' = [draft EXCEPT !.ready = FALSE]
    BY <2>1, <2>2 DEF Paused
  <2>3. CASE UNCHANGED store
    BY <2>1, <2>3
  <2> QED
    BY <1>11, <2>2, <2>3 DEF DraftFails
<1>12. ASSUME DraftDies PROVE Drafting'
  BY <1>12 DEF DraftDies
<1>13. ASSUME ResumeDraft PROVE Drafting'
  <2>1. CASE host.pr # "none" /\ Completes /\ draft' = [draft EXCEPT !.ready = FALSE, !.bound = TRUE]
    BY <1>13, <2>1 DEF ResumeDraft, Completes, Reconciled
  <2>2. CASE host.pr # "none" /\ Now = draft.pub /\ draft' = [draft EXCEPT !.bound = TRUE] /\ loop' = loop
    BY <1>13, <2>2 DEF ResumeDraft, Completes, Reconciled
  <2>3. CASE /\ host.pr = "none" /\ (draft.pub # NoCand => host.head \in {0, draft.pub.head})
            /\ loop' = [loop EXCEPT !.phase = "FIRST_DRAFT", !.reason = "other"]
            /\ draft' = [draft EXCEPT !.ready = TRUE, !.status = Inspected]
    <3>1. /\ Reserved /\ At("idle") /\ agents = {} /\ Lock /\ UNCHANGED <<processes, remote, looked>> /\ host.pr = "none"
          /\ loop.phase \in {"FIRST_DRAFT", "PAUSED"} /\ loop' = [loop EXCEPT !.phase = "FIRST_DRAFT", !.reason = "other"]
      BY <1>13, <2>3 DEF ResumeDraft, Reconciled
    <3>2. CASE draft.pub = NoCand /\ draft' = [draft EXCEPT !.ready = TRUE, !.status = "none"]
      BY <3>1, <3>2
    <3>3. CASE draft.pub # NoCand /\ host.head = 0 /\ draft' = [draft EXCEPT !.ready = TRUE, !.status = "RETRY_PUSH"]
      BY <3>1, <3>3
    <3>4. CASE draft.pub # NoCand /\ host.head # 0 /\ draft' = [draft EXCEPT !.ready = TRUE, !.status = "PUSHED"]
      BY <3>1, <3>4
    <3> QED
      BY <2>3, <3>2, <3>3, <3>4, InspectedIs
  <2> QED
    BY <1>13, <2>1, <2>2, <2>3 DEF ResumeDraft
<1>14. ASSUME NEW known \in SUBSET Finding, EnrollExisting(known) PROVE Drafting'
  BY <1>14 DEF EnrollExisting
<1>15. ASSUME TickFindsInflight PROVE Drafting'
  BY <1>15 DEF TickFindsInflight, Paused
<1>16. ASSUME TickCloses PROVE Drafting'
  BY <1>16 DEF TickCloses, Ticks, Untouched
<1>17. ASSUME NEW s \in Seen, TickFails(s) PROVE Drafting'
  <2>1. CASE loop' = Paused(loop, "other")
    BY <1>17, <2>1 DEF TickFails, Ticks, Untouched, Paused
  <2>2. CASE loop' = Paused(s, "other")
    BY <1>17, <2>2, SeenKeeps DEF TickFails, Ticks, Untouched, Paused
  <2> QED
    BY <1>17, <2>1, <2>2 DEF TickFails
<1>18. ASSUME NEW s \in Seen, CiPasses(s) PROVE Drafting'
  BY <1>18, SeenKeeps DEF CiPasses, Observes, Ticks, Untouched, Reviewed
<1>19. ASSUME NEW s \in Seen, CiIsPending(s) PROVE Drafting'
  <2>1. CASE s.phase = "WAIT_CI" /\ loop' = [s EXCEPT !.waits = @ + 1]
    BY <1>19, <2>1, SeenKeeps DEF CiIsPending, Observes, Ticks
  <2>2. CASE s.phase = "WAIT_CI" /\ loop' = Paused([s EXCEPT !.waits = @ + 1], "other")
    BY <1>19, <2>2, SeenKeeps DEF CiIsPending, Observes, Ticks, Untouched, Paused
  <2>3. CASE s.phase = "READY" /\ loop' = [s EXCEPT !.phase = "WAIT_CI", !.waits = 0]
    BY <1>19, <2>3, SeenKeeps DEF CiIsPending, Observes, Ticks
  <2> QED
    BY <1>19, <2>1, <2>2, <2>3 DEF CiIsPending, Waited
<1>20. ASSUME NEW s \in Seen, CiFails(s) PROVE Drafting'
  <2>1. CASE s.phase = "WAIT_CI" /\ loop' = [s EXCEPT !.phase = "AMEND", !.open = @ \cup {CiFinding}, !.last = NoReview, !.reason = "other"]
    BY <1>20, <2>1, SeenKeeps DEF CiFails, Observes, Ticks
  <2>2. CASE s.phase = "READY" /\ loop' = [s EXCEPT !.phase = "WAIT_CI", !.waits = 0]
    BY <1>20, <2>2, SeenKeeps DEF CiFails, Observes, Ticks
  <2> QED
    BY <1>20, <2>1, <2>2 DEF CiFails
<1>21. ASSUME NEW s \in Seen, TickReachesCap(s) PROVE Drafting'
  BY <1>21, SeenKeeps DEF TickReachesCap, Observes, Ticks, Untouched, Paused
<1>22. ASSUME NEW s \in Seen, TickStarts(s) PROVE Drafting'
  <2>1. /\ Observes /\ Ticks /\ s.runs < MaxRuns
        /\ tick' = [at |-> IF s.phase = "AMEND" THEN "amending" ELSE "reviewing", cand |-> Now]
        /\ agents' = agents \cup {s.runs + 1} /\ started' = started + 1
        /\ UNCHANGED <<draft, drafter, remote, looked>>
    BY <1>22 DEF TickStarts, Observes
  <2>2. CASE s.phase = "AMEND" /\ loop' = [s EXCEPT !.runs = @ + 1, !.inflight = s.runs + 1, !.cycles = @ + 1]
    BY <2>1, <2>2, SeenKeeps DEF Observes, Ticks, Untouched
  <2>3. CASE s.phase = "REVIEW" /\ loop' = [s EXCEPT !.runs = @ + 1, !.inflight = s.runs + 1, !.cycles = @]
    BY <2>1, <2>3, SeenKeeps DEF Observes, Ticks, Untouched
  <2> QED
    BY <1>22, <2>2, <2>3 DEF TickStarts
<1>23. ASSUME NEW verdict \in Verdict, NEW F \in SUBSET Finding, ReviewReturns(verdict, F) PROVE Drafting'
  BY <1>23 DEF ReviewReturns, Returned, NextPhase
<1>24. ASSUME AmendPushes PROVE Drafting'
  BY <1>24 DEF AmendPushes, Returned
<1>25. ASSUME NEW evidence \in BOOLEAN, AmendReturns(evidence) PROVE Drafting'
  BY <1>25 DEF AmendReturns, Again
<1>26. ASSUME RunFails PROVE Drafting'
  BY <1>26 DEF RunFails, Paused
<1>27. ASSUME TickDies PROVE Drafting'
  BY <1>27 DEF TickDies
<1>28. ASSUME Pause PROVE Drafting'
  BY <1>28 DEF Pause, Paused
<1>29. ASSUME Look PROVE Drafting'
  BY <1>29 DEF Look
<1>30. ASSUME Resume PROVE Drafting'
  BY <1>30 DEF Resume, Resumes, Reconciled, Again
<1>31. ASSUME ExtendOneCycle PROVE Drafting'
  BY <1>31 DEF ExtendOneCycle, Disposes, Resumes, Reconciled, Again
<1>32. ASSUME MergeWithNotes PROVE Drafting'
  BY <1>32 DEF MergeWithNotes, Disposes, Resumes, Reconciled
<1>33. ASSUME Park PROVE Drafting'
  BY <1>33 DEF Park, Disposes, Resumes, Reconciled, Paused
<1>34. ASSUME Rescope PROVE Drafting'
  BY <1>34 DEF Rescope, Disposes, Resumes, Reconciled
<1>35. ASSUME NEW p \in flight, PushEnds(p) PROVE Drafting'
  BY <1>35 DEF PushEnds
<1>36. ASSUME CreationEnds PROVE Drafting'
  BY <1>36 DEF CreationEnds
<1>37. ASSUME HostMoves PROVE Drafting'
  BY <1>37 DEF HostMoves
<1>38. ASSUME NEW r \in agents, AgentEnds(r) PROVE Drafting'
  BY <1>38 DEF AgentEnds
<1>39. CASE UNCHANGED loopVars
  BY <1>39 DEF loopVars
<1> HIDE DEF LoopInv, LoopTypeOK, Untried, Charged, Drafting, Ticking, Commits, OnRecord, LoopRecord, DraftRecord,
          DrafterRecord, TickRecord, HostRecord, PushRecord,
          Now, Lock, FreeLock, Idle, At, Goes, Enrolled, Reserved, store, processes, remote, Written
<1> QED
  BY <1>1, <1>2, <1>3, <1>4, <1>5, <1>6, <1>7, <1>8, <1>9, <1>10, <1>11, <1>12, <1>13, <1>14,
     <1>15, <1>16, <1>17, <1>18, <1>19, <1>20, <1>21, <1>22, <1>23, <1>24, <1>25, <1>26, <1>27,
     <1>28, <1>29, <1>30, <1>31, <1>32, <1>33, <1>34, <1>35, <1>36, <1>37, <1>38, <1>39
     DEF LoopNext

\* The writer lock keeps the enrolled candidate as the tick read it.
LEMMA LoopKeepsTicking ==
  ASSUME LoopInv, [LoopNext]_loopVars
  PROVE  Ticking'
<1> USE LoopSets, CandidateFacts DEF LoopInv, LoopTypeOK, Untried, Drafting, Ticking, Charged, LoopRecord, DraftRecord,
          DrafterRecord, TickRecord, HostRecord, PushRecord,
          Now, Lock, FreeLock, Idle, At, Goes, Enrolled, Reserved, store, processes, remote, Written
<1>1. ASSUME Reserve PROVE Ticking'
  BY <1>1 DEF Reserve
<1>2. ASSUME RetryWithWorker PROVE Ticking'
  BY <1>2 DEF RetryWithWorker, Replay
<1>3. ASSUME RetryPublication PROVE Ticking'
  BY <1>3 DEF RetryPublication, Replay
<1>4. ASSUME RecordReceipt PROVE Ticking'
  BY <1>4 DEF RecordReceipt
<1>5. ASSUME RecordPublication PROVE Ticking'
  BY <1>5 DEF RecordPublication
<1>6. ASSUME Push PROVE Ticking'
  BY <1>6 DEF Push
<1>7. ASSUME ConfirmPublication PROVE Ticking'
  BY <1>7 DEF ConfirmPublication
<1>8. ASSUME CreatePr PROVE Ticking'
  BY <1>8 DEF CreatePr
<1>9. ASSUME BindPr PROVE Ticking'
  BY <1>9 DEF BindPr
<1>10. ASSUME EnrollDraft PROVE Ticking'
  BY <1>10 DEF EnrollDraft, Completes
<1>11. ASSUME DraftFails PROVE Ticking'
  <2>1. ~At("idle") /\ drafter' = Idle /\ agents' \subseteq agents /\ UNCHANGED <<tick, started, remote, looked>>
    BY <1>11 DEF DraftFails
  <2>2. CASE loop.phase = "FIRST_DRAFT" /\ loop' = Paused(loop, "other") /\ draft' = [draft EXCEPT !.ready = FALSE]
    BY <2>1, <2>2 DEF Paused
  <2>3. CASE UNCHANGED store
    BY <2>1, <2>3
  <2> QED
    BY <1>11, <2>2, <2>3 DEF DraftFails
<1>12. ASSUME DraftDies PROVE Ticking'
  BY <1>12 DEF DraftDies
<1>13. ASSUME ResumeDraft PROVE Ticking'
  <2>1. CASE host.pr # "none" /\ Completes /\ draft' = [draft EXCEPT !.ready = FALSE, !.bound = TRUE]
    BY <1>13, <2>1 DEF ResumeDraft, Completes, Reconciled
  <2>2. CASE host.pr # "none" /\ Now = draft.pub /\ draft' = [draft EXCEPT !.bound = TRUE] /\ loop' = loop
    BY <1>13, <2>2 DEF ResumeDraft, Completes, Reconciled
  <2>3. CASE /\ host.pr = "none" /\ (draft.pub # NoCand => host.head \in {0, draft.pub.head})
            /\ loop' = [loop EXCEPT !.phase = "FIRST_DRAFT", !.reason = "other"]
            /\ draft' = [draft EXCEPT !.ready = TRUE, !.status = Inspected]
    BY <1>13, <2>3 DEF ResumeDraft, Inspected, Completes, Reconciled
  <2> QED
    BY <1>13, <2>1, <2>2, <2>3 DEF ResumeDraft
<1>14. ASSUME NEW known \in SUBSET Finding, EnrollExisting(known) PROVE Ticking'
  BY <1>14 DEF EnrollExisting
<1>15. ASSUME TickFindsInflight PROVE Ticking'
  BY <1>15 DEF TickFindsInflight, Paused
<1>16. ASSUME TickCloses PROVE Ticking'
  BY <1>16 DEF TickCloses, Ticks, Untouched
<1>17. ASSUME NEW s \in Seen, TickFails(s) PROVE Ticking'
  <2>1. CASE loop' = Paused(loop, "other")
    BY <1>17, <2>1 DEF TickFails, Ticks, Untouched, Paused
  <2>2. CASE loop' = Paused(s, "other")
    BY <1>17, <2>2, SeenKeeps DEF TickFails, Ticks, Untouched, Paused
  <2> QED
    BY <1>17, <2>1, <2>2 DEF TickFails
<1>18. ASSUME NEW s \in Seen, CiPasses(s) PROVE Ticking'
  BY <1>18, SeenKeeps DEF CiPasses, Observes, Ticks, Untouched, Reviewed
<1>19. ASSUME NEW s \in Seen, CiIsPending(s) PROVE Ticking'
  <2>1. CASE s.phase = "WAIT_CI" /\ loop' = [s EXCEPT !.waits = @ + 1]
    BY <1>19, <2>1, SeenKeeps DEF CiIsPending, Observes, Ticks
  <2>2. CASE s.phase = "WAIT_CI" /\ loop' = Paused([s EXCEPT !.waits = @ + 1], "other")
    BY <1>19, <2>2, SeenKeeps DEF CiIsPending, Observes, Ticks, Untouched, Paused
  <2>3. CASE s.phase = "READY" /\ loop' = [s EXCEPT !.phase = "WAIT_CI", !.waits = 0]
    BY <1>19, <2>3, SeenKeeps DEF CiIsPending, Observes, Ticks
  <2> QED
    BY <1>19, <2>1, <2>2, <2>3 DEF CiIsPending, Waited
<1>20. ASSUME NEW s \in Seen, CiFails(s) PROVE Ticking'
  <2>1. CASE s.phase = "WAIT_CI" /\ loop' = [s EXCEPT !.phase = "AMEND", !.open = @ \cup {CiFinding}, !.last = NoReview, !.reason = "other"]
    BY <1>20, <2>1, SeenKeeps DEF CiFails, Observes, Ticks
  <2>2. CASE s.phase = "READY" /\ loop' = [s EXCEPT !.phase = "WAIT_CI", !.waits = 0]
    BY <1>20, <2>2, SeenKeeps DEF CiFails, Observes, Ticks
  <2> QED
    BY <1>20, <2>1, <2>2 DEF CiFails
<1>21. ASSUME NEW s \in Seen, TickReachesCap(s) PROVE Ticking'
  BY <1>21, SeenKeeps DEF TickReachesCap, Observes, Ticks, Untouched, Paused
<1>22. ASSUME NEW s \in Seen, TickStarts(s) PROVE Ticking'
  <2>1. /\ Observes /\ Ticks /\ s.runs < MaxRuns
        /\ tick' = [at |-> IF s.phase = "AMEND" THEN "amending" ELSE "reviewing", cand |-> Now]
        /\ agents' = agents \cup {s.runs + 1} /\ started' = started + 1
        /\ UNCHANGED <<draft, drafter, remote, looked>>
    BY <1>22 DEF TickStarts, Observes
  <2>2. CASE s.phase = "AMEND" /\ loop' = [s EXCEPT !.runs = @ + 1, !.inflight = s.runs + 1, !.cycles = @ + 1]
    BY <2>1, <2>2, SeenKeeps DEF Observes, Ticks, Untouched
  <2>3. CASE s.phase = "REVIEW" /\ loop' = [s EXCEPT !.runs = @ + 1, !.inflight = s.runs + 1, !.cycles = @]
    BY <2>1, <2>3, SeenKeeps DEF Observes, Ticks, Untouched
  <2> QED
    BY <1>22, <2>2, <2>3 DEF TickStarts
<1>23. ASSUME NEW verdict \in Verdict, NEW F \in SUBSET Finding, ReviewReturns(verdict, F) PROVE Ticking'
  BY <1>23 DEF ReviewReturns, Returned, NextPhase
<1>24. ASSUME AmendPushes PROVE Ticking'
  BY <1>24 DEF AmendPushes, Returned
<1>25. ASSUME NEW evidence \in BOOLEAN, AmendReturns(evidence) PROVE Ticking'
  BY <1>25 DEF AmendReturns, Again
<1>26. ASSUME RunFails PROVE Ticking'
  BY <1>26 DEF RunFails, Paused
<1>27. ASSUME TickDies PROVE Ticking'
  BY <1>27 DEF TickDies
<1>28. ASSUME Pause PROVE Ticking'
  BY <1>28 DEF Pause, Paused
<1>29. ASSUME Look PROVE Ticking'
  BY <1>29 DEF Look
<1>30. ASSUME Resume PROVE Ticking'
  BY <1>30 DEF Resume, Resumes, Reconciled, Again
<1>31. ASSUME ExtendOneCycle PROVE Ticking'
  BY <1>31 DEF ExtendOneCycle, Disposes, Resumes, Reconciled, Again
<1>32. ASSUME MergeWithNotes PROVE Ticking'
  BY <1>32 DEF MergeWithNotes, Disposes, Resumes, Reconciled
<1>33. ASSUME Park PROVE Ticking'
  BY <1>33 DEF Park, Disposes, Resumes, Reconciled, Paused
<1>34. ASSUME Rescope PROVE Ticking'
  BY <1>34 DEF Rescope, Disposes, Resumes, Reconciled
<1>35. ASSUME NEW p \in flight, PushEnds(p) PROVE Ticking'
  BY <1>35 DEF PushEnds
<1>36. ASSUME CreationEnds PROVE Ticking'
  BY <1>36 DEF CreationEnds
<1>37. ASSUME HostMoves PROVE Ticking'
  BY <1>37 DEF HostMoves
<1>38. ASSUME NEW r \in agents, AgentEnds(r) PROVE Ticking'
  BY <1>38 DEF AgentEnds
<1>39. CASE UNCHANGED loopVars
  BY <1>39 DEF loopVars
<1> HIDE DEF LoopInv, LoopTypeOK, Untried, Drafting, Ticking, Charged, LoopRecord, DraftRecord,
          DrafterRecord, TickRecord, HostRecord, PushRecord,
          Now, Lock, FreeLock, Idle, At, Goes, Enrolled, Reserved, store, processes, remote, Written
<1> QED
  BY <1>1, <1>2, <1>3, <1>4, <1>5, <1>6, <1>7, <1>8, <1>9, <1>10, <1>11, <1>12, <1>13, <1>14,
     <1>15, <1>16, <1>17, <1>18, <1>19, <1>20, <1>21, <1>22, <1>23, <1>24, <1>25, <1>26, <1>27,
     <1>28, <1>29, <1>30, <1>31, <1>32, <1>33, <1>34, <1>35, <1>36, <1>37, <1>38, <1>39
     DEF LoopNext

\* Only a tick of an enrolled loop counts a wait, and the one that exceeds the budget stops it.
LEMMA LoopKeepsWaits ==
  ASSUME LoopInv, [LoopNext]_loopVars
  PROVE  WaitsAreBounded'
<1> USE LoopSets, CandidateFacts, LoopAssumption DEF LoopInv, LoopTypeOK, WaitsAreBounded, Untried, Drafting, Ticking, LoopRecord,
          DraftRecord, DrafterRecord, TickRecord, HostRecord, Now, Lock, FreeLock, Idle, At, Goes, Enrolled, Reserved, Waits,
          store, processes, remote
<1>1. ASSUME Reserve PROVE WaitsAreBounded'
  BY <1>1 DEF Reserve
<1>2. ASSUME RetryWithWorker PROVE WaitsAreBounded'
  BY <1>2 DEF RetryWithWorker, Replay
<1>3. ASSUME RetryPublication PROVE WaitsAreBounded'
  BY <1>3 DEF RetryPublication, Replay
<1>4. ASSUME RecordReceipt PROVE WaitsAreBounded'
  BY <1>4 DEF RecordReceipt
<1>5. ASSUME RecordPublication PROVE WaitsAreBounded'
  BY <1>5 DEF RecordPublication
<1>6. ASSUME Push PROVE WaitsAreBounded'
  BY <1>6 DEF Push
<1>7. ASSUME ConfirmPublication PROVE WaitsAreBounded'
  BY <1>7 DEF ConfirmPublication
<1>8. ASSUME CreatePr PROVE WaitsAreBounded'
  BY <1>8 DEF CreatePr
<1>9. ASSUME BindPr PROVE WaitsAreBounded'
  BY <1>9 DEF BindPr
<1>10. ASSUME EnrollDraft PROVE WaitsAreBounded'
  BY <1>10 DEF EnrollDraft, Completes
<1>11. ASSUME DraftFails PROVE WaitsAreBounded'
  <2>1. ~At("idle") /\ drafter' = Idle /\ agents' \subseteq agents /\ UNCHANGED <<tick, started, remote, looked>>
    BY <1>11 DEF DraftFails
  <2>2. CASE loop.phase = "FIRST_DRAFT" /\ loop' = Paused(loop, "other") /\ draft' = [draft EXCEPT !.ready = FALSE]
    BY <2>1, <2>2 DEF Paused
  <2>3. CASE UNCHANGED store
    BY <2>1, <2>3
  <2> QED
    BY <1>11, <2>2, <2>3 DEF DraftFails
<1>12. ASSUME DraftDies PROVE WaitsAreBounded'
  BY <1>12 DEF DraftDies
<1>13. ASSUME ResumeDraft PROVE WaitsAreBounded'
  <2>1. CASE host.pr # "none" /\ Completes /\ draft' = [draft EXCEPT !.ready = FALSE, !.bound = TRUE]
    BY <1>13, <2>1 DEF ResumeDraft, Completes, Reconciled
  <2>2. CASE host.pr # "none" /\ Now = draft.pub /\ draft' = [draft EXCEPT !.bound = TRUE] /\ loop' = loop
    BY <1>13, <2>2 DEF ResumeDraft, Completes, Reconciled
  <2>3. CASE /\ host.pr = "none" /\ (draft.pub # NoCand => host.head \in {0, draft.pub.head})
            /\ loop' = [loop EXCEPT !.phase = "FIRST_DRAFT", !.reason = "other"]
            /\ draft' = [draft EXCEPT !.ready = TRUE, !.status = Inspected]
    BY <1>13, <2>3 DEF ResumeDraft, Inspected, Completes, Reconciled
  <2> QED
    BY <1>13, <2>1, <2>2, <2>3 DEF ResumeDraft
<1>14. ASSUME NEW known \in SUBSET Finding, EnrollExisting(known) PROVE WaitsAreBounded'
  BY <1>14 DEF EnrollExisting
<1>15. ASSUME TickFindsInflight PROVE WaitsAreBounded'
  BY <1>15 DEF TickFindsInflight, Paused
<1>16. ASSUME TickCloses PROVE WaitsAreBounded'
  BY <1>16 DEF TickCloses, Ticks, Untouched
<1>17. ASSUME NEW s \in Seen, TickFails(s) PROVE WaitsAreBounded'
  <2>1. CASE loop' = Paused(loop, "other")
    BY <1>17, <2>1 DEF TickFails, Ticks, Untouched, Paused
  <2>2. CASE loop' = Paused(s, "other")
    BY <1>17, <2>2, SeenKeeps DEF TickFails, Ticks, Untouched, Paused
  <2> QED
    BY <1>17, <2>1, <2>2 DEF TickFails
<1>18. ASSUME NEW s \in Seen, CiPasses(s) PROVE WaitsAreBounded'
  BY <1>18, SeenKeeps DEF CiPasses, Observes, Ticks, Untouched, Reviewed
<1>19. ASSUME NEW s \in Seen, CiIsPending(s) PROVE WaitsAreBounded'
  <2>1. CASE s.phase = "WAIT_CI" /\ s.waits < MaxWait /\ loop' = [s EXCEPT !.waits = @ + 1]
    BY <1>19, <2>1, SeenKeeps DEF CiIsPending, Observes, Ticks
  <2>2. CASE s.phase = "WAIT_CI" /\ loop' = Paused([s EXCEPT !.waits = @ + 1], "other")
    BY <1>19, <2>2, SeenKeeps DEF CiIsPending, Observes, Ticks, Untouched, Paused
  <2>3. CASE s.phase = "READY" /\ loop' = [s EXCEPT !.phase = "WAIT_CI", !.waits = 0]
    BY <1>19, <2>3, SeenKeeps DEF CiIsPending, Observes, Ticks
  <2> QED
    BY <1>19, <2>1, <2>2, <2>3 DEF CiIsPending, Waited
<1>20. ASSUME NEW s \in Seen, CiFails(s) PROVE WaitsAreBounded'
  <2>1. CASE s.phase = "WAIT_CI" /\ loop' = [s EXCEPT !.phase = "AMEND", !.open = @ \cup {CiFinding}, !.last = NoReview, !.reason = "other"]
    BY <1>20, <2>1, SeenKeeps DEF CiFails, Observes, Ticks
  <2>2. CASE s.phase = "READY" /\ loop' = [s EXCEPT !.phase = "WAIT_CI", !.waits = 0]
    BY <1>20, <2>2, SeenKeeps DEF CiFails, Observes, Ticks
  <2> QED
    BY <1>20, <2>1, <2>2 DEF CiFails
<1>21. ASSUME NEW s \in Seen, TickReachesCap(s) PROVE WaitsAreBounded'
  BY <1>21, SeenKeeps DEF TickReachesCap, Observes, Ticks, Untouched, Paused
<1>22. ASSUME NEW s \in Seen, TickStarts(s) PROVE WaitsAreBounded'
  <2>1. /\ Observes /\ Ticks /\ s.runs < MaxRuns
        /\ tick' = [at |-> IF s.phase = "AMEND" THEN "amending" ELSE "reviewing", cand |-> Now]
        /\ agents' = agents \cup {s.runs + 1} /\ started' = started + 1
        /\ UNCHANGED <<draft, drafter, remote, looked>>
    BY <1>22 DEF TickStarts, Observes
  <2>2. CASE s.phase = "AMEND" /\ loop' = [s EXCEPT !.runs = @ + 1, !.inflight = s.runs + 1, !.cycles = @ + 1]
    BY <2>1, <2>2, SeenKeeps DEF Observes, Ticks, Untouched
  <2>3. CASE s.phase = "REVIEW" /\ loop' = [s EXCEPT !.runs = @ + 1, !.inflight = s.runs + 1, !.cycles = @]
    BY <2>1, <2>3, SeenKeeps DEF Observes, Ticks, Untouched
  <2> QED
    BY <1>22, <2>2, <2>3 DEF TickStarts
<1>23. ASSUME NEW verdict \in Verdict, NEW F \in SUBSET Finding, ReviewReturns(verdict, F) PROVE WaitsAreBounded'
  BY <1>23 DEF ReviewReturns, Returned, NextPhase
<1>24. ASSUME AmendPushes PROVE WaitsAreBounded'
  BY <1>24 DEF AmendPushes, Returned
<1>25. ASSUME NEW evidence \in BOOLEAN, AmendReturns(evidence) PROVE WaitsAreBounded'
  BY <1>25 DEF AmendReturns, Again
<1>26. ASSUME RunFails PROVE WaitsAreBounded'
  BY <1>26 DEF RunFails, Paused
<1>27. ASSUME TickDies PROVE WaitsAreBounded'
  BY <1>27 DEF TickDies
<1>28. ASSUME Pause PROVE WaitsAreBounded'
  BY <1>28 DEF Pause, Paused
<1>29. ASSUME Look PROVE WaitsAreBounded'
  BY <1>29 DEF Look
<1>30. ASSUME Resume PROVE WaitsAreBounded'
  BY <1>30 DEF Resume, Resumes, Reconciled, Again
<1>31. ASSUME ExtendOneCycle PROVE WaitsAreBounded'
  BY <1>31 DEF ExtendOneCycle, Disposes, Resumes, Reconciled, Again
<1>32. ASSUME MergeWithNotes PROVE WaitsAreBounded'
  BY <1>32 DEF MergeWithNotes, Disposes, Resumes, Reconciled
<1>33. ASSUME Park PROVE WaitsAreBounded'
  BY <1>33 DEF Park, Disposes, Resumes, Reconciled, Paused
<1>34. ASSUME Rescope PROVE WaitsAreBounded'
  BY <1>34 DEF Rescope, Disposes, Resumes, Reconciled
<1>35. ASSUME NEW p \in flight, PushEnds(p) PROVE WaitsAreBounded'
  BY <1>35 DEF PushEnds
<1>36. ASSUME CreationEnds PROVE WaitsAreBounded'
  BY <1>36 DEF CreationEnds
<1>37. ASSUME HostMoves PROVE WaitsAreBounded'
  BY <1>37 DEF HostMoves
<1>38. ASSUME NEW r \in agents, AgentEnds(r) PROVE WaitsAreBounded'
  BY <1>38 DEF AgentEnds
<1>39. CASE UNCHANGED loopVars
  BY <1>39 DEF loopVars
<1> HIDE DEF LoopInv, LoopTypeOK, WaitsAreBounded, Untried, Drafting, Ticking, LoopRecord,
          DraftRecord, DrafterRecord, TickRecord, HostRecord, Now, Lock, FreeLock, Idle, At, Goes, Enrolled, Reserved, Waits,
          store, processes, remote
<1> QED
  BY <1>1, <1>2, <1>3, <1>4, <1>5, <1>6, <1>7, <1>8, <1>9, <1>10, <1>11, <1>12, <1>13, <1>14,
     <1>15, <1>16, <1>17, <1>18, <1>19, <1>20, <1>21, <1>22, <1>23, <1>24, <1>25, <1>26, <1>27,
     <1>28, <1>29, <1>30, <1>31, <1>32, <1>33, <1>34, <1>35, <1>36, <1>37, <1>38, <1>39
     DEF LoopNext

\* Only commits become candidates.
LEMMA LoopKeepsCommits ==
  ASSUME LoopInv, [LoopNext]_loopVars
  PROVE  Commits'
<1> USE LoopSets, CandidateFacts DEF LoopInv, LoopTypeOK, Untried, Drafting, Ticking, Commits, Charged, LoopRecord, DraftRecord,
          DrafterRecord, TickRecord, HostRecord, PushRecord,
          Now, Lock, FreeLock, Idle, At, Goes, Enrolled, Reserved, store, processes, remote, Written
<1>1. ASSUME Reserve PROVE Commits'
  BY <1>1 DEF Reserve
<1>2. ASSUME RetryWithWorker PROVE Commits'
  BY <1>2 DEF RetryWithWorker, Replay
<1>3. ASSUME RetryPublication PROVE Commits'
  BY <1>3 DEF RetryPublication, Replay
<1>4. ASSUME RecordReceipt PROVE Commits'
  BY <1>4 DEF RecordReceipt
<1>5. ASSUME RecordPublication PROVE Commits'
  BY <1>5 DEF RecordPublication
<1>6. ASSUME Push PROVE Commits'
  BY <1>6 DEF Push
<1>7. ASSUME ConfirmPublication PROVE Commits'
  BY <1>7 DEF ConfirmPublication
<1>8. ASSUME CreatePr PROVE Commits'
  BY <1>8 DEF CreatePr
<1>9. ASSUME BindPr PROVE Commits'
  BY <1>9 DEF BindPr
<1>10. ASSUME EnrollDraft PROVE Commits'
  BY <1>10 DEF EnrollDraft, Completes
<1>11. ASSUME DraftFails PROVE Commits'
  <2>1. ~At("idle") /\ drafter' = Idle /\ agents' \subseteq agents /\ UNCHANGED <<tick, started, remote, looked>>
    BY <1>11 DEF DraftFails
  <2>2. CASE loop.phase = "FIRST_DRAFT" /\ loop' = Paused(loop, "other") /\ draft' = [draft EXCEPT !.ready = FALSE]
    BY <2>1, <2>2 DEF Paused
  <2>3. CASE UNCHANGED store
    BY <2>1, <2>3
  <2> QED
    BY <1>11, <2>2, <2>3 DEF DraftFails
<1>12. ASSUME DraftDies PROVE Commits'
  BY <1>12 DEF DraftDies
<1>13. ASSUME ResumeDraft PROVE Commits'
  <2>1. CASE host.pr # "none" /\ Completes /\ draft' = [draft EXCEPT !.ready = FALSE, !.bound = TRUE]
    BY <1>13, <2>1 DEF ResumeDraft, Completes, Reconciled
  <2>2. CASE host.pr # "none" /\ Now = draft.pub /\ draft' = [draft EXCEPT !.bound = TRUE] /\ loop' = loop
    BY <1>13, <2>2 DEF ResumeDraft, Completes, Reconciled
  <2>3. CASE /\ host.pr = "none" /\ (draft.pub # NoCand => host.head \in {0, draft.pub.head})
            /\ loop' = [loop EXCEPT !.phase = "FIRST_DRAFT", !.reason = "other"]
            /\ draft' = [draft EXCEPT !.ready = TRUE, !.status = Inspected]
    BY <1>13, <2>3 DEF ResumeDraft, Inspected, Completes, Reconciled
  <2> QED
    BY <1>13, <2>1, <2>2, <2>3 DEF ResumeDraft
<1>14. ASSUME NEW known \in SUBSET Finding, EnrollExisting(known) PROVE Commits'
  BY <1>14 DEF EnrollExisting
<1>15. ASSUME TickFindsInflight PROVE Commits'
  BY <1>15 DEF TickFindsInflight, Paused
<1>16. ASSUME TickCloses PROVE Commits'
  BY <1>16 DEF TickCloses, Ticks, Untouched
<1>17. ASSUME NEW s \in Seen, TickFails(s) PROVE Commits'
  <2>1. CASE loop' = Paused(loop, "other")
    BY <1>17, <2>1 DEF TickFails, Ticks, Untouched, Paused
  <2>2. CASE loop' = Paused(s, "other")
    BY <1>17, <2>2, SeenKeeps DEF TickFails, Ticks, Untouched, Paused
  <2> QED
    BY <1>17, <2>1, <2>2 DEF TickFails
<1>18. ASSUME NEW s \in Seen, CiPasses(s) PROVE Commits'
  BY <1>18, SeenKeeps DEF CiPasses, Observes, Ticks, Untouched, Reviewed
<1>19. ASSUME NEW s \in Seen, CiIsPending(s) PROVE Commits'
  <2>1. CASE s.phase = "WAIT_CI" /\ loop' = [s EXCEPT !.waits = @ + 1]
    BY <1>19, <2>1, SeenKeeps DEF CiIsPending, Observes, Ticks
  <2>2. CASE s.phase = "WAIT_CI" /\ loop' = Paused([s EXCEPT !.waits = @ + 1], "other")
    BY <1>19, <2>2, SeenKeeps DEF CiIsPending, Observes, Ticks, Untouched, Paused
  <2>3. CASE s.phase = "READY" /\ loop' = [s EXCEPT !.phase = "WAIT_CI", !.waits = 0]
    BY <1>19, <2>3, SeenKeeps DEF CiIsPending, Observes, Ticks
  <2> QED
    BY <1>19, <2>1, <2>2, <2>3 DEF CiIsPending, Waited
<1>20. ASSUME NEW s \in Seen, CiFails(s) PROVE Commits'
  <2>1. CASE s.phase = "WAIT_CI" /\ loop' = [s EXCEPT !.phase = "AMEND", !.open = @ \cup {CiFinding}, !.last = NoReview, !.reason = "other"]
    BY <1>20, <2>1, SeenKeeps DEF CiFails, Observes, Ticks
  <2>2. CASE s.phase = "READY" /\ loop' = [s EXCEPT !.phase = "WAIT_CI", !.waits = 0]
    BY <1>20, <2>2, SeenKeeps DEF CiFails, Observes, Ticks
  <2> QED
    BY <1>20, <2>1, <2>2 DEF CiFails
<1>21. ASSUME NEW s \in Seen, TickReachesCap(s) PROVE Commits'
  BY <1>21, SeenKeeps DEF TickReachesCap, Observes, Ticks, Untouched, Paused
<1>22. ASSUME NEW s \in Seen, TickStarts(s) PROVE Commits'
  <2>1. /\ Observes /\ Ticks /\ s.runs < MaxRuns
        /\ tick' = [at |-> IF s.phase = "AMEND" THEN "amending" ELSE "reviewing", cand |-> Now]
        /\ agents' = agents \cup {s.runs + 1} /\ started' = started + 1
        /\ UNCHANGED <<draft, drafter, remote, looked>>
    BY <1>22 DEF TickStarts, Observes
  <2>2. CASE s.phase = "AMEND" /\ loop' = [s EXCEPT !.runs = @ + 1, !.inflight = s.runs + 1, !.cycles = @ + 1]
    BY <2>1, <2>2, SeenKeeps DEF Observes, Ticks, Untouched
  <2>3. CASE s.phase = "REVIEW" /\ loop' = [s EXCEPT !.runs = @ + 1, !.inflight = s.runs + 1, !.cycles = @]
    BY <2>1, <2>3, SeenKeeps DEF Observes, Ticks, Untouched
  <2> QED
    BY <1>22, <2>2, <2>3 DEF TickStarts
<1>23. ASSUME NEW verdict \in Verdict, NEW F \in SUBSET Finding, ReviewReturns(verdict, F) PROVE Commits'
  BY <1>23 DEF ReviewReturns, Returned, NextPhase
<1>24. ASSUME AmendPushes PROVE Commits'
  BY <1>24 DEF AmendPushes, Returned
<1>25. ASSUME NEW evidence \in BOOLEAN, AmendReturns(evidence) PROVE Commits'
  BY <1>25 DEF AmendReturns, Again
<1>26. ASSUME RunFails PROVE Commits'
  BY <1>26 DEF RunFails, Paused
<1>27. ASSUME TickDies PROVE Commits'
  BY <1>27 DEF TickDies
<1>28. ASSUME Pause PROVE Commits'
  BY <1>28 DEF Pause, Paused
<1>29. ASSUME Look PROVE Commits'
  BY <1>29 DEF Look
<1>30. ASSUME Resume PROVE Commits'
  BY <1>30 DEF Resume, Resumes, Reconciled, Again
<1>31. ASSUME ExtendOneCycle PROVE Commits'
  BY <1>31 DEF ExtendOneCycle, Disposes, Resumes, Reconciled, Again
<1>32. ASSUME MergeWithNotes PROVE Commits'
  BY <1>32 DEF MergeWithNotes, Disposes, Resumes, Reconciled
<1>33. ASSUME Park PROVE Commits'
  BY <1>33 DEF Park, Disposes, Resumes, Reconciled, Paused
<1>34. ASSUME Rescope PROVE Commits'
  BY <1>34 DEF Rescope, Disposes, Resumes, Reconciled
<1>35. ASSUME NEW p \in flight, PushEnds(p) PROVE Commits'
  BY <1>35 DEF PushEnds
<1>36. ASSUME CreationEnds PROVE Commits'
  BY <1>36 DEF CreationEnds
<1>37. ASSUME HostMoves PROVE Commits'
  BY <1>37 DEF HostMoves
<1>38. ASSUME NEW r \in agents, AgentEnds(r) PROVE Commits'
  BY <1>38 DEF AgentEnds
<1>39. CASE UNCHANGED loopVars
  BY <1>39 DEF loopVars
<1> HIDE DEF LoopInv, LoopTypeOK, Untried, Drafting, Ticking, Commits, Charged, LoopRecord, DraftRecord,
          DrafterRecord, TickRecord, HostRecord, PushRecord,
          Now, Lock, FreeLock, Idle, At, Goes, Enrolled, Reserved, store, processes, remote, Written
<1> QED
  BY <1>1, <1>2, <1>3, <1>4, <1>5, <1>6, <1>7, <1>8, <1>9, <1>10, <1>11, <1>12, <1>13, <1>14,
     <1>15, <1>16, <1>17, <1>18, <1>19, <1>20, <1>21, <1>22, <1>23, <1>24, <1>25, <1>26, <1>27,
     <1>28, <1>29, <1>30, <1>31, <1>32, <1>33, <1>34, <1>35, <1>36, <1>37, <1>38, <1>39
     DEF LoopNext

\* A push and a request are sent for what is on record by then.
LEMMA LoopKeepsOnRecord ==
  ASSUME LoopInv, [LoopNext]_loopVars
  PROVE  OnRecord'
<1> USE LoopSets, CandidateFacts DEF LoopInv, LoopTypeOK, Untried, Drafting, Ticking, Commits, OnRecord, LoopRecord, DraftRecord,
          DrafterRecord, TickRecord, HostRecord, PushRecord,
          Now, Lock, FreeLock, Idle, At, Goes, Enrolled, Reserved, store, processes, remote, Written
<1>1. ASSUME Reserve PROVE OnRecord'
  BY <1>1 DEF Reserve
<1>2. ASSUME RetryWithWorker PROVE OnRecord'
  BY <1>2 DEF RetryWithWorker, Replay
<1>3. ASSUME RetryPublication PROVE OnRecord'
  BY <1>3 DEF RetryPublication, Replay
<1>4. ASSUME RecordReceipt PROVE OnRecord'
  BY <1>4 DEF RecordReceipt
<1>5. ASSUME RecordPublication PROVE OnRecord'
  BY <1>5 DEF RecordPublication
<1>6. ASSUME Push PROVE OnRecord'
  BY <1>6 DEF Push
<1>7. ASSUME ConfirmPublication PROVE OnRecord'
  BY <1>7 DEF ConfirmPublication
<1>8. ASSUME CreatePr PROVE OnRecord'
  BY <1>8 DEF CreatePr
<1>9. ASSUME BindPr PROVE OnRecord'
  BY <1>9 DEF BindPr
<1>10. ASSUME EnrollDraft PROVE OnRecord'
  BY <1>10 DEF EnrollDraft, Completes
<1>11. ASSUME DraftFails PROVE OnRecord'
  <2>1. ~At("idle") /\ drafter' = Idle /\ agents' \subseteq agents /\ UNCHANGED <<tick, started, remote, looked>>
    BY <1>11 DEF DraftFails
  <2>2. CASE loop.phase = "FIRST_DRAFT" /\ loop' = Paused(loop, "other") /\ draft' = [draft EXCEPT !.ready = FALSE]
    BY <2>1, <2>2 DEF Paused
  <2>3. CASE UNCHANGED store
    BY <2>1, <2>3
  <2> QED
    BY <1>11, <2>2, <2>3 DEF DraftFails
<1>12. ASSUME DraftDies PROVE OnRecord'
  BY <1>12 DEF DraftDies
<1>13. ASSUME ResumeDraft PROVE OnRecord'
  <2>1. CASE host.pr # "none" /\ Completes /\ draft' = [draft EXCEPT !.ready = FALSE, !.bound = TRUE]
    BY <1>13, <2>1 DEF ResumeDraft, Completes, Reconciled
  <2>2. CASE host.pr # "none" /\ Now = draft.pub /\ draft' = [draft EXCEPT !.bound = TRUE] /\ loop' = loop
    BY <1>13, <2>2 DEF ResumeDraft, Completes, Reconciled
  <2>3. CASE /\ host.pr = "none" /\ (draft.pub # NoCand => host.head \in {0, draft.pub.head})
            /\ loop' = [loop EXCEPT !.phase = "FIRST_DRAFT", !.reason = "other"]
            /\ draft' = [draft EXCEPT !.ready = TRUE, !.status = Inspected]
    <3>1. /\ Reserved /\ At("idle") /\ agents = {} /\ Lock /\ UNCHANGED <<processes, remote, looked>> /\ host.pr = "none"
          /\ loop.phase \in {"FIRST_DRAFT", "PAUSED"} /\ loop' = [loop EXCEPT !.phase = "FIRST_DRAFT", !.reason = "other"]
      BY <1>13, <2>3 DEF ResumeDraft, Reconciled
    <3>2. CASE draft.pub = NoCand /\ draft' = [draft EXCEPT !.ready = TRUE, !.status = "none"]
      BY <3>1, <3>2
    <3>3. CASE draft.pub # NoCand /\ host.head = 0 /\ draft' = [draft EXCEPT !.ready = TRUE, !.status = "RETRY_PUSH"]
      BY <3>1, <3>3
    <3>4. CASE draft.pub # NoCand /\ host.head # 0 /\ draft' = [draft EXCEPT !.ready = TRUE, !.status = "PUSHED"]
      BY <3>1, <3>4
    <3> QED
      BY <2>3, <3>2, <3>3, <3>4, InspectedIs
  <2> QED
    BY <1>13, <2>1, <2>2, <2>3 DEF ResumeDraft
<1>14. ASSUME NEW known \in SUBSET Finding, EnrollExisting(known) PROVE OnRecord'
  BY <1>14 DEF EnrollExisting
<1>15. ASSUME TickFindsInflight PROVE OnRecord'
  BY <1>15 DEF TickFindsInflight, Paused
<1>16. ASSUME TickCloses PROVE OnRecord'
  BY <1>16 DEF TickCloses, Ticks, Untouched
<1>17. ASSUME NEW s \in Seen, TickFails(s) PROVE OnRecord'
  <2>1. CASE loop' = Paused(loop, "other")
    BY <1>17, <2>1 DEF TickFails, Ticks, Untouched, Paused
  <2>2. CASE loop' = Paused(s, "other")
    BY <1>17, <2>2, SeenKeeps DEF TickFails, Ticks, Untouched, Paused
  <2> QED
    BY <1>17, <2>1, <2>2 DEF TickFails
<1>18. ASSUME NEW s \in Seen, CiPasses(s) PROVE OnRecord'
  BY <1>18, SeenKeeps DEF CiPasses, Observes, Ticks, Untouched, Reviewed
<1>19. ASSUME NEW s \in Seen, CiIsPending(s) PROVE OnRecord'
  <2>1. CASE s.phase = "WAIT_CI" /\ loop' = [s EXCEPT !.waits = @ + 1]
    BY <1>19, <2>1, SeenKeeps DEF CiIsPending, Observes, Ticks
  <2>2. CASE s.phase = "WAIT_CI" /\ loop' = Paused([s EXCEPT !.waits = @ + 1], "other")
    BY <1>19, <2>2, SeenKeeps DEF CiIsPending, Observes, Ticks, Untouched, Paused
  <2>3. CASE s.phase = "READY" /\ loop' = [s EXCEPT !.phase = "WAIT_CI", !.waits = 0]
    BY <1>19, <2>3, SeenKeeps DEF CiIsPending, Observes, Ticks
  <2> QED
    BY <1>19, <2>1, <2>2, <2>3 DEF CiIsPending, Waited
<1>20. ASSUME NEW s \in Seen, CiFails(s) PROVE OnRecord'
  <2>1. CASE s.phase = "WAIT_CI" /\ loop' = [s EXCEPT !.phase = "AMEND", !.open = @ \cup {CiFinding}, !.last = NoReview, !.reason = "other"]
    BY <1>20, <2>1, SeenKeeps DEF CiFails, Observes, Ticks
  <2>2. CASE s.phase = "READY" /\ loop' = [s EXCEPT !.phase = "WAIT_CI", !.waits = 0]
    BY <1>20, <2>2, SeenKeeps DEF CiFails, Observes, Ticks
  <2> QED
    BY <1>20, <2>1, <2>2 DEF CiFails
<1>21. ASSUME NEW s \in Seen, TickReachesCap(s) PROVE OnRecord'
  BY <1>21, SeenKeeps DEF TickReachesCap, Observes, Ticks, Untouched, Paused
<1>22. ASSUME NEW s \in Seen, TickStarts(s) PROVE OnRecord'
  <2>1. /\ Observes /\ Ticks /\ s.runs < MaxRuns
        /\ tick' = [at |-> IF s.phase = "AMEND" THEN "amending" ELSE "reviewing", cand |-> Now]
        /\ agents' = agents \cup {s.runs + 1} /\ started' = started + 1
        /\ UNCHANGED <<draft, drafter, remote, looked>>
    BY <1>22 DEF TickStarts, Observes
  <2>2. CASE s.phase = "AMEND" /\ loop' = [s EXCEPT !.runs = @ + 1, !.inflight = s.runs + 1, !.cycles = @ + 1]
    BY <2>1, <2>2, SeenKeeps DEF Observes, Ticks, Untouched
  <2>3. CASE s.phase = "REVIEW" /\ loop' = [s EXCEPT !.runs = @ + 1, !.inflight = s.runs + 1, !.cycles = @]
    BY <2>1, <2>3, SeenKeeps DEF Observes, Ticks, Untouched
  <2> QED
    BY <1>22, <2>2, <2>3 DEF TickStarts
<1>23. ASSUME NEW verdict \in Verdict, NEW F \in SUBSET Finding, ReviewReturns(verdict, F) PROVE OnRecord'
  BY <1>23 DEF ReviewReturns, Returned, NextPhase
<1>24. ASSUME AmendPushes PROVE OnRecord'
  BY <1>24 DEF AmendPushes, Returned
<1>25. ASSUME NEW evidence \in BOOLEAN, AmendReturns(evidence) PROVE OnRecord'
  BY <1>25 DEF AmendReturns, Again
<1>26. ASSUME RunFails PROVE OnRecord'
  BY <1>26 DEF RunFails, Paused
<1>27. ASSUME TickDies PROVE OnRecord'
  BY <1>27 DEF TickDies
<1>28. ASSUME Pause PROVE OnRecord'
  BY <1>28 DEF Pause, Paused
<1>29. ASSUME Look PROVE OnRecord'
  BY <1>29 DEF Look
<1>30. ASSUME Resume PROVE OnRecord'
  BY <1>30 DEF Resume, Resumes, Reconciled, Again
<1>31. ASSUME ExtendOneCycle PROVE OnRecord'
  BY <1>31 DEF ExtendOneCycle, Disposes, Resumes, Reconciled, Again
<1>32. ASSUME MergeWithNotes PROVE OnRecord'
  BY <1>32 DEF MergeWithNotes, Disposes, Resumes, Reconciled
<1>33. ASSUME Park PROVE OnRecord'
  BY <1>33 DEF Park, Disposes, Resumes, Reconciled, Paused
<1>34. ASSUME Rescope PROVE OnRecord'
  BY <1>34 DEF Rescope, Disposes, Resumes, Reconciled
<1>35. ASSUME NEW p \in flight, PushEnds(p) PROVE OnRecord'
  BY <1>35 DEF PushEnds
<1>36. ASSUME CreationEnds PROVE OnRecord'
  BY <1>36 DEF CreationEnds
<1>37. ASSUME HostMoves PROVE OnRecord'
  BY <1>37 DEF HostMoves
<1>38. ASSUME NEW r \in agents, AgentEnds(r) PROVE OnRecord'
  BY <1>38 DEF AgentEnds
<1>39. CASE UNCHANGED loopVars
  BY <1>39 DEF loopVars
<1> HIDE DEF LoopInv, LoopTypeOK, Untried, Drafting, Ticking, Commits, OnRecord, LoopRecord, DraftRecord,
          DrafterRecord, TickRecord, HostRecord, PushRecord,
          Now, Lock, FreeLock, Idle, At, Goes, Enrolled, Reserved, store, processes, remote, Written
<1> QED
  BY <1>1, <1>2, <1>3, <1>4, <1>5, <1>6, <1>7, <1>8, <1>9, <1>10, <1>11, <1>12, <1>13, <1>14,
     <1>15, <1>16, <1>17, <1>18, <1>19, <1>20, <1>21, <1>22, <1>23, <1>24, <1>25, <1>26, <1>27,
     <1>28, <1>29, <1>30, <1>31, <1>32, <1>33, <1>34, <1>35, <1>36, <1>37, <1>38, <1>39
     DEF LoopNext

\* A candidate comes to wait for CI by an approval or by an owner's disposition.
LEMMA LoopKeepsCarried ==
  ASSUME LoopInv, [LoopNext]_loopVars
  PROVE  Carried'
<1> USE LoopSets, CandidateFacts DEF LoopInv, LoopTypeOK, Ticking, Carried, LoopRecord, DraftRecord,
          DrafterRecord, TickRecord, HostRecord, PushRecord,
          Now, Lock, FreeLock, Idle, At, Goes, Enrolled, Reserved, store, processes, remote
<1>1. ASSUME Reserve PROVE Carried'
  BY <1>1 DEF Reserve
<1>2. ASSUME RetryWithWorker PROVE Carried'
  BY <1>2 DEF RetryWithWorker, Replay
<1>3. ASSUME RetryPublication PROVE Carried'
  BY <1>3 DEF RetryPublication, Replay
<1>4. ASSUME RecordReceipt PROVE Carried'
  BY <1>4 DEF RecordReceipt
<1>5. ASSUME RecordPublication PROVE Carried'
  BY <1>5 DEF RecordPublication
<1>6. ASSUME Push PROVE Carried'
  BY <1>6 DEF Push
<1>7. ASSUME ConfirmPublication PROVE Carried'
  BY <1>7 DEF ConfirmPublication
<1>8. ASSUME CreatePr PROVE Carried'
  BY <1>8 DEF CreatePr
<1>9. ASSUME BindPr PROVE Carried'
  BY <1>9 DEF BindPr
<1>10. ASSUME EnrollDraft PROVE Carried'
  BY <1>10 DEF EnrollDraft, Completes
<1>11. ASSUME DraftFails PROVE Carried'
  <2>1. ~At("idle") /\ drafter' = Idle /\ agents' \subseteq agents /\ UNCHANGED <<tick, started, remote, looked>>
    BY <1>11 DEF DraftFails
  <2>2. CASE loop.phase = "FIRST_DRAFT" /\ loop' = Paused(loop, "other") /\ draft' = [draft EXCEPT !.ready = FALSE]
    BY <2>1, <2>2 DEF Paused
  <2>3. CASE UNCHANGED store
    BY <2>1, <2>3
  <2> QED
    BY <1>11, <2>2, <2>3 DEF DraftFails
<1>12. ASSUME DraftDies PROVE Carried'
  BY <1>12 DEF DraftDies
<1>13. ASSUME ResumeDraft PROVE Carried'
  <2>1. CASE host.pr # "none" /\ Completes /\ draft' = [draft EXCEPT !.ready = FALSE, !.bound = TRUE]
    BY <1>13, <2>1 DEF ResumeDraft, Completes, Reconciled
  <2>2. CASE host.pr # "none" /\ Now = draft.pub /\ draft' = [draft EXCEPT !.bound = TRUE] /\ loop' = loop
    BY <1>13, <2>2 DEF ResumeDraft, Completes, Reconciled
  <2>3. CASE /\ host.pr = "none" /\ (draft.pub # NoCand => host.head \in {0, draft.pub.head})
            /\ loop' = [loop EXCEPT !.phase = "FIRST_DRAFT", !.reason = "other"]
            /\ draft' = [draft EXCEPT !.ready = TRUE, !.status = Inspected]
    BY <1>13, <2>3 DEF ResumeDraft, Inspected, Completes, Reconciled
  <2> QED
    BY <1>13, <2>1, <2>2, <2>3 DEF ResumeDraft
<1>14. ASSUME NEW known \in SUBSET Finding, EnrollExisting(known) PROVE Carried'
  BY <1>14 DEF EnrollExisting
<1>15. ASSUME TickFindsInflight PROVE Carried'
  BY <1>15 DEF TickFindsInflight, Paused
<1>16. ASSUME TickCloses PROVE Carried'
  BY <1>16 DEF TickCloses, Ticks, Untouched
<1>17. ASSUME NEW s \in Seen, TickFails(s) PROVE Carried'
  <2>1. CASE loop' = Paused(loop, "other")
    BY <1>17, <2>1 DEF TickFails, Ticks, Untouched, Paused
  <2>2. CASE loop' = Paused(s, "other")
    BY <1>17, <2>2, SeenKeeps DEF TickFails, Ticks, Untouched, Paused
  <2> QED
    BY <1>17, <2>1, <2>2 DEF TickFails
<1>18. ASSUME NEW s \in Seen, CiPasses(s) PROVE Carried'
  BY <1>18, SeenKeeps DEF CiPasses, Observes, Ticks, Untouched, Reviewed
<1>19. ASSUME NEW s \in Seen, CiIsPending(s) PROVE Carried'
  <2>1. CASE s.phase = "WAIT_CI" /\ loop' = [s EXCEPT !.waits = @ + 1]
    BY <1>19, <2>1, SeenKeeps DEF CiIsPending, Observes, Ticks
  <2>2. CASE s.phase = "WAIT_CI" /\ loop' = Paused([s EXCEPT !.waits = @ + 1], "other")
    BY <1>19, <2>2, SeenKeeps DEF CiIsPending, Observes, Ticks, Untouched, Paused
  <2>3. CASE s.phase = "READY" /\ loop' = [s EXCEPT !.phase = "WAIT_CI", !.waits = 0]
    BY <1>19, <2>3, SeenKeeps DEF CiIsPending, Observes, Ticks
  <2> QED
    BY <1>19, <2>1, <2>2, <2>3 DEF CiIsPending, Waited
<1>20. ASSUME NEW s \in Seen, CiFails(s) PROVE Carried'
  <2>1. CASE s.phase = "WAIT_CI" /\ loop' = [s EXCEPT !.phase = "AMEND", !.open = @ \cup {CiFinding}, !.last = NoReview, !.reason = "other"]
    BY <1>20, <2>1, SeenKeeps DEF CiFails, Observes, Ticks
  <2>2. CASE s.phase = "READY" /\ loop' = [s EXCEPT !.phase = "WAIT_CI", !.waits = 0]
    BY <1>20, <2>2, SeenKeeps DEF CiFails, Observes, Ticks
  <2> QED
    BY <1>20, <2>1, <2>2 DEF CiFails
<1>21. ASSUME NEW s \in Seen, TickReachesCap(s) PROVE Carried'
  BY <1>21, SeenKeeps DEF TickReachesCap, Observes, Ticks, Untouched, Paused
<1>22. ASSUME NEW s \in Seen, TickStarts(s) PROVE Carried'
  <2>1. /\ Observes /\ Ticks /\ s.runs < MaxRuns
        /\ tick' = [at |-> IF s.phase = "AMEND" THEN "amending" ELSE "reviewing", cand |-> Now]
        /\ agents' = agents \cup {s.runs + 1} /\ started' = started + 1
        /\ UNCHANGED <<draft, drafter, remote, looked>>
    BY <1>22 DEF TickStarts, Observes
  <2>2. CASE s.phase = "AMEND" /\ loop' = [s EXCEPT !.runs = @ + 1, !.inflight = s.runs + 1, !.cycles = @ + 1]
    BY <2>1, <2>2, SeenKeeps DEF Observes, Ticks, Untouched
  <2>3. CASE s.phase = "REVIEW" /\ loop' = [s EXCEPT !.runs = @ + 1, !.inflight = s.runs + 1, !.cycles = @]
    BY <2>1, <2>3, SeenKeeps DEF Observes, Ticks, Untouched
  <2> QED
    BY <1>22, <2>2, <2>3 DEF TickStarts
<1>23. ASSUME NEW verdict \in Verdict, NEW F \in SUBSET Finding, ReviewReturns(verdict, F) PROVE Carried'
  BY <1>23 DEF ReviewReturns, Returned, NextPhase
<1>24. ASSUME AmendPushes PROVE Carried'
  BY <1>24 DEF AmendPushes, Returned
<1>25. ASSUME NEW evidence \in BOOLEAN, AmendReturns(evidence) PROVE Carried'
  BY <1>25 DEF AmendReturns, Again
<1>26. ASSUME RunFails PROVE Carried'
  BY <1>26 DEF RunFails, Paused
<1>27. ASSUME TickDies PROVE Carried'
  BY <1>27 DEF TickDies
<1>28. ASSUME Pause PROVE Carried'
  BY <1>28 DEF Pause, Paused
<1>29. ASSUME Look PROVE Carried'
  BY <1>29 DEF Look
<1>30. ASSUME Resume PROVE Carried'
  BY <1>30 DEF Resume, Resumes, Reconciled, Again
<1>31. ASSUME ExtendOneCycle PROVE Carried'
  BY <1>31 DEF ExtendOneCycle, Disposes, Resumes, Reconciled, Again
<1>32. ASSUME MergeWithNotes PROVE Carried'
  BY <1>32 DEF MergeWithNotes, Disposes, Resumes, Reconciled
<1>33. ASSUME Park PROVE Carried'
  BY <1>33 DEF Park, Disposes, Resumes, Reconciled, Paused
<1>34. ASSUME Rescope PROVE Carried'
  BY <1>34 DEF Rescope, Disposes, Resumes, Reconciled
<1>35. ASSUME NEW p \in flight, PushEnds(p) PROVE Carried'
  BY <1>35 DEF PushEnds
<1>36. ASSUME CreationEnds PROVE Carried'
  BY <1>36 DEF CreationEnds
<1>37. ASSUME HostMoves PROVE Carried'
  BY <1>37 DEF HostMoves
<1>38. ASSUME NEW r \in agents, AgentEnds(r) PROVE Carried'
  BY <1>38 DEF AgentEnds
<1>39. CASE UNCHANGED loopVars
  BY <1>39 DEF loopVars
<1> HIDE DEF LoopInv, LoopTypeOK, Ticking, Carried, LoopRecord, DraftRecord,
          DrafterRecord, TickRecord, HostRecord, PushRecord,
          Now, Lock, FreeLock, Idle, At, Goes, Enrolled, Reserved, store, processes, remote
<1> QED
  BY <1>1, <1>2, <1>3, <1>4, <1>5, <1>6, <1>7, <1>8, <1>9, <1>10, <1>11, <1>12, <1>13, <1>14,
     <1>15, <1>16, <1>17, <1>18, <1>19, <1>20, <1>21, <1>22, <1>23, <1>24, <1>25, <1>26, <1>27,
     <1>28, <1>29, <1>30, <1>31, <1>32, <1>33, <1>34, <1>35, <1>36, <1>37, <1>38, <1>39
     DEF LoopNext

\* Every action of the loop keeps its invariant.
LEMMA LoopStep == LoopInv /\ [LoopNext]_loopVars => LoopInv'
BY LoopKeepsTypes, LoopKeepsWaits, LoopKeepsUntried, LoopKeepsCharged, LoopKeepsDrafting, LoopKeepsTicking, LoopKeepsCommits,
   LoopKeepsOnRecord, LoopKeepsCarried DEF LoopInv

LEMMA LoopInvariant == LoopSpec => []LoopInv
BY LoopStarts, LoopStep, PTL DEF LoopSpec

\* Whatever crashes, moves of the branch and resumes came between, a candidate the loop
\* reports as ready was reviewed as it stands, and its owner carries what is open.
THEOREM ReadyIsReviewedHolds == LoopSpec => []ReadyIsReviewed
<1>1. LoopInv => ReadyIsReviewed
  BY DEF LoopInv, Carried, ReadyIsReviewed
<1> QED
  BY <1>1, LoopInvariant, PTL

\* One agent at most, and each was charged to the budget before it was started.
THEOREM AgentsAreAccountedHolds == LoopSpec => []AgentsAreAccounted
<1>1. LoopInv => AgentsAreAccounted
  <2> SUFFICES ASSUME LoopInv PROVE AgentsAreAccounted
    OBVIOUS
  <2>1. agents = {} \/ agents = {loop.runs}
    BY DEF LoopInv, Charged
  <2>2. Cardinality({loop.runs}) = 1 /\ Cardinality({}) = 0
    BY FS_EmptySet, FS_Singleton
  <2>3. started <= loop.runs
    BY DEF LoopInv, Charged
  <2>4. loop.runs <= MaxRuns
    BY LoopAssumption DEF LoopInv, LoopTypeOK, LoopRecord, Runs
  <2> QED
    BY <2>1, <2>2, <2>3, <2>4 DEF AgentsAreAccounted
<1> QED
  BY <1>1, LoopInvariant, PTL

\* Until a first draft is enrolled, the provider shows of it only what is on record.
THEOREM PublishedIsRecordedHolds == LoopSpec => []PublishedIsRecorded
<1>1. LoopInv => PublishedIsRecorded
  BY DEF LoopInv, OnRecord, PublishedIsRecorded
<1> QED
  BY <1>1, LoopInvariant, PTL

-----------------------------------------------------------------------------
(* The two together.                                                       *)

\* Neither record leaves its type, whichever of the two moves.
THEOREM HostTypeCorrect == MCSpec => []HostTypeOK
<1> DEFINE Inv == LoopInv /\ HandoffInv
<1>1. MCInit => Inv
  BY LoopStarts, HandoffStarts DEF MCInit
<1>2. Inv /\ [MCNext]_<<loopVars, handoffVars, facet>> => Inv'
  <2>1. [MCNext]_<<loopVars, handoffVars, facet>> => [LoopNext]_loopVars /\ [HandoffNext]_handoffVars
    BY DEF MCNext
  <2> QED
    BY <2>1, LoopStep, HandoffStep
<1>3. Inv => HostTypeOK
  BY DEF LoopInv, HandoffInv, HostTypeOK
<1> QED
  BY <1>1, <1>2, <1>3, PTL DEF MCSpec

=============================================================================
