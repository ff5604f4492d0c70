# A TLA+ model of the agentic workflow framework

This directory holds TLA+ modules, TLC configurations and TLAPS proofs about the
program under `src/.agentic`: the continuous controller that schedules tickets onto
streams and launches agent sessions, and the stores, queues and ledgers around it.
Paths below are relative to `src/.agentic/lib/agentic/` unless they start with another
directory; CC stands for `continuous_controller.py`.

Contents: [the system](#1-the-system), [the modules](#2-the-modules),
[dispatch](#3-dispatch), [planning journal](#4-planning-journal), [coordinator store
and tickets](#5-coordinator-store-and-ticket-lifecycle), [overlap
synchronisation](#6-overlap-synchronisation), [Jira lifecycle](#7-jira-lifecycle),
[integration queue](#8-integration-queue), [heavy validation](#9-heavy-validation),
[review completion](#10-review-completion), [review loop and owner
publication](#11-review-loop-and-owner-publication), [what is
proved](#12-what-is-proved), [findings](#13-findings),
[observations](#14-observations), [what is not modelled](#15-what-is-not-modelled).

## 1. The system

A host runs `python3 .agentic/scripts/continuous_controller.py` again and again. Each
run is one *production cycle* (`run_host_adapter_cycle`, CC 3471-3697): read the work
inventory through a host adapter, keep a durable plan, put tickets on streams, launch
one agent session per working stream, observe the launches whose outcome is open,
report. All durable state lives in two SQLite databases, a few journal files, Git and
the providers (Jira, GitHub). Nothing in the code excludes two controller processes on
one store; what they share is the databases. The other components are libraries and
command-line programs that a cycle, an agent or an operator calls.

### Components

For each component: the state it keeps, its operations, who it interacts with, what
makes it hard, and what makes it correct.

**Dispatch ledger and scheduler** (`ControllerStore` of CC). State: `stream_status`
(one row per stream), `controller_dispatch` (an intent per stream, ticket and exact
tuple, with status PENDING, IN_FLIGHT, UNKNOWN, LAUNCHED, TERMINAL or CANCELLED),
`controller_replan_seal`, `controller_meta` (last inventory, revision, last digested
revision). Operations: `recover_dispatches`, `seal_round_boundary_replan`, `schedule`,
`prepare_dispatches`, `begin_dispatch`, `finish_dispatch`,
`begin_dispatch_reconciliation`, `mark_dispatch_unknown`, `cancel_pending_dispatch`,
each one `BEGIN IMMEDIATE` transaction. Hard: crashes between a claim and its receipt,
stale snapshots, two cycles, a round that changes while launches are open, sealed
replans. Correct when: one ticket is on one stream; an uncertain launch is observed
before anything is retried; the ledger agrees with the host; a round with open
dispatches changes only under a matching owner seal; every visible change is reported;
capacity holds; nothing stays claimed for ever.

**Production controller cycle** (CC 3471-3697, `scripts/continuous_controller.py`).
State: locals of one process. Calls everything else in a fixed order with early exits;
catches exceptions of a single dispatch and of single observations, and lets all
others end the cycle. Hard: which reads are stale when they are used.

**Host adapter and launched sessions** (`adapters/reference_controller_adapter.py`,
`child_process.py`). State: a durable run record per dispatch and a detached process
with a completion proof. Operations: `dispatch_ticket`, `observe_dispatch`,
`_SubprocessRunner.launch/observe`, plus read-only observations of Jira, GitHub,
resources and capacity. The detached session outlives its controller. Correct when:
one dispatch identity has at most one process, and TERMINAL is reported only on a
proved clean end.

**Planning journal** (`plan_production_cycle`, CC 733-856, on top of the `Store` of
`store.py`). State: one JSON document in `controller_meta` (last observed inputs,
pending events, seen sources, owner override chain, the candidate plan) and the
append-only plan history in the coordinator database. Operations: observe and stage
events, seal a candidate, append it, acknowledge it, prune. Hard: two databases, a
crash between any two writes, a journal that is read outside the transaction that
saves it, an eviction window. Correct when: every accepted event stays due until a
plan covers it, a plan is durable before anything is admitted under it, the plan used
is computed from the inputs just read, the owner chain only grows.

**Coordinator store** (`store.py`, `lifecycle.py`). State: control generation and
mode, requests, operations, leases with fencing tokens, budgets, ownership, ticket
revisions. Operations: `control`; `enqueue`, `begin_simulated_operation`,
`reconcile_operation`, `recover_inflight`; `register_request`, `consume_request`,
`revoke_request`; `acquire_lease`, `check_lease`, `release_lease`; `reserve_budget`,
`settle_budget`; `claim_issue`; `advance`. In the repository only tests call most of
it. Correct when: a paused or restarted generation starts nothing, a request is
consumed once, an old fence is never accepted, reserved plus settled amounts stay
within limits.

**Status outbox** (CC 1544-1590, adapter 1338-1370). State: revision, last digest,
delivery identity and a file of delivered digests. Hard: delivery and acknowledgement
are separate; the host clock may step back. Correct when: every change is delivered at
least once and the same digest never twice.

**Jira lifecycle** (CC 1795-2290, `jira_lifecycle.py`). State: a claim per transition
with attempt and owner. Claim, send, read back; takeover of a claim whose process
died. Correct when: a transition is sent at most once per claim and an uncertain one
is settled only by an observation.

**Overlap allowances and synchronisation gates** (CC 860-1280). State: owner
allowances with expiry, a gate per overlapping pair. Correct when: two streams write
one path only under a live allowance whose gate has been synchronised.

**Integration queue** (`integration_queue.py`, `integration_build.py`). State: a FIFO
of heads with review and validation evidence, a quarantine, a front clock. Operations:
admit, eject with dependants, reorder, merge and retarget, all under a file lock.
Correct when: what merges is what was reviewed and was proved green on the base it
merges into, and a failing head takes its dependants with it.

**Merge train** (`merge_train.py`). State: frozen generations, a publication journal.
Correct when: a generation is published once, and a failed source is rebuilt without.

**Heavy validation** (`heavy_validation*.py`). State: lease files with fences and a
quarantine. Correct when: capacity is freed only after the process tree is gone.

**Model routing ledger** (`model_routing.py`). State: reservations of runs under retry
ceilings. Correct when: a ceiling counts runs whose settlement was lost.

**Review completion and review loop** (`review_completion.py`, `review_loop.py`,
`review_first_draft.py`). State: frozen reviewer sets, submission outcome, phases of a
draft with a bounded number of amendments. Correct when: a submission with an
uncertain outcome is never sent again, and a crash with a run in flight stops the
loop.

**Owner publication** (`owner_publication.py`). State: a batch journal of pushes and
draft pull requests. Correct when: nothing is created twice and a partly uncertain
batch is looked up before it is continued.

**Lane planning** (`planning.py`, `planning_graph.py`). No state. Ranks tickets and
splits them into lanes without shared paths.

The rest keeps no state that interleaves: stream launch preparation (`streams.py`,
`launch_surfaces.py`), publication checks (`publication.py`,
`publication_readiness.py`, `release_trust.py`), installer and upgrade (journalled
file replacement), gates and authorization (pure decisions), intake assignment,
external resources and host preflight, status reports, configuration and provenance,
provider clients, closeout and handoff, file and Git helpers. `PROJECT.json` lists
every component with its status, and every hazard with the line where it bites and the
properties aimed at it.

### How the components interact

    scripts/continuous_controller.py
        |  one cycle at a time, or several processes
        v
    run_host_adapter_cycle --reads--> host adapter --> Jira, GitHub, Git, host
        |        |        |                 |
        |        |        |                 +--> detached agent sessions
        |        |        +--> ControllerStore (dispatch ledger, seals, outbox,
        |        |             Jira claims, overlap gates, planning journal)
        |        +-----------> Store (plan history, requests, leases, budgets)
        +--------------------> heavy validation, publication readiness

A merged ticket leaves the inventory through the integration queue and the merge
train, which share only Git and GitHub with the controller.

## 2. The modules

| module | models | composed in | proofs |
|---|---|---|---|
| `Dispatch` | ledger, cycle, host runs | `MCDispatch`, `MCDispatchStreams` | `DispatchProofs` |
| `PlanLedger` | what the planning journal promises | refined by `PlanningJournal` | |
| `PlanningJournal` | the plan a cycle uses, over two databases | `MCPlanningJournal` | `PlanningJournalProofs` |
| `CoordinatorStore` | generations, operations, leases, requests, budgets | `MCCoordinator` | `CoordinatorStoreProofs` |
| `TicketLifecycle` | the ticket state machine and its callers | `MCCoordinator` | `CoordinatorProofs` |
| `OverlapSync` | allowances, gates, the sync writer | `MCCoordinator` | `OverlapSyncProofs` |
| `JiraLifecycle` | the transitions of a ticket | `MCCoordinator` | `JiraLifecycleProofs` |
| `IntegrationQueue` | the queue in front of the target branch | `MCIntegration` | `IntegrationProofs` |
| `HeavyValidation` | capacity leases and process trees | `MCIntegration` | `IntegrationProofs` |
| `ReviewCompletion` | reviewer sets and the submission | `MCIntegration` | `IntegrationProofs` |
| `ReviewLoop` | first draft, ticks, dispositions | `MCHostRecords` | `HostRecordsProofs` |
| `OwnerPublication` | the owner's batches of draft pull requests | `MCHostRecords` | `HostRecordsProofs` |

Not written: `StatusOutbox` (delivery is a file named after the digest, so a
repetition is the same write), `MergeTrain` (documents checked against each other by
one process), `RoutingLedger` (the reservation pattern of `CoordinatorStore` with more
classes of cost) and the installer (section 15).

Three MC modules compose components that share no state but stand for one part of a
ticket's life. Each behaviour picks one of them with a variable (`facet`, or `table`
in `MCCoordinator`) that never changes; the components beside it stand still. This
checks every component as if in a run of its own, and the composition's type invariant
is proved for `MCSpec` itself. The other theorems are about each component's own
specification. The runs have 563,000 (`coordinator`), 388,000 (`integration`) and
820,000 states (`host_records`) and take one to two minutes each. They check safety
only: the operations of these stores are called by somebody, and nothing says that
they are called again.

Instances stay small: two tickets, two streams, two candidates, one or two processes.
Every parameter is a CONSTANT, with a named assumption where a proof needs one, and no
module uses a recursive operator, so that invariants can be proved for every value of
the parameters. Sums (spend, capacity) are written as cardinalities of sets of units:
the provers have no induction for a recursive sum, but they have the library's facts
about finite sets.

## 3. Dispatch

### What is modelled

`Dispatch.tla` is the dispatch ledger, the production cycle that drives it, and what
the host does with a launch.

| state in the code | variable |
|---|---|
| `stream_status` rows | `rows[s]`: state, ticket, exact tuple, and `why`, the dispatch an UNKNOWN block is waiting for |
| `controller_dispatch.status` | `status[i]` ("ABSENT" before the intent exists) |
| `payload._stream_before_unknown` | `saved[i]` |
| `controller_meta.last_inventory_sha256` | `lastInv` |
| `controller_replan_seal` | `seals`, a sequence of records with the next inventory, the bound dispatch statuses and the successor intents |
| `revision > last_digest_revision` | `revised` |
| run record and process of a launch | `run[i]`: NONE, PREPARED, LIVE, COMPLETED, FAILED |
| locals of `run_host_adapter_cycle` | `pc`, `view`, `admit`, `todo`, `cur`, per cycle |

| action | code |
|---|---|
| `RecoverDispatches` | `recover_dispatches`, then the inventory read |
| `SealRoundBoundaryReplan` | the sealing path of `seal_round_boundary_replan` |
| `ReadCancellationBoundary`, `ReadRoundBoundary` | the two calls of `round_boundary_ready` |
| `Schedule` | `schedule` with `_schedule`, the seal consumption and the successor intents |
| `ListCancellations`, `CancelDisabled` | cancelling what a switched-off ticket has pending |
| `PrepareDispatches` | `prepare_dispatches` and the sorted list of operations |
| `BeginDispatch`, `WriteRecord`, `Launch`, `FinishDispatch`, `DispatchFails` | claim, run record, process, receipt, and every exception on the way |
| `BeginDispatchReconciliation`, `ReconcileDispatch` | observation with its nonce |
| `CancelPendingDispatch`, `RefuseSkillSelection`, `OperationFails` | the other operations of the dispatch loop |
| `Report` | digest, delivery and acknowledgement |
| `Crash`, `SessionEnds` | the process dies or an uncaught exception ends the cycle; the detached session ends |

The two passes of `_schedule` over the streams are stated by the result they leave
(`IsKept`, `IsPick`), not as loops: which streams keep their ticket, which ticket each
other stream takes and whether it starts it. Capacity, paths, reservations of open
intents and unknown outcomes enter as in the code.

### Abstractions

- An inventory is its digest and `Content` gives its tickets; a policy is what one
  cycle's switches, publication readiness, plan and reservation observations say. Both
  are chosen anew by each cycle.
- A dispatch identity is stream, ticket, exact tuple and a generation. The code draws
  a fresh nonce only after the earlier intent was cancelled; `MaxGen` bounds how
  often.
- Paths are the relation `Overlaps`. No overlap allowance is granted, so
  `bind_dispatch_waivers`, `confirm_dispatch_quiescence` and the refill after them do
  nothing here; they are in `OverlapSync`.
- The capacity is any number up to the observed lanes: the code takes the minimum of
  several observations.
- The owner's replan comment is read before the transaction that seals it; a mismatch
  in the transaction is a refusal that ends the cycle, which `Crash` covers, so only
  the accepted seal is an action.
- `PrepareDispatches` merges the code's second read of the pending intents with the
  transaction before it: between the two, only another cycle could act, and it can
  also act just after.
- Digest, delivery and acknowledgement are one action; they touch nothing of the
  ledger but `revised`.
- Tickets of equal rank are taken in any order.

### Runs

| run | instance | shows |
|---|---|---|
| `dispatch_streams` | two facets: one cycle, two streams, two tickets, three policies; or two cycles that compete for one place (`Narrow`); 854 000 states | the type invariant, one stream per ticket, agreement of ledger and host, an unknown outcome blocks its ticket, changes are revised |
| `dispatch_round` | one stream, two inventories (a ticket moves to its next candidate, the other is paused), one owner seal; 1.2 million states | a round with open dispatches gives way only to the sealed inventory; nothing is claimed outside the round; sessions stay within capacity |
| `dispatch_live` | one cycle, two generations, capacity 0 or 1; 18 000 states | claims settle, clean ends are read back |
| `one_writer_per_path`, `proof_is_accepted` | | findings, section 13 |

Why these bounds are enough for what they show: an ownership conflict takes two
streams and one ticket; a wrong pick takes two tickets and one stream; an outdated
seal takes one seal and two inventories; a stale receipt takes two cycles and one
dispatch. The two generations of `dispatch_live` let an intent be cancelled and
prepared again. Three tickets are used where a path conflict has to leave the third
one alone. `MaxSeals` bounds the owner's comments, `MaxGen` the generations and
`MaxCapacity` the capacity. `dispatch_streams` has one generation and no seal: that a
second generation keeps `OneStreamPerTicket`, and a sealed replan
`UnknownBlocksItsTicket`, is shown by their theorems, which hold for any number of both
(section 12); `SessionsWithinCapacity` is checked with a seal, in `dispatch_round`. The
nonce by which a receipt is refused if its observation is not the latest is in the
model, but no property depends on it: an older observation of a session that ended is
still true.

Three properties need their wording explained.

- `UnknownBlocksItsTicket` has an exception. When the owner seals a replan over an
  unknown launch, the consumed seal names that dispatch (`Replanned`), and the ticket
  may work again on its own stream while the old launch is still unknown. Without the
  exception the statement is false. With it, it holds for any number of cycles.
- `SessionsWithinCapacity` counts tickets with a live session, and allows a second
  session of one ticket only when one of the two was replanned. `Slots` charges
  tickets, so the successor of a replanned launch takes no place of its own: the host
  may run one process more than it has places, for one ticket.
- `LaunchWithinRound` and `SessionsWithinCapacity` are stated for one cycle
  (`OneController` in the theorems). With two they do not hold: the snapshot from
  which one cycle launches may be outdated by the other, and `begin_dispatch` looks at
  no stream row. Nothing in the code excludes a second cycle, and the code does not
  say that two are supported. The other invariants hold for any number.

### Fairness

`FairSpec` assumes that a cycle that can take its next step takes it (`WF` on `Step`):
a host that keeps starting the controller. Seals, skill refusals, crashes and the end
of a session are never forced. Reading back a clean end needs more: the loop may
observe dispatches in any order within a stream and each attempt may fail, so
`ProofsSettle` assumes strong fairness of starting an observation of a dispatch and of
accepting its receipt (an attempt that is made again and again is not refused for
ever), and holds only once crashes stop. `ClaimsSettle` needs no such condition: it
holds although cycles crash at any point.

## 4. Planning journal

### What is modelled

`PlanningJournal.tla` is `plan_production_cycle` (CC 749-855) with the reading,
encoding, eviction and repair of the journal it keeps (CC 78-180, 733-744).
`PlanLedger.tla` is what it promises: accepted events stay due until the one append of
a plan that covers some of them, and nothing is recorded twice.

| state in the code | variable |
|---|---|
| `controller_meta.production_planning` | `journal`: `seq` (`cycle_sequence`), `pending`, `seen` (age per source), `chain` (`overrides.planning_override_history`), `cand` (`candidate` with `candidate_observation` and `candidate_source_ids`), `obs` (`observation`) |
| `planning_history` of the coordinator database | `history` |
| `now` | `clock`, and `view[c].at` for the cycle that read it |
| the local `state` of a cycle | `st[c]` |
| what the cycle observed, and the record it returned | `view[c]` |

| action | code |
|---|---|
| `ReadJournal` | `production_planning_state` and the staging of events and inputs in memory, with its refusals (CC 757-793) |
| `SaveObserved`, `SaveInsideRound` | the first save; away from a round boundary the cycle ends there (CC 794-796) |
| `SealCandidate` | the late derived event, `recompute_plan` and the save of the candidate (CC 815-841) |
| `AppendCandidate` | the check against the history and the append in the other database (CC 800-805, 842-846) |
| `AcknowledgeCandidate` | observation, queue and candidate updated and saved (CC 806-814, 847-851) |
| `ReturnPlan` | `current_plan` (CC 852-855) |
| `Prune` | `prune_production_planning_state` (CC 142-180) |
| `Crash` | the process dies, or any refusal raises, between two transactions |

### Abstractions

- `Input` is everything the input fingerprint covers but the owner chain: backlog,
  configuration, resources, operating snapshot, allowances. A plan is its inputs, its
  trigger and its time: `recompute_plan` is a function of these.
- The queue is a set of events with positions. Events staged by one cycle share a
  position, so every order the provider may choose is covered; only the grouping by
  trigger, the head of the queue and the earlier format depend on the order.
- A source has one trigger and one chain. A source that comes back with changed bytes
  is refused before anything is saved (CC 767), which is a read without a save, so it
  is not an action.
- The byte ceilings are not computed. A document over its ceiling is a refusal of the
  save, which `Crash` covers; the repair may forget any set of sources that are not
  pending, a superset of what the byte count asks for.
- `planning_history` and `append_plan_record` are one action: the history is
  append-only, so a record that appears between the two is refused by the second.
- `Init` is a new store, or one of the earlier format with a candidate that has
  neither observation nor sources and is recorded or not yet (CC 807, 811).

### Properties and runs

| run | instance | checks |
|---|---|---|
| `planning_journal` | one cycle, two inputs, three events (two owner decisions that extend each other), window and retention 2, three saves, clock up to 3 | `TypeOK`, `PlanIsCurrent`, `OwnerChainGrows`, `PlanningEnds`, `ReportedIsRemembered`, `ImplementsPlanLedger` |
| `planning_overlap` | two cycles, one owner decision | `OwnerChainGrows` is violated (section 13) |
| `planning_clock` | a clock that may stand still, inputs that alternate | `PlanIsCurrent` is violated (section 13) |

- `PlanIsCurrent`: the plan a cycle returns is made of exactly the inputs it read, and
  nothing accepted is unplanned. This is what makes admission by the plan sound.
- `OwnerChainGrows`: of two recorded plans, the later one never knows fewer owner
  decisions.
- `ReportedIsRemembered`: eviction at the retention limit forgets neither a pending
  source nor one the provider has just reported, unless these alone exceed the limit.
- `PlanningEnds`: the planning loop ends.
- `ImplementsPlanLedger`: with `due` the pending sources minus those of a recorded
  candidate, every step accepts events, records one new plan, or stutters. Replaying
  an append, acknowledging too much and losing an event between the two databases are
  steps the ledger does not have.

Bounds. Three saved cycles are enough for a candidate to be left behind by one cycle,
finished by the next under other inputs, and the result read by a third; three events
and a retention of two make the eviction choose; an owner chain of length two makes an
order within a batch matter. `MaxClock` does not cut behaviours short: it allows one
tick per saved cycle.

Assumptions of the passing run and of the theorems about behaviour
(`SingleController`): one controller process, and a clock that advances from one cycle
to the next (`MinTick > 0`). The first is the documented way to run the controller and
is not enforced here; the second is not documented. The two violation runs show what
each of them is needed for.

Fairness. `FairSpec` has weak fairness on the steps of each cycle: a cycle is one
thread that runs to its end unless it crashes, which stays possible at any point.
`PlanningEnds` counts a crash as an end.

## 5. Coordinator store and ticket lifecycle

`CoordinatorStore.tla` is the reference store (`store.py`), one transaction per
action; `TicketLifecycle.tla` is `transition` of `lifecycle.py` behind the revision
check of `advance`, with the callers that read a ticket and later advance it with what
they read.

| state in the code | variable |
|---|---|
| `meta`: mode, generation | `mode`, `generation` |
| tables `leases`, `operations`, `requests`, `reservations`, `ownership` | `leases` (the fencing token is the position), `operation`, `request`, `reservation`, `claim` |
| the time a caller passes | any `now \in 0..clock`: it was read before the write lock was taken |
| row of a ticket | `state`, `revision`, `known` (the registered head) |
| gate, owner authorization, merge permit | `gate`, `granted`, `permit` |
| pull request on the host | `head`, `merged` |
| what a caller has read and not used yet | `seen[c]` |

| action | code |
|---|---|
| `Control` | `control`: a change of mode ends the generation (`EndGeneration`) |
| `Enqueue`, `BeginOperation`, `ReconcileOperation`, `RecoverInflight` | `store.py` 321-369 |
| `RegisterRequest`, `ConsumeRequest`, `RevokeRequest` | `store.py` 371-406 |
| `AcquireLease`, `CheckLease` (a query), `ReleaseLease` | `store.py` 408-470 |
| `ReserveBudget`, `SettleBudget` | `store.py` 472-519; an overrun ends the generation |
| `ClaimIssue` | `claim_issue` |
| `Read`, `Advance` | a caller's observation, and `advance` with it at any later time |
| `Push`, `ExecutorMerge`, `RevokePermit`, `HumanMerge`, `Revert` | the host (external) |

The history variables `starts` and `spent` record how often an operation was handed
out and which authorization paid for which request.

`transition` trusts the facts it is given. Callers are modelled as truthful at the
time they read; facts that say nothing about the candidate are taken as given. The
hash chain of the event log (one append in every operation), ingest and backups are
left out.

What the run `coordinator` checks here:

- `HandedOutOnce`: an operation goes to its executor once and stays visible as in
  flight, uncertain or reconciled; an authorization event pays for one request.
- `OnlyTheCurrentActs`: nothing of an earlier generation can act, and of the leases of
  a task only the newest passes its check, whatever time its holder read.
- `NothingOvercommitted`: active leases stay within each capacity class; what a ticket
  and a day are charged stays within the limits, apart from what a run used beyond its
  own reservation. That such an overrun stops the store is part of `SettleBudget`; no
  property depends on it.
- `MergeIsAuthorized`: from gate to merge the ticket speaks of one head, and a merge
  that happened or can still happen is never outside the merging and merged states.

`NoLeaseRevival` and the parts of these conjunctions are theorems of their own.

Bounds. The tables meet only where a generation ends, so each behaviour fills one of
them next to the controls and one reservation. `MaxRevision = 4` cuts the ticket's
life; behaviours therefore also start under final review or with a passed gate
(`Further`), and nobody reads at the last revision. Owners, callers and writers are
symmetric. Deadlock is not checked: bounded tables fill up and tickets end.

## 6. Overlap synchronisation

`OverlapSync.tla` is one allowance from the owner's approval to the end of its gate
(CC 860-1262), the adapter's conflict observation and sync writer, the part of the
cycle that drives them (CC 3390-3556), and the dispatches of the two lanes.

| state in the code | variable |
|---|---|
| `controller_overlap_allowance.status`, approval over | `allowance`, `lapsed` |
| `controller_overlap_sync_gate.status` | `syncGate` |
| record file of the sync writer | `syncRecord` |
| mutations sent, and commits they made | `wire`, `sent`, `landed` |
| heads of the two pull requests | `branch` |
| dispatch, session, row, waivers of each lane | `launch`, `session`, `shown`, `waived`, `bound` |
| control and locals of a cycle | `at`, `local` |
| history: some cycle began while another ran | `overlapped` |

The actions follow the cycle: opening the store and recovery (`OpenStore`,
`StartCycle`, `Recover`), the allowance (`Register`, `RegisterExpired`, `Sweep`), the
gate (`ReadGates`, `ReconcileGate`, `ConfirmQuiescence`, `BothQuiescent`,
`ObserveConflict`, `DecideNoConflict`, `DecideConflict`), the writer (`PrepareRecord`,
`RecordInFlight`, `Send`, `Readback`, `WriterFails`, `FinishReceipt`, `ReceiptFails`),
the confirmation (`ConfirmAlready`, `RefreshSynced`, `ConfirmNew`) and the lanes
(`LaneStart`, `Schedule`, `Prepare`, `Begin`, `RunSession`, `Accept`, `LaunchFails`).
`Land`, `Drop`, `Lapse`, `PushBranch` and `SessionEnds` are the world. A ticket stays
on one stream, so a dispatch is a side and a head; the crossing of a round boundary
(section 3) is a choice a cycle may meet.

`SyncIsSafe`: at most one mutation is ever sent for a gate, none before a conflict was
decided, a synchronised gate has exactly one commit, for any number of cycles; and
while a synchronisation may be under way no session of either lane is alive, in
histories without overlapping cycles. `NoStartUnderGate`: in such histories no
dispatch of a lane begins under an unresolved gate, and none with a waiver after its
allowance ended.

Bounds. One commit per branch beyond the approved heads (`MaxHead = 1`) is what a gate
can tell apart. Two facets start at the expiry of the allowance (`AtExpiry`): `lanes`
has one cycle and both sessions alive, and only the synchronisation moves a branch;
`writers` has two cycles and pushes by others, and starts no lane.

## 7. Jira lifecycle

`JiraLifecycle.tla` is `production_jira_lifecycle` (CC 3740-3925) for one ticket, with
its journal, the two file locks, recovery, the owner's disposition, the check after
the merge, and the reference adapter's boundary file and request.

| state in the code | variable |
|---|---|
| `controller_jira_operation.status` | `journal[o]`; an intent is event, source status and run |
| `jira-not-attempted` marks | `unattempted` |
| boundary file of an attempt | `attempt[o]`: the length of the changelog it saw |
| requests on their way, requests ever sent | `underway`, `posted` |
| the ticket's changelog at the provider | `moves` |
| control and locals of an invocation; rows a recovery read | `step`, `job`, `rows` |

The actions are the steps of an invocation, in order: `ReadCurrentStatus`,
`NothingToRecover` or `BeginRecovery` and `SettleRecovered`, `PrepareJiraOperation`,
`BeginJiraOperation`, `OwnIssue` (or `StopUnattempted`), `PrepareTransition`, `Post`,
`FinishWrite` or `MarkUnknown`; `Ends` stops an invocation anywhere;
`ResolveJiraOperation` is the owner, `PostMergeConflict` the check after the merge;
`Arrive`, `GetLost` and `SomeoneMoves` are the provider. The operating system frees a
file lock when its holder ends, so both locks are held by position. The order in which
recovered rows are settled is a choice. With the reference adapter no read-back leaves
a sent operation FAILED, and its batch record never sends, so neither has an action.

`NoWriteOverUncertainty`: a transition is sent once, from an operation in flight, and
only while every other that was ever sent is proved or was abandoned by the owner.
`SuccessIsItsOwn`: unless the owner abandoned something, a success is in the changelog
because of its own request. `ResumableIsUnsent` (proved only): what may be tried again
was never sent.

Bounds. Two writers, two events, three statuses, three moves of which one is by
somebody else; work begins on a new or reopened ticket and is done from the middle
status. One run number is enough: a second intent of the same event and status would
be refused as a replay.

## 8. Integration queue

`IntegrationQueue.tla` is the store of `integration_queue.py`. Every operation is one
transaction that ends with a build of the queue it leaves and the ejection of the
first entry whose prefix fails (`InstallAndEject`), so each is one action.

| state in the code | variable |
|---|---|
| list of entries | `entry[p]`, and the relation `ahead` |
| `quarantined_entries`, `current_build`, `observed_commits` | `quarantined`, `build`, `owner` |
| `target_sha`, `consumed_instruction_ids`, `front_since`, closed | `target`, `used`, `frontSince`, `closed` |
| host: target tip, merges, final gates | `tip`, `merged`, `gate` |
| history: since when the front is the front | `arrived` |

Actions: `Admit`, `Conflict`, `HeadChanged`, `OwnerReorder`, `Remove`, `OwnerSkip`,
`MoveStalledFront`, `Rebuild`, `RetargetAfterMerge`, `Close`, and the world's
`Review`, `MergeFront`, `Push` and `Tick`. `Ready` is `integration_status`. It accepts
a gate for the target itself (`Accepts`); the gate of a review that a retarget kept
would be accepted through `KeptTarget`, which compares the fields an observation is
stored with (`Attestation`) with those its reader demands (`ClosedShape`). A gate is of
a pull request into the target branch, so one that is stacked on an unmerged branch
gets none until that has been merged (`IntoTarget`). Observations are of truthful
producers; a stale or unregistered receipt is a refusal.

`QueueIsSound`: the entries are in one order in which dependencies are admitted and
earlier; a recorded build is of the queue as it is; tickets and commits have one
owner. `FrontGetsItsTime`: a front's stall clock never starts before it is the front.
The violation run `review_survives` is a finding (section 13).

Bounds. Three pull requests, one of which may depend on two others, eight offers (with
a later head, a stolen commit, a stolen ticket). Stalls and instructions do not meet
merges, so facet `owner` has the clock and one instruction, facet `host` a target that
moves twice. `StallAfter = 1` makes every tick a stall. Deadlock is not checked: a
closed epic stops.

## 9. Heavy validation

`HeavyValidation.tla` is the lease broker (`heavy_validation_controller.py` 699-900)
and `run_validation` (`heavy_validation.py`): admission in parallel and then serially,
the launch gate of each child, attempts, retries, termination, quarantine, release,
and the end of a crashed run.

| state in the code | variable |
|---|---|
| leases of the state file, next fence | `broker`, `nextFence` |
| an invocation, its lease and parallelism, its cancel event | `run`, `fence`, `size`, `cancel` |
| thread and attempts of each partition | `worker`, `tries` |
| process tree on the host | `tree` |

A lease is marked with a quarantine when it is granted, and a marked lease never
lapses in state format 3: only its run after a proved cleanup, or `ReleaseQuarantined`
with evidence that the invocation and its trees have ended, frees it. That evidence is
assumed to be truthful. Capacity is the number of workers; the other classes are
counted alike.

`TreesWithinCapacity`: the live process trees of all runs, those of crashed runs and
failed cleanups included, never exceed the workers. Two runs with two partitions share
two workers; the second asks for one worker and does not retry.

## 10. Review completion

`ReviewCompletion.tla` is `review_completion.py`: `Freeze`, `DispatchReviewer`,
`RecordResult`, `ObserveMoved` (`status`), `RecoverSubmission` (`recover`),
`PrepareSubmission`, `Mutate`, `CompleteSubmission`, `MarkSubmissionUnknown`,
`ReconcileSubmission`, a submitter that dies at any point, and mutations that arrive
late or are lost. Variables: `cycles` (with the result of each reviewer), `bindings`
(dispatched, whose results may still come), `submitter`, and `sent`, `underway`,
`submissions` at the provider.

`SubmissionHoldsItsCycle`: a mutation that was sent was accepted by every required
reviewer under that cycle's own binding, and nothing replaces its cycle before the
provider shows it. Two cycles, two candidates, two reviewers and two submitters: a
late result or a late submission needs no more.

## 11. Review loop and owner publication

`ReviewLoop.tla` is `review_loop.py`, `review_first_draft.py` and the parts of
`github_review_host.py` they drive, for one pull request.

| state in the code | variable |
|---|---|
| the enrollment's record | `loop` |
| first draft: receipt, frozen publication, status | `draft` |
| the process running it; the tick under the writer lock | `drafter`, `tick` |
| agent processes, and how many were started | `agents`, `started` |
| pushes and the creation under way; branch, target, pull request | `flight`, `posting`, `host` |
| the snapshot an operator resumes with | `looked` |

Every operation of the store and every step of the first draft between two effects is
an action: reservation and its replays, receipt, frozen publication, push,
confirmation, creation, binding, enrollment, failure and `DraftDies`; the ticks with
CI, review, amendment, cap and `TickDies`; `Pause`, `Resume` and the four cap
dispositions. A commit is the number of the agent run that wrote it. A resume's
snapshot is taken before its transaction (`Look`). A run found in flight pauses the
loop; the operator who then resumes is assumed to have inspected the effects and left
no process behind, as `docs/22` asks ("Inspect effects, then resume").

- `HostTypeOK`: both records keep their types, and a wait for CI is bounded. A tick
  counts its wait before it compares the count with the budget, and saves it with the
  refusal (`Waited`), so the record of a loop may hold one wait more than
  `max_ci_wait_ticks`, but only of a loop that was paused for it (`WaitsAreBounded`).
- `ReadyIsReviewed`: what is reported ready was reviewed at this head and target, and
  what is still open was carried by a disposition and is of no boundary.
- `AgentsAreAccounted`: never two agents, and every started process was charged
  before.
- `PublishedIsRecorded`: until the enrollment the branch holds the frozen publication
  and no other of its own, and an existing pull request finds it recorded as pushed.

`OwnerPublication.tla` is `owner_publication.py`: `Prepare`, `RecordHeads`, `BeginPr`,
`CreateDraft`, `FinishPr`, `UncertainPr`, a resumer that ends at any point, the
owner's atomic push, and requests that succeed or are lost. `DraftRequestedOnce`: an
operation's draft is requested at most once, and two operations are never created for
one stream. The reviewed adapter creates only over the operation's exact head and the
provider has one pull request per branch; both are taken as given.

Run `host_records` (facets `loop` and `publication`; 820,000 states): three agent
runs, one amendment cycle, one extension, one move of the target, one tick of waiting
for CI; two batches of two streams with two resumers, the second batch with one
stream's work changed. Three runs are a first draft, a review and an amendment, or a
retry in place of any of them. Deadlock is not checked: closed enrollments and
finished batches stop.

## 12. What is proved

Every invariant and every action property that a passing run checks is also a theorem,
and so is the refinement of `PlanLedger`. Each theorem is for every value of the
constants under the module's named assumption; further hypotheses are stated with it.
Out of the prover's reach and only model-checked: the liveness properties
`ClaimsSettle`, `ProofsSettle` and `PlanningEnds`. The properties of the violation
runs are false.

### Dispatch (`DispatchProofs.tla`, from `ConstantsAssumption`)

| theorem | states | inductive invariant |
|---|---|---|
| `TypeCorrect`, `RowsAreLabelled` | `Spec => []TypeInv`, `Spec => []TypeOK` | `TypeInv`: `TypeOK`, and each program point has read what it uses (`LocalsRead`) |
| `OneStreamPerTicketHolds` | `Spec => []OneStreamPerTicket` | `StreamsInv` |
| `HostAndLedgerAgreeHolds` | `Spec => []HostAndLedgerAgree` | `HostInv` |
| `StatusChangeIsRevisedHolds` | `Spec => StatusChangeIsRevised` | `TypeInv` |
| `RoundAdvancesSealedHolds` | `Spec => RoundAdvancesSealed` | `NothingBeforeRound` |
| `UnknownBlocksItsTicketHolds` | `Spec => []UnknownBlocksItsTicket` | `ReplanInv` |
| `LaunchWithinRoundHolds` | `OneController` gives `Spec => LaunchWithinRound` | `WithinRound`, `LaunchesHaveRows` |
| `SessionsWithinCapacityHolds` | `OneController` gives `Spec => []SessionsWithinCapacity` | `LoadInv`, with all of the above |

Why the strengthenings are needed:

- `OneStreamPerTicket` speaks of intents only, but intents are created from WORKING
  rows. `StreamsInv` adds that a WORKING row has no open intent of its ticket on
  another stream (`WorkingOwns`), that two rows do not work on one ticket
  (`WorkingDistinct`), and that a generation is used only after the earlier ones were
  cancelled (`Generations`). The step that matters is `RescheduleInv`: what the two
  passes of the scheduler leave satisfies all of it, because reserved tickets
  (`Holders`) are skipped.
- `HostAndLedgerAgree` needs `ClaimsInv`: a cycle between its claim and its receipt is
  the only one that writes the run record of that dispatch, so a receipt is accepted
  only for a session that was started.
- `StatusChangeIsRevised`: each action either leaves rows and unknown outcomes as they
  are or sets `revised`.
- `RoundAdvancesSealed` needs that no intent exists before the first round
  (`NothingBeforeRound`), since a crossing is judged only against a known inventory.
- `ReplanInv` says of any number of cycles that an intent whose row has moved on, or
  that stands beside an open intent of the same ticket, got there by a consumed seal
  (`LeftByReplan`, `PairsByReplan`), and that an unknown outcome stopped its own row
  unless such a seal names it (`UnknownStops`). The steps of the store are first
  classified into seven kinds (`StoreStep`), so that each lemma has seven cases
  instead of twenty-five.
- `LaunchWithinRound` needs that rows at work, open dispatches and remembered rows are
  of the present round or sealed into it (`WorksInRound`, `OpenInRound`,
  `SavedInRound`), and that what a cycle has admitted, and later what it may still
  launch, keeps its row (`AdmittedHasRow`, `LaunchHasRow`). The last two fail with a
  second cycle.
- `SessionsWithinCapacity` is a counting argument. `Load` is the set of tickets that
  work or may still run, and `LoadInv` says that there are at most `MaxCapacity` of
  them. The scheduler charges the rows it keeps and the started intents whose rows
  moved on (`Slots`) and starts as many as are left; `ThreeCover` and `ChargedFits`
  bound the union of what was kept, charged and started, `InjectiveImages` turns
  streams into tickets.

### Planning journal (`PlanningJournalProofs.tla`)

From `JournalAssumption`:

| theorem | states | for |
|---|---|---|
| `TypeOKHolds` | `Spec => []TypeOK` | any number of cycles, any clock |
| `JournalCorrect` | `Spec => [](TypeInv /\ JournalInv)` | a single controller |
| `PlanIsCurrentHolds` | `Spec => []PlanIsCurrent` | a single controller |
| `OwnerChainGrowsHolds` | `Spec => []OwnerChainGrows` | a single controller |
| `ImplementsPlanLedgerHolds` | `Spec => ImplementsPlanLedger` | a single controller |
| `ReportedIsRememberedHolds` | `Spec => ReportedIsRemembered` | any number of cycles, any clock |

The inductive invariant `JournalInv` is a conjunction of

- `HistoryInv`: recorded plans are of the past and of chains the journal continues;
- `CandidateInv`: a retained candidate continues the history, covers pending events,
  and if it is recorded it is the newest plan. The last part is what makes
  a replayed append harmless;
- `ObservedInv`: without a candidate, the acknowledged observation is that of the
  newest plan, which is why an empty queue means that the newest plan is current;
- `CopyInv`: past its first save a cycle's copy is the journal, before it the copy
  differs by what was staged only. This fails with two cycles;
- `PlannedInv`: what this cycle recorded is not pending any more. Together with the
  clock it gives that a plan about to be sealed is not in the history, which is
  needed both for `PlanIsCurrent` and for the refinement, and which fails
  with a clock that stands still.

The refinement is proved step by step: the two saves and the seal are `Accept`, the
append of a plan that is not recorded is `Record`, and everything else leaves `Due`
and `history` unchanged; the acknowledgement does so because a recorded
candidate's sources have left `Due` already.

`ReportedIsRemembered` is a counting argument. `MemoryInv` says that pending sources
are remembered, that no memory is younger than the journal's sequence, and that what
a cycle has staged is exactly what its copy saw at that sequence. If eviction takes a
reported source, every source it leaves is at least as young, hence reported or
pending, and it leaves at least `Retain` of them (`EvictableGives`).

### Coordinator store (`CoordinatorStoreProofs.tla`, from `StoreAssumption`)

`HandedOutOnceHolds`, `OnlyTheCurrentActsHolds` and `NothingOvercommittedHolds`, with
their parts `OperationsStartOnce`, `AuthorizationsAreSpentOnce`,
`GenerationsAreClosed`, `OnlyNewestLease`, `SpendWithinLimitsHolds` and
`CapacityKeptHolds`; also `StoreTypeCorrect` and `NoLeaseComesBack`
(`NoLeaseRevival`).

- `StoreInv` holds the facts about single rows: what is active is of this generation,
  and starts and spent authorizations match the rows.
- `OneActive`: a task has at most one active lease, the newest. With it a lease of an
  earlier fence cannot pass its check, at whatever time the caller read.
- `SpendInv` adds to the statement that the unit sets are finite. A run is charged its
  estimate, or less once it is settled with less. A reservation adds units after a
  check that counts what was really used; settling replaces a run's units by a subset.
- `CapacityKept` is inductive: acquiring adds one unit per demanded class after the
  check, and every other step removes units.

### Tickets and the composition (`CoordinatorProofs.tla`)

`TicketTypeCorrect`, `GateBindsTheHead`, `NoMergeIsLost`, `MergesAreAuthorized`
(`MergeIsAuthorized`), and `CoordinatorTypeCorrect` for `MCSpec`. `TicketInv` adds to
the two statements that a permit is of the authorized head (`PermitIsTracked`) and
what a reading whose revision is still the ticket's says about the present
(`ReadingsHold`): this is what makes an `advance` with an old reading safe.

### Overlap synchronisation (`OverlapSyncProofs.tla`, from `SyncAssumption`)

`SyncIsExactHolds`, `OverlapTypeCorrect`, `QuietWhileSyncingHolds`, `SyncIsSafeHolds`,
`NoStartUnderGateHolds`. `SyncInv` relates gate, record, wire and commits for any
number of cycles. `CalmInv` is about histories without overlapping cycles: at most one
cycle is active, and at each of its program points it says what the cycle's snapshot
still says of gate, lanes and waivers.

### Jira lifecycle (`JiraLifecycleProofs.tla`, from `JiraAssumption`)

`JiraTypeCorrect`, `ResumableIsUnsentHolds`, `NoWriteOverUncertaintyHolds`,
`SuccessIsItsOwnHolds`. `JiraInv` says which operation each writer has and that none
is shared (`Busy`, `JobPlaces`), that only one writer is past the ticket's lock
(`OneWrites`), that nothing unsent has a trace (`Unsent`), that a request is under way
once and arrives once (`Once`), and that a success has been earned (`Earned`).

### Queue, validation and review completion (`IntegrationProofs.tla`)

| theorem | states | inductive invariant |
|---|---|---|
| `QueueTypeCorrect`, `DependenciesStayFirst`, `BuildsAreCurrent`, `IdentitiesAreOwned`, `QueueStaysSound`, `FrontsGetTheirTime` | the queue's type, `QueueIsSound` and its parts, `FrontGetsItsTime` | `QueueInv`: type, order, build, owners, and `Timed` (stall clock and arrival) |
| `TreesStayWithinCapacity` | `HeavySpec => []TreesWithinCapacity` | `HeavyInv`: fences are unique, a run's slots are in the broker, and `RunInv` for each run |
| `SubmissionsHoldTheirCycles` | `ReviewSpec => []SubmissionHoldsItsCycle` | `ReviewInv`: type, results are of dispatched bindings, and every prepared cycle is held |
| `DeliveryTypeCorrect` | `MCSpec => []DeliveryTypeOK` | the three together |

The queue's order lemmas say that moving an entry to the back with its dependants,
ejecting a closed set and removing a front keep an order (`IsOrder`). `RunInv` says,
per program point of a run, which of its trees can be alive and that its lease is in
the broker as long as one can; injecting live trees into slots gives the bound.

### Review loop and owner publication (`HostRecordsProofs.tla`)

`ReadyIsReviewedHolds`, `AgentsAreAccountedHolds`, `PublishedIsRecordedHolds` (from
`LoopAssumption`), `DraftRequestedOnceHolds`, and `HostTypeCorrect` for `MCSpec`.

- `LoopInv`: only an enrolled loop counts waits, and one that waited beyond its budget
  is paused or closed (`WaitsAreBounded`); what has not been tried has left no trace (`Untried`); the only agent is
  of the run charged last (`Charged`); what the first draft's process has done at each
  point (`Drafting`) and what a tick holds (`Ticking`); a commit was written by a
  charged run (`Commits`); the branch is on record (`OnRecord`); and what is open at
  the end was carried (`Carried`).
- `HandoffInv`: an operation in flight has one resumer between intent and request
  (`Requesting`), a request follows its intent (`Requested`), and a branch has one
  draft (`OneDraft`).

## 13. Findings

Each is a disagreement between a statement of the repository and what the code does,
shown by a run whose property is that statement.

- `one_writer_per_path`. `SPECIFICATION.md:9` asks for one writer per ticket and path.
  `_schedule` collects the held paths from the rows it keeps working (CC 1444-1452); a
  row blocked by an unknown launch contributes none, although its ticket and its
  capacity stay held. A ticket on the same path is launched on another stream while
  the first session may still be alive.
- `proof_is_accepted`. `_schedule` refreshes the remembered row of an unknown dispatch
  from whatever inventory it schedules (CC 1468). After a sealed change of candidate
  the remembered tuple no longer is the one of the dispatch; when the old inventory
  returns, the observation of the session's clean end is refused by
  `_restore_unknown_stream` (CC 1314) and its TERMINAL status rolled back, although
  the comment at CC 3618 promises that uncertain launches can still be observed.
- `planning_overlap`. The journal is read outside the transaction that replaces it
  (CC 733-744, 757). Of two overlapping cycles, the one that saves last puts back the
  owner chain it read, although `CC 777` refuses "Planning owner chain replay or
  rollback", and a plan without the owner's decision is recorded after the plan
  with it.
- `planning_clock`. A plan's identity contains its time. If the clock has not
  advanced and the inputs return to earlier ones, the plan is found in the history,
  is not appended, and the last record, made of other inputs, is returned, although
  the comment at CC 815 says that the plan of changed inputs is appended "before
  returning anything for admission".
- `review_survives`. `retarget_after_merge` stores with a kept review the attestation
  of its observation, which has eight fields, `registration_sha256` among them
  (`integration_queue.py` 682-691, 2397-2405). `_verify_retained_evidence` takes a
  stored observation of exactly the other seven (1124-1129), so `integration_status`
  refuses every kept review as "stored retarget observation has a non-closed shape".
  The design note (line 107) says that evidence is kept if the patch is unchanged, and
  the decision returned says `evidence_retained` true and `review_required` false. One
  test reads what is stored and never evaluates it; another evaluates an observation
  it wrote itself, with seven fields. In the run a pull request whose gate was
  accepted is removed, admitted again on top of another one, and loses its review when
  that one merges with its own patch unchanged.

## 14. Observations

Behaviour met while modelling that no document contradicts, but that a maintainer may
want to know.

Dispatch. A sealed replan may start a second session of one ticket beside its
uncertain first one, and keeps no place for it.

Tickets. `HEAD_CHANGED` while the review cap is reached returns to review without an
owner disposition. `HEAD_CHANGED` under an unknown merge, followed by
`NO_MERGE_CONFIRMED`, reaches final review without a review of the new head. A failed
or reopened ticket that is blocked and recovered bypasses the disposition its state
asks for. A second `claim_issue` of the same owner with an older time shortens its
claim.

Overlap synchronisation. One undecided cycle at a pending gate leaves BLOCKED rows at
the current heads, which `overlap_sync_quiescence` then counts as blockers because no
such dispatch is TERMINAL: the gate never becomes ready. A pending intent at expiry
behind a closed boundary waits for an owner's seal. A push after the approval makes
the conflict observation refuse for ever, and a synchronised gate whose heads move on
is never confirmed. A writer that fails before sending leaves an UNKNOWN that is never
reconciled. A leftover waiver row makes `begin_dispatch` refuse while the allowance is
not presented again. With overlapping cycles `QuietWhileSyncing` and
`NoStartUnderGate` do not hold.

Jira. An abandoned operation (HELD) is looked for at the start of an invocation only;
one abandoned between that check and the claim can still be written from another
status. `docs/34` tells operators to stop writers first. Two writers can stop each
other unattempted until a BLOCK.

Queue. A merged front cannot be recorded if the target moves between the host merge
and `retarget_after_merge`; a removal by the owner's instruction works around it. A
reorder whose new front is ejected restarts the old front's stall clock. If the two
shapes of section 13 agreed, `ReviewSurvives` would still fail in a rarer case: a
second retarget takes the review target from the first retention (2389-2391), even if
a gate was accepted on a newer target in between.

Heavy validation. A grant lost between the broker and its run holds capacity until
recovery evidence. Descendants that closed their pipes, or a leader that ends on the
exception path, are not seen by the runner. A keyboard interrupt evaluates only the
results collected so far.

Review completion. A required set can be reduced without a disposition by freezing
another candidate in between, although the docstring at 428-433 reads otherwise. The
second result of a reviewer that was dispatched twice spoils the first, and only a
moved status then ends the cycle.

Review loop and publication. `pause` has no phase guard, so a rescoped enrollment can
be paused and resumed. A target that moves after the publication makes the enrollment
refuse for ever. `MERGE_WITH_NOTES` may carry a BLOCKED verdict without an open
finding. A scheduled tick during a first draft pauses it. `complete_first_draft`
compares the reconciled run only while paused. A crash between `begin_pr` and the
create call leaves an operation in flight for ever, by design. Preparing again with a
fresh authorization makes a second batch for the same streams.

## 15. What is not modelled

`PROJECT.json` lists every component and why. In short: the status outbox, the merge
train and the routing ledger keep state, but one process writes it and its steps
repeat patterns that are modelled elsewhere (section 2); rendering, configuration,
provenance, gates and authorization are pure functions of documents; providers, Git
and files are I/O, whose answers enter the models as nondeterministic observations.
Most of the repository's lines are of this kind: the modules cover the code that keeps
state and acts on it, about a twelfth of all lines.

The installer is file-system work under a journal. Reading it for a model showed three
things worth a test: a rollback writes a file with mode 0600 and then restores its
mode, so a crash in between leaves bytes that the next rollback refuses as an external
edit; the `except Exception` that rolls back an install also covers the cleanup after
its commit, which the comment near line 1564 excludes; and a fresh install with a
partial runtime stage cannot be recovered.
