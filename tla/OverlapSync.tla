----------------------------- MODULE OverlapSync -----------------------------
(***************************************************************************)
(* Overlap allowances and the synchronisation gates that follow them.      *)
(*                                                                         *)
(* An owner may allow two lanes to write one path until a given time.      *)
(* When the allowance has expired a durable gate holds both lanes back     *)
(* until both are proved quiescent and either their heads merge cleanly    *)
(* or one commit, sent by the sync writer to the right lane's branch, has  *)
(* resolved the conflict.  The module has the allowance, its gate, the     *)
(* writer's record, the two branches, the dispatches of the two lanes and  *)
(* the cycles that drive them.                                             *)
(*                                                                         *)
(* Abstractions.  One allowance, for the heads numbered 0; each ticket     *)
(* stays on one stream, so a dispatch is a lane: a side and the head of    *)
(* its exact tuple.  A closed round boundary (module Dispatch) is a choice *)
(* a cycle may meet while a dispatch is open.                              *)
(***************************************************************************)
EXTENDS Integers

CONSTANTS
  Controller,   \* controller processes
  MaxHead       \* bound on the commits of a branch

ASSUME SyncAssumption == MaxHead \in Nat \ {0}

Side == {"left", "right"}
HeadId == 0..MaxHead
Lane == Side \X HeadId

Approved == [s \in Side |-> 0]
PostSync == [Approved EXCEPT !["right"] = 1]

Unresolved == {"PENDING", "IN_FLIGHT", "UNKNOWN", "SYNCED"}
Started == {"IN_FLIGHT", "UNKNOWN", "LAUNCHED"}

VARIABLES
  allowance,    \* controller_overlap_allowance.status
  lapsed,       \* the approved time is over
  syncGate,     \* controller_overlap_sync_gate.status
  syncRecord,   \* status of the sync writer's record file
  wire,         \* mutations that were sent and neither arrived nor got lost
  sent, landed, \* mutations sent, and commits they made
  branch,       \* the live head of each pull request
  launch,       \* status of the dispatch of each lane
  session,      \* its detached session
  shown,        \* the stream row of each ticket: state and head
  waived, bound,\* waivers stored, and bound to the payload
  at, local,    \* control and locals of each cycle
  overlapped    \* history: some cycle began while another was running

storeState == <<allowance, syncGate, launch, shown, waived, bound>>
world == <<lapsed, branch, session>>
writer == <<syncRecord, wire, sent, landed>>
syncVars == <<storeState, world, writer, at, local, overlapped>>

Idle == [heads |-> Approved, due |-> FALSE, planned |-> FALSE,
         granted |-> FALSE, blocked |-> FALSE, synced |-> FALSE, view |-> {}]

Goto(c, pc) == at' = [at EXCEPT ![c] = pc]
Keep == local' = local
Set(c, r) == local' = [local EXCEPT ![c] = r]
MBlock(c) == Keep
Block(c) == Set(c, [local[c] EXCEPT !.blocked = TRUE])

NoRow == [state |-> "COMPLETE", head |-> 0]

SyncInit ==
  /\ allowance = "none" /\ lapsed = FALSE /\ syncGate = "none"
  /\ syncRecord = "none" /\ wire = 0 /\ sent = 0 /\ landed = 0
  /\ branch = Approved
  /\ launch = [d \in Lane |-> "none"] /\ session = [d \in Lane |-> "none"]
  /\ shown = [s \in Side |-> NoRow] /\ waived = {} /\ bound = {}
  /\ at = [c \in Controller |-> "idle"] /\ local = [c \in Controller |-> Idle]
  /\ overlapped = FALSE

-----------------------------------------------------------------------------
(* Opening the store, recovery, allowances.                                *)

MOpened(g) == IF g = "IN_FLIGHT" THEN "PENDING" ELSE g

\* Every process that opens the store gives up a synchronisation under way.
Opened(g) == IF g = "IN_FLIGHT" THEN "UNKNOWN" ELSE g

StartCycle(c) ==
  /\ at[c] = "idle"
  /\ syncGate' = Opened(syncGate)
  /\ overlapped' = (overlapped \/ \E o \in Controller : at[o] # "idle")
  /\ Set(c, [Idle EXCEPT !.due = lapsed]) /\ Goto(c, "recover")
  /\ UNCHANGED <<allowance, launch, shown, waived, bound, world, writer>>

Interrupted == {d \in Lane : launch[d] = "IN_FLIGHT"}

\* recover_dispatches, then the inventory.  A working row of an interrupted
\* dispatch is blocked.
Recover(c) ==
  /\ at[c] = "recover"
  /\ launch' = [d \in Lane |-> IF d \in Interrupted THEN "UNKNOWN" ELSE launch[d]]
  /\ shown' = [s \in Side |-> IF <<s, shown[s].head>> \in Interrupted /\ shown[s].state = "WORKING"
                              THEN [shown[s] EXCEPT !.state = "BLOCKED"] ELSE shown[s]]
  /\ Set(c, [local[c] EXCEPT !.heads = branch]) /\ Goto(c, "request")
  /\ UNCHANGED <<allowance, syncGate, waived, bound, world, writer, overlapped>>

NoRequest(c) ==
  /\ at[c] = "request" /\ Goto(c, "sweep") /\ Keep
  /\ UNCHANGED <<storeState, world, writer, overlapped>>

\* The owner's comment is current and the live heads are the approved ones.
Register(c) ==
  /\ at[c] = "request" /\ branch = Approved
  /\ ~lapsed
  /\ allowance' = IF allowance = "none" THEN "ACTIVE" ELSE allowance
  /\ Set(c, [local[c] EXCEPT !.planned = TRUE]) /\ Goto(c, "sweep")
  /\ UNCHANGED <<syncGate, launch, shown, waived, bound, world, writer, overlapped>>

\* expire_overlap_allowance: the gate of an allowance is created once.
Expire == IF syncGate = "none" THEN allowance' = "EXPIRED" /\ syncGate' = "PENDING"
          ELSE UNCHANGED <<allowance, syncGate>>

RegisterExpired(c) ==
  /\ at[c] = "request" /\ branch = Approved
  /\ lapsed /\ Expire
  /\ Goto(c, "sweep") /\ Keep
  /\ UNCHANGED <<launch, shown, waived, bound, world, writer, overlapped>>

RefuseRequest(c) ==
  /\ at[c] = "request"
  /\ Block(c) /\ Goto(c, "sweep")
  /\ UNCHANGED <<storeState, world, writer, overlapped>>

\* expire_due_overlap_allowances, by the time the cycle started with.
Sweep(c) ==
  /\ at[c] = "sweep"
  /\ IF allowance = "ACTIVE" /\ local[c].due THEN Expire ELSE UNCHANGED <<allowance, syncGate>>
  /\ Goto(c, "gates") /\ Keep
  /\ UNCHANGED <<launch, shown, waived, bound, world, writer, overlapped>>

-----------------------------------------------------------------------------
(* The gate: reconciliation, quiescence, decision.                         *)

ReadGates(c) ==
  /\ at[c] = "gates"
  /\ Goto(c, CASE syncGate = "UNKNOWN" -> "reconcile"
               [] syncGate = "PENDING" -> "quiesce"
               [] syncGate = "SYNCED" -> "confirm"
               [] syncGate = "IN_FLIGHT" -> "held"
               [] OTHER -> "refresh")
  /\ Keep
  /\ UNCHANGED <<storeState, world, writer, overlapped>>

\* Another process's synchronisation is under way, the automation is switched
\* off, or any step on the gate raises: both tickets are blocked in this cycle.
KeepBlocked(c) ==
  /\ at[c] \in {"held", "reconcile", "quiesce", "observe", "decide", "confirm", "confirm_new"}
  /\ Block(c) /\ Goto(c, "refresh")
  /\ UNCHANGED <<storeState, world, writer, overlapped>>

Settles(c) == Set(c, [local[c] EXCEPT !.synced = TRUE])

\* reconcile_overlap_sync_gate reads a completed record and never sends.
ReconcileGate(c) ==
  /\ at[c] = "reconcile"
  /\ \/ syncGate \in {"CLEARED", "EXECUTED"} /\ Keep /\ UNCHANGED syncGate
     \/ syncGate = "SYNCED" /\ Settles(c) /\ UNCHANGED syncGate
     \/ syncGate = "UNKNOWN" /\ syncRecord = "COMPLETED" /\ syncGate' = "SYNCED" /\ Settles(c)
  /\ Goto(c, "refresh")
  /\ UNCHANGED <<allowance, launch, shown, waived, bound, world, writer, overlapped>>

MConfirmQuiescence(c, d) ==
  /\ at[c] = "quiesce"
  /\ launch[d] = "LAUNCHED"
  /\ launch' = [launch EXCEPT ![d] = "TERMINAL"]
  /\ UNCHANGED <<allowance, syncGate, shown, waived, bound, world, writer, at, local, overlapped>>

\* confirm_dispatch_quiescence: the accepted session is proved to have ended.
ConfirmQuiescence(c, d) ==
  /\ at[c] = "quiesce"
  /\ launch[d] = "LAUNCHED" /\ session[d] = "ended"
  /\ launch' = [launch EXCEPT ![d] = "TERMINAL"]
  /\ UNCHANGED <<allowance, syncGate, shown, waived, bound, world, writer, at, local, overlapped>>

Open(d) == launch[d] \in {"PENDING", "IN_FLIGHT", "UNKNOWN", "LAUNCHED"}

\* overlap_sync_quiescence
Quiescent ==
  /\ \A d \in Lane : ~Open(d)
  /\ \A s \in Side : shown[s].state = "COMPLETE" \/ launch[<<s, shown[s].head>>] = "TERMINAL"

BothQuiescent(c) ==
  /\ at[c] = "quiesce" /\ Quiescent
  /\ Goto(c, "observe") /\ Keep
  /\ UNCHANGED <<storeState, world, writer, overlapped>>

\* The conflict observer reads the live heads, which must be the gate's.
ObserveConflict(c) ==
  /\ at[c] = "observe" /\ branch = Approved
  /\ Goto(c, "decide") /\ Keep
  /\ UNCHANGED <<storeState, world, writer, overlapped>>

\* execute_overlap_sync_gate up to the call of the writer, whose record is that
\* of this decision.
DecideNoConflict(c) ==
  /\ at[c] = "decide" /\ syncGate = "PENDING"
  /\ syncGate' = "CLEARED" /\ Goto(c, "refresh") /\ Keep
  /\ UNCHANGED <<allowance, launch, shown, waived, bound, world, writer, overlapped>>

DecideConflict(c) ==
  /\ at[c] = "decide" /\ syncGate = "PENDING"
  /\ syncGate' = "IN_FLIGHT" /\ syncRecord' = "none" /\ Goto(c, "write") /\ Keep
  /\ UNCHANGED <<allowance, launch, shown, waived, bound, world, wire, sent, landed, overlapped>>

AlreadyDecided(c) ==
  /\ at[c] = "decide" /\ syncGate \in {"CLEARED", "SYNCED", "EXECUTED"}
  /\ IF syncGate = "SYNCED" THEN Settles(c) ELSE Keep
  /\ Goto(c, "refresh")
  /\ UNCHANGED <<storeState, world, writer, overlapped>>

-----------------------------------------------------------------------------
(* The sync writer: a record file, one mutation with the expected head,    *)
(* its readback.                                                           *)

PrepareRecord(c) ==
  /\ at[c] = "write" /\ syncRecord \in {"none", "PREPARED"}
  /\ syncRecord' = "PREPARED" /\ Goto(c, "prepared") /\ Keep
  /\ UNCHANGED <<storeState, world, wire, sent, landed, overlapped>>

\* The heads still conflict as decided.
RecordInFlight(c) ==
  /\ at[c] = "prepared" /\ branch = Approved
  /\ syncRecord' = "IN_FLIGHT" /\ Goto(c, "send") /\ Keep
  /\ UNCHANGED <<storeState, world, wire, sent, landed, overlapped>>

Send(c) ==
  /\ at[c] = "send"
  /\ wire' = wire + 1 /\ sent' = sent + 1 /\ Goto(c, "answer") /\ Keep
  /\ UNCHANGED <<storeState, world, syncRecord, landed, overlapped>>

\* The provider commits on the expected head only, or the call is lost.
Land ==
  /\ wire > 0 /\ branch["right"] = Approved["right"]
  /\ branch' = [branch EXCEPT !["right"] = PostSync["right"]]
  /\ wire' = wire - 1 /\ landed' = landed + 1
  /\ UNCHANGED <<storeState, lapsed, session, syncRecord, sent, at, local, overlapped>>

Drop ==
  /\ wire > 0 /\ wire' = wire - 1
  /\ UNCHANGED <<storeState, world, syncRecord, sent, landed, at, local, overlapped>>

\* The commit is answered and both live heads read back as decided.
Readback(c) ==
  /\ at[c] = "answer" /\ wire = 0 /\ landed = 1 /\ branch = PostSync
  /\ syncRecord' = "COMPLETED" /\ Goto(c, "receipt") /\ Keep
  /\ UNCHANGED <<storeState, world, wire, sent, landed, overlapped>>

\* Any exception of the writer: whatever the gate is now, it becomes UNKNOWN.
WriterFails(c) ==
  /\ at[c] \in {"write", "prepared", "send", "answer"}
  /\ syncGate' = "UNKNOWN" /\ Block(c) /\ Goto(c, "refresh")
  /\ UNCHANGED <<allowance, launch, shown, waived, bound, world, writer, overlapped>>

FinishReceipt(c) ==
  /\ at[c] = "receipt" /\ syncGate = "IN_FLIGHT"
  /\ syncGate' = "SYNCED" /\ Settles(c) /\ Goto(c, "refresh")
  /\ UNCHANGED <<allowance, launch, shown, waived, bound, world, writer, overlapped>>

\* The receipt is refused, or another process gave the gate up meanwhile.
ReceiptFails(c) ==
  /\ at[c] = "receipt"
  /\ syncGate' = Opened(syncGate) /\ Block(c) /\ Goto(c, "refresh")
  /\ UNCHANGED <<allowance, launch, shown, waived, bound, world, writer, overlapped>>

-----------------------------------------------------------------------------
(* After the gate: a fresh inventory, the lane start, the schedule.        *)

\* confirm_overlap_sync_inventory: the inventory and the provider show the commit.
Confirms(c) ==
  /\ local[c].heads = PostSync /\ branch = PostSync
  /\ syncGate \in {"SYNCED", "EXECUTED"} /\ syncGate' = "EXECUTED"

ConfirmAlready(c) ==
  /\ at[c] = "confirm" /\ Confirms(c)
  /\ Goto(c, "refresh") /\ Keep
  /\ UNCHANGED <<allowance, launch, shown, waived, bound, world, writer, overlapped>>

\* The inventory is read again after a synchronisation of this cycle.
RefreshSynced(c) ==
  /\ at[c] = "refresh" /\ local[c].synced
  /\ Set(c, [local[c] EXCEPT !.heads = branch, !.synced = FALSE]) /\ Goto(c, "confirm_new")
  /\ UNCHANGED <<storeState, world, writer, overlapped>>

ConfirmNew(c) ==
  /\ at[c] = "confirm_new" /\ Confirms(c)
  /\ Goto(c, "refresh") /\ Keep
  /\ UNCHANGED <<allowance, launch, shown, waived, bound, world, writer, overlapped>>

Proceeds(c) == at[c] = "refresh" /\ ~local[c].synced

\* recheck_overlap_allowance on the inventory read again for the lane start.
LaneStart(c) ==
  /\ Proceeds(c) /\ local[c].planned
  /\ allowance = "ACTIVE" /\ ~lapsed /\ branch = Approved
  /\ Set(c, [local[c] EXCEPT !.heads = branch, !.granted = TRUE]) /\ Goto(c, "schedule")
  /\ UNCHANGED <<storeState, world, writer, overlapped>>

LaneRefused(c) ==
  /\ Proceeds(c) /\ local[c].planned
  /\ Set(c, [local[c] EXCEPT !.heads = branch, !.blocked = TRUE]) /\ Goto(c, "schedule")
  /\ UNCHANGED <<storeState, world, writer, overlapped>>

NoLaneStart(c) ==
  /\ Proceeds(c) /\ ~local[c].planned
  /\ Goto(c, "schedule") /\ Keep
  /\ UNCHANGED <<storeState, world, writer, overlapped>>

\* A lane works if it is not blocked and the plan and capacity admit it; two
\* lanes work at once only under the allowance.  Others show why they wait.
Rows(c, W) ==
  [s \in Side |->
     IF s \in W THEN [state |-> "WORKING", head |-> local[c].heads[s]]
     ELSE IF \E h \in HeadId : launch[<<s, h>>] = "UNKNOWN" /\ shown[s] = [state |-> "BLOCKED", head |-> h]
     THEN shown[s]
     ELSE IF \E h \in HeadId : Open(<<s, h>>) THEN NoRow
     ELSE [state |-> "BLOCKED", head |-> local[c].heads[s]]]

Snapshot(rows) == {<<s, rows[s].head>> : s \in {r \in Side : rows[r].state = "WORKING"}}

Schedule(c) ==
  /\ at[c] = "schedule"
  /\ \E W \in SUBSET Side :
       /\ local[c].blocked => W = {}
       /\ W = Side => local[c].granted
       /\ \A s \in W : \A h \in HeadId : Open(<<s, h>>) => shown[s].state = "WORKING"
       /\ shown' = Rows(c, W)
       /\ Set(c, [local[c] EXCEPT !.view = Snapshot(Rows(c, W))])
  /\ Goto(c, "prepare")
  /\ UNCHANGED <<allowance, syncGate, launch, waived, bound, world, writer, overlapped>>

\* A round with open dispatches does not change without an owner's seal; the
\* cycle only observes.
BoundaryClosed(c) ==
  /\ at[c] = "schedule" /\ \E d \in Lane : Open(d)
  /\ Goto(c, "closed") /\ Keep
  /\ UNCHANGED <<storeState, world, writer, overlapped>>

\* prepare_dispatches and bind_dispatch_waivers
Prepare(c) ==
  /\ at[c] = "prepare"
  /\ launch' = [d \in Lane |-> IF d \in Snapshot(shown) /\ launch[d] = "none" THEN "PENDING" ELSE launch[d]]
  /\ LET pending == {d \in Lane : launch'[d] = "PENDING"}
     IN /\ bound' = IF local[c].granted THEN bound \cup pending ELSE bound \ pending
        /\ waived' = IF local[c].granted THEN waived \cup pending ELSE waived
  /\ Goto(c, "launch") /\ Keep
  /\ UNCHANGED <<allowance, syncGate, shown, world, writer, overlapped>>

-----------------------------------------------------------------------------
(* The dispatch loop, in any order and as far as the cycle gets.           *)

Admits(c, d) ==
  /\ ~local[c].blocked
  /\ local[c].heads[d[1]] = d[2] /\ d \in local[c].view

\* begin_dispatch
Begin(c, d) ==
  /\ at[c] = "launch" /\ launch[d] = "PENDING" /\ Admits(c, d)
  /\ d \in bound <=> d \in waived
  /\ launch' = [launch EXCEPT ![d] = "IN_FLIGHT"]
  /\ UNCHANGED <<allowance, syncGate, shown, waived, bound, world, writer, at, local, overlapped>>

\* cancel_pending_dispatch; the next intent has a new identity and no waiver.
Cancel(c, d) ==
  /\ at[c] = "launch" /\ launch[d] = "PENDING" /\ ~Admits(c, d)
  /\ launch' = [launch EXCEPT ![d] = "none"]
  /\ waived' = waived \ {d} /\ bound' = bound \ {d}
  /\ UNCHANGED <<allowance, syncGate, shown, world, writer, at, local, overlapped>>

RunSession(c, d) ==
  /\ at[c] = "launch" /\ launch[d] = "IN_FLIGHT" /\ session[d] = "none"
  /\ session' = [session EXCEPT ![d] = "live"]
  /\ UNCHANGED <<storeState, lapsed, branch, writer, at, local, overlapped>>

\* finish_dispatch, of a launch or of an observation, which may give a blocked
\* row its earlier state back.
Accept(c, d) ==
  /\ at[c] \in {"launch", "closed"} /\ launch[d] \in Started /\ session[d] # "none"
  /\ launch' = [launch EXCEPT ![d] = IF session[d] = "ended" THEN "TERMINAL" ELSE "LAUNCHED"]
  /\ \/ UNCHANGED shown
     \/ /\ launch[d] = "UNKNOWN" /\ shown[d[1]] = [state |-> "BLOCKED", head |-> d[2]]
        /\ shown' = [shown EXCEPT ![d[1]].state = "WORKING"]
  /\ UNCHANGED <<allowance, syncGate, waived, bound, world, writer, at, local, overlapped>>

\* mark_dispatch_unknown
LaunchFails(c, d) ==
  /\ at[c] = "launch" /\ launch[d] = "IN_FLIGHT"
  /\ launch' = [launch EXCEPT ![d] = "UNKNOWN"]
  /\ shown' = [s \in Side |-> IF <<s, shown[s].head>> = d /\ shown[s].state = "WORKING"
                              THEN [shown[s] EXCEPT !.state = "BLOCKED"] ELSE shown[s]]
  /\ UNCHANGED <<allowance, syncGate, waived, bound, world, writer, at, local, overlapped>>

\* The cycle ends, or dies at any point.
EndCycle(c) ==
  /\ at[c] # "idle"
  /\ Goto(c, "idle") /\ Set(c, Idle)
  /\ UNCHANGED <<storeState, world, writer, overlapped>>

-----------------------------------------------------------------------------
(* What happens outside the cycles.                                        *)

\* A command that only reads opens the store.
OpenStore ==
  /\ syncGate = "IN_FLIGHT" /\ syncGate' = Opened(syncGate)
  /\ UNCHANGED <<allowance, launch, shown, waived, bound, world, writer, at, local, overlapped>>

Lapse ==
  /\ ~lapsed /\ lapsed' = TRUE
  /\ UNCHANGED <<storeState, branch, session, writer, at, local, overlapped>>

\* A session, or a person, pushes to a branch.
PushBranch(s) ==
  /\ branch[s] < MaxHead
  /\ branch' = [branch EXCEPT ![s] = @ + 1]
  /\ UNCHANGED <<storeState, lapsed, session, writer, at, local, overlapped>>

SessionEnds(d) ==
  /\ session[d] = "live" /\ session' = [session EXCEPT ![d] = "ended"]
  /\ UNCHANGED <<storeState, lapsed, branch, writer, at, local, overlapped>>

SyncNext ==
  \/ \E c \in Controller :
       \/ StartCycle(c) \/ Recover(c) \/ NoRequest(c) \/ Register(c) \/ RegisterExpired(c)
       \/ RefuseRequest(c) \/ Sweep(c) \/ ReadGates(c) \/ KeepBlocked(c) \/ ReconcileGate(c)
       \/ BothQuiescent(c) \/ ObserveConflict(c) \/ DecideNoConflict(c) \/ DecideConflict(c)
       \/ AlreadyDecided(c) \/ PrepareRecord(c) \/ RecordInFlight(c) \/ Send(c) \/ Readback(c)
       \/ WriterFails(c) \/ FinishReceipt(c) \/ ReceiptFails(c) \/ ConfirmAlready(c)
       \/ RefreshSynced(c) \/ ConfirmNew(c) \/ LaneStart(c) \/ LaneRefused(c) \/ NoLaneStart(c)
       \/ Schedule(c) \/ BoundaryClosed(c) \/ Prepare(c) \/ EndCycle(c)
       \/ \E d \in Lane : \/ ConfirmQuiescence(c, d) \/ Begin(c, d) \/ Cancel(c, d)
                          \/ RunSession(c, d) \/ Accept(c, d) \/ LaunchFails(c, d)
  \/ Land \/ Drop \/ OpenStore \/ Lapse
  \/ \E s \in Side : PushBranch(s)
  \/ \E d \in Lane : SessionEnds(d)

SyncSpec == SyncInit /\ [][SyncNext]_syncVars

-----------------------------------------------------------------------------
(* Properties.                                                             *)

\* The type invariant of the module.
OverlapTypeOK ==
  /\ allowance \in {"none", "ACTIVE", "EXPIRED"} /\ lapsed \in BOOLEAN
  /\ syncGate \in Unresolved \cup {"none", "CLEARED", "EXECUTED"}
  /\ syncRecord \in {"none", "PREPARED", "IN_FLIGHT", "COMPLETED"}
  /\ wire \in Nat /\ sent \in Nat /\ landed \in Nat
  /\ branch \in [Side -> Nat]
  /\ launch \in [Lane -> {"none", "PENDING", "IN_FLIGHT", "UNKNOWN", "LAUNCHED", "TERMINAL"}]
  /\ session \in [Lane -> {"none", "live", "ended"}]
  /\ shown \in [Side -> [state : {"WORKING", "BLOCKED", "COMPLETE"}, head : Nat]]
  /\ waived \subseteq Lane /\ bound \subseteq Lane
  /\ overlapped \in BOOLEAN

\* A synchronisation is exact, for any number of cycles and whatever crashes
\* or gets lost: no more than one mutation is ever sent for a gate, none
\* before a conflict was decided, and a gate that says synchronised has
\* exactly one commit, on the heads the owner approved.
SyncIsExact ==
  /\ sent <= 1
  /\ syncGate \in {"none", "PENDING", "CLEARED"} => sent = 0
  /\ syncGate \in {"SYNCED", "EXECUTED"} => landed = 1 /\ wire = 0 /\ syncRecord = "COMPLETED"

\* While a synchronisation may be under way no session of either lane is alive,
\* as long as the cycles do not overlap: execute_overlap_sync_gate changes a
\* branch that nobody else is writing.
QuietWhileSyncing ==
  ~overlapped /\ (syncGate \in {"IN_FLIGHT", "UNKNOWN", "SYNCED"} \/ wire > 0)
    => \A d \in Lane : session[d] # "live"

\* A synchronisation is exact, and alone on its branches.
SyncIsSafe == SyncIsExact /\ QuietWhileSyncing

\* No dispatch of either lane begins under an unresolved gate, and none that
\* carries a waiver begins unless the allowance still stands; as long as the
\* cycles do not overlap.
NoStartUnderGate ==
  [][\A d \in Lane :
       launch[d] = "PENDING" /\ launch'[d] = "IN_FLIGHT" /\ ~overlapped
         => syncGate \notin Unresolved /\ (d \in waived => allowance = "ACTIVE")]_syncVars
=============================================================================
