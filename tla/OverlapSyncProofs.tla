------------------------- MODULE OverlapSyncProofs -------------------------
(***************************************************************************)
(* Proofs about OverlapSync: a synchronisation is exact, for any number of *)
(* cycles that crash, overlap and open the store behind one another.       *)
(***************************************************************************)
EXTENDS OverlapSync, TLAPS

-----------------------------------------------------------------------------
(* Exactness.  A gate leaves PENDING once, so one cycle at a time is in    *)
(* the writer; what it has done is read off its control.                   *)

BeforeSend == {"write", "prepared", "send"}
Writing == BeforeSend \cup {"answer", "receipt"}
Undecided == {"none", "PENDING", "CLEARED"}

WriterPlaces ==
  /\ \A c, d \in Controller : at[c] \in Writing /\ at[d] \in Writing => c = d
  /\ \A c \in Controller :
       /\ at[c] \in BeforeSend => sent = 0
       /\ at[c] \in BeforeSend \cup {"answer"} => syncRecord # "COMPLETED"
       /\ at[c] = "receipt" => syncRecord = "COMPLETED"

SyncInv ==
  /\ DOMAIN at = Controller
  /\ wire \in Nat /\ sent \in Nat /\ landed \in Nat
  /\ wire + landed <= sent /\ sent <= 1
  /\ syncGate \in Undecided => sent = 0 /\ \A c \in Controller : at[c] \notin Writing
  /\ syncRecord = "COMPLETED" => landed = 1 /\ wire = 0
  /\ syncGate \in {"SYNCED", "EXECUTED"} => syncRecord = "COMPLETED"
  /\ WriterPlaces

\* How the gate moves when no cycle enters the writer.
GateMove ==
  \/ syncGate' = syncGate
  \/ syncGate \in Undecided /\ syncGate' \in Undecided
  \/ syncGate \notin Undecided /\ syncGate' = "UNKNOWN"
  \/ syncRecord = "COMPLETED" /\ syncGate' \in {"SYNCED", "EXECUTED"}

Outside ==
  /\ UNCHANGED writer /\ GateMove /\ DOMAIN at' = Controller
  /\ \A c \in Controller : at'[c] = at[c] \/ at'[c] \notin Writing

LEMMA SyncInvInit == SyncInit => SyncInv
BY DEF SyncInit, SyncInv, WriterPlaces, Writing, BeforeSend, Undecided

LEMMA OutsideStep == SyncInv /\ Outside => SyncInv'
<1> SUFFICES ASSUME SyncInv, Outside PROVE SyncInv' OBVIOUS
<1> USE DEF SyncInv, Outside, GateMove, writer, Undecided
<1>1. WriterPlaces' BY DEF WriterPlaces, Writing, BeforeSend
<1>2. syncGate' \in Undecided => sent' = 0 /\ \A c \in Controller : at'[c] \notin Writing
  <2> SUFFICES ASSUME syncGate' \in Undecided
               PROVE  sent' = 0 /\ \A c \in Controller : at'[c] \notin Writing
    OBVIOUS
  <2>1. syncGate \in Undecided OBVIOUS
  <2> QED BY <2>1
<1>3. syncGate' \in {"SYNCED", "EXECUTED"} => syncRecord' = "COMPLETED" OBVIOUS
<1> QED BY <1>1, <1>2, <1>3

\* A cycle goes where no writer is, and the gate moves as it may.
LEMMA Leaves ==
  ASSUME SyncInv, NEW c \in Controller, NEW pc, pc \notin Writing, Goto(c, pc),
         UNCHANGED writer, GateMove
  PROVE  SyncInv'
<1>1. Outside BY DEF Outside, SyncInv, Goto
<1> QED BY <1>1, OutsideStep

LEMMA Stays ==
  ASSUME SyncInv, UNCHANGED at, UNCHANGED writer, GateMove
  PROVE  SyncInv'
<1>1. Outside BY DEF Outside, SyncInv
<1> QED BY <1>1, OutsideStep

\* A gate that was given up had been decided.
LEMMA GivenUp == ASSUME syncGate' = Opened(syncGate) PROVE GateMove
BY DEF Opened, GateMove, Undecided

Places == Writing \cup {"idle", "recover", "request", "sweep", "gates", "held", "reconcile", "quiesce",
                        "observe", "decide", "refresh", "confirm", "confirm_new", "schedule", "prepare",
                        "launch", "closed"}

\* The actions of a cycle that leave the gate and the writer alone.
LEMMA CycleFrame ==
  ASSUME SyncInv, NEW c \in Controller,
         \/ Recover(c) \/ NoRequest(c) \/ RefuseRequest(c) \/ Register(c) \/ ReadGates(c)
           \/ KeepBlocked(c)
         \/ BothQuiescent(c) \/ ObserveConflict(c) \/ AlreadyDecided(c) \/ RefreshSynced(c)
         \/ LaneStart(c) \/ LaneRefused(c) \/ NoLaneStart(c) \/ Schedule(c) \/ BoundaryClosed(c)
         \/ Prepare(c) \/ EndCycle(c)
  PROVE  SyncInv'
<1>1. UNCHANGED <<syncGate, writer>> /\ \E pc \in Places \ Writing : Goto(c, pc)
  BY Zenon DEF Recover, NoRequest, RefuseRequest, Register, ReadGates, KeepBlocked, BothQuiescent,
       ObserveConflict,
     AlreadyDecided, RefreshSynced, LaneStart, LaneRefused, NoLaneStart, Schedule, BoundaryClosed, Prepare,
     EndCycle, Goto, storeState, writer, Places, Writing, BeforeSend
<1>2. PICK pc \in Places \ Writing : Goto(c, pc) BY <1>1
<1>3. GateMove BY <1>1 DEF GateMove
<1> QED BY <1>1, <1>2, <1>3, Leaves

LEMMA DispatchFrame ==
  ASSUME SyncInv, NEW c \in Controller, NEW d \in Lane,
         \/ ConfirmQuiescence(c, d) \/ Begin(c, d) \/ Cancel(c, d) \/ RunSession(c, d)
         \/ Accept(c, d) \/ LaunchFails(c, d)
  PROVE  SyncInv'
<1>1. UNCHANGED <<syncGate, writer, at>>
  BY DEF ConfirmQuiescence, Begin, Cancel, RunSession, Accept, LaunchFails, storeState
<1>2. GateMove BY <1>1 DEF GateMove
<1> QED BY <1>1, <1>2, Stays

\* The actions that move the gate and send nothing.
LEMMA GateSteps ==
  ASSUME SyncInv, NEW c \in Controller,
         \/ StartCycle(c) \/ RegisterExpired(c) \/ Sweep(c) \/ ReconcileGate(c)
           \/ DecideNoConflict(c)
         \/ WriterFails(c) \/ FinishReceipt(c) \/ ReceiptFails(c) \/ ConfirmAlready(c)
           \/ ConfirmNew(c)
  PROVE  SyncInv'
<1>1. CASE StartCycle(c)
  <2>1. GateMove BY <1>1, GivenUp DEF StartCycle
  <2> QED BY <1>1, <2>1, Leaves DEF StartCycle, Writing, BeforeSend
<1>2. CASE RegisterExpired(c)
  <2>1. GateMove BY <1>2 DEF RegisterExpired, Expire, GateMove, Undecided
  <2> QED BY <1>2, <2>1, Leaves DEF RegisterExpired, Writing, BeforeSend
<1>3. CASE Sweep(c)
  <2>1. GateMove BY <1>3 DEF Sweep, Expire, GateMove, Undecided
  <2> QED BY <1>3, <2>1, Leaves DEF Sweep, Writing, BeforeSend
<1>4. CASE ReconcileGate(c)
  <2>1. GateMove BY <1>4 DEF ReconcileGate, GateMove
  <2> QED BY <1>4, <2>1, Leaves DEF ReconcileGate, Writing, BeforeSend
<1>5. CASE DecideNoConflict(c)
  <2>1. GateMove BY <1>5 DEF DecideNoConflict, GateMove, Undecided
  <2> QED BY <1>5, <2>1, Leaves DEF DecideNoConflict, Writing, BeforeSend
<1>6. CASE WriterFails(c)
  <2>1. syncGate \notin Undecided BY <1>6 DEF WriterFails, SyncInv, Writing, BeforeSend
  <2>2. GateMove BY <1>6, <2>1 DEF WriterFails, GateMove
  <2> QED BY <1>6, <2>2, Leaves DEF WriterFails, Writing, BeforeSend
<1>7. CASE FinishReceipt(c)
  <2>1. syncRecord = "COMPLETED" BY <1>7 DEF FinishReceipt, SyncInv, WriterPlaces
  <2>2. GateMove BY <1>7, <2>1 DEF FinishReceipt, GateMove
  <2> QED BY <1>7, <2>2, Leaves DEF FinishReceipt, Writing, BeforeSend
<1>8. CASE ReceiptFails(c)
  <2>1. GateMove BY <1>8, GivenUp DEF ReceiptFails
  <2> QED BY <1>8, <2>1, Leaves DEF ReceiptFails, Writing, BeforeSend
<1>9. CASE ConfirmAlready(c) \/ ConfirmNew(c)
  <2>1. syncRecord = "COMPLETED" BY <1>9 DEF ConfirmAlready, ConfirmNew, Confirms, SyncInv
  <2>2. GateMove BY <1>9, <2>1 DEF ConfirmAlready, ConfirmNew, Confirms, GateMove
  <2> QED BY <1>9, <2>2, Leaves DEF ConfirmAlready, ConfirmNew, Writing, BeforeSend
<1> QED BY <1>1, <1>2, <1>3, <1>4, <1>5, <1>6, <1>7, <1>8, <1>9

\* A cycle in the writer moves on within it: it is the only one there.
LEMMA MovesWithin ==
  ASSUME SyncInv, NEW c \in Controller, NEW pc \in Writing, Goto(c, pc),
         at[c] \in Writing \/ \A d \in Controller : at[d] \notin Writing
  PROVE  /\ DOMAIN at' = Controller /\ at'[c] = pc
         /\ \A d \in Controller : at'[d] \in Writing => d = c
BY DEF SyncInv, WriterPlaces, Goto

LEMMA WriterSteps ==
  ASSUME SyncInv, NEW c \in Controller,
         \/ DecideConflict(c) \/ PrepareRecord(c) \/ RecordInFlight(c) \/ Send(c) \/ Readback(c)
  PROVE  SyncInv'
<1>1. CASE DecideConflict(c)
  <2>1. sent = 0 /\ \A d \in Controller : at[d] \notin Writing
    BY <1>1 DEF DecideConflict, SyncInv, Undecided
  <2>2. /\ DOMAIN at' = Controller /\ at'[c] = "write"
        /\ \A d \in Controller : at'[d] \in Writing => d = c
    BY <1>1, <2>1, MovesWithin DEF DecideConflict, Writing, BeforeSend
  <2> QED BY <1>1, <2>1, <2>2 DEF DecideConflict, SyncInv, WriterPlaces, Writing, BeforeSend,
       Undecided
<1>2. CASE PrepareRecord(c)
  <2>1. at[c] \in Writing BY <1>2 DEF PrepareRecord, Writing, BeforeSend
  <2>2. /\ DOMAIN at' = Controller /\ at'[c] = "prepared"
        /\ \A d \in Controller : at'[d] \in Writing => d = c
    BY <1>2, <2>1, MovesWithin DEF PrepareRecord, Writing, BeforeSend
  <2> QED BY <1>2, <2>1, <2>2 DEF PrepareRecord, SyncInv, WriterPlaces, Writing, BeforeSend,
       Undecided, storeState
<1>3. CASE RecordInFlight(c)
  <2>1. at[c] \in Writing BY <1>3 DEF RecordInFlight, Writing, BeforeSend
  <2>2. /\ DOMAIN at' = Controller /\ at'[c] = "send"
        /\ \A d \in Controller : at'[d] \in Writing => d = c
    BY <1>3, <2>1, MovesWithin DEF RecordInFlight, Writing, BeforeSend
  <2> QED BY <1>3, <2>1, <2>2 DEF RecordInFlight, SyncInv, WriterPlaces, Writing, BeforeSend,
       Undecided, storeState
<1>4. CASE Send(c)
  <2>1. at[c] \in Writing BY <1>4 DEF Send, Writing, BeforeSend
  <2>2. /\ DOMAIN at' = Controller /\ at'[c] = "answer"
        /\ \A d \in Controller : at'[d] \in Writing => d = c
    BY <1>4, <2>1, MovesWithin DEF Send, Writing, BeforeSend
  <2> QED BY <1>4, <2>1, <2>2 DEF Send, SyncInv, WriterPlaces, Writing, BeforeSend, Undecided,
       storeState
<1>5. CASE Readback(c)
  <2>1. at[c] \in Writing BY <1>5 DEF Readback, Writing, BeforeSend
  <2>2. /\ DOMAIN at' = Controller /\ at'[c] = "receipt"
        /\ \A d \in Controller : at'[d] \in Writing => d = c
    BY <1>5, <2>1, MovesWithin DEF Readback, Writing, BeforeSend
  <2> QED BY <1>5, <2>1, <2>2 DEF Readback, SyncInv, WriterPlaces, Writing, BeforeSend, Undecided,
       storeState
<1> QED BY <1>1, <1>2, <1>3, <1>4, <1>5

\* The provider and what happens beside the cycles.
LEMMA OutsideSteps ==
  ASSUME SyncInv,
         \/ Land \/ Drop \/ OpenStore \/ Lapse
         \/ \E s \in Side : PushBranch(s)
         \/ \E d \in Lane : SessionEnds(d)
  PROVE  SyncInv'
<1>1. CASE Land BY <1>1 DEF Land, SyncInv, WriterPlaces, storeState
<1>2. CASE Drop BY <1>2 DEF Drop, SyncInv, WriterPlaces, storeState
<1>3. CASE OpenStore
  <2>1. GateMove BY <1>3, GivenUp DEF OpenStore
  <2> QED BY <1>3, <2>1, Stays DEF OpenStore
<1>4. CASE Lapse \/ (\E s \in Side : PushBranch(s)) \/ (\E d \in Lane : SessionEnds(d))
  <2>1. UNCHANGED <<syncGate, writer, at>> BY <1>4 DEF Lapse, PushBranch, SessionEnds, storeState
  <2> QED BY <2>1, Stays DEF GateMove
<1> QED BY <1>1, <1>2, <1>3, <1>4

LEMMA SyncInvHolds == SyncSpec => []SyncInv
<1>1. SyncInv /\ [SyncNext]_syncVars => SyncInv'
  <2> SUFFICES ASSUME SyncInv, [SyncNext]_syncVars PROVE SyncInv' OBVIOUS
  <2>1. CASE UNCHANGED syncVars
    BY <2>1, Stays DEF syncVars, storeState, GateMove
  <2> QED BY <2>1, CycleFrame, DispatchFrame, GateSteps, WriterSteps, OutsideSteps DEF SyncNext
<1> QED BY <1>1, SyncInvInit, PTL DEF SyncSpec

\* execute_overlap_sync_gate, its writer and reconcile_overlap_sync_gate send at most one
\* mutation for a gate, and only a gate with exactly one commit is SYNCED or EXECUTED.
THEOREM SyncIsExactHolds == SyncSpec => []SyncIsExact
<1>1. SyncInv => SyncIsExact BY DEF SyncInv, SyncIsExact, Undecided
<1> QED BY <1>1, SyncInvHolds, PTL

-----------------------------------------------------------------------------
(* Types.  Rows and locals carry heads from one to the other.              *)

LocalType == [heads : [Side -> Nat], due : BOOLEAN, planned : BOOLEAN, granted : BOOLEAN,
              blocked : BOOLEAN, synced : BOOLEAN, view : SUBSET (Side \X Nat)]

RowType == [state : {"WORKING", "BLOCKED", "COMPLETE"}, head : Nat]

LEMMA TypeInit == ASSUME SyncAssumption, SyncInit PROVE OverlapTypeOK /\ local \in [Controller -> LocalType]
<1>1. Approved \in [Side -> Nat] BY DEF Approved
<1>2. Idle \in LocalType BY <1>1 DEF Idle, LocalType
<1>3. NoRow \in RowType BY DEF NoRow, RowType
<1> QED BY <1>1, <1>2, <1>3 DEF SyncInit, OverlapTypeOK, RowType, Unresolved

\* A local that a cycle writes is a local.
LEMMA LocalSet ==
  ASSUME NEW c \in Controller, local \in [Controller -> LocalType], NEW r \in LocalType, Set(c, r)
  PROVE  local' \in [Controller -> LocalType]
BY DEF Set

LEMMA LocalFacts ==
  ASSUME SyncAssumption, NEW r \in LocalType, NEW h \in [Side -> Nat], NEW b \in BOOLEAN
  PROVE  /\ [Idle EXCEPT !.due = b] \in LocalType /\ Idle \in LocalType
         /\ [r EXCEPT !.heads = h] \in LocalType
         /\ [r EXCEPT !.heads = h, !.synced = b] \in LocalType
         /\ [r EXCEPT !.heads = h, !.granted = b] \in LocalType
         /\ [r EXCEPT !.heads = h, !.blocked = b] \in LocalType
         /\ [r EXCEPT !.blocked = b] \in LocalType
         /\ [r EXCEPT !.planned = b] \in LocalType
         /\ [r EXCEPT !.synced = b] \in LocalType
         /\ \A v \in SUBSET (Side \X Nat) : [r EXCEPT !.view = v] \in LocalType
<1>1. Idle \in LocalType BY DEF Idle, LocalType, Approved
<1> QED BY <1>1 DEF LocalType

Typed == OverlapTypeOK /\ local \in [Controller -> LocalType]

\* The actions that write neither the rows, the dispatches nor the waivers.
LEMMA TypedCycle ==
  ASSUME SyncAssumption, Typed, NEW c \in Controller,
         \/ StartCycle(c) \/ NoRequest(c) \/ Register(c) \/ RegisterExpired(c) \/ RefuseRequest(c)
         \/ Sweep(c) \/ ReadGates(c) \/ KeepBlocked(c) \/ ReconcileGate(c) \/ BothQuiescent(c)
         \/ ObserveConflict(c) \/ DecideNoConflict(c) \/ DecideConflict(c) \/ AlreadyDecided(c)
         \/ PrepareRecord(c) \/ RecordInFlight(c) \/ Send(c) \/ Readback(c) \/ WriterFails(c)
         \/ FinishReceipt(c) \/ ReceiptFails(c) \/ ConfirmAlready(c) \/ RefreshSynced(c)
         \/ ConfirmNew(c) \/ LaneStart(c) \/ LaneRefused(c) \/ NoLaneStart(c) \/ BoundaryClosed(c)
         \/ EndCycle(c)
  PROVE  Typed'
<1>1. local[c] \in LocalType /\ lapsed \in BOOLEAN /\ branch \in [Side -> Nat] BY DEF Typed,
     OverlapTypeOK
<1>2. UNCHANGED <<launch, shown, waived, bound, lapsed, branch, session>>
  BY Zenon DEF StartCycle, NoRequest, Register, RegisterExpired, RefuseRequest, Sweep, ReadGates,
       KeepBlocked,
     ReconcileGate, BothQuiescent, ObserveConflict, DecideNoConflict, DecideConflict, AlreadyDecided,
     PrepareRecord, RecordInFlight, Send, Readback, WriterFails, FinishReceipt, ReceiptFails,
     ConfirmAlready, RefreshSynced, ConfirmNew, LaneStart, LaneRefused, NoLaneStart, BoundaryClosed,
     EndCycle, storeState, world
<1>3. local' = local \/ \E r \in LocalType : Set(c, r)
  <2>1. CASE StartCycle(c) \/ EndCycle(c)
    BY <2>1, <1>1, LocalFacts, Zenon DEF StartCycle, EndCycle
  <2>2. CASE \/ Register(c) \/ RefuseRequest(c) \/ KeepBlocked(c) \/ WriterFails(c) \/ ReceiptFails(c)
    BY <2>2, <1>1, LocalFacts, Zenon DEF Register, RefuseRequest, KeepBlocked, WriterFails,
         ReceiptFails, Block
  <2>3. CASE RefreshSynced(c) \/ LaneStart(c) \/ LaneRefused(c)
    BY <2>3, <1>1, LocalFacts, Zenon DEF RefreshSynced, LaneStart, LaneRefused
  <2>4. CASE ReconcileGate(c) \/ AlreadyDecided(c) \/ FinishReceipt(c)
    BY <2>4, <1>1, LocalFacts, Zenon DEF ReconcileGate, AlreadyDecided, FinishReceipt, Settles, Keep
  <2>5. CASE \/ NoRequest(c) \/ RegisterExpired(c) \/ Sweep(c) \/ ReadGates(c) \/ BothQuiescent(c)
             \/ ObserveConflict(c) \/ DecideNoConflict(c) \/ DecideConflict(c) \/ PrepareRecord(c)
             \/ RecordInFlight(c) \/ Send(c) \/ Readback(c) \/ ConfirmAlready(c) \/ ConfirmNew(c)
             \/ NoLaneStart(c) \/ BoundaryClosed(c)
    BY <2>5, Zenon DEF NoRequest, RegisterExpired, Sweep, ReadGates, BothQuiescent, ObserveConflict,
       DecideNoConflict, DecideConflict, PrepareRecord, RecordInFlight, Send, Readback, ConfirmAlready,
       ConfirmNew, NoLaneStart, BoundaryClosed, Keep
  <2> QED BY <2>1, <2>2, <2>3, <2>4, <2>5
<1>4. local' \in [Controller -> LocalType] BY <1>3, LocalSet DEF Typed
<1>5. /\ wire' \in Nat /\ sent' \in Nat /\ landed' \in Nat /\ overlapped' \in BOOLEAN
      /\ syncRecord' \in {"none", "PREPARED", "IN_FLIGHT", "COMPLETED"}
  <2>1. CASE \/ DecideConflict(c) \/ PrepareRecord(c) \/ RecordInFlight(c) \/ Send(c) \/ Readback(c)
    <3>1. overlapped' = overlapped
      BY <2>1, Zenon DEF DecideConflict, PrepareRecord, RecordInFlight, Send, Readback
    <3> QED BY <2>1, <3>1 DEF DecideConflict, PrepareRecord, RecordInFlight, Send, Readback, Typed,
         OverlapTypeOK
  <2>3. CASE StartCycle(c)
    <3>1. overlapped' \in BOOLEAN BY <2>3, Zenon DEF StartCycle
    <3> QED BY <2>3, <3>1 DEF StartCycle, writer, Typed, OverlapTypeOK
  <2>2. CASE UNCHANGED <<writer, overlapped>> BY <2>2 DEF Typed, OverlapTypeOK, writer
  <2> QED BY <2>1, <2>2, <2>3, Zenon DEF NoRequest, Register, RegisterExpired, RefuseRequest,
       Sweep, ReadGates, KeepBlocked,
     ReconcileGate, BothQuiescent, ObserveConflict, DecideNoConflict, AlreadyDecided,
     WriterFails, FinishReceipt, ReceiptFails,
     ConfirmAlready, RefreshSynced, ConfirmNew, LaneStart, LaneRefused, NoLaneStart, BoundaryClosed, EndCycle
<1>6. /\ allowance' \in {"none", "ACTIVE", "EXPIRED"}
      /\ syncGate' \in Unresolved \cup {"none", "CLEARED", "EXECUTED"}
  <2>1. CASE \/ StartCycle(c) \/ ReceiptFails(c)
    BY <2>1 DEF StartCycle, ReceiptFails, Opened, Typed, OverlapTypeOK, Unresolved
  <2>2. CASE Register(c) \/ RegisterExpired(c) \/ Sweep(c)
    BY <2>2 DEF Register, RegisterExpired, Sweep, Expire, Typed, OverlapTypeOK, Unresolved
  <2>3. CASE \/ ReconcileGate(c) \/ DecideNoConflict(c) \/ DecideConflict(c) \/ WriterFails(c)
             \/ FinishReceipt(c) \/ ConfirmAlready(c) \/ ConfirmNew(c)
    BY <2>3 DEF ReconcileGate, DecideNoConflict, DecideConflict, WriterFails, FinishReceipt,
         ConfirmAlready,
       ConfirmNew, Confirms, Typed, OverlapTypeOK, Unresolved
  <2>4. CASE UNCHANGED <<allowance, syncGate>> BY <2>4 DEF Typed, OverlapTypeOK
  <2> QED BY <2>1, <2>2, <2>3, <2>4, Zenon DEF NoRequest, RefuseRequest, ReadGates, KeepBlocked,
       BothQuiescent,
     ObserveConflict, AlreadyDecided, PrepareRecord, RecordInFlight, Send, Readback, RefreshSynced, LaneStart,
     LaneRefused, NoLaneStart, BoundaryClosed, EndCycle, storeState
<1> QED BY <1>2, <1>4, <1>5, <1>6 DEF Typed, OverlapTypeOK

\* What an action on dispatches and rows must leave well formed.
LEMMA TypedLaunch ==
  ASSUME Typed, UNCHANGED <<allowance, syncGate, lapsed, branch, writer, overlapped>>,
         local' \in [Controller -> LocalType], shown' \in [Side -> RowType],
         launch' \in [Lane -> {"none", "PENDING", "IN_FLIGHT", "UNKNOWN", "LAUNCHED", "TERMINAL"}],
         session' \in [Lane -> {"none", "live", "ended"}], waived' \subseteq Lane, bound' \subseteq Lane
  PROVE  Typed'
BY DEF Typed, OverlapTypeOK, RowType, writer

LEMMA TypedRecover == ASSUME SyncAssumption, Typed, NEW c \in Controller, Recover(c) PROVE Typed'
<1> USE DEF Typed, OverlapTypeOK
<1>1. shown' \in [Side -> RowType]
  <2>1. \A s \in Side : [shown[s] EXCEPT !.state = "BLOCKED"] \in RowType /\ shown[s] \in RowType
    BY DEF RowType
  <2> QED BY <2>1 DEF Recover
<1>2. launch' \in [Lane -> {"none", "PENDING", "IN_FLIGHT", "UNKNOWN", "LAUNCHED", "TERMINAL"}]
  BY DEF Recover
<1>3. [local[c] EXCEPT !.heads = branch] \in LocalType BY LocalFacts
<1>4. local' \in [Controller -> LocalType] BY <1>3, LocalSet DEF Recover
<1> QED BY <1>1, <1>2, <1>4, TypedLaunch DEF Recover, world

LEMMA RowsTyped ==
  ASSUME Typed, NEW c \in Controller, NEW W \in SUBSET Side
  PROVE  Rows(c, W) \in [Side -> RowType] /\ Snapshot(Rows(c, W)) \in SUBSET (Side \X Nat)
<1>1. ASSUME NEW s \in Side PROVE Rows(c, W)[s] \in RowType
  <2>1. local[c].heads[s] \in Nat BY DEF Typed, LocalType
  <2>2. shown[s] \in RowType BY DEF Typed, OverlapTypeOK, RowType
  <2>3. NoRow \in RowType BY DEF NoRow, RowType
  <2> QED BY <2>1, <2>2, <2>3 DEF Rows, RowType
<1>2. Rows(c, W) \in [Side -> RowType] BY <1>1 DEF Rows
<1> QED BY <1>2 DEF Snapshot, RowType

LEMMA TypedSchedule == ASSUME SyncAssumption, Typed, NEW c \in Controller, Schedule(c) PROVE Typed'
<1>1. PICK W \in SUBSET Side : /\ shown' = Rows(c, W)
                               /\ Set(c, [local[c] EXCEPT !.view = Snapshot(Rows(c, W))])
  BY DEF Schedule
<1>2. shown' \in [Side -> RowType] /\ Snapshot(Rows(c, W)) \in SUBSET (Side \X Nat) BY <1>1, RowsTyped
<1>3. local[c] \in LocalType /\ branch \in [Side -> Nat] BY DEF Typed, OverlapTypeOK
<1>4. [local[c] EXCEPT !.view = Snapshot(Rows(c, W))] \in LocalType
  BY <1>2, <1>3 DEF LocalType
<1>5. local' \in [Controller -> LocalType] BY <1>1, <1>4, LocalSet DEF Typed
<1> QED BY <1>2, <1>5, TypedLaunch DEF Schedule, world, Typed, OverlapTypeOK

LEMMA TypedPrepare == ASSUME SyncAssumption, Typed, NEW c \in Controller, Prepare(c) PROVE Typed'
<1> USE DEF Typed, OverlapTypeOK
<1>1. launch' \in [Lane -> {"none", "PENDING", "IN_FLIGHT", "UNKNOWN", "LAUNCHED", "TERMINAL"}]
  BY DEF Prepare
<1>2. bound' \subseteq Lane /\ waived' \subseteq Lane BY DEF Prepare
<1>3. UNCHANGED <<allowance, syncGate, lapsed, branch, session, shown, writer, overlapped, local>>
  BY DEF Prepare, world, Keep
<1>4. shown' \in [Side -> RowType] BY <1>3 DEF RowType
<1> QED BY <1>1, <1>2, <1>3, <1>4, TypedLaunch

LEMMA TypedDispatch ==
  ASSUME SyncAssumption, Typed, NEW c \in Controller, NEW d \in Lane,
         \/ ConfirmQuiescence(c, d) \/ Begin(c, d) \/ Cancel(c, d) \/ RunSession(c, d)
         \/ Accept(c, d) \/ LaunchFails(c, d)
  PROVE  Typed'
<1> USE DEF Typed, OverlapTypeOK
<1>1. UNCHANGED <<allowance, syncGate, lapsed, branch, writer, overlapped, local>>
  BY Zenon DEF ConfirmQuiescence, Begin, Cancel, RunSession, Accept, LaunchFails, storeState, world
<1>2. launch' \in [Lane -> {"none", "PENDING", "IN_FLIGHT", "UNKNOWN", "LAUNCHED", "TERMINAL"}]
  BY DEF ConfirmQuiescence, Begin, Cancel, RunSession, Accept, LaunchFails, storeState
<1>3. session' \in [Lane -> {"none", "live", "ended"}]
  BY DEF ConfirmQuiescence, Begin, Cancel, RunSession, Accept, LaunchFails, world
<1>4. waived' \subseteq Lane /\ bound' \subseteq Lane
  BY DEF ConfirmQuiescence, Begin, Cancel, RunSession, Accept, LaunchFails, storeState
<1>5. shown' \in [Side -> RowType]
  <2>1. \A s \in Side : /\ shown[s] \in RowType
                        /\ [shown[s] EXCEPT !.state = "BLOCKED"] \in RowType
                        /\ [shown[s] EXCEPT !.state = "WORKING"] \in RowType
    BY DEF RowType
  <2>2. CASE Accept(c, d)
    <3>1. d[1] \in Side BY DEF Lane
    <3>2. shown' = shown \/ shown' = [shown EXCEPT ![d[1]] = [shown[d[1]] EXCEPT !.state = "WORKING"]]
      BY <2>2, Zenon DEF Accept
    <3> QED BY <2>1, <3>1, <3>2
  <2>3. CASE LaunchFails(c, d) BY <2>1, <2>3 DEF LaunchFails
  <2>4. CASE UNCHANGED shown BY <2>1, <2>4
  <2> QED BY <2>2, <2>3, <2>4, Zenon DEF ConfirmQuiescence, Begin, Cancel, RunSession, storeState
<1> QED BY <1>1, <1>2, <1>3, <1>4, <1>5, TypedLaunch

LEMMA TypedOutside ==
  ASSUME SyncAssumption, Typed,
         \/ Land \/ Drop \/ OpenStore \/ Lapse
         \/ \E s \in Side : PushBranch(s)
         \/ \E d \in Lane : SessionEnds(d)
  PROVE  Typed'
<1> USE DEF Typed, OverlapTypeOK
<1>1. CASE Land
  <2>1. PostSync["right"] \in Nat BY DEF PostSync, Approved, Side
  <2>2. branch' \in [Side -> Nat] BY <1>1, <2>1 DEF Land
  <2>3. wire' \in Nat /\ landed' \in Nat BY <1>1 DEF Land
  <2>4. UNCHANGED <<storeState, lapsed, session, syncRecord, sent, local, overlapped>>
    BY <1>1, Zenon DEF Land
  <2> QED BY <2>2, <2>3, <2>4 DEF storeState
<1>2. CASE Drop BY <1>2 DEF Drop, storeState, world
<1>3. CASE OpenStore BY <1>3 DEF OpenStore, Opened, Unresolved, world, writer
<1>4. CASE Lapse
  <2>1. lapsed' \in BOOLEAN BY <1>4, Zenon DEF Lapse
  <2> QED BY <1>4, <2>1 DEF Lapse, storeState, writer
<1>5. CASE \E s \in Side : PushBranch(s) BY <1>5 DEF PushBranch, storeState, writer
<1>6. CASE \E d \in Lane : SessionEnds(d) BY <1>6 DEF SessionEnds, storeState, writer
<1> QED BY <1>1, <1>2, <1>3, <1>4, <1>5, <1>6

LEMMA TypedStep == ASSUME Typed, [SyncNext]_syncVars PROVE Typed'
<1>1. CASE UNCHANGED syncVars
  BY <1>1, Zenon DEF syncVars, storeState, world, writer, Typed, OverlapTypeOK
<1> QED BY <1>1, TypedCycle, TypedRecover, TypedSchedule, TypedPrepare, TypedDispatch, TypedOutside,
           SyncAssumption, Zenon DEF SyncNext

LEMMA TypedHolds == SyncSpec => []Typed
<1>1. SyncInit => Typed BY TypeInit, SyncAssumption DEF Typed
<1> QED BY <1>1, TypedStep, PTL DEF SyncSpec

\* The allowance, its gate, the record and the rows stay of their types (OverlapSync).
THEOREM OverlapTypeCorrect == SyncSpec => []OverlapTypeOK
<1>1. Typed => OverlapTypeOK BY DEF Typed
<1> QED BY <1>1, TypedHolds, PTL

-----------------------------------------------------------------------------
(* Quiet lanes, as long as no cycle overlaps another.  A cycle that goes   *)
(* on while the gate is unresolved has blocked both tickets, and one that  *)
(* carries the allowance holds it until it ends.                           *)

After == {"schedule", "prepare", "launch"}
Uncertain == {"IN_FLIGHT", "UNKNOWN", "SYNCED"}

Alone == \A c, d \in Controller : at[c] # "idle" /\ at[d] # "idle" => c = d

Cleared(c) == local[c].blocked \/ syncGate \notin Unresolved

Calm(c) ==
  /\ at[c] \in {"observe", "decide"} => \A d \in Lane : ~Open(d)
  /\ at[c] = "refresh" => (local[c].synced /\ syncGate = "SYNCED") \/ (~local[c].synced /\ Cleared(c))
  /\ at[c] \in After => Cleared(c)
  /\ local[c].synced => at[c] = "refresh"
  /\ local[c].granted => at[c] \in After \cup {"closed"} /\ allowance = "ACTIVE"
  /\ at[c] = "launch" => \A d \in bound : launch[d] = "PENDING" => local[c].granted

LiveIsStarted == \A d \in Lane : session[d] = "live" => launch[d] \in Started
NoneStarted == syncGate \in Uncertain => \A d \in Lane : launch[d] \notin Started

CalmInv ==
  /\ LiveIsStarted
  /\ ~overlapped => Alone /\ NoneStarted /\ \A c \in Controller : Calm(c)

LEMMA CalmInit == SyncInit => CalmInv
BY DEF SyncInit, CalmInv, LiveIsStarted, NoneStarted, Alone, Calm, After, Uncertain, Idle, Started

\* An idle cycle stays calm whatever the others do.
LEMMA IdleIsCalm ==
  ASSUME NEW o \in Controller, Calm(o), at[o] = "idle", at'[o] = "idle", local'[o] = local[o]
  PROVE  Calm(o)'
BY DEF Calm, After

\* One cycle acts, the others are idle.
LEMMA OneActs ==
  ASSUME NEW c \in Controller,
         at[c] # "idle" \/ \A o \in Controller : at[o] = "idle",
         Alone, \A o \in Controller : Calm(o),
         \A o \in Controller \ {c} : at'[o] = at[o] /\ local'[o] = local[o],
         Calm(c)'
  PROVE  Alone' /\ \A o \in Controller : Calm(o)'
<1>1. \A o \in Controller \ {c} : at[o] = "idle" BY DEF Alone
<1>2. ASSUME NEW o \in Controller PROVE Calm(o)'
  <2>1. CASE o = c BY <2>1
  <2>2. CASE o # c
    <3>1. at[o] = "idle" /\ at'[o] = "idle" /\ local'[o] = local[o] BY <1>1, <2>2
    <3> QED BY <3>1, IdleIsCalm
  <2> QED BY <2>1, <2>2
<1>3. Alone' BY <1>1 DEF Alone
<1> QED BY <1>2, <1>3

Plain(c) ==
  \/ StartCycle(c) \/ Recover(c) \/ NoRequest(c) \/ Register(c) \/ RegisterExpired(c)
  \/ RefuseRequest(c) \/ Sweep(c) \/ ReadGates(c) \/ KeepBlocked(c) \/ ReconcileGate(c)
  \/ BothQuiescent(c) \/ ObserveConflict(c) \/ DecideNoConflict(c) \/ DecideConflict(c)
  \/ AlreadyDecided(c) \/ PrepareRecord(c) \/ RecordInFlight(c) \/ Send(c) \/ Readback(c)
  \/ WriterFails(c) \/ FinishReceipt(c) \/ ReceiptFails(c) \/ ConfirmAlready(c)
  \/ RefreshSynced(c) \/ ConfirmNew(c) \/ LaneStart(c) \/ LaneRefused(c) \/ NoLaneStart(c)
  \/ Schedule(c) \/ BoundaryClosed(c) \/ Prepare(c) \/ EndCycle(c)

OnLane(c, d) ==
  \/ ConfirmQuiescence(c, d) \/ Begin(c, d) \/ Cancel(c, d)
  \/ RunSession(c, d) \/ Accept(c, d) \/ LaunchFails(c, d)

\* A cycle moves its own control and its own locals.
LEMMA OthersKeep ==
  ASSUME Typed, SyncInv, NEW c \in Controller, Plain(c)
  PROVE  \A o \in Controller \ {c} : at'[o] = at[o] /\ local'[o] = local[o]
<1>1. \E pc : Goto(c, pc)
  BY Zenon DEF Plain, StartCycle, Recover, NoRequest, Register, RegisterExpired, RefuseRequest,
       Sweep, ReadGates,
     KeepBlocked, ReconcileGate, BothQuiescent, ObserveConflict, DecideNoConflict, DecideConflict,
     AlreadyDecided, PrepareRecord, RecordInFlight, Send, Readback, WriterFails, FinishReceipt,
     ReceiptFails, ConfirmAlready, RefreshSynced, ConfirmNew, LaneStart, LaneRefused, NoLaneStart,
     Schedule, BoundaryClosed, Prepare, EndCycle
<1>2. local' = local \/ \E r : Set(c, r)
  BY Zenon DEF Plain, StartCycle, Recover, NoRequest, Register, RegisterExpired, RefuseRequest,
       Sweep, ReadGates,
     KeepBlocked, ReconcileGate, BothQuiescent, ObserveConflict, DecideNoConflict, DecideConflict,
     AlreadyDecided, PrepareRecord, RecordInFlight, Send, Readback, WriterFails, FinishReceipt,
     ReceiptFails, ConfirmAlready, RefreshSynced, ConfirmNew, LaneStart, LaneRefused, NoLaneStart,
     Schedule, BoundaryClosed, Prepare, EndCycle, Keep, Block, Settles
<1>3. \A o \in Controller \ {c} : at'[o] = at[o] BY <1>1 DEF Goto, SyncInv
<1>4. \A o \in Controller \ {c} : local'[o] = local[o] BY <1>2 DEF Set, Typed
<1> QED BY <1>3, <1>4

\* A history without overlap had none before, and the cycle that acts is the one that runs.
LEMMA ActsAlone ==
  ASSUME NEW c \in Controller, Plain(c), ~overlapped'
  PROVE  ~overlapped /\ (at[c] # "idle" \/ \A o \in Controller : at[o] = "idle")
<1>1. CASE StartCycle(c) BY <1>1, Zenon DEF StartCycle
<1>2. CASE ~StartCycle(c)
  <2>1. overlapped' = overlapped
    BY <1>2, Zenon DEF Plain, Recover, NoRequest, Register, RegisterExpired, RefuseRequest, Sweep,
         ReadGates,
       KeepBlocked, ReconcileGate, BothQuiescent, ObserveConflict, DecideNoConflict, DecideConflict,
       AlreadyDecided, PrepareRecord, RecordInFlight, Send, Readback, WriterFails, FinishReceipt,
       ReceiptFails, ConfirmAlready, RefreshSynced, ConfirmNew, LaneStart, LaneRefused, NoLaneStart,
       Schedule, BoundaryClosed, Prepare, EndCycle
  <2>2. at[c] # "idle"
    BY <1>2 DEF Plain, Recover, NoRequest, Register, RegisterExpired, RefuseRequest, Sweep,
         ReadGates,
       KeepBlocked, ReconcileGate, BothQuiescent, ObserveConflict, DecideNoConflict, DecideConflict,
       AlreadyDecided, PrepareRecord, RecordInFlight, Send, Readback, WriterFails, FinishReceipt,
       ReceiptFails, ConfirmAlready, RefreshSynced, ConfirmNew, LaneStart, LaneRefused, NoLaneStart, Proceeds,
       Schedule, BoundaryClosed, Prepare, EndCycle
  <2> QED BY <2>1, <2>2
<1> QED BY <1>1, <1>2

\* Up to the gates a cycle neither carries an allowance nor has settled a gate.
LEMMA CalmBegins ==
  ASSUME Typed, SyncInv, NEW c \in Controller, Calm(c), NoneStarted,
         StartCycle(c) \/ Recover(c) \/ NoRequest(c) \/ Register(c) \/ RegisterExpired(c)
           \/ RefuseRequest(c) \/ Sweep(c) \/ EndCycle(c)
  PROVE  Calm(c)' /\ NoneStarted'
<1> USE DEF Typed, SyncInv, Calm, NoneStarted, After, Goto, Set
<1>1. CASE StartCycle(c) BY <1>1 DEF StartCycle, Opened, Uncertain, Idle, LocalType, OverlapTypeOK
<1>2. CASE Recover(c) BY <1>2 DEF Recover, Keep, Started, Interrupted, storeState, LocalType,
     OverlapTypeOK
<1>3. CASE NoRequest(c) BY <1>3 DEF NoRequest, Keep, storeState
<1>4. CASE Register(c) BY <1>4 DEF Register, LocalType, OverlapTypeOK
<1>5. CASE RegisterExpired(c) BY <1>5 DEF RegisterExpired, Expire, Keep, Uncertain
<1>6. CASE RefuseRequest(c) BY <1>6 DEF RefuseRequest, Block, storeState, LocalType, OverlapTypeOK
<1>7. CASE Sweep(c) BY <1>7 DEF Sweep, Expire, Keep, Uncertain
<1>8. CASE EndCycle(c) BY <1>8 DEF EndCycle, Idle, storeState, LocalType, OverlapTypeOK
<1> QED BY <1>1, <1>2, <1>3, <1>4, <1>5, <1>6, <1>7, <1>8

\* The gates: who leaves a gate unresolved blocks its tickets or has settled it.
LEMMA CalmGates ==
  ASSUME Typed, SyncInv, NEW c \in Controller, Calm(c), NoneStarted,
         ReadGates(c) \/ KeepBlocked(c) \/ ReconcileGate(c) \/ BothQuiescent(c)
           \/ ObserveConflict(c) \/ DecideNoConflict(c) \/ DecideConflict(c) \/ AlreadyDecided(c)
  PROVE  Calm(c)' /\ NoneStarted'
<1> USE DEF Typed, SyncInv, Calm, NoneStarted, After, Goto, Set
<1>1. CASE ReadGates(c) BY <1>1 DEF ReadGates, Keep, storeState, Cleared, Unresolved, LocalType,
     OverlapTypeOK
<1>2. CASE KeepBlocked(c) BY <1>2 DEF KeepBlocked, Block, storeState, Cleared, LocalType,
     OverlapTypeOK
<1>3. CASE ReconcileGate(c) BY <1>3, ZenonT(60) DEF ReconcileGate, Keep, Settles, Cleared, Unresolved,
     Uncertain, LocalType, OverlapTypeOK
<1>4. CASE BothQuiescent(c) BY <1>4 DEF BothQuiescent, Keep, storeState, Quiescent, Open
<1>5. CASE ObserveConflict(c) BY <1>5 DEF ObserveConflict, Keep, storeState, Open
<1>6. CASE DecideNoConflict(c) BY <1>6 DEF DecideNoConflict, Keep, Cleared, Unresolved, Uncertain,
     LocalType, OverlapTypeOK
<1>7. CASE DecideConflict(c) BY <1>7 DEF DecideConflict, Keep, Open, Started, Uncertain, LocalType,
     OverlapTypeOK
<1>8. CASE AlreadyDecided(c)
  <2>1. at' = [at EXCEPT ![c] = "refresh"] /\ UNCHANGED storeState /\ at[c] = "decide"
    BY <1>8 DEF AlreadyDecided
  <2>2. CASE syncGate = "SYNCED"
    BY <1>8, <2>1, <2>2 DEF AlreadyDecided, Settles, storeState, LocalType, OverlapTypeOK
  <2>3. CASE syncGate \in {"CLEARED", "EXECUTED"}
    BY <1>8, <2>1, <2>3 DEF AlreadyDecided, Keep, storeState, Cleared, Unresolved, OverlapTypeOK
  <2> QED BY <1>8, <2>2, <2>3 DEF AlreadyDecided
<1> QED BY <1>1, <1>2, <1>3, <1>4, <1>5, <1>6, <1>7, <1>8

LEMMA CalmWriter ==
  ASSUME Typed, SyncInv, NEW c \in Controller, Calm(c), NoneStarted,
         PrepareRecord(c) \/ RecordInFlight(c) \/ Send(c) \/ Readback(c) \/ WriterFails(c)
           \/ FinishReceipt(c) \/ ReceiptFails(c)
  PROVE  Calm(c)' /\ NoneStarted'
<1> USE DEF Typed, SyncInv, Calm, NoneStarted, After, Goto, Set
<1>1. CASE PrepareRecord(c) BY <1>1 DEF PrepareRecord, Keep, storeState
<1>2. CASE RecordInFlight(c) BY <1>2 DEF RecordInFlight, Keep, storeState
<1>3. CASE Send(c) BY <1>3 DEF Send, Keep, storeState
<1>4. CASE Readback(c) BY <1>4 DEF Readback, Keep, storeState
<1>5. CASE WriterFails(c) BY <1>5 DEF WriterFails, Block, Cleared, WriterPlaces, Writing,
     BeforeSend, Undecided, Uncertain, Unresolved, LocalType, OverlapTypeOK
<1>6. CASE FinishReceipt(c) BY <1>6 DEF FinishReceipt, Settles, Uncertain, LocalType, OverlapTypeOK
<1>7. CASE ReceiptFails(c) BY <1>7 DEF ReceiptFails, Opened, Block, Cleared, Uncertain, LocalType,
     OverlapTypeOK
<1> QED BY <1>1, <1>2, <1>3, <1>4, <1>5, <1>6, <1>7

\* From the refreshed inventory to the launches.
LEMMA CalmStarts ==
  ASSUME Typed, SyncInv, NEW c \in Controller, Calm(c), NoneStarted,
         ConfirmAlready(c) \/ RefreshSynced(c) \/ ConfirmNew(c) \/ LaneStart(c)
           \/ LaneRefused(c) \/ NoLaneStart(c) \/ Schedule(c) \/ BoundaryClosed(c) \/ Prepare(c)
  PROVE  Calm(c)' /\ NoneStarted'
<1> USE DEF Typed, SyncInv, Calm, NoneStarted, After, Goto, Set
<1>1. CASE ConfirmAlready(c) BY <1>1 DEF ConfirmAlready, Confirms, Keep, Cleared, Unresolved,
     Uncertain, LocalType, OverlapTypeOK
<1>2. CASE RefreshSynced(c) BY <1>2 DEF RefreshSynced, storeState, LocalType, OverlapTypeOK
<1>3. CASE ConfirmNew(c) BY <1>3 DEF ConfirmNew, Confirms, Keep, Cleared, Unresolved, Uncertain,
     LocalType, OverlapTypeOK
<1>4. CASE LaneStart(c) BY <1>4 DEF LaneStart, Proceeds, Cleared, storeState, LocalType,
     OverlapTypeOK
<1>5. CASE LaneRefused(c) BY <1>5 DEF LaneRefused, Proceeds, Cleared, storeState, LocalType,
     OverlapTypeOK
<1>6. CASE NoLaneStart(c) BY <1>6 DEF NoLaneStart, Proceeds, Keep, Cleared, storeState, LocalType,
     OverlapTypeOK
<1>7. CASE Schedule(c) BY <1>7 DEF Schedule, Cleared, LocalType, OverlapTypeOK
<1>8. CASE BoundaryClosed(c) BY <1>8 DEF BoundaryClosed, Keep, storeState
<1>9. CASE Prepare(c) BY <1>9 DEF Prepare, Keep, Cleared, Started, LocalType, OverlapTypeOK
<1> QED BY <1>1, <1>2, <1>3, <1>4, <1>5, <1>6, <1>7, <1>8, <1>9

LEMMA PlainCalm == ASSUME Typed, SyncInv, NEW c \in Controller, Calm(c), NoneStarted, Plain(c)
                   PROVE  Calm(c)' /\ NoneStarted'
BY CalmBegins, CalmGates, CalmWriter, CalmStarts, Zenon DEF Plain

\* What happens to one lane: a launch begins only if the cycle is not blocked.
LEMMA LaneCalm ==
  ASSUME Typed, SyncInv, NEW c \in Controller, NEW d \in Lane, Calm(c), NoneStarted, OnLane(c, d)
  PROVE  Calm(c)' /\ NoneStarted'
<1> USE DEF Typed, SyncInv, Calm, NoneStarted, After, Cleared, Started, OverlapTypeOK
<1>1. UNCHANGED <<at, local, syncGate, allowance>>
  BY Zenon DEF OnLane, ConfirmQuiescence, Begin, Cancel, RunSession, Accept, LaunchFails, storeState
<1>2. CASE ConfirmQuiescence(c, d) BY <1>1, <1>2 DEF ConfirmQuiescence, Open
<1>3. CASE Begin(c, d) BY <1>1, <1>3 DEF Begin, Admits, Open, Uncertain, Unresolved
<1>4. CASE Cancel(c, d) BY <1>1, <1>4 DEF Cancel, Open
<1>5. CASE RunSession(c, d) BY <1>1, <1>5 DEF RunSession, storeState, Open
<1>6. CASE Accept(c, d) BY <1>1, <1>6 DEF Accept, Open
<1>7. CASE LaunchFails(c, d) BY <1>1, <1>7 DEF LaunchFails, Open
<1> QED BY <1>2, <1>3, <1>4, <1>5, <1>6, <1>7 DEF OnLane

LEMMA LiveStep == ASSUME Typed, LiveIsStarted, [SyncNext]_syncVars PROVE LiveIsStarted'
<1> USE DEF Typed, OverlapTypeOK, LiveIsStarted, Started
<1>1. CASE \E c \in Controller : Recover(c) BY <1>1 DEF Recover, Interrupted, world
<1>2. CASE \E c \in Controller : Prepare(c) BY <1>2 DEF Prepare, world
<1>3. CASE \E c \in Controller, d \in Lane : OnLane(c, d)
  BY <1>3 DEF OnLane, ConfirmQuiescence, Begin, Cancel, RunSession, Accept, LaunchFails,
       storeState, world
<1>4. CASE \E d \in Lane : SessionEnds(d) BY <1>4 DEF SessionEnds, storeState
<1>5. CASE UNCHANGED <<launch, session>> BY <1>5
<1> QED BY <1>1, <1>2, <1>3, <1>4, <1>5, ZenonT(40) DEF SyncNext, syncVars, OnLane, StartCycle,
     NoRequest, Register, RegisterExpired,
       RefuseRequest, Sweep, ReadGates, KeepBlocked, ReconcileGate, BothQuiescent, ObserveConflict,
       DecideNoConflict, DecideConflict, AlreadyDecided, PrepareRecord, RecordInFlight, Send, Readback,
       WriterFails, FinishReceipt, ReceiptFails, ConfirmAlready, RefreshSynced, ConfirmNew, LaneStart,
       LaneRefused, NoLaneStart, Schedule, BoundaryClosed, EndCycle, Land, Drop, OpenStore, Lapse,
       PushBranch, storeState, world

LEMMA CalmOutside ==
  ASSUME Alone, NoneStarted, \A c \in Controller : Calm(c),
         \/ Land \/ Drop \/ OpenStore \/ Lapse
         \/ \E s \in Side : PushBranch(s)
         \/ \E d \in Lane : SessionEnds(d)
         \/ UNCHANGED syncVars
  PROVE  Alone' /\ NoneStarted' /\ \A c \in Controller : Calm(c)'
<1>1. UNCHANGED <<at, local, launch, bound, allowance>>
  BY Zenon DEF Land, Drop, OpenStore, Lapse, PushBranch, SessionEnds, syncVars, storeState
<1>2. syncGate' = syncGate \/ (syncGate = "IN_FLIGHT" /\ syncGate' = "UNKNOWN")
  <2>1. CASE OpenStore BY <2>1 DEF OpenStore, Opened
  <2>2. CASE UNCHANGED syncGate BY <2>2
  <2> QED BY <2>1, <2>2, Zenon DEF Land, Drop, Lapse, PushBranch, SessionEnds, syncVars, storeState
<1>3. Alone' BY <1>1 DEF Alone
<1>4. NoneStarted' BY <1>1, <1>2 DEF NoneStarted, Uncertain
<1>5. ASSUME NEW c \in Controller PROVE Calm(c)'
  <2>1. Calm(c) OBVIOUS
  <2>2. syncGate \notin Unresolved => syncGate' \notin Unresolved BY <1>2 DEF Unresolved
  <2> QED BY <1>1, <1>2, <2>1, <2>2 DEF Calm, Cleared, Open
<1> QED BY <1>3, <1>4, <1>5

LEMMA OverlapStays == ASSUME [SyncNext]_syncVars, ~overlapped' PROVE ~overlapped
<1>1. ASSUME NEW c \in Controller, Plain(c) PROVE ~overlapped BY <1>1, ActsAlone
<1>2. ASSUME NEW c \in Controller, NEW d \in Lane, OnLane(c, d) PROVE ~overlapped
  BY <1>2, Zenon DEF OnLane, ConfirmQuiescence, Begin, Cancel, RunSession, Accept, LaunchFails
<1>3. CASE Land \/ Drop \/ OpenStore \/ Lapse
  BY <1>3, Zenon DEF Land, Drop, OpenStore, Lapse
<1>4. ASSUME NEW s \in Side, PushBranch(s) PROVE ~overlapped BY <1>4 DEF PushBranch
<1>5. ASSUME NEW d \in Lane, SessionEnds(d) PROVE ~overlapped BY <1>5 DEF SessionEnds
<1>6. CASE UNCHANGED syncVars BY <1>6, Zenon DEF syncVars
<1> QED BY <1>1, <1>2, <1>3, <1>4, <1>5, <1>6, Zenon DEF SyncNext, Plain, OnLane

LEMMA CalmStep == ASSUME Typed, SyncInv, CalmInv, [SyncNext]_syncVars PROVE CalmInv'
<1>1. LiveIsStarted' BY LiveStep DEF CalmInv
<1> SUFFICES ASSUME ~overlapped' PROVE Alone' /\ NoneStarted' /\ \A c \in Controller : Calm(c)'
  BY <1>1 DEF CalmInv
<1>2. Alone /\ NoneStarted /\ \A c \in Controller : Calm(c) BY OverlapStays DEF CalmInv
<1>3. ASSUME NEW c \in Controller, Plain(c)
      PROVE  Alone' /\ NoneStarted' /\ \A o \in Controller : Calm(o)'
  <2>1. Calm(c)' /\ NoneStarted' BY <1>2, <1>3, PlainCalm
  <2>2. at[c] # "idle" \/ \A o \in Controller : at[o] = "idle" BY <1>3, ActsAlone
  <2>3. \A o \in Controller \ {c} : at'[o] = at[o] /\ local'[o] = local[o] BY <1>3, OthersKeep
  <2> QED BY <1>2, <2>1, <2>2, <2>3, OneActs
<1>4. ASSUME NEW c \in Controller, NEW d \in Lane, OnLane(c, d)
      PROVE  Alone' /\ NoneStarted' /\ \A o \in Controller : Calm(o)'
  <2>1. Calm(c)' /\ NoneStarted' BY <1>2, <1>4, LaneCalm
  <2>2. UNCHANGED <<at, local>>
    BY <1>4, Zenon DEF OnLane, ConfirmQuiescence, Begin, Cancel, RunSession, Accept, LaunchFails
  <2>3. at[c] # "idle"
    BY <1>4 DEF OnLane, ConfirmQuiescence, Begin, Cancel, RunSession, Accept, LaunchFails
  <2> QED BY <1>2, <2>1, <2>2, <2>3, OneActs
<1> QED BY <1>2, <1>3, <1>4, CalmOutside, Zenon DEF SyncNext, Plain, OnLane

LEMMA CalmInvHolds == SyncSpec => [](Typed /\ SyncInv /\ CalmInv)
<1>1. SyncInit => CalmInv BY CalmInit
<1>2. CalmInv /\ Typed /\ SyncInv /\ [SyncNext]_syncVars => CalmInv' BY CalmStep
<1> QED BY <1>1, <1>2, SyncInvHolds, TypedHolds, PTL DEF SyncSpec

\* As long as no cycle overlaps another, no session of either lane is alive while
\* execute_overlap_sync_gate may be changing a branch.
THEOREM QuietWhileSyncingHolds == SyncSpec => []QuietWhileSyncing
<1>1. Typed /\ SyncInv /\ CalmInv => QuietWhileSyncing
  <2> SUFFICES ASSUME Typed, SyncInv, CalmInv, ~overlapped, syncGate \in Uncertain \/ wire > 0,
                      NEW d \in Lane, session[d] = "live"
               PROVE  FALSE
    BY DEF QuietWhileSyncing, Uncertain
  <2>1. launch[d] \in Started BY DEF CalmInv, LiveIsStarted
  <2>2. syncGate \notin Uncertain BY <2>1 DEF CalmInv, NoneStarted
  <2>3. wire > 0 => syncGate \in Uncertain
    BY DEF SyncInv, Undecided, Uncertain, Unresolved, Typed, OverlapTypeOK
  <2> QED BY <2>2, <2>3
<1> QED BY <1>1, CalmInvHolds, PTL

\* The two together.
THEOREM SyncIsSafeHolds == SyncSpec => []SyncIsSafe
BY SyncIsExactHolds, QuietWhileSyncingHolds, PTL DEF SyncIsSafe

\* begin_dispatch under a gate or an allowance that is over never happens in a history
\* without overlapping cycles.
THEOREM NoStartUnderGateHolds == SyncSpec => NoStartUnderGate
<1> DEFINE Step ==
      \A d \in Lane : launch[d] = "PENDING" /\ launch'[d] = "IN_FLIGHT" /\ ~overlapped
        => syncGate \notin Unresolved /\ (d \in waived => allowance = "ACTIVE")
<1>1. Typed /\ CalmInv /\ [SyncNext]_syncVars => [Step]_syncVars
  <2> SUFFICES ASSUME Typed, CalmInv, SyncNext, NEW d \in Lane, launch[d] = "PENDING",
                      launch'[d] = "IN_FLIGHT", ~overlapped
               PROVE  syncGate \notin Unresolved /\ (d \in waived => allowance = "ACTIVE")
    OBVIOUS
  <2> USE DEF Typed, OverlapTypeOK
  <2>1. CASE \E c \in Controller : Begin(c, d)
    <3>1. PICK c \in Controller : Begin(c, d) BY <2>1
    <3>2. Calm(c) BY DEF CalmInv
    <3> QED BY <3>1, <3>2 DEF Calm, Begin, Admits, After, Cleared
  <2>2. CASE \E c \in Controller, e \in Lane : OnLane(c, e) /\ ~Begin(c, d)
    BY <2>2 DEF OnLane, ConfirmQuiescence, Begin, Cancel, RunSession, Accept, LaunchFails,
         storeState
  <2>3. CASE \E c \in Controller : Recover(c) \/ Prepare(c) BY <2>3 DEF Recover, Prepare
  <2>4. CASE UNCHANGED launch BY <2>4
  <2> QED BY <2>1, <2>2, <2>3, <2>4, ZenonT(40) DEF SyncNext, OnLane, StartCycle, NoRequest, Register,
       RegisterExpired,
       RefuseRequest, Sweep, ReadGates, KeepBlocked, ReconcileGate, BothQuiescent, ObserveConflict,
       DecideNoConflict, DecideConflict, AlreadyDecided, PrepareRecord, RecordInFlight, Send, Readback,
       WriterFails, FinishReceipt, ReceiptFails, ConfirmAlready, RefreshSynced, ConfirmNew, LaneStart,
       LaneRefused, NoLaneStart, Schedule, BoundaryClosed, EndCycle, Land, Drop, OpenStore, Lapse,
       PushBranch, SessionEnds, storeState
<1> QED BY <1>1, CalmInvHolds, PTL DEF SyncSpec, NoStartUnderGate
=============================================================================
