--------------------------- MODULE DispatchProofs ---------------------------
(***************************************************************************)
(* Theorems about Dispatch, for any number of cycles, streams, tickets,    *)
(* inventories, seals and generations.                                     *)
(***************************************************************************)
EXTENDS Dispatch, FiniteSetTheorems, FunctionTheorems, SequenceTheorems, TLAPS

-----------------------------------------------------------------------------
(* Types.                                                                  *)

Observing == {"recovered", "sealed", "gated", "planned", "scheduled", "cancelling"}
Claiming == {"launching", "recorded", "started"}
Deciding == {"gated", "planned", "scheduled"}

\* What a cycle has read by the time it uses it.
LocalsRead ==
  \A c \in Cycle :
    /\ pc[c] \in Observing => view[c].digest \in Digest
    /\ pc[c] \in Deciding => view[c].policy \in Policy
    /\ pc[c] \in Claiming \cup {"observing", "outdated"} => cur[c] \in Intent

TypeInv == TypeOK /\ LocalsRead

IsInventory(inv) == DOMAIN inv \subseteq Ticket /\ \A t \in DOMAIN inv : inv[t] \in Item

\* Gating an inventory changes dispositions only: it stays an inventory.
LEMMA GatedInventory ==
  ASSUME NEW d \in Digest, NEW hidden
  PROVE  IsInventory(Gated(d, hidden))
<1>1. DOMAIN Gated(d, hidden) = DOMAIN Content[d]
  BY DEF Gated
<1>2. ASSUME NEW t \in DOMAIN Content[d]
      PROVE  Gated(d, hidden)[t] \in Item
  <2>1. Content[d][t] \in Item
    BY ConstantsAssumption
  <2>2. [Content[d][t] EXCEPT !.disp = "BLOCKED"] \in Item
    BY <2>1 DEF Item, Disposition
  <2> QED BY <2>1, <2>2 DEF Gated
<1> QED BY <1>1, <1>2, ConstantsAssumption DEF IsInventory

\* What _schedule settles on: the streams it keeps, those it starts and the
\* ticket each of the others takes.
LEMMA RescheduleShape ==
  ASSUME NEW inv, NEW cap, NEW reserved, NEW rank,
         Reschedule(rows, inv, cap, reserved, rank)
  PROVE  \E kept \in SUBSET Stream, go \in SUBSET Stream, pick \in [Stream -> Ticket \cup {None}] :
           /\ kept \cap go = {}
           /\ IsKept(kept, rows, inv, cap, reserved)
           /\ IsPick(pick, go, kept, FreeStreams(kept, rows, inv),
                     WaitingBy(kept, rows, inv), Slots(kept, rows, cap),
                     rows, inv, reserved, rank)
           /\ rows' = [s \in Stream |-> NewRow(s, kept, go, pick, rows, inv)]
           /\ saved' = Resave(kept, rows, inv)
<1>1. PICK kept \in SUBSET Stream :
        /\ IsKept(kept, rows, inv, cap, reserved)
        /\ \E free \in {FreeStreams(kept, rows, inv)},
              slots \in {Slots(kept, rows, cap)}, waiting \in {WaitingBy(kept, rows, inv)} :
           \E go \in SUBSET free, pick \in [Stream -> Ticket \cup {None}] :
             /\ IsPick(pick, go, kept, free, waiting, slots, rows, inv, reserved, rank)
             /\ rows' = [s \in Stream |-> NewRow(s, kept, go, pick, rows, inv)]
             /\ saved' = Resave(kept, rows, inv)
  BY DEF Reschedule
<1> DEFINE open == FreeStreams(kept, rows, inv)
           places == Slots(kept, rows, cap)
           queue == WaitingBy(kept, rows, inv)
<1>2. open \subseteq Stream /\ kept \cap open = {}
  BY DEF FreeStreams
<1> HIDE DEF open, places, queue
<1>3. PICK go \in SUBSET open, pick \in [Stream -> Ticket \cup {None}] :
        /\ IsPick(pick, go, kept, open, queue, places, rows, inv, reserved, rank)
        /\ rows' = [s \in Stream |-> NewRow(s, kept, go, pick, rows, inv)]
        /\ saved' = Resave(kept, rows, inv)
  BY <1>1, Zenon DEF open, places, queue
<1>4. go \in SUBSET Stream /\ kept \cap go = {}
  BY <1>2
<1> QED BY <1>1, <1>3, <1>4, Zenon DEF open, places, queue

\* The rows and the remembered rows that _schedule writes are well formed.
LEMMA RescheduleTypes ==
  ASSUME TypeOK, NEW inv, IsInventory(inv), NEW cap, NEW reserved, NEW rank,
         Reschedule(rows, inv, cap, reserved, rank)
  PROVE  rows' \in [Stream -> RowType] /\ saved' \in [Intent -> SavedType \cup {None}]
<1>1. PICK kept \in SUBSET Stream, go \in SUBSET Stream, pick \in [Stream -> Ticket \cup {None}] :
        /\ kept \cap go = {}
        /\ IsKept(kept, rows, inv, cap, reserved)
        /\ IsPick(pick, go, kept, FreeStreams(kept, rows, inv),
                  WaitingBy(kept, rows, inv), Slots(kept, rows, cap),
                  rows, inv, reserved, rank)
        /\ rows' = [s \in Stream |-> NewRow(s, kept, go, pick, rows, inv)]
        /\ saved' = Resave(kept, rows, inv)
  BY RescheduleShape
<1> DEFINE queue == WaitingBy(kept, rows, inv)
<1>3. ASSUME NEW s \in Stream, NEW t \in DOMAIN inv, NEW st \in StreamState
      PROVE  [state |-> st, ticket |-> t, tuple |-> inv[t].tuple, why |-> None] \in RowType
  BY DEF IsInventory, Item, RowType
<1>4. ASSUME NEW s \in Stream
      PROVE  NewRow(s, kept, go, pick, rows, inv) \in RowType
  <2>1. CASE s \in kept
    <3>1. rows[s].ticket \in DOMAIN inv
      BY <1>1, <2>1 DEF IsKept, Retainable
    <3> QED BY <3>1, <2>1, <1>3 DEF NewRow, StreamState
  <2>2. CASE s \notin kept /\ s \in go
    <3>1. pick[s] \in Startable(s, kept, go, pick, queue, Slots(kept, rows, cap), rows, inv, reserved)
      BY <1>1, <2>2 DEF IsPick, IsFirst
    <3>2. pick[s] \in DOMAIN inv
      BY <3>1 DEF Startable, Left, Waiting, WaitingBy
    <3> QED BY <3>2, <2>2, <1>3 DEF NewRow, StreamState
  <2>3. CASE s \notin kept /\ s \notin go /\ UnknownOf(s, rows, inv) # {}
    <3>1. (CHOOSE i \in UnknownOf(s, rows, inv) : TRUE) \in Intent
      BY <2>3 DEF UnknownOf
    <3> DEFINE i == CHOOSE i \in UnknownOf(s, rows, inv) : TRUE
    <3>2. NewRow(s, kept, go, pick, rows, inv)
            = [state |-> "BLOCKED", ticket |-> i.ticket, tuple |-> i.tuple, why |-> i]
      BY <2>3 DEF NewRow
    <3> HIDE DEF i
    <3>3. i \in Intent
      BY <3>1 DEF i
    <3> QED BY <3>2, <3>3 DEF Intent, RowType, StreamState
  <2>4. CASE s \notin kept /\ s \notin go /\ UnknownOf(s, rows, inv) = {} /\ pick[s] # None
    <3>1. pick[s] \in Showable(s, pick, queue)
      BY <1>1, <2>4 DEF IsPick, IsFirst
    <3>2. pick[s] \in DOMAIN inv
      BY <3>1 DEF Showable, Left, Waiting, WaitingBy
    <3>3. Waits(inv, pick[s]) \in StreamState
      BY DEF Waits, StreamState
    <3> QED BY <3>2, <3>3, <2>4, <1>3 DEF NewRow
  <2>5. CASE s \notin kept /\ s \notin go /\ UnknownOf(s, rows, inv) = {} /\ pick[s] = None
    BY <2>5 DEF NewRow, IdleRow, RowType, StreamState
  <2> QED BY <2>1, <2>2, <2>3, <2>4, <2>5
<1>5. ASSUME NEW i \in Intent
      PROVE  Resave(kept, rows, inv)[i] \in SavedType \cup {None}
  <2>1. CASE i.stream \notin kept /\ i \in UnknownOf(i.stream, rows, inv)
    <3>1. i.ticket \in DOMAIN inv
      BY <2>1 DEF UnknownOf
    <3>2. inv[i.ticket].tuple \in Tuple /\ inv[i.ticket].disp \in Disposition
      BY <3>1 DEF IsInventory, Item
    <3>3. (IF inv[i.ticket].disp = "ELIGIBLE" THEN "WORKING" ELSE inv[i.ticket].disp) \in StreamState
      BY <3>2 DEF Disposition, StreamState
    <3> QED BY <2>1, <3>2, <3>3 DEF Resave, SavedType
  <2>2. CASE ~(i.stream \notin kept /\ i \in UnknownOf(i.stream, rows, inv))
    BY <2>2 DEF Resave, TypeOK
  <2> QED BY <2>1, <2>2
<1> QED
  <2>1. Resave(kept, rows, inv) \in [Intent -> SavedType \cup {None}]
    BY <1>5 DEF Resave
  <2> QED BY <1>1, <1>4, <2>1

\* The three outcomes of schedule keep the ledger well formed.
LEMMA ScheduleTypes ==
  ASSUME TypeOK, NEW d \in Digest, NEW inv, IsInventory(inv),
         NEW cap, NEW reserved, NEW rank,
         ScheduleTransaction(d, inv, cap, reserved, rank)
  PROVE  /\ rows' \in [Stream -> RowType]
         /\ status' \in [Intent -> Status]
         /\ saved' \in [Intent -> SavedType \cup {None}]
         /\ lastInv' \in Digest \cup {None}
         /\ seals' \in Seq(SealType)
         /\ revised' \in BOOLEAN
<1>1. CASE UNCHANGED store
  BY <1>1 DEF store, TypeOK
<1>2. CASE /\ Reschedule(rows, inv, cap, reserved, rank)
           /\ lastInv' = d
           /\ revised' = (revised \/ rows' # rows)
           /\ UNCHANGED <<status, seals>>
  BY <1>2, RescheduleTypes DEF TypeOK
<1>3. CASE /\ Reschedule(rows, inv, cap, reserved, rank)
           /\ status' = WithIntents(rows', status)
           /\ Consume(d, NewIntents(rows', status))
           /\ lastInv' = d
           /\ revised' = (revised \/ rows' # rows)
  <2>1. rows' \in [Stream -> RowType] /\ saved' \in [Intent -> SavedType \cup {None}]
    BY <1>3, RescheduleTypes
  <2>2. status' \in [Intent -> Status]
    BY <1>3 DEF TypeOK, WithIntents, Status
  <2>3. PICK k \in MatchingSeals(d) :
          seals' = [seals EXCEPT ![k] = [@ EXCEPT !.state = "CONSUMED",
                                                  !.heirs = NewIntents(rows', status)]]
    BY <1>3 DEF Consume
  <2>4. k \in 1..Len(seals) /\ seals[k] \in SealType
    BY <2>3 DEF TypeOK, MatchingSeals
  <2>5. [seals[k] EXCEPT !.state = "CONSUMED", !.heirs = NewIntents(rows', status)] \in SealType
    BY <2>4 DEF SealType, NewIntents
  <2>6. seals' \in Seq(SealType)
    BY <2>3, <2>4, <2>5, ExceptSeq DEF TypeOK
  <2> QED BY <1>3, <2>1, <2>2, <2>6 DEF TypeOK
<1> QED BY <1>1, <1>2, <1>3 DEF ScheduleTransaction

\* Recording unknown outcomes blocks rows and remembers them.
LEMMA RecordUnknownTypes ==
  ASSUME TypeOK, NEW S \in SUBSET Intent, RecordUnknown(S)
  PROVE  /\ rows' \in [Stream -> RowType]
         /\ saved' \in [Intent -> SavedType \cup {None}]
         /\ revised' \in BOOLEAN
<1> DEFINE blames(s) == {i \in S : i.stream = s /\ Owns(rows[s], i)}
<1>1. /\ rows' = [s \in Stream |->
            IF blames(s) = {} THEN rows[s]
            ELSE Blocked(rows[s], CHOOSE i \in blames(s) : TRUE)]
      /\ saved' = [i \in Intent |->
            IF i \in blames(i.stream) /\ saved[i] = None
            THEN [state |-> rows[i.stream].state, tuple |-> rows[i.stream].tuple]
            ELSE saved[i]]
      /\ revised' = (revised \/ S # {})
  BY DEF RecordUnknown, Revise
<1>2. ASSUME NEW s \in Stream, blames(s) # {}
      PROVE  Blocked(rows[s], CHOOSE i \in blames(s) : TRUE) \in RowType
  <2>1. (CHOOSE i \in blames(s) : TRUE) \in Intent
    BY <1>2
  <2>2. ASSUME NEW i \in Intent PROVE Blocked(rows[s], i) \in RowType
    <3>1. rows[s] \in RowType
      BY DEF TypeOK
    <3>2. ASSUME NEW row \in RowType PROVE Blocked(row, i) \in RowType
      BY DEF Blocked, RowType, StreamState
    <3> QED BY <3>1, <3>2
  <2> HIDE DEF blames
  <2> QED BY <2>1, <2>2
<1>3. ASSUME NEW i \in Intent, i \in blames(i.stream)
      PROVE  [state |-> rows[i.stream].state, tuple |-> rows[i.stream].tuple] \in SavedType
  <2>1. i.stream \in Stream /\ rows[i.stream] \in RowType
    BY DEF TypeOK, Intent
  <2>2. rows[i.stream].tuple \in Tuple
    BY <1>3 DEF Owns, Intent
  <2> QED BY <2>1, <2>2 DEF RowType, SavedType
<1> HIDE DEF blames
<1>4. rows' \in [Stream -> RowType]
  BY <1>1, <1>2 DEF TypeOK
<1>5. saved' \in [Intent -> SavedType \cup {None}]
  BY <1>1, <1>3 DEF TypeOK
<1> QED BY <1>1, <1>4, <1>5 DEF TypeOK

\* Marking a dispatch unknown leaves the ledger well formed.
LEMMA MarkUnknownTypes ==
  ASSUME TypeOK, NEW i \in Intent, MarkDispatchUnknown(i)
  PROVE  /\ rows' \in [Stream -> RowType]
         /\ status' \in [Intent -> Status]
         /\ saved' \in [Intent -> SavedType \cup {None}]
         /\ revised' \in BOOLEAN
         /\ UNCHANGED <<lastInv, seals, run>>
<1>1. RecordUnknown({j \in {i} : status[j] \in {"IN_FLIGHT", "UNKNOWN"}})
  BY DEF MarkDispatchUnknown
<1>2. status' \in [Intent -> Status]
  BY DEF MarkDispatchUnknown, TypeOK, Status
<1> QED BY <1>1, <1>2, RecordUnknownTypes DEF MarkDispatchUnknown

-----------------------------------------------------------------------------
(* The ledger is always well formed.                                       *)

\* A fresh store, with idle cycles, is well formed.
LEMMA TypeInit == Init => TypeInv
<1> SUFFICES ASSUME Init PROVE TypeInv
  OBVIOUS
<1>1. IdleRow \in RowType
  BY DEF IdleRow, RowType, StreamState
<1>2. << >> \in Seq(SealType)
  BY EmptySeq
<1>3. NoView \in ViewType
  BY DEF NoView, ViewType
<1>4. TypeOK
  BY <1>1, <1>2, <1>3 DEF Init, TypeOK, Status, Label
<1>5. LocalsRead
  BY DEF Init, LocalsRead, Observing, Deciding, Claiming
<1> QED BY <1>4, <1>5 DEF TypeInv

\* What a cycle reads keeps its place.
LEMMA ReadTypes ==
  ASSUME TypeInv, NEW c \in Cycle,
         \/ RecoverDispatches(c) \/ SealRoundBoundaryReplan(c)
         \/ ReadCancellationBoundary(c) \/ ReadRoundBoundary(c)
  PROVE  TypeInv'
<1> USE DEF TypeInv
<1>0. view[c] \in ViewType
  BY DEF TypeOK
<1>1. CASE RecoverDispatches(c)
  <2>1. PICK d \in Digest : view' = [view EXCEPT ![c] = [NoView EXCEPT !.digest = d]]
    BY <1>1 DEF RecoverDispatches
  <2>2. [NoView EXCEPT !.digest = d] \in ViewType /\ [NoView EXCEPT !.digest = d].digest = d
    BY DEF NoView, ViewType
  <2>3. Claims \in SUBSET Intent
    BY DEF Claims
  <2>4. /\ rows' \in [Stream -> RowType]
        /\ saved' \in [Intent -> SavedType \cup {None}]
        /\ revised' \in BOOLEAN
    BY <1>1, <2>3, RecordUnknownTypes DEF RecoverDispatches
  <2>5. status' \in [Intent -> Status]
    BY <1>1 DEF RecoverDispatches, TypeOK, Status
  <2>6. TypeOK'
    BY <1>1, <2>1, <2>2, <2>4, <2>5 DEF RecoverDispatches, TypeOK, Goto, Label
  <2>7. LocalsRead'
    BY <1>1, <2>1, <2>2 DEF RecoverDispatches, TypeOK, LocalsRead, Goto, Observing, Deciding, Claiming
  <2> QED BY <2>6, <2>7
<1>2. CASE SealRoundBoundaryReplan(c)
  <2>1. view[c].digest \in Digest
    BY <1>2 DEF SealRoundBoundaryReplan, LocalsRead, Observing
  <2>2. NonTerminalRows \in [NonTerminal -> Open] /\ NonTerminal \in SUBSET Intent
    BY DEF NonTerminalRows, NonTerminal
  <2>3. NonTerminalRows \in UNION {[S -> Open] : S \in SUBSET Intent}
    BY <2>2
  <2>4. [state |-> "SEALED", next |-> view[c].digest,
         bound |-> NonTerminalRows, heirs |-> {}] \in SealType
    BY <2>1, <2>3 DEF SealType
  <2>5. seals' \in Seq(SealType)
    BY <1>2, <2>4, AppendProperties DEF SealRoundBoundaryReplan, TypeOK
  <2>6. TypeOK'
    BY <1>2, <2>5 DEF SealRoundBoundaryReplan, TypeOK, Goto, Label
  <2>7. LocalsRead'
    BY <1>2, <2>1 DEF SealRoundBoundaryReplan, TypeOK, LocalsRead, Goto, Observing, Deciding, Claiming
  <2> QED BY <2>6, <2>7
<1>3. CASE ReadCancellationBoundary(c)
  <2> DEFINE ok == RoundBoundaryReady(view[c].digest, Content[view[c].digest])
  <2>1. PICK p \in Policy :
          view' = [view EXCEPT ![c].policy = p, ![c].cancelOk = ok]
    BY <1>3 DEF ReadCancellationBoundary
  <2>2. ok \in BOOLEAN
    BY DEF RoundBoundaryReady, Admitted
  <2> HIDE DEF ok
  <2>3. view'[c] \in ViewType /\ view'[c].policy = p /\ view'[c].digest = view[c].digest
    BY <1>0, <2>1, <2>2 DEF TypeOK, ViewType
  <2>4. view' \in [Cycle -> ViewType]
    BY <2>1, <2>3 DEF TypeOK
  <2>5. TypeOK'
    BY <1>3, <2>4 DEF ReadCancellationBoundary, TypeOK, Goto, Label, store
  <2>6. LocalsRead'
    BY <1>3, <2>1, <2>3 DEF ReadCancellationBoundary, TypeOK, LocalsRead, Goto, Observing, Deciding, Claiming
  <2> QED BY <2>5, <2>6
<1>4. CASE ReadRoundBoundary(c)
  <2> DEFINE ok == RoundBoundaryReady(view[c].digest, PolicyGated(view[c].digest, view[c].policy))
  <2>1. view' = [view EXCEPT ![c].ready = ok]
    BY <1>4 DEF ReadRoundBoundary
  <2>2. ok \in BOOLEAN
    BY DEF RoundBoundaryReady, Admitted
  <2> HIDE DEF ok
  <2>3. view'[c] \in ViewType /\ view'[c].policy = view[c].policy /\ view'[c].digest = view[c].digest
    BY <1>0, <2>1, <2>2 DEF TypeOK, ViewType
  <2>4. view' \in [Cycle -> ViewType]
    BY <2>1, <2>3 DEF TypeOK
  <2>5. TypeOK'
    BY <1>4, <2>4 DEF ReadRoundBoundary, TypeOK, Goto, Label, store
  <2>6. LocalsRead'
    BY <1>4, <2>1, <2>3 DEF ReadRoundBoundary, TypeOK, LocalsRead, Goto, Observing, Deciding, Claiming
  <2> QED BY <2>5, <2>6
<1> QED BY <1>1, <1>2, <1>3, <1>4

\* Scheduling and the operations drawn from it keep their place.
LEMMA PlanTypes ==
  ASSUME TypeInv, NEW c \in Cycle,
         Schedule(c) \/ ListCancellations(c) \/ PrepareDispatches(c)
  PROVE  TypeInv'
<1> USE DEF TypeInv
<1>0. view[c] \in ViewType
  BY DEF TypeOK
<1>1. CASE Schedule(c)
  <2> DEFINE d == view[c].digest
             p == view[c].policy
             inv == PlanGated(d, p)
  <2>1. d \in Digest
    BY <1>1 DEF Schedule, LocalsRead, Observing
  <2>2. IsInventory(inv)
    BY <2>1, GatedInventory DEF PlanGated
  <2>3. /\ rows' \in [Stream -> RowType]
        /\ status' \in [Intent -> Status]
        /\ saved' \in [Intent -> SavedType \cup {None}]
        /\ lastInv' \in Digest \cup {None}
        /\ seals' \in Seq(SealType)
        /\ revised' \in BOOLEAN
    <3>1. CASE \E cap \in 0..MaxCapacity : ScheduleTransaction(d, inv, cap, p.reserved, p.rank)
      <4> HIDE DEF d, p, inv
      <4> QED BY <2>1, <2>2, <3>1, ScheduleTypes
    <3>2. CASE UNCHANGED store
      BY <3>2 DEF store, TypeOK
    <3> QED BY <1>1, <3>1, <3>2 DEF Schedule
  <2>4. admit' \in [Cycle -> SUBSET Intent]
    BY <1>1, ZenonT(60) DEF Schedule, Admissible, TypeOK
  <2>5. TypeOK'
    BY <1>1, <2>3, <2>4 DEF Schedule, TypeOK, Goto, Label
  <2>6. LocalsRead'
    BY <1>1 DEF Schedule, TypeOK, LocalsRead, Goto, Observing, Deciding, Claiming
  <2> QED BY <2>5, <2>6
<1>2. CASE ListCancellations(c)
  <2>1. ASSUME NEW S \in SUBSET Intent PROVE Task("cancel", S) \in SUBSET TaskType
    BY DEF Task, TaskType
  <2>2. todo' \in [Cycle -> SUBSET TaskType]
    BY <1>2, <2>1 DEF ListCancellations, TypeOK
  <2>3. TypeOK'
    BY <1>2, <2>2 DEF ListCancellations, TypeOK, Goto, Label, store
  <2>4. LocalsRead'
    BY <1>2 DEF ListCancellations, TypeOK, LocalsRead, Goto, Observing, Deciding, Claiming
  <2> QED BY <2>3, <2>4
<1>3. CASE PrepareDispatches(c)
  <2> DEFINE pending == {i \in Intent : view[c].ready /\ status'[i] = "PENDING"}
  <2>1. ASSUME NEW S \in SUBSET Intent, NEW op \in {"cancel", "launch", "observe"}
        PROVE  Task(op, S) \in SUBSET TaskType
    BY DEF Task, TaskType
  <2>2. Task("launch", pending \cap admit[c]) \in SUBSET TaskType
    BY <2>1
  <2>3. Task("cancel", pending \ admit[c]) \in SUBSET TaskType
    BY <2>1
  <2>4. Unsettled(status) \cap Watched(view[c].digest) \in SUBSET Intent
    BY DEF Unsettled
  <2>5. Task("observe", Unsettled(status) \cap Watched(view[c].digest)) \in SUBSET TaskType
    BY <2>1, <2>4
  <2>6. todo' \in [Cycle -> SUBSET TaskType]
    BY <1>3, <2>2, <2>3, <2>5 DEF PrepareDispatches, TypeOK
  <2>7. status' \in [Intent -> Status]
    BY <1>3 DEF PrepareDispatches, WithIntents, TypeOK, Status
  <2>8. NoView \in ViewType
    BY DEF NoView, ViewType
  <2>9. TypeOK'
    BY <1>3, <2>6, <2>7, <2>8 DEF PrepareDispatches, TypeOK, Goto, Label
  <2>10. LocalsRead'
    BY <1>3 DEF PrepareDispatches, TypeOK, LocalsRead, Goto, Observing, Deciding, Claiming
  <2> QED BY <2>9, <2>10
<1> QED BY <1>1, <1>2, <1>3

\* Cancelling touches the ledger only.
LEMMA CancelTypes ==
  ASSUME TypeOK, NEW i \in Intent, CancelPending(i) \/ UNCHANGED <<store, run>>
  PROVE  /\ status' \in [Intent -> Status]
         /\ revised' \in BOOLEAN
         /\ UNCHANGED <<rows, saved, lastInv, seals, run>>
BY DEF CancelPending, TypeOK, Status, store

\* The operations of the dispatch loop keep their place.
LEMMA DispatchTypes ==
  ASSUME TypeInv, NEW c \in Cycle,
         \/ CancelDisabled(c) \/ CancelPendingDispatch(c) \/ RefuseSkillSelection(c)
         \/ BeginDispatch(c) \/ BeginDispatchReconciliation(c) \/ OperationFails(c)
  PROVE  TypeInv'
<1> USE DEF TypeInv
<1>0. ASSUME NEW t \in todo[c]
      PROVE  t.on \in Intent
  BY DEF TypeOK, TaskType
<1>1. CASE CancelDisabled(c) \/ CancelPendingDispatch(c) \/ RefuseSkillSelection(c)
  <2>1. PICK t \in todo[c] : /\ CancelPending(t.on) \/ UNCHANGED <<store, run>>
                             /\ Done(c, t)
    BY <1>1 DEF CancelDisabled, CancelPendingDispatch, RefuseSkillSelection
  <2>2. UNCHANGED <<pc, view, admit, cur>>
    BY <1>1 DEF CancelDisabled, CancelPendingDispatch, RefuseSkillSelection
  <2>3. TypeOK'
    BY <1>0, <2>1, <2>2, CancelTypes DEF TypeOK, Done
  <2> QED BY <2>2, <2>3 DEF LocalsRead
<1>2. CASE BeginDispatch(c)
  <2>1. PICK t \in todo[c] :
          /\ status' = [status EXCEPT ![t.on] = "IN_FLIGHT"]
          /\ cur' = [cur EXCEPT ![c] = t.on]
          /\ Done(c, t) /\ Goto(c, "launching")
          /\ UNCHANGED <<rows, saved, lastInv, seals, revised, run, view, admit>>
    BY <1>2 DEF BeginDispatch
  <2>2. TypeOK'
    BY <1>0, <2>1 DEF TypeOK, Done, Goto, Status, Label
  <2>3. LocalsRead'
    BY <1>0, <2>1 DEF TypeOK, LocalsRead, Goto, Observing, Deciding, Claiming
  <2> QED BY <2>2, <2>3
<1>3. CASE BeginDispatchReconciliation(c)
  <2>1. PICK t \in todo[c] :
          /\ cur' = [cur EXCEPT ![c] = t.on]
          /\ Done(c, t)
          /\ pc' = [e \in Cycle |-> IF e = c THEN "observing"
                                   ELSE IF pc[e] = "observing" /\ cur[e] = t.on THEN "outdated"
                                   ELSE pc[e]]
          /\ UNCHANGED <<store, run, view, admit>>
    BY <1>3 DEF BeginDispatchReconciliation
  <2>2. TypeOK'
    BY <1>0, <2>1 DEF TypeOK, Done, store, Label
  <2>3. LocalsRead'
    BY <1>0, <2>1 DEF TypeOK, LocalsRead, Observing, Deciding, Claiming
  <2> QED BY <2>2, <2>3
<1>4. CASE OperationFails(c)
  <2>1. PICK t \in todo[c] :
          /\ MarkDispatchUnknown(t.on)
          /\ Done(c, t)
          /\ UNCHANGED <<pc, view, admit, cur>>
    BY <1>4 DEF OperationFails
  <2>2. TypeOK'
    BY <1>0, <2>1, MarkUnknownTypes DEF TypeOK, Done
  <2> QED BY <2>1, <2>2 DEF LocalsRead
<1> QED BY <1>1, <1>2, <1>3, <1>4

\* Launching and observing keep their place.
LEMMA LaunchTypes ==
  ASSUME TypeInv, NEW c \in Cycle,
         \/ WriteRecord(c) \/ Launch(c) \/ FinishDispatch(c)
         \/ ReconcileDispatch(c) \/ DispatchFails(c)
  PROVE  TypeInv'
<1> USE DEF TypeInv
<1>0. cur[c] \in Intent
  BY DEF LocalsRead, Claiming, WriteRecord, Launch, FinishDispatch,
         ReconcileDispatch, DispatchFails
<1>1. CASE WriteRecord(c)
  <2>1. TypeOK'
    BY <1>0, <1>1 DEF WriteRecord, TypeOK, Goto, Label, store
  <2>2. LocalsRead'
    BY <1>0, <1>1 DEF WriteRecord, TypeOK, LocalsRead, Goto, Observing, Deciding, Claiming
  <2> QED BY <2>1, <2>2
<1>2. CASE Launch(c)
  <2>1. TypeOK'
    BY <1>0, <1>2 DEF Launch, TypeOK, Goto, Label, store
  <2>2. LocalsRead'
    BY <1>0, <1>2 DEF Launch, TypeOK, LocalsRead, Goto, Observing, Deciding, Claiming
  <2> QED BY <2>1, <2>2
<1>3. ASSUME Back(c), UNCHANGED view
      PROVE  LocalsRead'
  BY <1>3 DEF Back, TypeOK, LocalsRead, Goto, Observing, Deciding, Claiming
<1>4. CASE FinishDispatch(c)
  <2>1. status' \in [Intent -> Status]
    BY <1>0, <1>4 DEF FinishDispatch, Receipts, TypeOK, Status
  <2>2. TypeOK'
    BY <1>4, <2>1 DEF FinishDispatch, TypeOK, Back, Goto, Label
  <2> QED BY <1>3, <1>4, <2>2 DEF FinishDispatch
<1>5. CASE ReconcileDispatch(c)
  <2> DEFINE i == cur[c]
  <2>1. ASSUME SettleUnknown(i)
        PROVE  rows' \in [Stream -> RowType] /\ revised' \in BOOLEAN
    <3>1. CASE BlockedBy(i)
      <4>1. saved[i] \in SavedType
        BY <1>0, <2>1, <3>1 DEF SettleUnknown, RestoreAccepted, TypeOK
      <4>2. [[rows[i.stream] EXCEPT !.state = saved[i].state] EXCEPT !.why = None] \in RowType
        <5>1. rows[i.stream] \in RowType /\ saved[i].state \in StreamState
          BY <1>0, <4>1 DEF TypeOK, Intent, SavedType
        <5>2. ASSUME NEW row \in RowType, NEW st \in StreamState
              PROVE  [[row EXCEPT !.state = st] EXCEPT !.why = None] \in RowType
          BY DEF RowType
        <5> HIDE DEF i
        <5> QED BY <5>1, <5>2
      <4>3. i.stream \in Stream
        BY <1>0 DEF Intent
      <4> HIDE DEF i
      <4> QED BY <2>1, <3>1, <4>2, <4>3 DEF SettleUnknown, RestoreUnknownStream, TypeOK
    <3>2. CASE ~BlockedBy(i)
      BY <2>1, <3>2 DEF SettleUnknown, RestoreUnknownStream, TypeOK
    <3> QED BY <3>1, <3>2
  <2>2. rows' \in [Stream -> RowType] /\ revised' \in BOOLEAN
    BY <1>5, <2>1 DEF ReconcileDispatch, TypeOK
  <2>3. status' \in [Intent -> Status]
    BY <1>0, <1>5 DEF ReconcileDispatch, TypeOK, Status
  <2>4. TypeOK'
    BY <1>5, <2>2, <2>3 DEF ReconcileDispatch, TypeOK, Back, Goto, Label
  <2> QED BY <1>3, <1>5, <2>4 DEF ReconcileDispatch
<1>6. CASE DispatchFails(c)
  <2>1. TypeOK'
    BY <1>0, <1>6, MarkUnknownTypes DEF DispatchFails, TypeOK, Back, Goto, Label
  <2> QED BY <1>3, <1>6, <2>1 DEF DispatchFails
<1> QED BY <1>1, <1>2, <1>4, <1>5, <1>6

\* Every step of a cycle, of the owner and of the host keeps the types.
LEMMA TypeStep == TypeInv /\ [Next]_vars => TypeInv'
<1> SUFFICES ASSUME TypeInv, [Next]_vars PROVE TypeInv'
  OBVIOUS
<1>1. ASSUME NEW c \in Cycle, Step(c) PROVE TypeInv'
  <2>1. CASE Report(c)
    BY <2>1 DEF Report, TypeInv, TypeOK, LocalsRead, Goto, Label, Observing, Deciding, Claiming
  <2> QED BY <1>1, <2>1, ReadTypes, PlanTypes, DispatchTypes, LaunchTypes DEF Step
<1>2. ASSUME NEW c \in Cycle, Crash(c) PROVE TypeInv'
  <2>1. NoView \in ViewType
    BY DEF NoView, ViewType
  <2>2. TypeOK'
    BY <1>2, <2>1 DEF Crash, TypeInv, TypeOK, Goto, Label, store
  <2>3. LocalsRead'
    BY <1>2 DEF Crash, TypeInv, TypeOK, LocalsRead, Goto, Observing, Deciding, Claiming
  <2> QED BY <2>2, <2>3 DEF TypeInv
<1>3. ASSUME NEW i \in Intent, SessionEnds(i) PROVE TypeInv'
  BY <1>3 DEF SessionEnds, TypeInv, TypeOK, LocalsRead, store, local
<1>4. CASE UNCHANGED vars
  BY <1>4 DEF vars, TypeInv, TypeOK, LocalsRead
<1> QED BY <1>1, <1>2, <1>3, <1>4, ReadTypes, DispatchTypes DEF Next

\* Every reachable state of the ledger, the host and the cycles is well
\* formed: rows carry one of the four labels, and a cycle has read the
\* inventory, the policy or the dispatch it acts on.
THEOREM TypeCorrect == Spec => []TypeInv
<1> QED BY TypeInit, TypeStep, PTL DEF Spec

\* In particular the type invariant of Dispatch holds.
THEOREM RowsAreLabelled == Spec => []TypeOK
<1>1. TypeInv => TypeOK
  BY DEF TypeInv
<1> QED BY TypeCorrect, <1>1, PTL

-----------------------------------------------------------------------------
(* One stream per ticket.  The invariant is not inductive by itself: a     *)
(* WORKING row is an intent to come, and an unknown dispatch may give its  *)
(* row back to WORKING, so rows and ledger are constrained together.       *)

IsOpen(i, st) == st[i] \in Open
Same(i, j) == i.stream = j.stream /\ i.ticket = j.ticket /\ i.tuple = j.tuple

\* Every open intent on the ticket of a WORKING row belongs to that stream.
WorkingOwns(rws, st) ==
  \A s \in Stream, i \in Intent :
    rws[s].state = "WORKING" /\ IsOpen(i, st) /\ i.ticket = rws[s].ticket => i.stream = s

\* Two streams never work on one ticket.
WorkingDistinct(rws) ==
  \A r, s \in Stream :
    rws[r].state = "WORKING" /\ rws[s].state = "WORKING" /\ rws[r].ticket = rws[s].ticket
      => r = s

OneStream(st) ==
  \A i, j \in Intent : IsOpen(i, st) /\ IsOpen(j, st) /\ i.ticket = j.ticket => i.stream = j.stream

\* A generation is written only after every earlier one was cancelled.
Generations(st) ==
  \A i, j \in Intent : Same(i, j) /\ i.gen < j.gen /\ st[j] # "ABSENT" => st[i] = "CANCELLED"

RowsInv(rws, st) == WorkingOwns(rws, st) /\ WorkingDistinct(rws)
LedgerInv(st) == OneStream(st) /\ Generations(st)
StreamsInv == RowsInv(rows, status) /\ LedgerInv(status)

\* Two intents of one stream, ticket and tuple differ in their generation.
LEMMA GenerationsDiffer ==
  ASSUME NEW i \in Intent, NEW j \in Intent, Same(i, j)
  PROVE  i = j \/ i.gen < j.gen \/ j.gen < i.gen
<1>1. i.gen \in Nat /\ j.gen \in Nat
  BY ConstantsAssumption DEF Intent
<1>2. i.gen = j.gen => i = j
  BY DEF Same, Intent
<1> QED BY <1>1, <1>2

\* The strengthened invariant gives the property.
LEMMA StreamsInvGives == StreamsInv => OneStreamPerTicket
<1> SUFFICES ASSUME StreamsInv,
                    NEW i \in NonTerminal, NEW j \in NonTerminal, i.ticket = j.ticket
             PROVE  i.stream = j.stream /\ (i.tuple = j.tuple => i = j)
  BY DEF OneStreamPerTicket
<1>1. i \in Intent /\ j \in Intent /\ IsOpen(i, status) /\ IsOpen(j, status)
  BY DEF NonTerminal, IsOpen
<1>2. i.stream = j.stream
  BY <1>1 DEF StreamsInv, LedgerInv, OneStream
<1>3. status[i] \notin {"CANCELLED", "ABSENT"} /\ status[j] \notin {"CANCELLED", "ABSENT"}
  BY <1>1 DEF IsOpen, Open
<1>4. ASSUME i.tuple = j.tuple PROVE i = j
  <2>1. Same(i, j) /\ Same(j, i)
    BY <1>2, <1>4 DEF Same
  <2> QED BY <1>1, <1>3, <2>1, GenerationsDiffer DEF StreamsInv, LedgerInv, Generations
<1> QED BY <1>2, <1>4

\* Writing the intents of the WORKING rows keeps the invariant.
LEMMA WithIntentsInv ==
  ASSUME NEW rws, NEW st, RowsInv(rws, st), LedgerInv(st)
  PROVE  LET new == WithIntents(rws, st) IN RowsInv(rws, new) /\ LedgerInv(new)
<1> DEFINE new == WithIntents(rws, st)
           N == NewIntents(rws, st)
<1>1. ASSUME NEW i \in Intent
      PROVE  /\ i \in N => new[i] = "PENDING"
             /\ i \notin N => new[i] = st[i]
  BY DEF WithIntents
<1>2. ASSUME NEW i \in N
      PROVE  /\ i \in Intent /\ i.stream \in Stream
             /\ rws[i.stream].state = "WORKING"
             /\ rws[i.stream].ticket = i.ticket /\ rws[i.stream].tuple = i.tuple
             /\ Vacant(i, st)
  BY DEF NewIntents, Owns, Intent
<1> HIDE DEF new, N
<1>3. ASSUME NEW i \in Intent, IsOpen(i, new) PROVE i \in N \/ IsOpen(i, st)
  BY <1>1, <1>3 DEF IsOpen
<1>4. WorkingOwns(rws, new)
  <2> SUFFICES ASSUME NEW s \in Stream, NEW i \in Intent, rws[s].state = "WORKING",
                      IsOpen(i, new), i.ticket = rws[s].ticket
               PROVE  i.stream = s
    BY DEF WorkingOwns
  <2>1. CASE i \in N
    BY <1>2, <2>1 DEF RowsInv, WorkingDistinct
  <2>2. CASE IsOpen(i, st)
    BY <2>2 DEF RowsInv, WorkingOwns
  <2> QED BY <1>3, <2>1, <2>2
<1>5. OneStream(new)
  <2> SUFFICES ASSUME NEW i \in Intent, NEW j \in Intent,
                      IsOpen(i, new), IsOpen(j, new), i.ticket = j.ticket
               PROVE  i.stream = j.stream
    BY DEF OneStream
  <2>1. CASE i \in N
    BY <1>2, <1>4, <2>1 DEF WorkingOwns
  <2>2. CASE j \in N
    BY <1>2, <1>4, <2>2 DEF WorkingOwns
  <2>3. CASE IsOpen(i, st) /\ IsOpen(j, st)
    BY <2>3 DEF LedgerInv, OneStream
  <2> QED BY <1>3, <2>1, <2>2, <2>3
<1>6. Generations(new)
  <2> SUFFICES ASSUME NEW i \in Intent, NEW j \in Intent, Same(i, j), i.gen < j.gen,
                      new[j] # "ABSENT"
               PROVE  new[i] = "CANCELLED"
    BY DEF Generations
  <2>1. CASE j \in N
    <3>1. i.gen \in 1..MaxGen /\ [j EXCEPT !.gen = i.gen] = i
      BY DEF Intent, Same
    <3>2. st[i] = "CANCELLED"
      BY <1>2, <2>1, <3>1 DEF Vacant
    <3>3. i \notin N
      BY <1>2, <3>2 DEF Vacant
    <3> QED BY <1>1, <3>2, <3>3
  <2>2. CASE j \notin N
    <3>1. st[i] = "CANCELLED"
      BY <1>1, <2>2 DEF LedgerInv, Generations
    <3>2. i \notin N
      BY <1>2, <3>1 DEF Vacant
    <3> QED BY <1>1, <3>1, <3>2
  <2> QED BY <2>1, <2>2
<1> QED BY <1>4, <1>5, <1>6 DEF RowsInv, LedgerInv, new

\* Nothing else opens an intent or forgets a cancellation.
Settles(st, new) ==
  \A i \in Intent : /\ IsOpen(i, new) => IsOpen(i, st)
                    /\ new[i] = "ABSENT" <=> st[i] = "ABSENT"
                    /\ st[i] = "CANCELLED" => new[i] = "CANCELLED"

\* Nothing else makes a row work.
Demotes(rws, new) ==
  \A s \in Stream : new[s].state = "WORKING" => rws[s].state = "WORKING" /\ new[s].ticket = rws[s].ticket

\* A step that only settles intents and demotes rows keeps the invariant.
LEMMA SettlingInv ==
  ASSUME StreamsInv, Settles(status, status'), Demotes(rows, rows')
  PROVE  StreamsInv'
<1>1. WorkingOwns(rows', status')
  BY DEF StreamsInv, RowsInv, WorkingOwns, Settles, Demotes
<1>2. WorkingDistinct(rows')
  BY DEF StreamsInv, RowsInv, WorkingDistinct, Demotes
<1>3. OneStream(status')
  BY DEF StreamsInv, LedgerInv, OneStream, Settles
<1>4. Generations(status')
  BY DEF StreamsInv, LedgerInv, Generations, Settles
<1> QED BY <1>1, <1>2, <1>3, <1>4
        DEF StreamsInv, RowsInv, LedgerInv, WorkingOwns, WorkingDistinct, OneStream, Generations, IsOpen

\* The rows _schedule writes work on distinct tickets, each held by no other
\* stream: kept rows by the reserved streams, started rows by Waiting.
LEMMA RescheduleInv ==
  ASSUME TypeOK, StreamsInv, NEW inv, IsInventory(inv), NEW cap, NEW reserved, NEW rank,
         Reschedule(rows, inv, cap, reserved, rank)
  PROVE  RowsInv(rows', status)
<1>1. PICK kept \in SUBSET Stream, go \in SUBSET Stream, pick \in [Stream -> Ticket \cup {None}] :
        /\ kept \cap go = {}
        /\ IsKept(kept, rows, inv, cap, reserved)
        /\ IsPick(pick, go, kept, FreeStreams(kept, rows, inv),
                  WaitingBy(kept, rows, inv), Slots(kept, rows, cap),
                  rows, inv, reserved, rank)
        /\ rows' = [s \in Stream |-> NewRow(s, kept, go, pick, rows, inv)]
        /\ saved' = Resave(kept, rows, inv)
  BY RescheduleShape
<1>2. ASSUME NEW s \in Stream, s \in kept
      PROVE  /\ rows[s].state = "WORKING"
             /\ \A i \in Intent : IsOpen(i, status) /\ i.ticket = rows[s].ticket => i.stream = s
             /\ rows'[s].ticket = rows[s].ticket
  <2>1. Retainable(s, rows, inv, reserved)
    BY <1>1, <1>2 DEF IsKept
  <2>2. rows'[s].ticket = rows[s].ticket
    BY <1>1, <1>2 DEF NewRow
  <2> QED BY <2>1, <2>2 DEF Retainable, Holders, NonTerminal, IsOpen
<1>3. ASSUME NEW s \in Stream, s \in go
      PROVE  /\ rows'[s].ticket = pick[s]
             /\ \A i \in Intent : IsOpen(i, status) => i.ticket # pick[s]
             /\ \A r \in kept : rows[r].ticket # pick[s]
             /\ \A r \in Stream : r < s => pick[r] # pick[s]
  <2>1. pick[s] \in Left(Waiting("ELIGIBLE", kept, rows, inv), s, pick)
    BY <1>1, <1>3 DEF IsPick, IsFirst, Startable, WaitingBy
  <2>2. rows'[s].ticket = pick[s]
    BY <1>1, <1>3 DEF NewRow
  <2> QED BY <2>1, <2>2 DEF Left, Waiting, Holders, NonTerminal, IsOpen
<1>4. ASSUME NEW s \in Stream, rows'[s].state = "WORKING"
      PROVE  s \in kept \/ s \in go
  <2> SUFFICES ASSUME s \notin kept, s \notin go PROVE FALSE
    OBVIOUS
  <2>1. rows'[s] = NewRow(s, kept, go, pick, rows, inv)
    BY <1>1
  <2>2. NewRow(s, kept, go, pick, rows, inv).state # "WORKING"
    BY DEF NewRow, Waits, IdleRow
  <2> QED BY <1>4, <2>1, <2>2
<1>5. WorkingOwns(rows', status)
  BY <1>2, <1>3, <1>4 DEF WorkingOwns
<1>6. WorkingDistinct(rows')
  <2> SUFFICES ASSUME NEW r \in Stream, NEW s \in Stream,
                      rows'[r].state = "WORKING", rows'[s].state = "WORKING",
                      rows'[r].ticket = rows'[s].ticket, r # s
               PROVE  FALSE
    BY DEF WorkingDistinct
  <2>1. CASE r \in kept /\ s \in kept
    BY <1>2, <2>1 DEF StreamsInv, RowsInv, WorkingDistinct
  <2>2. CASE r \in go /\ s \in go
    <3>1. r < s \/ s < r
      BY ConstantsAssumption DEF Stream
    <3> QED BY <1>3, <2>2, <3>1
  <2>3. CASE (r \in kept /\ s \in go) \/ (r \in go /\ s \in kept)
    BY <1>2, <1>3, <2>3
  <2> QED BY <1>4, <2>1, <2>2, <2>3
<1> QED BY <1>5, <1>6 DEF RowsInv

\* schedule keeps the invariant, with or without a consumed seal.
LEMMA ScheduleInv ==
  ASSUME TypeOK, StreamsInv, NEW d, NEW inv, IsInventory(inv), NEW cap, NEW reserved, NEW rank,
         ScheduleTransaction(d, inv, cap, reserved, rank)
  PROVE  StreamsInv'
<1>1. CASE UNCHANGED store
  BY <1>1, SettlingInv DEF store, Settles, Demotes
<1>2. CASE Reschedule(rows, inv, cap, reserved, rank) /\ UNCHANGED status
  BY <1>2, RescheduleInv
     DEF StreamsInv, RowsInv, LedgerInv, WorkingOwns, WorkingDistinct, OneStream, Generations, IsOpen
<1>3. CASE Reschedule(rows, inv, cap, reserved, rank) /\ status' = WithIntents(rows', status)
  <2>1. RowsInv(rows', status) /\ LedgerInv(status)
    BY <1>3, RescheduleInv DEF StreamsInv
  <2>2. RowsInv(rows', status') /\ LedgerInv(status')
    BY <1>3, <2>1, WithIntentsInv
  <2> QED BY <2>2
       DEF StreamsInv, RowsInv, LedgerInv, WorkingOwns, WorkingDistinct, OneStream, Generations, IsOpen
<1> QED BY <1>1, <1>2, <1>3 DEF ScheduleTransaction

\* Recording unknown outcomes only blocks rows.
LEMMA RecordUnknownDemotes ==
  ASSUME TypeOK, NEW S, RecordUnknown(S)
  PROVE  Demotes(rows, rows')
<1> DEFINE blames(s) == {i \in S : i.stream = s /\ Owns(rows[s], i)}
<1> SUFFICES ASSUME NEW s \in Stream, rows'[s].state = "WORKING"
             PROVE  rows[s].state = "WORKING" /\ rows'[s].ticket = rows[s].ticket
  BY DEF Demotes
<1>1. rows'[s] = IF blames(s) = {} THEN rows[s]
                 ELSE Blocked(rows[s], CHOOSE i \in blames(s) : TRUE)
  BY DEF RecordUnknown
<1>2. ASSUME NEW i PROVE Blocked(rows[s], i).state = "BLOCKED"
  <2>1. rows[s] \in RowType
    BY DEF TypeOK
  <2> QED BY <2>1 DEF RowType, Blocked
<1> HIDE DEF blames
<1> QED BY <1>1, <1>2

\* Marking a dispatch unknown keeps the invariant.
LEMMA MarkUnknownInv ==
  ASSUME TypeOK, StreamsInv, NEW i \in Intent, MarkDispatchUnknown(i)
  PROVE  StreamsInv'
<1>1. Demotes(rows, rows')
  BY RecordUnknownDemotes DEF MarkDispatchUnknown
<1>2. Settles(status, status')
  BY DEF MarkDispatchUnknown, Settles, IsOpen, Open, TypeOK
<1> QED BY <1>1, <1>2, SettlingInv

\* Cancelling a pending intent only takes it out of the open ones.
LEMMA CancelInv ==
  ASSUME TypeOK, StreamsInv, NEW i \in Intent, CancelPending(i) \/ UNCHANGED <<store, run>>
  PROVE  StreamsInv'
<1>1. Demotes(rows, rows')
  BY DEF CancelPending, Demotes, store
<1>2. Settles(status, status')
  BY DEF CancelPending, Pending, Settles, IsOpen, Open, TypeOK, store
<1> QED BY <1>1, <1>2, SettlingInv

\* A proof that arrives gives a blocked row back; no other stream works on
\* its ticket, because the dispatch is still open on this one.
LEMMA ReconcileInv ==
  ASSUME TypeInv, StreamsInv, NEW c \in Cycle, ReconcileDispatch(c)
  PROVE  StreamsInv'
<1> DEFINE i == cur[c]
<1>1. i \in Intent /\ i.stream \in Stream
  BY DEF ReconcileDispatch, TypeInv, LocalsRead, Claiming, Intent
<1>2. status' = [status EXCEPT ![i] = "TERMINAL"] /\ status[i] \in {"UNKNOWN", "LAUNCHED"}
  BY DEF ReconcileDispatch
<1>3. rows' = rows \/ (BlockedBy(i) /\
        rows' = [rows EXCEPT ![i.stream].state = saved[i].state, ![i.stream].why = None])
  BY DEF ReconcileDispatch, SettleUnknown, RestoreUnknownStream
<1> HIDE DEF i
<1>4. Settles(status, status')
  BY <1>1, <1>2 DEF Settles, IsOpen, Open, TypeInv, TypeOK
<1>5. IsOpen(i, status)
  BY <1>2 DEF IsOpen, Open
<1>6. CASE rows' = rows
  BY <1>4, <1>6, SettlingInv DEF Demotes
<1>7. CASE BlockedBy(i) /\ rows' = [rows EXCEPT ![i.stream].state = saved[i].state,
                                                 ![i.stream].why = None]
  <2>1. /\ rows'[i.stream].ticket = i.ticket
        /\ \A s \in Stream : s # i.stream => rows'[s] = rows[s]
    <3>1. rows[i.stream] \in RowType
      BY <1>1 DEF TypeInv, TypeOK
    <3>2. rows[i.stream].ticket = i.ticket
      BY <1>7 DEF BlockedBy, Owns
    <3> QED BY <1>1, <1>7, <3>1, <3>2 DEF TypeInv, TypeOK, RowType
  <2>2. WorkingOwns(rows', status')
    <3> SUFFICES ASSUME NEW s \in Stream, NEW j \in Intent, rows'[s].state = "WORKING",
                        IsOpen(j, status'), j.ticket = rows'[s].ticket
                 PROVE  j.stream = s
      BY DEF WorkingOwns
    <3>1. IsOpen(j, status)
      BY <1>4 DEF Settles
    <3>2. CASE s = i.stream
      BY <1>1, <1>5, <2>1, <3>1, <3>2 DEF StreamsInv, LedgerInv, OneStream
    <3>3. CASE s # i.stream
      BY <2>1, <3>1, <3>3 DEF StreamsInv, RowsInv, WorkingOwns
    <3> QED BY <3>2, <3>3
  <2>3. WorkingDistinct(rows')
    <3>1. ASSUME NEW s \in Stream, s # i.stream, rows'[s].state = "WORKING"
          PROVE  rows'[s].ticket # i.ticket
      BY <1>1, <1>5, <2>1, <3>1 DEF StreamsInv, RowsInv, WorkingOwns
    <3> QED BY <1>1, <2>1, <3>1 DEF StreamsInv, RowsInv, WorkingDistinct
  <2>4. LedgerInv(status')
    BY <1>4 DEF StreamsInv, LedgerInv, OneStream, Generations, Settles
  <2> QED BY <2>2, <2>3, <2>4
       DEF StreamsInv, RowsInv, LedgerInv, WorkingOwns, WorkingDistinct, OneStream, Generations, IsOpen
<1> QED BY <1>3, <1>6, <1>7

\* A fresh store holds no intent and idle rows.
LEMMA StreamsInit == Init => StreamsInv
BY DEF Init, StreamsInv, RowsInv, LedgerInv, WorkingOwns, WorkingDistinct,
       OneStream, Generations, IsOpen, Open, IdleRow

\* Every step of the system keeps the invariant, action by action.
LEMMA StreamsStep == TypeInv /\ StreamsInv /\ [Next]_vars => StreamsInv'
<1> SUFFICES ASSUME TypeInv, StreamsInv, [Next]_vars PROVE StreamsInv'
  OBVIOUS
<1>0. TypeOK
  BY DEF TypeInv
<1>1. ASSUME UNCHANGED <<rows, status>> PROVE StreamsInv'
  BY <1>1, SettlingInv DEF Settles, Demotes
<1>2. ASSUME NEW c \in Cycle, NEW t \in todo[c] PROVE t.on \in Intent
  BY <1>0 DEF TypeOK, TaskType
<1>3. ASSUME NEW c \in Cycle, RecoverDispatches(c) PROVE StreamsInv'
  <2>1. Demotes(rows, rows')
    BY <1>0, <1>3, RecordUnknownDemotes DEF RecoverDispatches
  <2>2. Settles(status, status')
    BY <1>0, <1>3 DEF RecoverDispatches, Claims, Settles, IsOpen, Open, TypeOK
  <2> QED BY <2>1, <2>2, SettlingInv
<1>4. ASSUME NEW c \in Cycle, Schedule(c) PROVE StreamsInv'
  <2> DEFINE d == view[c].digest
             p == view[c].policy
             inv == PlanGated(d, p)
  <2>1. d \in Digest
    BY <1>4 DEF Schedule, TypeInv, LocalsRead, Observing
  <2>2. IsInventory(inv)
    BY <2>1, GatedInventory DEF PlanGated
  <2>3. CASE \E cap \in 0..MaxCapacity : ScheduleTransaction(d, inv, cap, p.reserved, p.rank)
    <3> HIDE DEF d, p, inv
    <3> QED BY <1>0, <2>1, <2>2, <2>3, ScheduleInv
  <2>4. CASE UNCHANGED store
    BY <1>1, <2>4 DEF store
  <2> QED BY <1>4, <2>3, <2>4 DEF Schedule
<1>5. ASSUME NEW c \in Cycle,
             CancelDisabled(c) \/ CancelPendingDispatch(c) \/ RefuseSkillSelection(c)
      PROVE  StreamsInv'
  <2>1. PICK t \in todo[c] : CancelPending(t.on) \/ UNCHANGED <<store, run>>
    BY <1>5 DEF CancelDisabled, CancelPendingDispatch, RefuseSkillSelection
  <2> QED BY <1>0, <1>2, <2>1, CancelInv
<1>6. ASSUME NEW c \in Cycle, PrepareDispatches(c) PROVE StreamsInv'
  <2>1. rows' = rows /\ (status' = WithIntents(rows, status) \/ status' = status)
    BY <1>6 DEF PrepareDispatches
  <2>2. RowsInv(rows, status') /\ LedgerInv(status')
    BY <2>1, WithIntentsInv DEF StreamsInv
  <2> QED BY <2>1, <2>2
       DEF StreamsInv, RowsInv, LedgerInv, WorkingOwns, WorkingDistinct, OneStream, Generations, IsOpen
<1>7. ASSUME NEW c \in Cycle, BeginDispatch(c) PROVE StreamsInv'
  <2>1. PICK t \in todo[c] : Pending(t.on) /\ status' = [status EXCEPT ![t.on] = "IN_FLIGHT"]
    BY <1>7 DEF BeginDispatch
  <2>2. Settles(status, status')
    BY <1>0, <1>2, <2>1 DEF Pending, Settles, IsOpen, Open, TypeOK
  <2> QED BY <1>7, <2>2, SettlingInv DEF BeginDispatch, Demotes
<1>8. ASSUME NEW c \in Cycle, OperationFails(c) PROVE StreamsInv'
  BY <1>0, <1>2, <1>8, MarkUnknownInv DEF OperationFails
<1>9. ASSUME NEW c \in Cycle, FinishDispatch(c) PROVE StreamsInv'
  <2>1. status[cur[c]] = "IN_FLIGHT"
        /\ \E r \in {"LAUNCHED", "TERMINAL"} : status' = [status EXCEPT ![cur[c]] = r]
    BY <1>9 DEF FinishDispatch, Receipts
  <2>2. Settles(status, status')
    BY <1>0, <2>1 DEF Settles, IsOpen, Open, TypeOK
  <2> QED BY <1>9, <2>2, SettlingInv DEF FinishDispatch, Demotes
<1>10. ASSUME NEW c \in Cycle, DispatchFails(c) PROVE StreamsInv'
  <2>1. cur[c] \in Intent
    BY <1>10 DEF DispatchFails, TypeInv, LocalsRead, Claiming
  <2> QED BY <1>0, <1>10, <2>1, MarkUnknownInv DEF DispatchFails
<1>11. ASSUME NEW c \in Cycle, Step(c) PROVE StreamsInv'
  <2>1. CASE \/ ReadCancellationBoundary(c) \/ ReadRoundBoundary(c) \/ ListCancellations(c)
             \/ BeginDispatchReconciliation(c) \/ WriteRecord(c) \/ Launch(c) \/ Report(c)
    BY <1>1, <2>1 DEF ReadCancellationBoundary, ReadRoundBoundary, ListCancellations,
                      BeginDispatchReconciliation, WriteRecord, Launch, Report, store
  <2> QED BY <1>11, <2>1, <1>3, <1>4, <1>5, <1>6, <1>7, <1>8, <1>9, <1>10, ReconcileInv DEF Step
<1>12. ASSUME NEW c \in Cycle, SealRoundBoundaryReplan(c) \/ Crash(c) PROVE StreamsInv'
  BY <1>1, <1>12 DEF SealRoundBoundaryReplan, Crash, store
<1>13. ASSUME NEW i \in Intent, SessionEnds(i) PROVE StreamsInv'
  BY <1>1, <1>13 DEF SessionEnds, store
<1>14. CASE UNCHANGED vars
  BY <1>1, <1>14 DEF vars
<1> QED BY <1>5, <1>11, <1>12, <1>13, <1>14 DEF Next

\* However many cycles interleave, crash and recover, no ticket is ever
\* open on two streams, and no stream holds two open intents for one ticket
\* and exact tuple.
THEOREM OneStreamPerTicketHolds == Spec => []OneStreamPerTicket
<1>1. Spec => []StreamsInv
  BY StreamsInit, StreamsStep, TypeCorrect, PTL DEF Spec
<1> QED BY <1>1, StreamsInvGives, PTL

-----------------------------------------------------------------------------
(* Host and ledger agree.  The invariant ties the host's record to the     *)
(* place of the cycle that is about to write the next one, and keeps two   *)
(* cycles from launching one dispatch.                                     *)

Started == {"LIVE", "COMPLETED", "FAILED"}

\* A claim is launched by one cycle, which knows what the host has so far.
ClaimsInv ==
  /\ \A c \in Cycle :
       /\ pc[c] \in Claiming => status[cur[c]] \in Begun
       /\ pc[c] = "launching" => run[cur[c]] = "NONE"
       /\ pc[c] = "recorded" => run[cur[c]] = "PREPARED"
       /\ pc[c] = "started" => run[cur[c]] \in Started
  /\ \A c, e \in Cycle :
       pc[c] \in Claiming /\ pc[e] \in Claiming /\ cur[c] = cur[e] => c = e

HostInv == HostAndLedgerAgree /\ ClaimsInv

\* Steps that leave launches alone: claims only ever move within Begun, and
\* never to LAUNCHED or TERMINAL.
Keeps(st, new) ==
  \A i \in Intent : /\ st[i] \in Begun => new[i] \in Begun
                    /\ new[i] \in {"LAUNCHED", "TERMINAL"} => st[i] = new[i]

\* Such a step keeps the invariant if no cycle enters a launch.
LEMMA KeepingInv ==
  ASSUME TypeInv, HostInv, Keeps(status, status'), run' = run,
         \A c \in Cycle : pc'[c] \in Claiming => pc'[c] = pc[c] /\ cur'[c] = cur[c]
  PROVE  HostInv'
<1>1. HostAndLedgerAgree'
  BY DEF HostInv, HostAndLedgerAgree, Keeps
<1>2. ClaimsInv'
  <2>1. ASSUME NEW c \in Cycle, pc'[c] \in Claiming
        PROVE  cur[c] \in Intent /\ pc'[c] = pc[c] /\ cur'[c] = cur[c]
    BY <2>1 DEF TypeInv, LocalsRead
  <2>2. ASSUME NEW c \in Cycle
        PROVE /\ pc'[c] \in Claiming => status'[cur'[c]] \in Begun
              /\ pc'[c] = "launching" => run'[cur'[c]] = "NONE"
              /\ pc'[c] = "recorded" => run'[cur'[c]] = "PREPARED"
              /\ pc'[c] = "started" => run'[cur'[c]] \in Started
    BY <2>1 DEF HostInv, ClaimsInv, Keeps, Claiming
  <2>3. ASSUME NEW c \in Cycle, NEW e \in Cycle,
               pc'[c] \in Claiming, pc'[e] \in Claiming, cur'[c] = cur'[e]
        PROVE  c = e
    BY <2>1, <2>3 DEF HostInv, ClaimsInv
  <2> QED BY <2>2, <2>3 DEF ClaimsInv
<1> QED BY <1>1, <1>2 DEF HostInv

\* Marking a dispatch unknown is a step of the kind just defined.
LEMMA MarkUnknownKeeps ==
  ASSUME TypeOK, NEW i \in Intent, MarkDispatchUnknown(i)
  PROVE  Keeps(status, status') /\ run' = run
BY DEF MarkDispatchUnknown, Keeps, Begun, TypeOK

\* Writing new intents is one too.
LEMMA WithIntentsKeeps ==
  ASSUME TypeOK, NEW rws
  PROVE  Keeps(status, WithIntents(rws, status))
BY DEF WithIntents, NewIntents, Vacant, Keeps, Begun, TypeOK

\* Claiming a pending dispatch: the host has nothing of it yet, and no other
\* cycle is launching it.
LEMMA BeginInv ==
  ASSUME TypeInv, HostInv, NEW c \in Cycle, BeginDispatch(c)
  PROVE  HostInv'
<1>1. PICK t \in todo[c] :
        /\ Pending(t.on)
        /\ status' = [status EXCEPT ![t.on] = "IN_FLIGHT"]
        /\ cur' = [cur EXCEPT ![c] = t.on]
        /\ Goto(c, "launching") /\ run' = run
  BY DEF BeginDispatch
<1>2. t.on \in Intent
  BY DEF TypeInv, TypeOK, TaskType
<1> DEFINE i == t.on
<1>3. run[i] = "NONE"
  BY <1>1, <1>2 DEF HostInv, HostAndLedgerAgree, Pending, Begun
<1>4. ASSUME NEW e \in Cycle, e # c
      PROVE  pc'[e] = pc[e] /\ cur'[e] = cur[e]
  BY <1>1, <1>4 DEF Goto, TypeInv, TypeOK
<1>5. ASSUME NEW e \in Cycle, e # c, pc[e] \in Claiming
      PROVE  cur[e] \in Intent /\ cur[e] # i
  BY <1>1, <1>5 DEF HostInv, ClaimsInv, Pending, Begun, TypeInv, LocalsRead
<1>6. pc'[c] = "launching" /\ cur'[c] = i
  BY <1>1 DEF Goto, TypeInv, TypeOK
<1>7. status'[i] = "IN_FLIGHT" /\ \A j \in Intent : j # i => status'[j] = status[j]
  BY <1>1, <1>2 DEF TypeInv, TypeOK
<1> HIDE DEF i
<1>8. HostAndLedgerAgree'
  BY <1>1, <1>3, <1>7 DEF HostInv, HostAndLedgerAgree, Begun
<1>9. ClaimsInv'
  <2>1. ASSUME NEW e \in Cycle
        PROVE /\ pc'[e] \in Claiming => status'[cur'[e]] \in Begun
              /\ pc'[e] = "launching" => run'[cur'[e]] = "NONE"
              /\ pc'[e] = "recorded" => run'[cur'[e]] = "PREPARED"
              /\ pc'[e] = "started" => run'[cur'[e]] \in Started
    <3>1. CASE e = c
      BY <1>1, <1>3, <1>6, <1>7, <3>1 DEF Begun
    <3>2. CASE e # c
      BY <1>1, <1>4, <1>5, <1>7, <3>2 DEF HostInv, ClaimsInv, Claiming
    <3> QED BY <3>1, <3>2
  <2>2. ASSUME NEW e \in Cycle, NEW f \in Cycle,
               pc'[e] \in Claiming, pc'[f] \in Claiming, cur'[e] = cur'[f]
        PROVE  e = f
    BY <1>4, <1>5, <1>6, <2>2 DEF HostInv, ClaimsInv
  <2> QED BY <2>1, <2>2 DEF ClaimsInv
<1> QED BY <1>8, <1>9 DEF HostInv

\* Recording and launching: only the launching cycle looks at this dispatch,
\* and the ledger has not accepted a launch of it yet.
LEMMA LaunchInv ==
  ASSUME TypeInv, HostInv, NEW c \in Cycle, WriteRecord(c) \/ Launch(c)
  PROVE  HostInv'
<1> DEFINE i == cur[c]
<1>1. i \in Intent /\ status[i] \in Begun /\ run[i] \notin Started /\ pc[c] \in Claiming
  BY DEF WriteRecord, Launch, TypeInv, LocalsRead, Claiming, HostInv, ClaimsInv, Started
<1>2. status[i] \notin {"LAUNCHED", "TERMINAL"}
  BY <1>1 DEF HostInv, HostAndLedgerAgree, Started
<1>3. status' = status /\ cur' = cur
  BY DEF WriteRecord, Launch, store
<1>4. /\ \/ run'[i] = "PREPARED" /\ pc'[c] = "recorded"
         \/ run'[i] = "LIVE" /\ pc'[c] = "started"
      /\ \A j \in Intent : j # i => run'[j] = run[j]
      /\ \A e \in Cycle : e # c => pc'[e] = pc[e]
  BY <1>1 DEF WriteRecord, Launch, Goto, TypeInv, TypeOK
<1>5. ASSUME NEW e \in Cycle, e # c, pc[e] \in Claiming
      PROVE  cur[e] \in Intent /\ cur[e] # i
  BY <1>1, <1>5 DEF HostInv, ClaimsInv, TypeInv, LocalsRead
<1>6. i = cur[c]
  OBVIOUS
<1> HIDE DEF i
<1>7. HostAndLedgerAgree'
  BY <1>1, <1>2, <1>3, <1>4 DEF HostInv, HostAndLedgerAgree
<1>8. ClaimsInv'
  <2>1. ASSUME NEW e \in Cycle
        PROVE /\ pc'[e] \in Claiming => status'[cur'[e]] \in Begun
              /\ pc'[e] = "launching" => run'[cur'[e]] = "NONE"
              /\ pc'[e] = "recorded" => run'[cur'[e]] = "PREPARED"
              /\ pc'[e] = "started" => run'[cur'[e]] \in Started
    <3>1. CASE e = c
      BY <1>1, <1>3, <1>4, <1>6, <3>1 DEF Started
    <3>2. CASE e # c
      BY <1>3, <1>4, <1>5, <3>2 DEF HostInv, ClaimsInv, Claiming
    <3> QED BY <3>1, <3>2
  <2>2. ASSUME NEW e \in Cycle, NEW f \in Cycle,
               pc'[e] \in Claiming, pc'[f] \in Claiming, cur'[e] = cur'[f]
        PROVE  e = f
    <3>1. pc[e] \in Claiming /\ pc[f] \in Claiming
      BY <1>1, <1>4, <2>2
    <3> QED BY <1>3, <2>2, <3>1 DEF HostInv, ClaimsInv
  <2> QED BY <2>1, <2>2 DEF ClaimsInv
<1> QED BY <1>7, <1>8 DEF HostInv

\* A receipt is written only for what the host has.
LEMMA ReceiptInv ==
  ASSUME TypeInv, HostInv, NEW c \in Cycle, FinishDispatch(c) \/ ReconcileDispatch(c)
  PROVE  HostInv'
<1> DEFINE i == cur[c]
<1>1. i \in Intent
  BY DEF FinishDispatch, ReconcileDispatch, TypeInv, LocalsRead, Claiming
<1>2. /\ run' = run
      /\ \/ run[i] \in Started /\ status' = [status EXCEPT ![i] = "LAUNCHED"]
         \/ run[i] = "COMPLETED" /\ status' = [status EXCEPT ![i] = "TERMINAL"]
  BY DEF FinishDispatch, ReconcileDispatch, Receipts, Proved, HostInv, ClaimsInv
<1>3. \A e \in Cycle : IF e = c THEN pc'[e] = "dispatching"
                       ELSE pc'[e] = pc[e] /\ cur'[e] = cur[e]
  BY DEF FinishDispatch, ReconcileDispatch, Back, Goto, TypeInv, TypeOK
<1> HIDE DEF i
<1>4. status'[i] \in Begun /\ \A j \in Intent : j # i => status'[j] = status[j]
  BY <1>1, <1>2 DEF TypeInv, TypeOK, Begun
<1>5. HostAndLedgerAgree'
  BY <1>1, <1>2, <1>4 DEF HostInv, HostAndLedgerAgree, Started, TypeInv, TypeOK
<1>6. ASSUME NEW e \in Cycle, pc'[e] \in Claiming
      PROVE  cur[e] \in Intent /\ pc'[e] = pc[e] /\ cur'[e] = cur[e]
  BY <1>3, <1>6 DEF Claiming, TypeInv, LocalsRead
<1>7. ClaimsInv'
  <2>1. ASSUME NEW e \in Cycle
        PROVE /\ pc'[e] \in Claiming => status'[cur'[e]] \in Begun
              /\ pc'[e] = "launching" => run'[cur'[e]] = "NONE"
              /\ pc'[e] = "recorded" => run'[cur'[e]] = "PREPARED"
              /\ pc'[e] = "started" => run'[cur'[e]] \in Started
    BY <1>2, <1>4, <1>6 DEF HostInv, ClaimsInv, Claiming
  <2>2. ASSUME NEW e \in Cycle, NEW f \in Cycle,
               pc'[e] \in Claiming, pc'[f] \in Claiming, cur'[e] = cur'[f]
        PROVE  e = f
    BY <1>6, <2>2 DEF HostInv, ClaimsInv
  <2> QED BY <2>1, <2>2 DEF ClaimsInv
<1> QED BY <1>5, <1>7 DEF HostInv

\* A fresh store and a host without records agree.
LEMMA HostInit == Init => HostInv
BY DEF Init, HostInv, HostAndLedgerAgree, ClaimsInv, Claiming

\* Every step keeps the agreement of the host and the ledger.
LEMMA HostStep == TypeInv /\ HostInv /\ [Next]_vars => HostInv'
<1> SUFFICES ASSUME TypeInv, HostInv, [Next]_vars PROVE HostInv'
  OBVIOUS
<1>0. TypeOK
  BY DEF TypeInv
<1>1. ASSUME UNCHANGED <<status, run>>,
             \A c \in Cycle : pc'[c] \in Claiming => pc'[c] = pc[c] /\ cur'[c] = cur[c]
      PROVE  HostInv'
  BY <1>1, KeepingInv DEF Keeps
<1>2. ASSUME NEW c \in Cycle, NEW label \in Label, label \notin Claiming, Goto(c, label),
             \A e \in Cycle : e # c => cur'[e] = cur[e]
      PROVE  \A e \in Cycle : pc'[e] \in Claiming => pc'[e] = pc[e] /\ cur'[e] = cur[e]
  BY <1>0, <1>2 DEF Goto, TypeOK
<1>3. ASSUME NEW c \in Cycle, NEW t \in todo[c] PROVE t.on \in Intent
  BY <1>0 DEF TypeOK, TaskType
<1>4. ASSUME NEW c \in Cycle, RecoverDispatches(c) PROVE HostInv'
  <2>1. Keeps(status, status')
    BY <1>0, <1>4 DEF RecoverDispatches, Claims, Keeps, Begun, TypeOK
  <2>2. \A e \in Cycle : pc'[e] \in Claiming => pc'[e] = pc[e] /\ cur'[e] = cur[e]
    BY <1>2, <1>4 DEF RecoverDispatches, Label, Claiming
  <2> QED BY <1>4, <2>1, <2>2, KeepingInv DEF RecoverDispatches
<1>5. ASSUME NEW c \in Cycle, Schedule(c) PROVE HostInv'
  <2>1. status' = status \/ status' = WithIntents(rows', status)
    BY <1>5 DEF Schedule, ScheduleTransaction, store
  <2>2. Keeps(status, status')
    BY <1>0, <2>1, WithIntentsKeeps DEF Keeps
  <2>3. \A e \in Cycle : pc'[e] \in Claiming => pc'[e] = pc[e] /\ cur'[e] = cur[e]
    BY <1>2, <1>5 DEF Schedule, Label, Claiming
  <2> QED BY <1>5, <2>2, <2>3, KeepingInv DEF Schedule
<1>6. ASSUME NEW c \in Cycle,
             CancelDisabled(c) \/ CancelPendingDispatch(c) \/ RefuseSkillSelection(c)
      PROVE  HostInv'
  <2>1. PICK t \in todo[c] : CancelPending(t.on) \/ UNCHANGED <<store, run>>
    BY <1>6 DEF CancelDisabled, CancelPendingDispatch, RefuseSkillSelection
  <2>2. Keeps(status, status') /\ run' = run
    BY <1>0, <1>3, <2>1 DEF CancelPending, Pending, Keeps, Begun, TypeOK, store
  <2>3. UNCHANGED <<pc, cur>>
    BY <1>6 DEF CancelDisabled, CancelPendingDispatch, RefuseSkillSelection
  <2> QED BY <2>2, <2>3, KeepingInv
<1>7. ASSUME NEW c \in Cycle, PrepareDispatches(c) PROVE HostInv'
  <2>1. status' = status \/ status' = WithIntents(rows, status)
    BY <1>7 DEF PrepareDispatches
  <2>2. Keeps(status, status')
    BY <1>0, <2>1, WithIntentsKeeps DEF Keeps
  <2>3. \A e \in Cycle : pc'[e] \in Claiming => pc'[e] = pc[e] /\ cur'[e] = cur[e]
    BY <1>2, <1>7 DEF PrepareDispatches, Label, Claiming
  <2> QED BY <1>7, <2>2, <2>3, KeepingInv DEF PrepareDispatches
<1>8. ASSUME NEW c \in Cycle, OperationFails(c) PROVE HostInv'
  <2>1. Keeps(status, status') /\ run' = run /\ UNCHANGED <<pc, cur>>
    BY <1>0, <1>3, <1>8, MarkUnknownKeeps DEF OperationFails
  <2> QED BY <2>1, KeepingInv
<1>9. ASSUME NEW c \in Cycle, DispatchFails(c) PROVE HostInv'
  <2>1. cur[c] \in Intent
    BY <1>9 DEF DispatchFails, TypeInv, LocalsRead, Claiming
  <2>2. Keeps(status, status') /\ run' = run
    BY <1>0, <1>9, <2>1, MarkUnknownKeeps DEF DispatchFails
  <2>3. \A e \in Cycle : pc'[e] \in Claiming => pc'[e] = pc[e] /\ cur'[e] = cur[e]
    BY <1>0, <1>9 DEF DispatchFails, Back, Goto, Claiming, TypeOK
  <2> QED BY <2>2, <2>3, KeepingInv
<1>10. ASSUME NEW c \in Cycle, BeginDispatchReconciliation(c) PROVE HostInv'
  <2>1. \A e \in Cycle : pc'[e] \in Claiming => pc'[e] = pc[e] /\ cur'[e] = cur[e]
    BY <1>0, <1>10 DEF BeginDispatchReconciliation, Claiming, TypeOK
  <2> QED BY <1>1, <1>10, <2>1 DEF BeginDispatchReconciliation, store
<1>11. ASSUME NEW c \in Cycle,
              \/ SealRoundBoundaryReplan(c) \/ ReadCancellationBoundary(c)
              \/ ReadRoundBoundary(c) \/ ListCancellations(c) \/ Report(c) \/ Crash(c)
       PROVE  HostInv'
  <2>1. PICK label \in {"sealed", "gated", "planned", "cancelling", "idle"} : Goto(c, label)
    BY <1>11 DEF SealRoundBoundaryReplan, ReadCancellationBoundary, ReadRoundBoundary,
                 ListCancellations, Report, Crash
  <2>2. UNCHANGED <<status, run>>
    BY <1>11 DEF SealRoundBoundaryReplan, ReadCancellationBoundary, ReadRoundBoundary,
                 ListCancellations, Report, Crash, store
  <2>3. \A e \in Cycle : e # c => cur'[e] = cur[e]
    BY <1>0, <1>11 DEF SealRoundBoundaryReplan, ReadCancellationBoundary, ReadRoundBoundary,
                       ListCancellations, Report, Crash, TypeOK
  <2>4. label \in Label /\ label \notin Claiming
    BY <2>1 DEF Label, Claiming
  <2> QED BY <1>1, <1>2, <2>1, <2>2, <2>3, <2>4
<1>12. ASSUME NEW i \in Intent, SessionEnds(i) PROVE HostInv'
  <2>1. /\ run[i] = "LIVE"
        /\ \E end \in {"COMPLETED", "FAILED"} : run' = [run EXCEPT ![i] = end]
        /\ status' = status /\ pc' = pc /\ cur' = cur
    BY <1>12 DEF SessionEnds, store, local
  <2>2. /\ run'[i] \in {"COMPLETED", "FAILED"}
        /\ \A j \in Intent : j # i => run'[j] = run[j]
    BY <1>0, <2>1 DEF TypeOK
  <2>3. HostAndLedgerAgree'
    BY <2>1, <2>2 DEF HostInv, HostAndLedgerAgree
  <2>4. ASSUME NEW c \in Cycle, pc[c] \in Claiming PROVE cur[c] \in Intent
    BY <2>4 DEF TypeInv, LocalsRead
  <2>5. ClaimsInv'
    BY <2>1, <2>2, <2>4 DEF HostInv, ClaimsInv, Claiming, Started
  <2> QED BY <2>3, <2>5 DEF HostInv
<1>13. CASE UNCHANGED vars
  BY <1>1, <1>13 DEF vars
<1>14. ASSUME NEW c \in Cycle, Step(c) PROVE HostInv'
  BY <1>4, <1>5, <1>6, <1>7, <1>8, <1>9, <1>10, <1>11, <1>14,
     BeginInv, LaunchInv, ReceiptInv DEF Step
<1> QED BY <1>6, <1>11, <1>12, <1>13, <1>14 DEF Next

\* However many cycles interleave, crash and recover, the ledger never denies
\* a session the host has, nor claims one the host does not have.
THEOREM HostAndLedgerAgreeHolds == Spec => []HostAndLedgerAgree
<1>1. Spec => []HostInv
  BY HostInit, HostStep, TypeCorrect, PTL DEF Spec
<1>2. HostInv => HostAndLedgerAgree
  BY DEF HostInv
<1> QED BY <1>1, <1>2, PTL

-----------------------------------------------------------------------------
(* What a status digest shows.                                             *)

UnknownSet == {i \in Intent : status[i] = "UNKNOWN"}

\* Recording unknown outcomes without any outcome changes no row.
LEMMA RecordNothing ==
  ASSUME TypeOK, RecordUnknown({})
  PROVE  rows' = rows
<1>1. rows' = [s \in Stream |-> rows[s]]
  BY DEF RecordUnknown
<1> QED BY <1>1 DEF TypeOK

\* Marking a dispatch unknown revises the store or shows nothing new.
LEMMA MarkUnknownRevises ==
  ASSUME TypeOK, NEW i \in Intent, MarkDispatchUnknown(i), ~revised'
  PROVE  rows' = rows /\ UnknownSet' = UnknownSet
<1> DEFINE S == {j \in {i} : status[j] \in {"IN_FLIGHT", "UNKNOWN"}}
<1>1. RecordUnknown(S) /\ S = {}
  BY DEF MarkDispatchUnknown, RecordUnknown, Revise
<1>2. status' = status
  BY <1>1 DEF MarkDispatchUnknown, TypeOK
<1> HIDE DEF S
<1> QED BY <1>1, <1>2, RecordNothing DEF UnknownSet

\* New intents are not unknown.
LEMMA WithIntentsShown ==
  ASSUME TypeOK, NEW rws
  PROVE  {i \in Intent : WithIntents(rws, status)[i] = "UNKNOWN"} = UnknownSet
BY DEF WithIntents, NewIntents, Vacant, UnknownSet, TypeOK

\* A step that leaves the store unrevised shows what was shown before.
LEMMA ShownStep == TypeInv /\ [Next]_vars /\ ~revised' => rows' = rows /\ UnknownSet' = UnknownSet
<1> SUFFICES ASSUME TypeInv, [Next]_vars, ~revised'
             PROVE  rows' = rows /\ UnknownSet' = UnknownSet
  OBVIOUS
<1>0. TypeOK
  BY DEF TypeInv
<1>1. ASSUME UNCHANGED <<rows, status>> PROVE rows' = rows /\ UnknownSet' = UnknownSet
  BY <1>1 DEF UnknownSet
<1>2. ASSUME NEW c \in Cycle, NEW t \in todo[c] PROVE t.on \in Intent
  BY <1>0 DEF TypeOK, TaskType
<1>3. ASSUME NEW c \in Cycle, RecoverDispatches(c)
      PROVE  rows' = rows /\ UnknownSet' = UnknownSet
  <2>1. Claims = {} /\ RecordUnknown(Claims)
    BY <1>3 DEF RecoverDispatches, RecordUnknown, Revise
  <2>2. status' = status
    BY <1>0, <1>3, <2>1 DEF RecoverDispatches, TypeOK
  <2> QED BY <1>0, <2>1, <2>2, RecordNothing DEF UnknownSet
<1>4. ASSUME NEW c \in Cycle, Schedule(c)
      PROVE  rows' = rows /\ UnknownSet' = UnknownSet
  <2>1. rows' = rows /\ (status' = status \/ status' = WithIntents(rows', status))
    BY <1>4 DEF Schedule, ScheduleTransaction, store
  <2> QED BY <1>0, <2>1, WithIntentsShown DEF UnknownSet
<1>5. ASSUME NEW c \in Cycle, PrepareDispatches(c)
      PROVE  rows' = rows /\ UnknownSet' = UnknownSet
  <2>1. rows' = rows /\ (status' = status \/ status' = WithIntents(rows', status))
    BY <1>5 DEF PrepareDispatches
  <2> QED BY <1>0, <2>1, WithIntentsShown DEF UnknownSet
<1>6. ASSUME NEW c \in Cycle,
             CancelDisabled(c) \/ CancelPendingDispatch(c) \/ RefuseSkillSelection(c)
      PROVE  rows' = rows /\ UnknownSet' = UnknownSet
  BY <1>1, <1>6 DEF CancelDisabled, CancelPendingDispatch, RefuseSkillSelection, CancelPending, store
<1>7. ASSUME NEW c \in Cycle, BeginDispatch(c)
      PROVE  rows' = rows /\ UnknownSet' = UnknownSet
  BY <1>0, <1>7 DEF BeginDispatch, Pending, UnknownSet, TypeOK
<1>8. ASSUME NEW c \in Cycle, OperationFails(c)
      PROVE  rows' = rows /\ UnknownSet' = UnknownSet
  BY <1>0, <1>2, <1>8, MarkUnknownRevises DEF OperationFails
<1>9. ASSUME NEW c \in Cycle, FinishDispatch(c) \/ ReconcileDispatch(c)
      PROVE  rows' = rows /\ UnknownSet' = UnknownSet
  <2>1. /\ rows' = rows /\ status[cur[c]] # "UNKNOWN"
        /\ \E r \in {"LAUNCHED", "TERMINAL"} : status' = [status EXCEPT ![cur[c]] = r]
    BY <1>9 DEF FinishDispatch, Receipts, ReconcileDispatch, SettleUnknown
  <2> QED BY <1>0, <2>1 DEF UnknownSet, TypeOK
<1>10. ASSUME NEW c \in Cycle, DispatchFails(c)
       PROVE  rows' = rows /\ UnknownSet' = UnknownSet
  <2>1. cur[c] \in Intent
    BY <1>10 DEF DispatchFails, TypeInv, LocalsRead, Claiming
  <2> QED BY <1>0, <1>10, <2>1, MarkUnknownRevises DEF DispatchFails
<1>11. ASSUME NEW c \in Cycle, Step(c)
       PROVE  rows' = rows /\ UnknownSet' = UnknownSet
  <2>1. CASE \/ ReadCancellationBoundary(c) \/ ReadRoundBoundary(c) \/ ListCancellations(c)
             \/ BeginDispatchReconciliation(c) \/ WriteRecord(c) \/ Launch(c) \/ Report(c)
    BY <1>1, <2>1 DEF ReadCancellationBoundary, ReadRoundBoundary, ListCancellations,
                      BeginDispatchReconciliation, WriteRecord, Launch, Report, store
  <2> QED BY <1>11, <2>1, <1>3, <1>4, <1>5, <1>6, <1>7, <1>8, <1>9, <1>10 DEF Step
<1>12. ASSUME NEW c \in Cycle, SealRoundBoundaryReplan(c) \/ Crash(c)
       PROVE  rows' = rows /\ UnknownSet' = UnknownSet
  BY <1>1, <1>12 DEF SealRoundBoundaryReplan, Crash, store
<1>13. ASSUME NEW i \in Intent, SessionEnds(i)
       PROVE  rows' = rows /\ UnknownSet' = UnknownSet
  BY <1>1, <1>13 DEF SessionEnds, store
<1>14. CASE UNCHANGED vars
  BY <1>1, <1>14 DEF vars
<1> QED BY <1>6, <1>11, <1>12, <1>13, <1>14 DEF Next

\* No row and no unresolved dispatch ever changes in a transaction that does
\* not leave the store with an undigested revision.
THEOREM StatusChangeIsRevisedHolds == Spec => StatusChangeIsRevised
<1>1. TypeInv /\ [Next]_vars => [Shown' # Shown => revised']_vars
  BY ShownStep DEF Shown, UnknownSet
<1> QED BY <1>1, TypeCorrect, PTL DEF Spec, StatusChangeIsRevised

-----------------------------------------------------------------------------
(* A round gives way to the next one.                                      *)

\* Before the first scheduled inventory there is nothing to cross a round.
NothingBeforeRound ==
  lastInv = None => NonTerminal = {} /\ \A s \in Stream : rows[s].state # "WORKING"

\* A fresh store has no round and no open dispatch.
LEMMA RoundInit == Init => NothingBeforeRound
BY DEF Init, NothingBeforeRound, NonTerminal, Open, IdleRow

\* Before the first round no step opens an intent or makes a row work.
LEMMA RoundStep == TypeInv /\ NothingBeforeRound /\ [Next]_vars => NothingBeforeRound'
<1> SUFFICES ASSUME TypeInv, NothingBeforeRound, [Next]_vars, lastInv' = None
             PROVE  NonTerminal' = {} /\ \A s \in Stream : rows'[s].state # "WORKING"
  BY DEF NothingBeforeRound
<1>0. TypeOK /\ None \notin Digest
  BY ConstantsAssumption DEF TypeInv
<1> DEFINE Nothing == NonTerminal' = {} /\ \A s \in Stream : rows'[s].state # "WORKING"
<1>1. ASSUME lastInv = None, Settles(status, status'), Demotes(rows, rows') PROVE Nothing
  BY <1>1 DEF NothingBeforeRound, Settles, Demotes, NonTerminal, IsOpen
<1>2. ASSUME NEW c \in Cycle, NEW t \in todo[c] PROVE t.on \in Intent
  BY <1>0 DEF TypeOK, TaskType
<1>3. ASSUME lastInv' = lastInv, UNCHANGED <<rows, status>> PROVE Nothing
  BY <1>1, <1>3 DEF Settles, Demotes
<1>4. ASSUME NEW c \in Cycle, RecoverDispatches(c) PROVE Nothing
  <2>1. Demotes(rows, rows')
    BY <1>0, <1>4, RecordUnknownDemotes DEF RecoverDispatches
  <2>2. Settles(status, status')
    BY <1>0, <1>4 DEF RecoverDispatches, Claims, Settles, IsOpen, Open, TypeOK
  <2> QED BY <1>1, <1>4, <2>1, <2>2 DEF RecoverDispatches
<1>5. ASSUME NEW c \in Cycle, Schedule(c) PROVE Nothing
  <2>1. view[c].digest \in Digest
    BY <1>5 DEF Schedule, TypeInv, LocalsRead, Observing
  <2>2. UNCHANGED store
    BY <1>0, <1>5, <2>1 DEF Schedule, ScheduleTransaction
  <2> QED BY <1>3, <2>2 DEF store
<1>6. ASSUME NEW c \in Cycle,
             CancelDisabled(c) \/ CancelPendingDispatch(c) \/ RefuseSkillSelection(c)
      PROVE  Nothing
  <2>1. PICK t \in todo[c] : CancelPending(t.on) \/ UNCHANGED <<store, run>>
    BY <1>6 DEF CancelDisabled, CancelPendingDispatch, RefuseSkillSelection
  <2>2. Settles(status, status') /\ Demotes(rows, rows') /\ lastInv' = lastInv
    BY <1>0, <1>2, <2>1 DEF CancelPending, Pending, Settles, Demotes, IsOpen, Open, TypeOK, store
  <2> QED BY <1>1, <2>2
<1>7. ASSUME NEW c \in Cycle, PrepareDispatches(c) PROVE Nothing
  <2>1. /\ rows' = rows /\ lastInv' = lastInv
        /\ status' = status \/ status' = WithIntents(rows, status)
    BY <1>7 DEF PrepareDispatches
  <2>2. NewIntents(rows, status) = {}
    BY <2>1 DEF NothingBeforeRound, NewIntents, Intent
  <2>3. status' = status
    BY <1>0, <2>1, <2>2 DEF WithIntents, TypeOK
  <2> QED BY <1>3, <2>1, <2>3
<1>8. ASSUME NEW c \in Cycle, BeginDispatch(c) \/ FinishDispatch(c) PROVE Nothing
  <2>1. /\ \E i \in Intent, r \in {"IN_FLIGHT", "LAUNCHED", "TERMINAL"} :
             status[i] \in {"PENDING", "IN_FLIGHT"} /\ status' = [status EXCEPT ![i] = r]
        /\ rows' = rows /\ lastInv' = lastInv
    <3>1. CASE BeginDispatch(c)
      BY <1>2, <3>1 DEF BeginDispatch, Pending
    <3>2. CASE FinishDispatch(c)
      <4>1. cur[c] \in Intent
        BY <3>2 DEF FinishDispatch, TypeInv, LocalsRead, Claiming
      <4> QED BY <3>2, <4>1 DEF FinishDispatch, Receipts
    <3> QED BY <1>8, <3>1, <3>2
  <2>2. Settles(status, status') /\ Demotes(rows, rows')
    BY <1>0, <2>1 DEF Settles, Demotes, IsOpen, Open, TypeOK
  <2> QED BY <1>1, <2>1, <2>2
<1>9. ASSUME NEW i \in Intent, MarkDispatchUnknown(i) PROVE Nothing
  <2>1. Demotes(rows, rows')
    BY <1>0, <1>9, RecordUnknownDemotes DEF MarkDispatchUnknown
  <2>2. Settles(status, status')
    BY <1>0, <1>9 DEF MarkDispatchUnknown, Settles, IsOpen, Open, TypeOK
  <2> QED BY <1>1, <1>9, <2>1, <2>2 DEF MarkDispatchUnknown
<1>10. ASSUME NEW c \in Cycle, DispatchFails(c) PROVE Nothing
  <2>1. cur[c] \in Intent
    BY <1>10 DEF DispatchFails, TypeInv, LocalsRead, Claiming
  <2> QED BY <1>9, <1>10, <2>1 DEF DispatchFails
<1>11. ASSUME NEW c \in Cycle, OperationFails(c) PROVE Nothing
  BY <1>2, <1>9, <1>11 DEF OperationFails
<1>12. ASSUME NEW c \in Cycle, ReconcileDispatch(c) PROVE Nothing
  <2>1. cur[c] \in NonTerminal /\ lastInv' = lastInv
    BY <1>12 DEF ReconcileDispatch, TypeInv, LocalsRead, Claiming, NonTerminal, Open
  <2> QED BY <2>1 DEF NothingBeforeRound
<1>13. ASSUME NEW c \in Cycle, Step(c) PROVE Nothing
  <2>1. CASE \/ ReadCancellationBoundary(c) \/ ReadRoundBoundary(c) \/ ListCancellations(c)
             \/ BeginDispatchReconciliation(c) \/ WriteRecord(c) \/ Launch(c) \/ Report(c)
    BY <1>3, <2>1 DEF ReadCancellationBoundary, ReadRoundBoundary, ListCancellations,
                      BeginDispatchReconciliation, WriteRecord, Launch, Report, store
  <2> QED BY <1>13, <2>1, <1>4, <1>5, <1>6, <1>7, <1>8, <1>10, <1>11, <1>12 DEF Step
<1>14. ASSUME NEW c \in Cycle, SealRoundBoundaryReplan(c) \/ Crash(c) PROVE Nothing
  BY <1>3, <1>14 DEF SealRoundBoundaryReplan, Crash, store
<1>15. ASSUME NEW i \in Intent, SessionEnds(i) PROVE Nothing
  BY <1>3, <1>15 DEF SessionEnds, store
<1>16. CASE UNCHANGED vars
  BY <1>3, <1>16 DEF vars
<1> QED BY <1>6, <1>13, <1>14, <1>15, <1>16 DEF Next

\* The seal under which a round with open dispatches gives way.
Sealed(k) ==
  /\ seals[k].state = "SEALED" /\ seals'[k].state = "CONSUMED"
  /\ seals[k].next = lastInv' /\ seals[k].bound = NonTerminalRows
  /\ seals'[k].heirs = {i \in Intent : status[i] = "ABSENT" /\ status'[i] = "PENDING"}

\* Only schedule moves the round, and past open dispatches only with a seal.
LEMMA ScheduleAdvances ==
  ASSUME TypeInv, NothingBeforeRound, NEW c \in Cycle, Schedule(c),
         lastInv' # lastInv, NonTerminal # {}
  PROVE  \E k \in DOMAIN seals : Sealed(k)
<1> DEFINE d == view[c].digest
           p == view[c].policy
           inv == PlanGated(d, p)
<1>1. PICK cap \in 0..MaxCapacity : ScheduleTransaction(d, inv, cap, p.reserved, p.rank)
  BY DEF Schedule, store
<1>2. lastInv # None
  BY DEF NothingBeforeRound
<1>3. lastInv' = d /\ d # lastInv
  BY <1>1 DEF ScheduleTransaction, store
<1>4. Crossing(d, inv) # {}
  BY <1>2, <1>3 DEF Crossing
<1>5. /\ status' = WithIntents(rows', status)
      /\ Consume(d, NewIntents(rows', status))
  BY <1>1, <1>3, <1>4 DEF ScheduleTransaction, store
<1>6. PICK k \in MatchingSeals(d) :
        seals' = [seals EXCEPT ![k] = [@ EXCEPT !.state = "CONSUMED",
                                                !.heirs = NewIntents(rows', status)]]
  BY <1>5 DEF Consume
<1>7. k \in DOMAIN seals /\ seals[k].state = "SEALED" /\ seals[k].next = d
      /\ seals[k].bound = NonTerminalRows
  BY <1>6 DEF MatchingSeals
<1>8. seals[k] \in SealType
  BY <1>7 DEF TypeInv, TypeOK
<1>9. seals'[k].state = "CONSUMED" /\ seals'[k].heirs = NewIntents(rows', status)
  BY <1>6, <1>7, <1>8 DEF SealType
<1>10. NewIntents(rows', status) = {i \in Intent : status[i] = "ABSENT" /\ status'[i] = "PENDING"}
  BY <1>5 DEF WithIntents, NewIntents, Vacant
<1> QED BY <1>3, <1>7, <1>9, <1>10 DEF Sealed

\* A round with open dispatches gives way only in the transaction that
\* consumes a seal naming the next inventory and exactly those dispatches.
THEOREM RoundAdvancesSealedHolds == Spec => RoundAdvancesSealed
<1>1. ASSUME TypeInv, NothingBeforeRound, [Next]_vars, lastInv' # lastInv, NonTerminal # {}
      PROVE  \E k \in DOMAIN seals : Sealed(k)
  <2>1. ASSUME NEW c \in Cycle, OperationFails(c) \/ DispatchFails(c) PROVE lastInv' = lastInv
    BY <2>1 DEF OperationFails, DispatchFails, MarkDispatchUnknown
  <2>2. ASSUME NEW c \in Cycle,
               \/ RecoverDispatches(c) \/ ReadCancellationBoundary(c) \/ ReadRoundBoundary(c)
               \/ ListCancellations(c) \/ CancelDisabled(c) \/ PrepareDispatches(c)
               \/ CancelPendingDispatch(c) \/ BeginDispatch(c) \/ RefuseSkillSelection(c)
               \/ BeginDispatchReconciliation(c) \/ WriteRecord(c) \/ Launch(c)
               \/ FinishDispatch(c) \/ ReconcileDispatch(c) \/ Report(c)
               \/ SealRoundBoundaryReplan(c) \/ Crash(c)
        PROVE  lastInv' = lastInv
    BY <2>2 DEF RecoverDispatches, ReadCancellationBoundary, ReadRoundBoundary,
                ListCancellations, CancelDisabled, PrepareDispatches, CancelPendingDispatch,
                BeginDispatch, RefuseSkillSelection, BeginDispatchReconciliation,
                WriteRecord, Launch, FinishDispatch, ReconcileDispatch, Report,
                SealRoundBoundaryReplan, Crash, CancelPending, store
  <2>3. ASSUME NEW i \in Intent, SessionEnds(i) PROVE lastInv' = lastInv
    BY <2>3 DEF SessionEnds, store
  <2>4. UNCHANGED vars => lastInv' = lastInv
    BY DEF vars
  <2> QED BY <1>1, <2>1, <2>2, <2>3, <2>4, ScheduleAdvances DEF Next, Step
<1>2. TypeInv /\ NothingBeforeRound /\ [Next]_vars =>
        [lastInv' # lastInv /\ NonTerminal # {} =>
           \E k \in DOMAIN seals :
             /\ seals[k].state = "SEALED" /\ seals'[k].state = "CONSUMED"
             /\ seals[k].next = lastInv' /\ seals[k].bound = NonTerminalRows
             /\ seals'[k].heirs = {i \in Intent : status[i] = "ABSENT" /\ status'[i] = "PENDING"}]_vars
  BY <1>1 DEF Sealed
<1>3. Spec => []NothingBeforeRound
  BY RoundInit, RoundStep, TypeCorrect, PTL DEF Spec
<1> QED BY <1>2, <1>3, TypeCorrect, PTL DEF Spec, RoundAdvancesSealed

-----------------------------------------------------------------------------
(* What a step does to the store, whichever cycle takes it.  The remaining *)
(* invariants are about the rows, the ledger, the seals and the round, so  *)
(* they are kept if each of these seven kinds of step keeps them.          *)

StillStep == UNCHANGED <<rows, status, saved, lastInv, seals>>

SealStep(d) ==
  /\ seals' = Append(seals, [state |-> "SEALED", next |-> d, bound |-> NonTerminalRows, heirs |-> {}])
  /\ UNCHANGED <<rows, status, saved, lastInv>>

\* A transaction that reschedules, within a round or under a seal.
PlanStep(d, p, cap) ==
  LET inv == PlanGated(d, p) IN
  /\ Reschedule(rows, inv, cap, p.reserved, p.rank)
  /\ lastInv' = d
  /\ \/ Crossing(d, inv) = {} /\ status' = status /\ seals' = seals
     \/ /\ status' = WithIntents(rows', status)
        /\ Consume(d, NewIntents(rows', status))

Uncertain(S) == [j \in Intent |-> IF j \in S THEN "UNKNOWN" ELSE status[j]]

BlameStep(S) ==
  /\ \A j \in S : status[j] \in {"IN_FLIGHT", "UNKNOWN"}
  /\ status' = Uncertain(S)
  /\ RecordUnknown(S)
  /\ UNCHANGED <<lastInv, seals>>

\* One dispatch moves on in the ledger and no row with it.
Moves == {<<"PENDING", "CANCELLED">>, <<"PENDING", "IN_FLIGHT">>, <<"IN_FLIGHT", "LAUNCHED">>,
          <<"IN_FLIGHT", "TERMINAL">>, <<"LAUNCHED", "TERMINAL">>}

MoveStep(i) ==
  /\ \E r \in Status : <<status[i], r>> \in Moves /\ status' = [status EXCEPT ![i] = r]
  /\ UNCHANGED <<rows, saved, lastInv, seals>>

WriteStep ==
  /\ status' = WithIntents(rows, status)
  /\ UNCHANGED <<rows, saved, lastInv, seals>>

RestoreStep(i) ==
  /\ status[i] = "UNKNOWN" /\ status' = [status EXCEPT ![i] = "TERMINAL"]
  /\ RestoreAccepted(i) /\ RestoreUnknownStream(i)
  /\ UNCHANGED <<saved, lastInv, seals>>

StoreStep ==
  \/ StillStep
  \/ \E d \in Digest : SealStep(d)
  \/ \E d \in Digest, p \in Policy, cap \in 0..MaxCapacity : PlanStep(d, p, cap)
  \/ \E S \in SUBSET Intent : BlameStep(S)
  \/ \E i \in Intent : MoveStep(i) \/ RestoreStep(i)
  \/ WriteStep

\* Marking one dispatch unknown blames it if its outcome is open.
LEMMA MarkIsBlame ==
  ASSUME TypeOK, NEW i \in Intent, MarkDispatchUnknown(i)
  PROVE  \E S \in SUBSET Intent : BlameStep(S)
<1> DEFINE S == {j \in {i} : status[j] \in {"IN_FLIGHT", "UNKNOWN"}}
<1>1. S \in SUBSET Intent
  OBVIOUS
<1>2. RecordUnknown(S) /\ UNCHANGED <<lastInv, seals>>
  BY DEF MarkDispatchUnknown
<1>3. status' = Uncertain(S)
  BY DEF MarkDispatchUnknown, Uncertain, TypeOK
<1>4. BlameStep(S)
  BY <1>2, <1>3 DEF BlameStep
<1> QED BY <1>1, <1>4

\* A scheduling transaction leaves the store alone or reschedules.
LEMMA ScheduleMoves ==
  ASSUME TypeInv, NEW c \in Cycle, Schedule(c)
  PROVE  StillStep \/ \E d \in Digest, p \in Policy, cap \in 0..MaxCapacity : PlanStep(d, p, cap)
<1> DEFINE d == view[c].digest
           p == view[c].policy
           inv == PlanGated(d, p)
<1>1. d \in Digest /\ p \in Policy
  BY DEF Schedule, TypeInv, LocalsRead, Observing, Deciding
<1>2. CASE UNCHANGED store
  BY <1>2 DEF StillStep, store
<1>3. ASSUME NEW cap \in 0..MaxCapacity, ScheduleTransaction(d, inv, cap, p.reserved, p.rank)
      PROVE  StillStep \/ PlanStep(d, p, cap)
  BY <1>3 DEF ScheduleTransaction, StillStep, PlanStep, store
<1> HIDE DEF d, p
<1> QED BY <1>1, <1>2, <1>3 DEF Schedule, d, p

\* Every step of the system is one of the kinds above.
LEMMA StoreMoves == TypeInv /\ [Next]_vars => StoreStep
<1> SUFFICES ASSUME TypeInv, [Next]_vars PROVE StoreStep
  OBVIOUS
<1>0. TypeOK
  BY DEF TypeInv
<1>1. ASSUME NEW c \in Cycle, NEW t \in todo[c] PROVE t.on \in Intent
  BY <1>0 DEF TypeOK, TaskType
<1>2. ASSUME NEW i \in Intent, CancelPending(i) PROVE MoveStep(i)
  BY <1>2 DEF CancelPending, Pending, MoveStep, Moves, Status
<1>3. ASSUME NEW c \in Cycle,
             CancelDisabled(c) \/ CancelPendingDispatch(c) \/ RefuseSkillSelection(c)
      PROVE  StoreStep
  <2>1. PICK t \in todo[c] : CancelPending(t.on) \/ UNCHANGED <<store, run>>
    BY <1>3 DEF CancelDisabled, CancelPendingDispatch, RefuseSkillSelection
  <2>2. CASE CancelPending(t.on)
    BY <1>1, <1>2, <2>2 DEF StoreStep
  <2>3. CASE UNCHANGED <<store, run>>
    BY <2>3 DEF StoreStep, StillStep, store
  <2> QED BY <2>1, <2>2, <2>3
<1>4. ASSUME NEW c \in Cycle, RecoverDispatches(c) PROVE StoreStep
  <2>1. status' = Uncertain(Claims) /\ Claims \in SUBSET Intent
    BY <1>4 DEF RecoverDispatches, Uncertain, Claims
  <2>2. BlameStep(Claims)
    BY <1>4, <2>1 DEF RecoverDispatches, BlameStep, Claims
  <2> QED BY <2>1, <2>2 DEF StoreStep
<1>5. ASSUME NEW c \in Cycle, SealRoundBoundaryReplan(c) PROVE StoreStep
  <2>1. view[c].digest \in Digest
    BY <1>5 DEF SealRoundBoundaryReplan, TypeInv, LocalsRead, Observing
  <2>2. SealStep(view[c].digest)
    BY <1>5 DEF SealRoundBoundaryReplan, SealStep
  <2> QED BY <2>1, <2>2 DEF StoreStep
<1>6. ASSUME NEW c \in Cycle, PrepareDispatches(c) PROVE StoreStep
  BY <1>6 DEF PrepareDispatches, StoreStep, StillStep, WriteStep
<1>7. ASSUME NEW c \in Cycle, BeginDispatch(c) PROVE StoreStep
  <2>1. PICK t \in todo[c] : /\ Pending(t.on)
                             /\ status' = [status EXCEPT ![t.on] = "IN_FLIGHT"]
                             /\ UNCHANGED <<rows, saved, lastInv, seals>>
    BY <1>7 DEF BeginDispatch
  <2>2. MoveStep(t.on)
    BY <2>1 DEF MoveStep, Moves, Pending, Status
  <2> QED BY <1>1, <2>2 DEF StoreStep
<1>8. ASSUME NEW c \in Cycle, FinishDispatch(c) PROVE StoreStep
  <2>1. cur[c] \in Intent
    BY <1>8 DEF FinishDispatch, TypeInv, LocalsRead, Claiming
  <2>2. MoveStep(cur[c])
    BY <1>8 DEF FinishDispatch, Receipts, MoveStep, Moves, Status
  <2> QED BY <2>1, <2>2 DEF StoreStep
<1>9. ASSUME NEW c \in Cycle, ReconcileDispatch(c) PROVE StoreStep
  <2>1. cur[c] \in Intent
    BY <1>9 DEF ReconcileDispatch, TypeInv, LocalsRead
  <2>2. CASE status[cur[c]] = "UNKNOWN"
    <3>1. RestoreStep(cur[c])
      BY <1>9, <2>2 DEF ReconcileDispatch, SettleUnknown, RestoreStep
    <3> QED BY <2>1, <3>1 DEF StoreStep
  <2>3. CASE status[cur[c]] = "LAUNCHED"
    <3>1. MoveStep(cur[c])
      BY <1>9, <2>3 DEF ReconcileDispatch, MoveStep, Moves, Status
    <3> QED BY <2>1, <3>1 DEF StoreStep
  <2> QED BY <1>9, <2>2, <2>3 DEF ReconcileDispatch
<1>10. ASSUME NEW c \in Cycle, OperationFails(c) \/ DispatchFails(c) PROVE StoreStep
  <2>1. PICK i \in Intent : MarkDispatchUnknown(i)
    BY <1>1, <1>10 DEF OperationFails, DispatchFails, TypeInv, LocalsRead, Claiming
  <2> QED BY <1>0, <2>1, MarkIsBlame DEF StoreStep
<1>11. ASSUME NEW c \in Cycle,
              \/ ReadCancellationBoundary(c) \/ ReadRoundBoundary(c) \/ ListCancellations(c)
              \/ BeginDispatchReconciliation(c) \/ WriteRecord(c) \/ Launch(c) \/ Report(c)
              \/ Crash(c)
       PROVE  StoreStep
  BY <1>11 DEF ReadCancellationBoundary, ReadRoundBoundary, ListCancellations,
               BeginDispatchReconciliation, WriteRecord, Launch, Report, Crash, store,
               StoreStep, StillStep
<1>12. ASSUME NEW i \in Intent, SessionEnds(i) PROVE StoreStep
  BY <1>12 DEF SessionEnds, store, StoreStep, StillStep
<1>13. CASE UNCHANGED vars
  BY <1>13 DEF vars, StoreStep, StillStep
<1>14. ASSUME NEW c \in Cycle, Step(c) PROVE StoreStep
  BY <1>0, <1>3, <1>4, <1>6, <1>7, <1>8, <1>9, <1>10, <1>11, <1>14, ScheduleMoves DEF Step, StoreStep
<1> QED BY <1>3, <1>5, <1>11, <1>12, <1>13, <1>14 DEF Next

-----------------------------------------------------------------------------
(* Unknown outcomes and replans.  A row shows another candidate of a       *)
(* ticket than an open dispatch of its stream only after a replan that     *)
(* names the dispatch; until then an unknown dispatch finds its row.       *)

\* The row of an open dispatch shows its ticket with another candidate.
LeftBehind(i) ==
  IsOpen(i, status) /\ rows[i.stream].ticket = i.ticket /\ rows[i.stream].tuple # i.tuple

LeftByReplan == \A i \in Intent : LeftBehind(i) => Replanned(i)

\* Two open dispatches of one ticket, or an unknown one and a working row.
PairsByReplan ==
  \A i, j \in Intent :
    IsOpen(i, status) /\ IsOpen(j, status) /\ i.ticket = j.ticket /\ i # j
      => Replanned(i) \/ Replanned(j)

UnknownStops ==
  \A i \in Intent :
    status[i] = "UNKNOWN" /\ Owns(rows[i.stream], i) /\ rows[i.stream].state = "WORKING"
      => Replanned(i)

ReplanInv == LeftByReplan /\ PairsByReplan /\ UnknownStops

\* The strengthened invariant gives the property.
LEMMA ReplanInvGives == StreamsInv /\ ReplanInv => UnknownBlocksItsTicket
<1> SUFFICES ASSUME StreamsInv, ReplanInv, NEW i \in Intent, NEW s \in Stream,
                    status[i] = "UNKNOWN", rows[s].ticket = i.ticket, rows[s].state = "WORKING"
             PROVE  s = i.stream /\ Replanned(i)
  BY DEF UnknownBlocksItsTicket
<1>1. IsOpen(i, status)
  BY DEF IsOpen, Open
<1>2. s = i.stream
  BY <1>1 DEF StreamsInv, RowsInv, WorkingOwns
<1> QED BY <1>1, <1>2 DEF ReplanInv, LeftByReplan, LeftBehind, UnknownStops, Owns

\* A consumed seal is for ever.
SealsStay == \A i \in Intent : Replanned(i) => Replanned(i)'

\* No step forgets that a dispatch was replanned over.
LEMMA ReplannedStays == TypeOK /\ StoreStep => SealsStay
<1> SUFFICES ASSUME TypeOK, StoreStep, NEW i \in Intent, Replanned(i) PROVE Replanned(i)'
  BY DEF SealsStay
<1>1. PICK k \in DOMAIN seals : seals[k].state = "CONSUMED" /\ i \in DOMAIN seals[k].bound
  BY DEF Replanned
<1>2. CASE seals' = seals
  BY <1>1, <1>2 DEF Replanned
<1>3. ASSUME NEW d \in Digest, SealStep(d) PROVE Replanned(i)'
  <2>1. k \in DOMAIN seals' /\ seals'[k] = seals[k]
    BY <1>1, <1>3, AppendProperties DEF SealStep, TypeOK
  <2> QED BY <1>1, <2>1 DEF Replanned
<1>4. ASSUME NEW d, NEW H, Consume(d, H) PROVE Replanned(i)'
  <2>1. PICK l \in MatchingSeals(d) :
          seals' = [seals EXCEPT ![l] = [@ EXCEPT !.state = "CONSUMED", !.heirs = H]]
    BY <1>4 DEF Consume
  <2>2. k # l
    BY <1>1, <2>1 DEF MatchingSeals
  <2>3. k \in DOMAIN seals' /\ seals'[k] = seals[k]
    BY <1>1, <2>1, <2>2
  <2> QED BY <1>1, <2>3 DEF Replanned
<1> QED BY <1>2, <1>3, <1>4
        DEF StoreStep, StillStep, PlanStep, BlameStep, MoveStep, WriteStep, RestoreStep

\* A step that opens nothing, relabels no row and makes no unknown dispatch
\* or working row meet keeps the invariant.
LEMMA QuietReplan ==
  ASSUME ReplanInv, SealsStay, Settles(status, status'),
         \A s \in Stream : rows'[s].ticket = rows[s].ticket /\ rows'[s].tuple = rows[s].tuple,
         \A i \in Intent : status'[i] = "UNKNOWN" /\ Owns(rows'[i.stream], i)
                             /\ rows'[i.stream].state = "WORKING"
                           => status[i] = "UNKNOWN" /\ rows[i.stream].state = "WORKING"
  PROVE  ReplanInv'
<1>1. ASSUME NEW i \in Intent PROVE i.stream \in Stream
  BY DEF Intent
<1>2. LeftByReplan'
  BY <1>1 DEF ReplanInv, LeftByReplan, LeftBehind, Settles, SealsStay
<1>3. PairsByReplan'
  BY DEF ReplanInv, PairsByReplan, Settles, SealsStay
<1>4. UnknownStops'
  BY <1>1 DEF ReplanInv, UnknownStops, SealsStay, Owns
<1> QED BY <1>2, <1>3, <1>4 DEF ReplanInv

\* A blamed stream is blocked by one of its own unknown dispatches, and the
\* other rows stay.
LEMMA BlameShape ==
  ASSUME TypeOK, NEW S \in SUBSET Intent, BlameStep(S), NEW s \in Stream
  PROVE  /\ rows'[s].ticket = rows[s].ticket /\ rows'[s].tuple = rows[s].tuple
         /\ \/ rows'[s] = rows[s] /\ \A i \in S : i.stream = s => ~Owns(rows[s], i)
            \/ rows'[s].state = "BLOCKED" /\ rows'[s].why \in S /\ rows'[s].why.stream = s
               /\ Owns(rows[s], rows'[s].why)
<1> DEFINE blames == {i \in S : i.stream = s /\ Owns(rows[s], i)}
           blamed == CHOOSE i \in blames : TRUE
<1>1. rows'[s] = IF blames = {} THEN rows[s] ELSE Blocked(rows[s], blamed)
  BY DEF BlameStep, RecordUnknown
<1>2. rows[s] \in RowType
  BY DEF TypeOK
<1>3. CASE blames = {}
  BY <1>1, <1>3
<1>4. CASE blames # {}
  <2>1. blamed \in blames
    BY <1>4
  <2> HIDE DEF blamed
  <2>2. /\ Blocked(rows[s], blamed).state = "BLOCKED" /\ Blocked(rows[s], blamed).why = blamed
        /\ Blocked(rows[s], blamed).ticket = rows[s].ticket
        /\ Blocked(rows[s], blamed).tuple = rows[s].tuple
    BY <1>2 DEF Blocked, RowType
  <2> QED BY <1>1, <1>4, <2>1, <2>2
<1> QED BY <1>3, <1>4

\* An uncertain outcome settles nothing.
LEMMA BlameSettles ==
  ASSUME TypeOK, NEW S \in SUBSET Intent, BlameStep(S)
  PROVE  Settles(status, status')
BY DEF BlameStep, Uncertain, Settles, IsOpen, Open, TypeOK

\* A dispatch that moves on opens nothing and becomes no unknown one.
LEMMA MoveSettles ==
  ASSUME TypeOK, NEW i \in Intent, MoveStep(i) \/ RestoreStep(i)
  PROVE  /\ Settles(status, status')
         /\ \A j \in Intent : status'[j] = "UNKNOWN" => status[j] = "UNKNOWN" /\ j # i
BY DEF MoveStep, RestoreStep, Moves, Settles, IsOpen, Open, TypeOK

\* A restored row keeps its label, and only the row of the dispatch moves.
LEMMA RestoreShape ==
  ASSUME TypeOK, NEW i \in Intent, RestoreStep(i), NEW s \in Stream
  PROVE  /\ rows'[s].ticket = rows[s].ticket /\ rows'[s].tuple = rows[s].tuple
         /\ \/ rows'[s] = rows[s]
            \/ /\ s = i.stream /\ BlockedBy(i) /\ rows'[s].why = None
               /\ rows'[s].state = saved[i].state
<1>1. i.stream \in Stream /\ rows[s] \in RowType
  BY DEF Intent, TypeOK
<1>2. CASE BlockedBy(i)
  <2>1. rows' = [rows EXCEPT ![i.stream].state = saved[i].state, ![i.stream].why = None]
    BY <1>2 DEF RestoreStep, RestoreUnknownStream
  <2>2. rows \in [Stream -> RowType]
    BY DEF TypeOK
  <2>3. CASE s # i.stream
    BY <1>1, <2>1, <2>2, <2>3
  <2>4. CASE s = i.stream
    <3>1. rows'[s] = [rows[s] EXCEPT !.state = saved[i].state, !.why = None]
      BY <1>1, <2>1, <2>2, <2>4
    <3> QED BY <1>1, <1>2, <2>4, <3>1 DEF RowType
  <2> QED BY <2>3, <2>4
<1>3. CASE ~BlockedBy(i)
  BY <1>3 DEF RestoreStep, RestoreUnknownStream
<1> QED BY <1>2, <1>3

\* Two open dispatches of one ticket and one candidate are one.
LEMMA OneOpen ==
  ASSUME StreamsInv, NEW i \in Intent, NEW j \in Intent, IsOpen(i, status), IsOpen(j, status),
         i.ticket = j.ticket, i.tuple = j.tuple
  PROVE  i = j
<1>1. OneStreamPerTicket
  BY StreamsInvGives
<1> QED BY <1>1 DEF OneStreamPerTicket, NonTerminal, IsOpen

\* What a reschedule on the inventory inv makes of the row of stream s.
Labelled(s, inv) ==
  LET t == rows'[s].ticket IN
  t \in Ticket /\ t \in DOMAIN inv /\ rows'[s].tuple = inv[t].tuple

KeepsRow(s, inv) ==
  /\ Labelled(s, inv) /\ inv[rows'[s].ticket].disp = "ELIGIBLE"
  /\ rows[s].state = "WORKING" /\ rows'[s].state = "WORKING"
  /\ rows'[s].ticket = rows[s].ticket
  /\ Holders(rows[s].ticket) \subseteq {s}

TakesRow(s, inv) ==
  /\ Labelled(s, inv) /\ inv[rows'[s].ticket].disp = "ELIGIBLE"
  /\ rows'[s].state = "WORKING"
  /\ Holders(rows'[s].ticket) = {}

WaitsRow(s, inv) ==
  /\ Labelled(s, inv)
  /\ rows'[s].state # "WORKING" /\ rows'[s].why = None
  /\ Holders(rows'[s].ticket) = {}

BlockedRow(s, inv) ==
  \E u \in UnknownOf(s, rows, inv) :
    rows'[s] = [state |-> "BLOCKED", ticket |-> u.ticket, tuple |-> u.tuple, why |-> u]

\* A reschedule keeps a row, gives the stream an unreserved ticket, leaves
\* it blocked on its unknown dispatch, or idles it.
LEMMA RescheduleRows ==
  ASSUME TypeOK, NEW inv, IsInventory(inv), NEW cap, NEW reserved, NEW rank,
         NEW kept \in SUBSET Stream, NEW go \in SUBSET Stream,
         NEW pick \in [Stream -> Ticket \cup {None}], kept \cap go = {},
         IsKept(kept, rows, inv, cap, reserved),
         IsPick(pick, go, kept, FreeStreams(kept, rows, inv), WaitingBy(kept, rows, inv),
                Slots(kept, rows, cap), rows, inv, reserved, rank),
         rows' = [s \in Stream |-> NewRow(s, kept, go, pick, rows, inv)],
         NEW s \in Stream
  PROVE  /\ s \in kept => KeepsRow(s, inv)
         /\ s \in go => TakesRow(s, inv) /\ UnknownOf(s, rows, inv) = {}
         /\ s \notin kept \cup go =>
              \/ WaitsRow(s, inv) /\ UnknownOf(s, rows, inv) = {}
              \/ BlockedRow(s, inv)
              \/ rows'[s] = IdleRow /\ UnknownOf(s, rows, inv) = {}
<1> DEFINE label(st, t) == [state |-> st, ticket |-> t, tuple |-> inv[t].tuple, why |-> None]
           free == FreeStreams(kept, rows, inv)
           waiting == WaitingBy(kept, rows, inv)
<1>1. rows'[s] = NewRow(s, kept, go, pick, rows, inv)
  OBVIOUS
<1>2. ASSUME s \in kept PROVE KeepsRow(s, inv)
  <2>1. Retainable(s, rows, inv, reserved)
    BY <1>2 DEF IsKept
  <2>2. rows'[s] = label("WORKING", rows[s].ticket)
    BY <1>1, <1>2 DEF NewRow
  <2> QED BY <2>1, <2>2 DEF KeepsRow, Labelled, Retainable, IsInventory
<1>3. ASSUME s \in go PROVE TakesRow(s, inv) /\ UnknownOf(s, rows, inv) = {}
  <2>1. s \notin kept
    BY <1>3
  <2>5. s \in free
    BY <1>3 DEF IsPick
  <2>2. pick[s] \in Left(waiting["ELIGIBLE"], s, pick)
    BY <1>3 DEF IsPick, IsFirst, Startable
  <2>3. pick[s] \in Waiting("ELIGIBLE", kept, rows, inv)
    BY <2>2 DEF Left, WaitingBy
  <2>4. rows'[s] = label("WORKING", pick[s])
    BY <1>1, <1>3, <2>1 DEF NewRow
  <2> QED BY <2>3, <2>4, <2>5 DEF TakesRow, Labelled, Waiting, IsInventory, FreeStreams
<1>4. ASSUME s \notin kept, s \notin go, UnknownOf(s, rows, inv) # {} PROVE BlockedRow(s, inv)
  <2> DEFINE u == CHOOSE i \in UnknownOf(s, rows, inv) : TRUE
  <2>1. rows'[s] = [state |-> "BLOCKED", ticket |-> u.ticket, tuple |-> u.tuple, why |-> u]
    BY <1>1, <1>4 DEF NewRow
  <2>2. u \in UnknownOf(s, rows, inv)
    BY <1>4
  <2> HIDE DEF u
  <2> QED BY <2>1, <2>2 DEF BlockedRow
<1>5. ASSUME s \notin kept, s \notin go, UnknownOf(s, rows, inv) = {}
      PROVE  WaitsRow(s, inv) \/ rows'[s] = IdleRow
  <2>1. s \in free
    BY <1>5 DEF FreeStreams
  <2>2. rows'[s] = IF pick[s] # None THEN label(Waits(inv, pick[s]), pick[s]) ELSE IdleRow
    BY <1>1, <1>5 DEF NewRow
  <2>3. IsFirst(pick[s], Showable(s, pick, waiting), rank) \/ pick[s] = None
    BY <1>5, <2>1 DEF IsPick
  <2>4. ASSUME pick[s] # None PROVE WaitsRow(s, inv)
    <3>1. pick[s] \in Showable(s, pick, waiting)
      BY <2>3, <2>4 DEF IsFirst
    <3>2. pick[s] \in DOMAIN inv /\ Holders(pick[s]) = {}
      BY <3>1 DEF Showable, Left, WaitingBy, Waiting
    <3>3. Waits(inv, pick[s]) # "WORKING"
      BY DEF Waits
    <3> QED BY <2>2, <2>4, <3>2, <3>3 DEF WaitsRow, Labelled, IsInventory
  <2> QED BY <2>2, <2>4
<1> QED BY <1>2, <1>3, <1>4, <1>5

\* What a rescheduling step makes of each row and of what is remembered.
LEMMA PlanRows ==
  ASSUME TypeOK, NEW d \in Digest, NEW p \in Policy, NEW cap, PlanStep(d, p, cap),
         NEW s \in Stream
  PROVE  LET inv == PlanGated(d, p)
             unknown == UnknownOf(s, rows, inv)
         IN /\ \A i \in Intent : i.stream = s /\ (KeepsRow(s, inv) \/ i \notin unknown)
                 => saved'[i] = saved[i]
            /\ \/ KeepsRow(s, inv)
               \/ (TakesRow(s, inv) \/ WaitsRow(s, inv) \/ rows'[s] = IdleRow) /\ unknown = {}
               \/ /\ BlockedRow(s, inv)
                  /\ \A i \in unknown :
                       saved'[i] = [state |-> IF inv[i.ticket].disp = "ELIGIBLE" THEN "WORKING"
                                              ELSE inv[i.ticket].disp,
                                    tuple |-> inv[i.ticket].tuple]
<1> DEFINE inv == PlanGated(d, p)
<1>1. IsInventory(inv)
  BY GatedInventory DEF PlanGated
<1>2. Reschedule(rows, inv, cap, p.reserved, p.rank)
  BY DEF PlanStep
<1> HIDE DEF inv
<1>3. PICK kept \in SUBSET Stream, go \in SUBSET Stream, pick \in [Stream -> Ticket \cup {None}] :
        /\ kept \cap go = {}
        /\ IsKept(kept, rows, inv, cap, p.reserved)
        /\ IsPick(pick, go, kept, FreeStreams(kept, rows, inv),
                  WaitingBy(kept, rows, inv), Slots(kept, rows, cap),
                  rows, inv, p.reserved, p.rank)
        /\ rows' = [r \in Stream |-> NewRow(r, kept, go, pick, rows, inv)]
        /\ saved' = Resave(kept, rows, inv)
  BY <1>2, RescheduleShape
<1>4. /\ s \in kept => KeepsRow(s, inv)
      /\ s \in go => TakesRow(s, inv) /\ UnknownOf(s, rows, inv) = {}
      /\ s \notin kept \cup go =>
           \/ WaitsRow(s, inv) /\ UnknownOf(s, rows, inv) = {}
           \/ BlockedRow(s, inv)
           \/ rows'[s] = IdleRow /\ UnknownOf(s, rows, inv) = {}
  BY <1>1, <1>3, RescheduleRows
<1>5. ASSUME NEW i \in Intent, i.stream = s, s \in kept \/ i \notin UnknownOf(s, rows, inv)
      PROVE  saved'[i] = saved[i]
  BY <1>3, <1>5 DEF Resave
<1>6. ASSUME s \notin kept, NEW i \in UnknownOf(s, rows, inv)
      PROVE  saved'[i] = [state |-> IF inv[i.ticket].disp = "ELIGIBLE" THEN "WORKING"
                                    ELSE inv[i.ticket].disp,
                          tuple |-> inv[i.ticket].tuple]
  <2>1. i \in Intent /\ i.stream = s
    BY DEF UnknownOf
  <2> QED BY <1>3, <1>6, <2>1 DEF Resave
<1>10. ASSUME KeepsRow(s, inv), s \notin kept, NEW i \in UnknownOf(s, rows, inv) PROVE FALSE
  <2>1. s \notin go
    BY <1>4, <1>10
  <2>2. BlockedRow(s, inv)
    BY <1>4, <1>10, <2>1
  <2>3. PICK u : rows'[s] = [state |-> "BLOCKED", ticket |-> u.ticket, tuple |-> u.tuple, why |-> u]
    BY <2>2 DEF BlockedRow
  <2>4. rows'[s].state = "BLOCKED"
    BY <2>3
  <2> QED BY <1>10, <2>4 DEF KeepsRow
<1>11. ASSUME NEW i \in Intent, i.stream = s, KeepsRow(s, inv) \/ i \notin UnknownOf(s, rows, inv)
       PROVE  saved'[i] = saved[i]
  BY <1>5, <1>10, <1>11
<1>12. /\ \A i \in Intent : i.stream = s /\ (KeepsRow(s, inv) \/ i \notin UnknownOf(s, rows, inv))
             => saved'[i] = saved[i]
       /\ \/ KeepsRow(s, inv)
          \/ /\ TakesRow(s, inv) \/ WaitsRow(s, inv) \/ rows'[s] = IdleRow
             /\ UnknownOf(s, rows, inv) = {}
          \/ /\ BlockedRow(s, inv)
             /\ \A i \in UnknownOf(s, rows, inv) :
                  saved'[i] = [state |-> IF inv[i.ticket].disp = "ELIGIBLE" THEN "WORKING"
                                         ELSE inv[i.ticket].disp,
                               tuple |-> inv[i.ticket].tuple]
  <2>1. \A i \in Intent : i.stream = s /\ (KeepsRow(s, inv) \/ i \notin UnknownOf(s, rows, inv))
             => saved'[i] = saved[i]
    BY <1>11
  <2>2. CASE s \in go
    BY <1>4, <2>1, <2>2
  <2>3. CASE s \in kept
    BY <1>4, <2>1, <2>3
  <2>4. CASE s \notin kept \cup go
    BY <1>4, <1>6, <2>1, <2>4
  <2> QED BY <2>2, <2>3, <2>4
<1> QED BY <1>12 DEF inv

\* An intent that is written belongs to a working row; the others stay.
LEMMA WrittenIntents ==
  ASSUME TypeOK, NEW rws, NEW i \in Intent, NEW new, new = WithIntents(rws, status)
  PROVE  /\ IsOpen(i, new) => IsOpen(i, status) \/ i \in NewIntents(rws, status)
         /\ i \in NewIntents(rws, status) =>
              rws[i.stream].state = "WORKING" /\ Owns(rws[i.stream], i) /\ new[i] = "PENDING"
         /\ i \notin NewIntents(rws, status) => new[i] = status[i]
BY DEF WithIntents, NewIntents, IsOpen

\* Writing the intents of the working rows: an open dispatch of the same
\* ticket is one whose row shows another candidate.
LEMMA WriteReplan ==
  ASSUME TypeOK, StreamsInv, ReplanInv, WriteStep
  PROVE  ReplanInv'
<1> DEFINE N == NewIntents(rows, status)
<1>1. ASSUME NEW i \in Intent
      PROVE  /\ IsOpen(i, status') => IsOpen(i, status) \/ i \in N
             /\ i \in N => rows[i.stream].state = "WORKING" /\ Owns(rows[i.stream], i)
                           /\ status'[i] = "PENDING"
             /\ i \notin N => status'[i] = status[i]
  BY WrittenIntents DEF WriteStep
<1> HIDE DEF N
<1>2. rows' = rows /\ \A i \in Intent : Replanned(i)' <=> Replanned(i)
  BY DEF WriteStep, Replanned
<1>3. LeftByReplan'
  BY <1>1, <1>2 DEF ReplanInv, LeftByReplan, LeftBehind, Owns
<1>4. UnknownStops'
  BY <1>1, <1>2 DEF ReplanInv, UnknownStops
<1>5. RowsInv(rows, status') /\ LedgerInv(status')
  BY WithIntentsInv DEF StreamsInv, WriteStep
<1>6. StreamsInv'
  BY <1>2, <1>5
     DEF StreamsInv, RowsInv, LedgerInv, WorkingOwns, WorkingDistinct, OneStream, Generations, IsOpen
<1>7. PairsByReplan'
  <2> SUFFICES ASSUME NEW i \in Intent, NEW j \in Intent, IsOpen(i, status'), IsOpen(j, status'),
                      i.ticket = j.ticket, i # j
               PROVE  Replanned(i) \/ Replanned(j)
    BY <1>2 DEF PairsByReplan, IsOpen
  <2>1. i.stream = j.stream /\ i.tuple # j.tuple
    <3>1. OneStreamPerTicket'
      BY <1>6, StreamsInvGives, PTL
    <3> QED BY <3>1 DEF OneStreamPerTicket, NonTerminal, IsOpen
  <2>2. CASE IsOpen(i, status) /\ IsOpen(j, status)
    BY <2>2 DEF ReplanInv, PairsByReplan
  <2>3. CASE i \in N /\ IsOpen(j, status)
    BY <1>1, <2>1, <2>3 DEF ReplanInv, LeftByReplan, LeftBehind, Owns
  <2>4. CASE j \in N /\ IsOpen(i, status)
    BY <1>1, <2>1, <2>4 DEF ReplanInv, LeftByReplan, LeftBehind, Owns
  <2>5. CASE i \in N /\ j \in N
    BY <1>1, <2>1, <2>5 DEF Owns
  <2> QED BY <1>1, <2>2, <2>3, <2>4, <2>5
<1> QED BY <1>3, <1>4, <1>7 DEF ReplanInv

\* Under a seal every open dispatch is named by it.
LEMMA ConsumeNames ==
  ASSUME TypeOK, NEW d, NEW H, Consume(d, H), NEW i \in Intent, IsOpen(i, status)
  PROVE  \E k \in DOMAIN seals' : /\ seals'[k].state = "CONSUMED" /\ seals'[k].next = d
                                 /\ i \in DOMAIN seals'[k].bound
<1>1. PICK k \in MatchingSeals(d) :
        seals' = [seals EXCEPT ![k] = [@ EXCEPT !.state = "CONSUMED", !.heirs = H]]
  BY DEF Consume
<1>2. k \in DOMAIN seals /\ seals[k].next = d /\ seals[k].bound = NonTerminalRows
  BY <1>1 DEF MatchingSeals
<1>3. seals[k] \in SealType
  BY <1>2 DEF TypeOK
<1>4. /\ k \in DOMAIN seals' /\ seals'[k].state = "CONSUMED" /\ seals'[k].next = seals[k].next
      /\ seals'[k].bound = seals[k].bound
  BY <1>1, <1>2, <1>3 DEF SealType
<1>5. DOMAIN NonTerminalRows = NonTerminal
  BY DEF NonTerminalRows
<1> QED BY <1>2, <1>4, <1>5 DEF NonTerminal, IsOpen

\* Outside a boundary every open dispatch is one of the inventory's round.
LEMMA NotCrossing ==
  ASSUME NEW d, NEW inv, Crossing(d, inv) = {}, NEW i \in Intent, IsOpen(i, status)
  PROVE  /\ i.ticket \in DOMAIN inv /\ inv[i.ticket].tuple = i.tuple
         /\ inv[i.ticket].disp = "ELIGIBLE"
BY DEF Crossing, NonTerminal, IsOpen

\* A rescheduled row shows another candidate than an open dispatch only at a
\* boundary, and then the consumed seal names the dispatch.
LEMMA PlanLeaves ==
  ASSUME TypeOK, StreamsInv, ReplanInv, SealsStay, NEW d \in Digest, NEW p \in Policy, NEW cap,
         PlanStep(d, p, cap), NEW i \in Intent, IsOpen(i, status),
         rows'[i.stream].ticket = i.ticket, rows'[i.stream].tuple # i.tuple
  PROVE  Replanned(i)'
<1> DEFINE inv == PlanGated(d, p)
           s == i.stream
<1>1. s \in Stream /\ i.ticket \in Ticket
  BY DEF Intent
<1>2. CASE Labelled(s, inv)
  <2>1. Crossing(d, inv) # {}
    BY <1>2, NotCrossing DEF Labelled
  <2>2. PICK H : Consume(d, H)
    BY <2>1 DEF PlanStep
  <2> QED BY <2>2, ConsumeNames DEF Replanned
<1>3. CASE BlockedRow(s, inv)
  <2>1. rows'[s].ticket = rows[s].ticket /\ rows'[s].tuple = rows[s].tuple
    BY <1>3 DEF BlockedRow, UnknownOf, Owns
  <2>2. LeftBehind(i)
    BY <2>1 DEF LeftBehind
  <2> QED BY <2>2 DEF ReplanInv, LeftByReplan, SealsStay
<1>4. CASE rows'[s] = IdleRow
  BY <1>1, <1>4, ConstantsAssumption DEF IdleRow
<1> QED BY <1>1, <1>2, <1>3, <1>4, PlanRows DEF KeepsRow, TakesRow, WaitsRow

\* A rescheduled row works on the ticket of an unknown dispatch only if it
\* did before.
LEMMA PlanStops ==
  ASSUME TypeOK, StreamsInv, ReplanInv, SealsStay, NEW d \in Digest, NEW p \in Policy, NEW cap,
         PlanStep(d, p, cap), NEW i \in Intent, status[i] = "UNKNOWN",
         rows'[i.stream].ticket = i.ticket, rows'[i.stream].state = "WORKING"
  PROVE  Replanned(i)'
<1> DEFINE inv == PlanGated(d, p)
           s == i.stream
<1>1. s \in Stream /\ i \in NonTerminal /\ IsOpen(i, status)
  BY DEF Intent, NonTerminal, Open, IsOpen
<1>2. i.stream \in Holders(i.ticket)
  BY <1>1 DEF Holders
<1>3. KeepsRow(s, inv)
  <2>1. ~TakesRow(s, inv) /\ ~WaitsRow(s, inv)
    BY <1>2 DEF TakesRow, WaitsRow
  <2>2. ~BlockedRow(s, inv) /\ rows'[s] # IdleRow
    <3>1. rows'[s] # IdleRow
      BY DEF IdleRow
    <3>2. ASSUME BlockedRow(s, inv) PROVE FALSE
      <4>1. PICK u : rows'[s] = [state |-> "BLOCKED", ticket |-> u.ticket, tuple |-> u.tuple, why |-> u]
        BY <3>2 DEF BlockedRow
      <4>2. rows'[s].state = "BLOCKED"
        BY <4>1
      <4> QED BY <4>2
    <3> QED BY <3>1, <3>2
  <2> HIDE DEF s, inv
  <2>3. KeepsRow(s, PlanGated(d, p)) \/ TakesRow(s, PlanGated(d, p)) \/ WaitsRow(s, PlanGated(d, p))
        \/ rows'[s] = IdleRow \/ BlockedRow(s, PlanGated(d, p))
    BY <1>1, PlanRows, Zenon
  <2> QED BY <2>1, <2>2, <2>3 DEF inv
<1>4. rows[s].state = "WORKING" /\ rows[s].ticket = i.ticket
  BY <1>3 DEF KeepsRow
<1>5. Replanned(i)
  BY <1>1, <1>4 DEF ReplanInv, UnknownStops, LeftByReplan, LeftBehind, Owns
<1> QED BY <1>5 DEF SealsStay

\* Rescheduling keeps the invariant.
LEMMA PlanReplan ==
  ASSUME TypeOK, StreamsInv, StreamsInv', ReplanInv, SealsStay, NEW d \in Digest, NEW p \in Policy,
         NEW cap, PlanStep(d, p, cap)
  PROVE  ReplanInv'
<1>1. ASSUME NEW i \in Intent
      PROVE  /\ IsOpen(i, status') => IsOpen(i, status) \/ Owns(rows'[i.stream], i)
             /\ status'[i] = "UNKNOWN" => status[i] = "UNKNOWN"
  <2>1. CASE status' = status
    BY <2>1
  <2>2. CASE status' = WithIntents(rows', status)
    BY <2>2, WrittenIntents
  <2> QED BY <2>1, <2>2 DEF PlanStep
<1>11. ASSUME NEW i \in Intent, IsOpen(i, status'), ~IsOpen(i, status)
       PROVE  Owns(rows'[i.stream], i)
  BY <1>1, <1>11
<1>2. LeftByReplan'
  <2> SUFFICES ASSUME NEW i \in Intent, IsOpen(i, status'), rows'[i.stream].ticket = i.ticket,
                      rows'[i.stream].tuple # i.tuple
               PROVE  Replanned(i)'
    BY DEF LeftByReplan, LeftBehind, IsOpen
  <2>1. IsOpen(i, status)
    BY <1>11 DEF Owns
  <2> QED BY <2>1, PlanLeaves
<1>3. UnknownStops'
  <2> SUFFICES ASSUME NEW i \in Intent, status'[i] = "UNKNOWN", Owns(rows'[i.stream], i),
                      rows'[i.stream].state = "WORKING"
               PROVE  Replanned(i)'
    BY DEF UnknownStops, Owns
  <2> QED BY <1>1, PlanStops DEF Owns
<1>4. PairsByReplan'
  <2> SUFFICES ASSUME NEW i \in Intent, NEW j \in Intent, IsOpen(i, status'), IsOpen(j, status'),
                      i.ticket = j.ticket, i # j
               PROVE  Replanned(i)' \/ Replanned(j)'
    BY DEF PairsByReplan, IsOpen
  <2>1. i.stream = j.stream /\ i.tuple # j.tuple
    <3>1. OneStreamPerTicket'
      BY StreamsInvGives, PTL
    <3> QED BY <3>1 DEF OneStreamPerTicket, NonTerminal, IsOpen
  <2>2. CASE IsOpen(i, status) /\ IsOpen(j, status)
    BY <2>2 DEF ReplanInv, PairsByReplan, SealsStay
  <2>3. CASE ~IsOpen(i, status)
    <3>1. rows'[j.stream].ticket = j.ticket /\ rows'[j.stream].tuple # j.tuple
      BY <1>11, <2>1, <2>3 DEF Owns
    <3>2. LeftBehind(j)'
      BY <3>1 DEF LeftBehind, IsOpen
    <3> QED BY <1>2, <3>2 DEF LeftByReplan
  <2>4. CASE ~IsOpen(j, status)
    <3>1. rows'[i.stream].ticket = i.ticket /\ rows'[i.stream].tuple # i.tuple
      BY <1>11, <2>1, <2>4 DEF Owns
    <3>2. LeftBehind(i)'
      BY <3>1 DEF LeftBehind, IsOpen
    <3> QED BY <1>2, <3>2 DEF LeftByReplan
  <2> QED BY <2>2, <2>3, <2>4
<1> QED BY <1>2, <1>3, <1>4 DEF ReplanInv

\* A fresh store has nothing to replan.
LEMMA ReplanInit == Init => ReplanInv
BY DEF Init, ReplanInv, LeftByReplan, LeftBehind, PairsByReplan, UnknownStops, IsOpen, Open

\* Every kind of step keeps the invariant.
LEMMA ReplanStep == TypeInv /\ StreamsInv /\ ReplanInv /\ [Next]_vars => ReplanInv'
<1> SUFFICES ASSUME TypeInv, StreamsInv, ReplanInv, [Next]_vars PROVE ReplanInv'
  OBVIOUS
<1>0. TypeOK /\ StoreStep /\ StreamsInv'
  BY StoreMoves, StreamsStep DEF TypeInv
<1>1. SealsStay
  BY <1>0, ReplannedStays
<1>2. ASSUME UNCHANGED <<rows, status>> PROVE ReplanInv'
  BY <1>1, <1>2, QuietReplan DEF Settles
<1>3. ASSUME NEW S \in SUBSET Intent, BlameStep(S) PROVE ReplanInv'
  <2>1. Settles(status, status')
    BY <1>0, <1>3, BlameSettles
  <2>2. \A s \in Stream : rows'[s].ticket = rows[s].ticket /\ rows'[s].tuple = rows[s].tuple
    BY <1>0, <1>3, BlameShape
  <2>3. ASSUME NEW i \in Intent, status'[i] = "UNKNOWN", Owns(rows'[i.stream], i),
               rows'[i.stream].state = "WORKING"
        PROVE  status[i] = "UNKNOWN" /\ rows[i.stream].state = "WORKING"
    <3>1. i.stream \in Stream
      BY DEF Intent
    <3>2. rows'[i.stream] = rows[i.stream] /\ i \notin S
      BY <1>0, <1>3, <2>3, <3>1, BlameShape DEF Owns
    <3> QED BY <1>3, <2>3, <3>2 DEF BlameStep, Uncertain
  <2> QED BY <1>1, <2>1, <2>2, <2>3, QuietReplan
<1>4. ASSUME NEW i \in Intent, MoveStep(i) PROVE ReplanInv'
  <2>1. rows' = rows
    BY <1>4 DEF MoveStep
  <2> QED BY <1>0, <1>1, <1>4, <2>1, MoveSettles, QuietReplan
<1>5. ASSUME NEW i \in Intent, RestoreStep(i) PROVE ReplanInv'
  <2>1. \A s \in Stream : rows'[s].ticket = rows[s].ticket /\ rows'[s].tuple = rows[s].tuple
    BY <1>0, <1>5, RestoreShape
  <2>2. ASSUME NEW j \in Intent, status'[j] = "UNKNOWN", Owns(rows'[j.stream], j),
               rows'[j.stream].state = "WORKING"
        PROVE  status[j] = "UNKNOWN" /\ rows[j.stream].state = "WORKING"
    <3>1. status[j] = "UNKNOWN" /\ j # i /\ j.stream \in Stream
      BY <1>0, <1>5, <2>2, MoveSettles DEF Intent
    <3>2. Owns(rows[j.stream], j)
      BY <2>1, <2>2, <3>1 DEF Owns
    <3>3. IsOpen(i, status) /\ IsOpen(j, status)
      BY <1>5, <3>1 DEF RestoreStep, IsOpen, Open
    <3>4. ~(j.stream = i.stream /\ BlockedBy(i))
      BY <3>1, <3>2, <3>3, OneOpen DEF BlockedBy, Owns
    <3>5. rows'[j.stream] = rows[j.stream]
      BY <1>0, <1>5, <3>1, <3>4, RestoreShape
    <3> QED BY <2>2, <3>1, <3>5
  <2> QED BY <1>0, <1>1, <1>5, <2>1, <2>2, MoveSettles, QuietReplan
<1>6. ASSUME NEW d \in Digest, NEW p \in Policy, NEW cap, PlanStep(d, p, cap) PROVE ReplanInv'
  BY <1>0, <1>1, <1>6, PlanReplan
<1>7. CASE WriteStep
  BY <1>0, <1>7, WriteReplan
<1> QED BY <1>0, <1>2, <1>3, <1>4, <1>5, <1>6, <1>7 DEF StoreStep, StillStep, SealStep

\* However many cycles interleave, no stream works on the ticket of a
\* dispatch whose outcome is unknown, unless the owner's consumed replan
\* names that dispatch, and then only the dispatch's own stream does.
THEOREM UnknownBlocksItsTicketHolds == Spec => []UnknownBlocksItsTicket
<1>1. Spec => []StreamsInv
  BY StreamsInit, StreamsStep, TypeCorrect, PTL DEF Spec
<1>2. Spec => []ReplanInv
  BY <1>1, ReplanInit, ReplanStep, TypeCorrect, PTL DEF Spec
<1> QED BY <1>1, <1>2, ReplanInvGives, PTL

-----------------------------------------------------------------------------
(* The round.  Every working row and every open dispatch belongs to the    *)
(* inventory scheduled last, or a seal into it names the dispatch.  What   *)
(* an unknown dispatch remembers of its row belongs to it as well, because *)
(* a row may go back to it.                                                *)

RoundOf(t, u) ==
  LET inv == Content[lastInv] IN
  t \in DOMAIN inv /\ inv[t].tuple = u /\ inv[t].disp = "ELIGIBLE"

WorksInRound ==
  \A s \in Stream : rows[s].state = "WORKING" => RoundOf(rows[s].ticket, rows[s].tuple)

OpenInRound == \A i \in Intent : IsOpen(i, status) => InRound(i) \/ SealedInto(i)

\* The row of an unknown dispatch that remembers one does not work.
Remembers(i) ==
  /\ status[i] \in {"UNKNOWN", "TERMINAL"}
  /\ status[i] = "UNKNOWN" /\ rows[i.stream].ticket = i.ticket =>
       /\ rows[i.stream].tuple = i.tuple /\ rows[i.stream].state # "WORKING"
       /\ saved[i].state = "WORKING" /\ saved[i].tuple = i.tuple => InRound(i)

SavedInRound == \A i \in Intent : saved[i] # None => Remembers(i)

WithinRound == WorksInRound /\ OpenInRound /\ SavedInRound

\* An intent is in the round if its label is.
LEMMA InRoundOf == \A i \in Intent : InRound(i) <=> RoundOf(i.ticket, i.tuple)
BY DEF InRound, RoundOf

\* What an inventory as gated makes eligible is eligible in it as read.
LEMMA GatedEligible ==
  ASSUME NEW d \in Digest, NEW p, NEW t, t \in DOMAIN PlanGated(d, p),
         PlanGated(d, p)[t].disp = "ELIGIBLE"
  PROVE  t \in DOMAIN Content[d] /\ Content[d][t].disp = "ELIGIBLE"
BY DEF PlanGated, Gated

\* Gating leaves the candidate of a ticket alone.
LEMMA GatedTuple ==
  ASSUME NEW d \in Digest, NEW p, NEW t, t \in DOMAIN PlanGated(d, p)
  PROVE  t \in DOMAIN Content[d] /\ PlanGated(d, p)[t].tuple = Content[d][t].tuple
<1> DEFINE hidden == p.disabled \cup p.refused \cup (Ticket \ p.planned)
<1>1. t \in DOMAIN Content[d] /\ Content[d][t] \in Item
  BY ConstantsAssumption DEF PlanGated, Gated
<1>2. PlanGated(d, p)[t] = IF Content[d][t].disp = "ELIGIBLE" /\ t \in hidden
                           THEN [Content[d][t] EXCEPT !.disp = "BLOCKED"]
                           ELSE Content[d][t]
  BY <1>1 DEF PlanGated, Gated
<1> QED BY <1>1, <1>2 DEF Item

\* A step that keeps the round, opens nothing, makes no row work that did not
\* and remembers nothing more keeps the invariant.
LEMMA QuietRound ==
  ASSUME WithinRound, lastInv' = lastInv, Settles(status, status'),
         \A i \in Intent : SealedInto(i) => SealedInto(i)',
         \A s \in Stream : rows'[s].ticket = rows[s].ticket /\ rows'[s].tuple = rows[s].tuple,
         \A s \in Stream : rows'[s].state = "WORKING" => rows[s].state = "WORKING",
         \A i \in Intent : status'[i] = "UNKNOWN" /\ saved[i] # None => status[i] = "UNKNOWN",
         \A i \in Intent : status[i] \in {"UNKNOWN", "TERMINAL"} => status'[i] \in {"UNKNOWN", "TERMINAL"},
         saved' = saved
  PROVE  WithinRound'
<1>1. ASSUME NEW i \in Intent PROVE i.stream \in Stream /\ (InRound(i) <=> InRound(i)')
  BY DEF Intent, InRound
<1>2. WorksInRound'
  <2> SUFFICES ASSUME NEW s \in Stream, rows'[s].state = "WORKING"
               PROVE  RoundOf(rows[s].ticket, rows[s].tuple)
    BY DEF WorksInRound, RoundOf
  <2>1. rows[s].state = "WORKING"
    OBVIOUS
  <2> QED BY <2>1 DEF WithinRound, WorksInRound
<1>3. OpenInRound'
  BY <1>1 DEF WithinRound, OpenInRound, Settles, IsOpen
<1>4. SavedInRound'
  <2> SUFFICES ASSUME NEW i \in Intent, saved[i] # None PROVE Remembers(i)'
    BY DEF SavedInRound
  <2>1. Remembers(i)
    BY DEF WithinRound, SavedInRound
  <2>2. /\ status'[i] \in {"UNKNOWN", "TERMINAL"} /\ status'[i] = "UNKNOWN" => status[i] = "UNKNOWN"
        /\ rows'[i.stream].ticket = rows[i.stream].ticket
        /\ rows'[i.stream].tuple = rows[i.stream].tuple
        /\ rows'[i.stream].state = "WORKING" => rows[i.stream].state = "WORKING"
    BY <1>1, <2>1 DEF Remembers
  <2> QED BY <1>1, <2>1, <2>2 DEF Remembers
<1> QED BY <1>2, <1>3, <1>4 DEF WithinRound

\* A seal that names the round names it for ever.
LEMMA SealedIntoStays ==
  ASSUME TypeOK, StoreStep, lastInv' = lastInv, NEW i \in Intent, SealedInto(i)
  PROVE  SealedInto(i)'
<1>1. PICK k \in DOMAIN seals : /\ seals[k].state = "CONSUMED" /\ seals[k].next = lastInv
                               /\ i \in DOMAIN seals[k].bound
  BY DEF SealedInto
<1>2. CASE seals' = seals
  BY <1>1, <1>2 DEF SealedInto
<1>3. ASSUME NEW d \in Digest, SealStep(d) PROVE SealedInto(i)'
  <2>1. k \in DOMAIN seals' /\ seals'[k] = seals[k]
    BY <1>1, <1>3, AppendProperties DEF SealStep, TypeOK
  <2> QED BY <1>1, <2>1 DEF SealedInto
<1>4. ASSUME NEW d, NEW H, Consume(d, H) PROVE SealedInto(i)'
  <2>1. PICK l \in MatchingSeals(d) :
          seals' = [seals EXCEPT ![l] = [@ EXCEPT !.state = "CONSUMED", !.heirs = H]]
    BY <1>4 DEF Consume
  <2>2. k # l
    BY <1>1, <2>1 DEF MatchingSeals
  <2>3. k \in DOMAIN seals' /\ seals'[k] = seals[k]
    BY <1>1, <2>1, <2>2
  <2> QED BY <1>1, <2>3 DEF SealedInto
<1> QED BY <1>2, <1>3, <1>4
        DEF StoreStep, StillStep, PlanStep, BlameStep, MoveStep, WriteStep, RestoreStep

\* Writing intents: they are those of rows that work in the round.
LEMMA WriteRound ==
  ASSUME TypeOK, WithinRound, WriteStep
  PROVE  WithinRound'
<1>1. ASSUME NEW i \in Intent
      PROVE  /\ i.stream \in Stream
             /\ InRound(i) <=> InRound(i)'
             /\ SealedInto(i) <=> SealedInto(i)'
             /\ RoundOf(i.ticket, i.tuple) <=> InRound(i)
  BY DEF WriteStep, Intent, InRound, SealedInto, RoundOf
<1>2. WorksInRound'
  BY DEF WriteStep, WithinRound, WorksInRound, RoundOf
<1>3. OpenInRound'
  <2> SUFFICES ASSUME NEW i \in Intent, IsOpen(i, status') PROVE InRound(i) \/ SealedInto(i)
    BY <1>1 DEF OpenInRound, IsOpen
  <2>1. CASE IsOpen(i, status)
    BY <2>1 DEF WithinRound, OpenInRound
  <2>2. CASE ~IsOpen(i, status)
    <3>1. rows[i.stream].state = "WORKING" /\ Owns(rows[i.stream], i)
      BY <2>2, WrittenIntents DEF WriteStep
    <3> QED BY <1>1, <3>1 DEF WithinRound, WorksInRound, Owns
  <2> QED BY <2>1, <2>2
<1>4. SavedInRound'
  <2> SUFFICES ASSUME NEW i \in Intent, saved[i] # None PROVE Remembers(i)'
    BY DEF SavedInRound, WriteStep
  <2>1. Remembers(i) /\ status'[i] = status[i]
    BY WrittenIntents DEF WithinRound, SavedInRound, Remembers, WriteStep, NewIntents, Vacant
  <2> QED BY <1>1, <2>1 DEF Remembers, WriteStep
<1> QED BY <1>2, <1>3, <1>4 DEF WithinRound

\* A dispatch that is blamed is unknown from then on, and remembers the row
\* it had, unless it remembers one already.
LEMMA BlameRound ==
  ASSUME TypeOK, StoreStep, WithinRound, NEW S \in SUBSET Intent, BlameStep(S)
  PROVE  WithinRound'
<1>1. lastInv' = lastInv /\ status' = Uncertain(S)
  BY DEF BlameStep
<1>2. ASSUME NEW i \in Intent
      PROVE  /\ i.stream \in Stream
             /\ InRound(i) <=> InRound(i)'
             /\ SealedInto(i) => SealedInto(i)'
             /\ RoundOf(i.ticket, i.tuple) <=> InRound(i)
  BY <1>1, SealedIntoStays DEF Intent, InRound, RoundOf
<1>3. ASSUME NEW s \in Stream
      PROVE  /\ rows'[s].ticket = rows[s].ticket /\ rows'[s].tuple = rows[s].tuple
             /\ rows'[s].state = "WORKING" => rows'[s] = rows[s]
             /\ \A i \in S : i.stream = s /\ Owns(rows[s], i) => rows'[s].state # "WORKING"
  BY BlameShape
<1>4. WorksInRound'
  BY <1>1, <1>3 DEF WithinRound, WorksInRound, RoundOf
<1>5. OpenInRound'
  <2>1. Settles(status, status')
    BY BlameSettles
  <2> QED BY <1>2, <2>1 DEF WithinRound, OpenInRound, Settles, IsOpen
<1>6. SavedInRound'
  <2> SUFFICES ASSUME NEW i \in Intent, saved'[i] # None PROVE Remembers(i)'
    BY DEF SavedInRound
  <2>1. status'[i] = IF i \in S THEN "UNKNOWN" ELSE status[i]
    BY <1>1 DEF Uncertain
  <2>2. CASE saved'[i] = saved[i]
    <3>1. Remembers(i)
      BY <2>2 DEF WithinRound, SavedInRound
    <3>2. status[i] = "UNKNOWN" \/ i \notin S
      BY <3>1 DEF Remembers, BlameStep
    <3> QED BY <1>2, <1>3, <2>1, <2>2, <3>1, <3>2 DEF Remembers
  <2>3. CASE saved'[i] # saved[i]
    <3>1. /\ i \in S /\ Owns(rows[i.stream], i)
          /\ saved'[i] = [state |-> rows[i.stream].state, tuple |-> rows[i.stream].tuple]
      BY <2>3 DEF BlameStep, RecordUnknown
    <3>2. rows'[i.stream].state # "WORKING" /\ rows'[i.stream].tuple = i.tuple
      BY <1>2, <1>3, <3>1 DEF Owns
    <3>3. saved'[i].state = "WORKING" => InRound(i)
      BY <1>2, <3>1 DEF WithinRound, WorksInRound, Owns
    <3> QED BY <1>2, <2>1, <3>1, <3>2, <3>3 DEF Remembers
  <2> QED BY <2>2, <2>3
<1> QED BY <1>4, <1>5, <1>6 DEF WithinRound

\* A row that is given back was remembered from the round.
LEMMA RestoreRound ==
  ASSUME TypeOK, StoreStep, StreamsInv, WithinRound, NEW i \in Intent, RestoreStep(i)
  PROVE  WithinRound'
<1>1. lastInv' = lastInv /\ saved' = saved /\ status[i] = "UNKNOWN" /\ i.stream \in Stream
  BY DEF RestoreStep, Intent
<1>2. ASSUME NEW j \in Intent
      PROVE  /\ j.stream \in Stream
             /\ InRound(j) <=> InRound(j)'
             /\ SealedInto(j) => SealedInto(j)'
             /\ RoundOf(j.ticket, j.tuple) <=> InRound(j)
  BY <1>1, SealedIntoStays DEF Intent, InRound, RoundOf
<1>3. ASSUME NEW s \in Stream
      PROVE  /\ rows'[s].ticket = rows[s].ticket /\ rows'[s].tuple = rows[s].tuple
             /\ rows'[s] = rows[s] \/ (s = i.stream /\ BlockedBy(i) /\ rows'[s].state = saved[i].state)
  BY RestoreShape
<1>4. WorksInRound'
  <2> SUFFICES ASSUME NEW s \in Stream, rows'[s].state = "WORKING"
               PROVE  RoundOf(rows[s].ticket, rows[s].tuple)
    BY <1>1, <1>3 DEF WorksInRound, RoundOf
  <2>1. CASE rows'[s] = rows[s]
    BY <2>1 DEF WithinRound, WorksInRound
  <2>2. CASE s = i.stream /\ BlockedBy(i) /\ rows'[s].state = saved[i].state
    <3>1. saved[i] # None /\ saved[i].tuple = i.tuple /\ saved[i].state = "WORKING"
      BY <2>2 DEF RestoreStep, RestoreAccepted
    <3>2. rows[s].ticket = i.ticket /\ rows[s].tuple = i.tuple
      BY <2>2 DEF BlockedBy, Owns
    <3>3. InRound(i)
      BY <1>1, <2>2, <3>1, <3>2 DEF WithinRound, SavedInRound, Remembers
    <3> QED BY <1>2, <3>2, <3>3
  <2> QED BY <1>3, <2>1, <2>2
<1>5. OpenInRound'
  <2>1. Settles(status, status')
    BY MoveSettles
  <2> QED BY <1>2, <2>1 DEF WithinRound, OpenInRound, Settles, IsOpen
<1>6. SavedInRound'
  <2> SUFFICES ASSUME NEW j \in Intent, saved[j] # None PROVE Remembers(j)'
    BY <1>1 DEF SavedInRound
  <2>1. Remembers(j)
    BY DEF WithinRound, SavedInRound
  <2>2. status'[j] = IF j = i THEN "TERMINAL" ELSE status[j]
    BY DEF RestoreStep, TypeOK
  <2>3. CASE j = i
    BY <2>2, <2>3 DEF Remembers
  <2>4. CASE j # i /\ status[j] = "UNKNOWN" /\ rows[j.stream].ticket = j.ticket
    <3>1. rows[j.stream].tuple = j.tuple
      BY <2>1, <2>4 DEF Remembers
    <3>2. ~(j.stream = i.stream /\ BlockedBy(i))
      BY <1>1, <2>4, <3>1, OneOpen DEF BlockedBy, Owns, IsOpen, Open
    <3>3. rows'[j.stream] = rows[j.stream]
      BY <1>2, <1>3, <3>2
    <3> QED BY <1>1, <1>2, <2>1, <2>2, <2>4, <3>3 DEF Remembers
  <2>5. CASE j # i /\ ~(status[j] = "UNKNOWN" /\ rows[j.stream].ticket = j.ticket)
    BY <1>2, <1>3, <2>1, <2>2, <2>5 DEF Remembers
  <2> QED BY <2>3, <2>4, <2>5
<1> QED BY <1>4, <1>5, <1>6 DEF WithinRound

\* An intent opened by a reschedule is that of a row it makes work.
LEMMA PlanOpens ==
  ASSUME TypeOK, NEW d, NEW p, NEW cap, PlanStep(d, p, cap), NEW i \in Intent
  PROVE  /\ IsOpen(i, status') =>
              IsOpen(i, status) \/ (rows'[i.stream].state = "WORKING" /\ Owns(rows'[i.stream], i))
         /\ status'[i] = "UNKNOWN" => status[i] = "UNKNOWN"
         /\ status[i] \in {"UNKNOWN", "TERMINAL"} => status'[i] = status[i]
<1>1. CASE status' = status
  BY <1>1
<1>2. CASE status' = WithIntents(rows', status)
  <2>1. i \in NewIntents(rows', status) => status[i] = "ABSENT"
    BY DEF NewIntents, Vacant
  <2> QED BY <1>2, <2>1, WrittenIntents
<1> QED BY <1>1, <1>2 DEF PlanStep

\* What a rescheduled row that works shows is in the round.
LEMMA PlanWorks ==
  ASSUME TypeOK, NEW d \in Digest, NEW p \in Policy, NEW cap, PlanStep(d, p, cap)
  PROVE  WorksInRound'
<1> DEFINE inv == PlanGated(d, p)
<1> SUFFICES ASSUME NEW s \in Stream, rows'[s].state = "WORKING"
             PROVE  RoundOf(rows[s].ticket, rows[s].tuple)'
  BY DEF WorksInRound, RoundOf
<1>1. lastInv' = d
  BY DEF PlanStep
<1>2. ~WaitsRow(s, inv) /\ rows'[s] # IdleRow
  BY DEF WaitsRow, IdleRow
<1>3. ASSUME BlockedRow(s, inv) PROVE FALSE
  <2>1. PICK u : rows'[s] = [state |-> "BLOCKED", ticket |-> u.ticket, tuple |-> u.tuple, why |-> u]
    BY <1>3 DEF BlockedRow
  <2>2. rows'[s].state = "BLOCKED"
    BY <2>1
  <2> QED BY <2>2
<1>4. KeepsRow(s, inv) \/ TakesRow(s, inv)
  BY <1>2, <1>3, PlanRows
<1>5. Labelled(s, inv) /\ inv[rows'[s].ticket].disp = "ELIGIBLE"
  BY <1>4 DEF KeepsRow, TakesRow
<1> DEFINE t == rows'[s].ticket
<1>6. t \in DOMAIN inv /\ rows'[s].tuple = inv[t].tuple /\ inv[t].disp = "ELIGIBLE"
  BY <1>5 DEF Labelled
<1>7. /\ t \in DOMAIN Content[d] /\ Content[d][t].tuple = rows'[s].tuple
      /\ Content[d][t].disp = "ELIGIBLE"
  BY <1>6, GatedEligible, GatedTuple
<1> QED BY <1>1, <1>7 DEF RoundOf

\* What is remembered of a row that stays blocked is refreshed.
LEMMA PlanRemembers ==
  ASSUME TypeOK, StreamsInv, WithinRound, NEW d \in Digest, NEW p \in Policy, NEW cap,
         PlanStep(d, p, cap), NEW i \in Intent, saved'[i] # None
  PROVE  Remembers(i)'
<1> DEFINE inv == PlanGated(d, p)
           s == i.stream
           unknown == UnknownOf(s, rows, inv)
<1>1. lastInv' = d /\ s \in Stream /\ i.ticket \in Ticket
  BY DEF PlanStep, Intent
<1>2. /\ \A j \in Intent : j.stream = s /\ (KeepsRow(s, inv) \/ j \notin unknown)
            => saved'[j] = saved[j]
      /\ \/ KeepsRow(s, inv)
         \/ (TakesRow(s, inv) \/ WaitsRow(s, inv) \/ rows'[s] = IdleRow) /\ unknown = {}
         \/ /\ BlockedRow(s, inv)
            /\ \A j \in unknown :
                 saved'[j] = [state |-> IF inv[j.ticket].disp = "ELIGIBLE" THEN "WORKING"
                                        ELSE inv[j.ticket].disp,
                              tuple |-> inv[j.ticket].tuple]
  BY <1>1, PlanRows
<1>3. CASE i \in unknown /\ BlockedRow(s, inv) /\ ~KeepsRow(s, inv)
  <2>1. /\ status[i] = "UNKNOWN" /\ Owns(rows[s], i) /\ i.ticket \in DOMAIN inv
        /\ inv[i.ticket].disp # "COMPLETE"
    BY <1>3 DEF UnknownOf
  <2>2. status'[i] = "UNKNOWN"
    BY <2>1, PlanOpens
  <2>3. rows'[s].state = "BLOCKED" /\ rows'[s].tuple = i.tuple
    <3>1. PICK u \in unknown :
            rows'[s] = [state |-> "BLOCKED", ticket |-> u.ticket, tuple |-> u.tuple, why |-> u]
      BY <1>3 DEF BlockedRow
    <3>2. u.tuple = rows[s].tuple
      BY DEF UnknownOf, Owns
    <3> QED BY <2>1, <3>1, <3>2 DEF Owns
  <2>4. saved'[i] = [state |-> IF inv[i.ticket].disp = "ELIGIBLE" THEN "WORKING"
                               ELSE inv[i.ticket].disp,
                     tuple |-> inv[i.ticket].tuple]
    BY <1>2, <1>3
  <2>5. inv[i.ticket].disp \in Disposition
    BY <2>1, GatedInventory DEF IsInventory, Item, PlanGated
  <2>6. saved'[i].state = "WORKING" => inv[i.ticket].disp = "ELIGIBLE"
    BY <2>4, <2>5 DEF Disposition
  <2>7. saved'[i].tuple = inv[i.ticket].tuple
    BY <2>4
  <2>8. saved'[i].state = "WORKING" /\ saved'[i].tuple = i.tuple => InRound(i)'
    BY <1>1, <2>1, <2>6, <2>7, GatedEligible, GatedTuple DEF InRound
  <2> QED BY <2>2, <2>3, <2>8 DEF Remembers
<1>4. CASE saved'[i] = saved[i] /\ ~(i \in unknown /\ BlockedRow(s, inv) /\ ~KeepsRow(s, inv))
  <2>1. Remembers(i)
    BY <1>4 DEF WithinRound, SavedInRound
  <2>2. status'[i] = status[i] /\ status[i] \in {"UNKNOWN", "TERMINAL"}
    BY <2>1, PlanOpens DEF Remembers
  <2>3. ASSUME status[i] = "UNKNOWN", rows'[s].ticket = i.ticket PROVE FALSE
    <3>1. i \in NonTerminal /\ IsOpen(i, status) /\ s \in Holders(i.ticket)
      BY <2>3 DEF NonTerminal, Open, IsOpen, Holders
    <3>2. ~TakesRow(s, inv) /\ ~WaitsRow(s, inv)
      BY <2>3, <3>1 DEF TakesRow, WaitsRow
    <3>3. rows'[s] # IdleRow
      BY <1>1, <2>3, ConstantsAssumption DEF IdleRow
    <3>4. ~KeepsRow(s, inv)
      BY <2>1, <2>3 DEF KeepsRow, Remembers
    <3>5. BlockedRow(s, inv)
      BY <1>2, <3>2, <3>3, <3>4
    <3>6. PICK u \in unknown :
            rows'[s] = [state |-> "BLOCKED", ticket |-> u.ticket, tuple |-> u.tuple, why |-> u]
      BY <3>5 DEF BlockedRow
    <3>7. u \in Intent /\ status[u] = "UNKNOWN" /\ Owns(rows[s], u) /\ IsOpen(u, status)
      BY DEF UnknownOf, IsOpen, Open
    <3>8. rows[s].ticket = i.ticket
      BY <2>3, <3>6, <3>7 DEF Owns
    <3>9. rows[s].tuple = i.tuple
      BY <2>1, <2>3, <3>8 DEF Remembers
    <3>10. u = i
      BY <3>1, <3>7, <3>8, <3>9, OneOpen DEF Owns
    <3> QED BY <1>4, <3>4, <3>5, <3>6, <3>10
  <2> QED BY <2>2, <2>3 DEF Remembers
<1>5. i \notin unknown \/ KeepsRow(s, inv) => saved'[i] = saved[i]
  BY <1>2
<1>6. ~BlockedRow(s, inv) /\ ~KeepsRow(s, inv) => i \notin unknown
  BY <1>2
<1> QED BY <1>3, <1>4, <1>5, <1>6

\* A reschedule puts the round in the place of the old one: what stays open
\* is in it or named by the consumed seal.
LEMMA PlanRound ==
  ASSUME TypeOK, StreamsInv, WithinRound, NEW d \in Digest, NEW p \in Policy, NEW cap,
         PlanStep(d, p, cap)
  PROVE  WithinRound'
<1> DEFINE inv == PlanGated(d, p)
<1>1. lastInv' = d
  BY DEF PlanStep
<1>2. WorksInRound'
  BY PlanWorks
<1>3. OpenInRound'
  <2> SUFFICES ASSUME NEW i \in Intent, IsOpen(i, status') PROVE InRound(i)' \/ SealedInto(i)'
    BY DEF OpenInRound, IsOpen
  <2>1. CASE rows'[i.stream].state = "WORKING" /\ Owns(rows'[i.stream], i)
    BY <1>2, <2>1 DEF WorksInRound, RoundOf, InRound, Owns, Intent
  <2>2. CASE IsOpen(i, status) /\ Crossing(d, inv) = {}
    <3>1. i.ticket \in DOMAIN inv /\ inv[i.ticket].tuple = i.tuple /\ inv[i.ticket].disp = "ELIGIBLE"
      BY <2>2, NotCrossing
    <3> QED BY <1>1, <3>1, GatedEligible, GatedTuple DEF InRound
  <2>3. CASE IsOpen(i, status) /\ Crossing(d, inv) # {}
    <3>1. PICK H : Consume(d, H)
      BY <2>3 DEF PlanStep
    <3> QED BY <1>1, <2>3, <3>1, ConsumeNames DEF SealedInto
  <2> QED BY <2>1, <2>2, <2>3, PlanOpens
<1>4. SavedInRound'
  BY PlanRemembers DEF SavedInRound
<1> QED BY <1>2, <1>3, <1>4 DEF WithinRound

\* A fresh store has no work, no dispatch and nothing remembered.
LEMMA WithinRoundInit == Init => WithinRound
BY DEF Init, WithinRound, WorksInRound, OpenInRound, SavedInRound, IsOpen, Open, IdleRow

\* Every kind of step keeps work and dispatches within the round.
LEMMA WithinRoundStep == TypeInv /\ StreamsInv /\ WithinRound /\ [Next]_vars => WithinRound'
<1> SUFFICES ASSUME TypeInv, StreamsInv, WithinRound, [Next]_vars PROVE WithinRound'
  OBVIOUS
<1>0. TypeOK /\ StoreStep
  BY StoreMoves DEF TypeInv
<1>1. lastInv' = lastInv => \A i \in Intent : SealedInto(i) => SealedInto(i)'
  BY <1>0, SealedIntoStays
<1>2. ASSUME UNCHANGED <<rows, status, saved, lastInv>> PROVE WithinRound'
  BY <1>1, <1>2, QuietRound DEF Settles
<1>3. ASSUME NEW S \in SUBSET Intent, BlameStep(S) PROVE WithinRound'
  BY <1>0, <1>3, BlameRound
<1>4. ASSUME NEW i \in Intent, MoveStep(i) PROVE WithinRound'
  <2>1. /\ Settles(status, status')
        /\ \A j \in Intent : status'[j] = "UNKNOWN" => status[j] = "UNKNOWN"
        /\ \A j \in Intent : status[j] \in {"UNKNOWN", "TERMINAL"} => status'[j] = status[j]
    BY <1>0, <1>4, MoveSettles DEF MoveStep, Moves, TypeOK
  <2>2. UNCHANGED <<rows, saved, lastInv>>
    BY <1>4 DEF MoveStep
  <2> QED BY <1>1, <2>1, <2>2, QuietRound
<1>5. ASSUME NEW i \in Intent, RestoreStep(i) PROVE WithinRound'
  BY <1>0, <1>5, RestoreRound
<1>6. ASSUME NEW d \in Digest, NEW p \in Policy, NEW cap, PlanStep(d, p, cap) PROVE WithinRound'
  BY <1>0, <1>6, PlanRound
<1>7. CASE WriteStep
  BY <1>0, <1>7, WriteRound
<1> QED BY <1>0, <1>2, <1>3, <1>4, <1>5, <1>6, <1>7 DEF StoreStep, StillStep, SealStep

-----------------------------------------------------------------------------
(* One controller.  Nothing in the code excludes a second cycle; what      *)
(* follows is about a host that runs one at a time.  Then the rows a cycle *)
(* admitted its launches with are still there when it claims them.         *)

OneController == \A c, e \in Cycle : c = e

HasRow(i) == rows[i.stream].state = "WORKING" /\ Owns(rows[i.stream], i)

Loop == {"dispatching", "launching", "recorded", "started", "observing", "outdated"}

\* What is admitted has its row, and what may still be launched keeps it.
AdmittedHasRow ==
  \A c \in Cycle : pc[c] \in {"scheduled", "cancelling"} /\ view[c].ready =>
    \A i \in admit[c] : HasRow(i)

LaunchHasRow ==
  \A c \in Cycle : pc[c] \in Loop =>
    \A t \in todo[c] : t.op = "launch" /\ Pending(t.on) => HasRow(t.on)

LaunchesHaveRows == AdmittedHasRow /\ LaunchHasRow

\* Uncertain outcomes, receipts and restored rows take no row away from a
\* pending intent: only an open dispatch with the same label could.
LEMMA RowStays ==
  ASSUME TypeOK, StreamsInv, NEW i \in Intent, Pending(i)',
         \/ \E S \in SUBSET Intent : BlameStep(S)
         \/ \E j \in Intent : MoveStep(j) \/ RestoreStep(j)
         \/ UNCHANGED <<rows, status>>
  PROVE  Pending(i) /\ (HasRow(i) => HasRow(i)')
<1>1. i.stream \in Stream
  BY DEF Intent
<1>2. CASE UNCHANGED <<rows, status>>
  BY <1>2 DEF Pending, HasRow, Owns
<1>3. ASSUME NEW S \in SUBSET Intent, BlameStep(S) PROVE Pending(i) /\ (HasRow(i) => HasRow(i)')
  <2>1. Pending(i) /\ i \notin S
    BY <1>3 DEF BlameStep, Uncertain, Pending
  <2>2. ASSUME HasRow(i) PROVE rows'[i.stream] = rows[i.stream]
    <3> DEFINE b == rows'[i.stream].why
    <3>1. CASE b \in S /\ b.stream = i.stream /\ Owns(rows[i.stream], b)
      <4>1. IsOpen(i, status) /\ IsOpen(b, status)
        BY <1>3, <2>1, <3>1 DEF Pending, BlameStep, IsOpen, Open
      <4>2. b = i
        BY <2>2, <3>1, <4>1, OneOpen DEF HasRow, Owns
      <4> QED BY <2>1, <3>1, <4>2
    <3> QED BY <1>1, <1>3, <3>1, BlameShape
  <2> QED BY <2>1, <2>2 DEF HasRow, Owns
<1>4. ASSUME NEW j \in Intent, MoveStep(j) PROVE Pending(i) /\ (HasRow(i) => HasRow(i)')
  BY <1>4 DEF MoveStep, Moves, Pending, HasRow, Owns, TypeOK
<1>5. ASSUME NEW j \in Intent, RestoreStep(j) PROVE Pending(i) /\ (HasRow(i) => HasRow(i)')
  <2>1. Pending(i)
    BY <1>5 DEF RestoreStep, Pending, TypeOK
  <2>2. ASSUME HasRow(i) PROVE rows'[i.stream] = rows[i.stream]
    BY <1>1, <1>5, <2>2, RestoreShape DEF HasRow, BlockedBy
  <2> QED BY <2>1, <2>2 DEF HasRow, Owns
<1> QED BY <1>2, <1>3, <1>4, <1>5

\* A step of the loop that starts no other work keeps the launches' rows.
LEMMA LoopKeeps ==
  ASSUME OneController, TypeOK, StreamsInv, LaunchesHaveRows, NEW c \in Cycle,
         pc[c] \in Loop, pc'[c] \in Loop, todo'[c] \subseteq todo[c],
         \/ \E S \in SUBSET Intent : BlameStep(S)
         \/ \E j \in Intent : MoveStep(j) \/ RestoreStep(j)
         \/ UNCHANGED <<rows, status>>
  PROVE  LaunchesHaveRows'
<1>1. \A e \in Cycle : e = c
  BY DEF OneController
<1>2. AdmittedHasRow'
  BY <1>1 DEF AdmittedHasRow, Loop
<1>3. ASSUME NEW t \in todo'[c], t.op = "launch", Pending(t.on)' PROVE HasRow(t.on)'
  <2>1. t \in todo[c] /\ t.on \in Intent
    BY DEF TypeOK, TaskType
  <2>2. Pending(t.on) /\ (HasRow(t.on) => HasRow(t.on)')
    BY <1>3, <2>1, RowStays
  <2> QED BY <1>3, <2>1, <2>2 DEF LaunchesHaveRows, LaunchHasRow
<1>4. LaunchHasRow'
  <2>1. ASSUME NEW e \in Cycle, NEW t \in todo'[e], t.op = "launch", Pending(t.on)'
        PROVE  HasRow(t.on)'
    <3>1. e = c
      BY <1>1
    <3>2. t \in todo'[c]
      BY <3>1
    <3> QED BY <1>3, <2>1, <3>2
  <2> QED BY <2>1 DEF LaunchHasRow, Pending
<1> QED BY <1>2, <1>4 DEF LaunchesHaveRows

\* A cycle that is neither about to prepare nor dispatching claims nothing.
LEMMA ElsewhereKeeps ==
  ASSUME OneController, NEW c \in Cycle, pc'[c] \notin Loop \cup {"scheduled", "cancelling"}
  PROVE  LaunchesHaveRows'
<1>1. \A e \in Cycle : e = c
  BY DEF OneController
<1> QED BY <1>1 DEF LaunchesHaveRows, AdmittedHasRow, LaunchHasRow

\* A cycle that starts has nothing to launch.
LEMMA LaunchesInit == Init => LaunchesHaveRows
BY DEF Init, LaunchesHaveRows, AdmittedHasRow, LaunchHasRow, Loop

\* Every step of the one controller keeps it, action by action.
LEMMA LaunchesStep ==
  ASSUME OneController
  PROVE  TypeInv /\ StreamsInv /\ LaunchesHaveRows /\ [Next]_vars => LaunchesHaveRows'
<1> SUFFICES ASSUME TypeInv, StreamsInv, LaunchesHaveRows, [Next]_vars PROVE LaunchesHaveRows'
  OBVIOUS
<1>0. TypeOK
  BY DEF TypeInv
<1>1. ASSUME NEW c \in Cycle, NEW t \in todo[c] PROVE t.on \in Intent
  BY <1>0 DEF TypeOK, TaskType
<1>2. ASSUME NEW c \in Cycle, NEW label, Goto(c, label) PROVE pc'[c] = label
  BY <1>0, <1>2 DEF Goto, TypeOK
<1>3. ASSUME NEW c \in Cycle, NEW t \in todo[c], Done(c, t) PROVE todo'[c] \subseteq todo[c]
  BY <1>0, <1>3 DEF Done, TypeOK
<1>4. ASSUME NEW c \in Cycle,
             \/ RecoverDispatches(c) \/ SealRoundBoundaryReplan(c) \/ ReadCancellationBoundary(c)
             \/ ReadRoundBoundary(c) \/ Report(c) \/ Crash(c)
      PROVE  LaunchesHaveRows'
  <2>1. PICK label \in {"recovered", "sealed", "gated", "planned", "idle"} : Goto(c, label)
    BY <1>4 DEF RecoverDispatches, SealRoundBoundaryReplan, ReadCancellationBoundary,
                ReadRoundBoundary, Report, Crash
  <2>2. pc'[c] \notin Loop \cup {"scheduled", "cancelling"}
    BY <1>2, <2>1 DEF Loop
  <2> QED BY <2>2, ElsewhereKeeps
<1>5. ASSUME NEW c \in Cycle, Schedule(c) PROVE LaunchesHaveRows'
  <2>1. \A e \in Cycle : e = c
    BY DEF OneController
  <2>2. pc'[c] = "scheduled" /\ view' = view
    BY <1>2, <1>5 DEF Schedule
  <2>3. ASSUME view[c].ready, NEW i \in admit'[c] PROVE HasRow(i)'
    <3>1. i \in Admissible(rows', PlanGated(view[c].digest, view[c].policy), view[c].policy)
      BY <1>0, <1>5, <2>3 DEF Schedule, TypeOK
    <3> QED BY <3>1 DEF Admissible, HasRow, Owns
  <2>4. AdmittedHasRow'
    <3>1. ASSUME NEW e \in Cycle, view'[e].ready, NEW i \in admit'[e] PROVE HasRow(i)'
      <4>1. e = c
        BY <2>1
      <4> QED BY <2>2, <2>3, <3>1, <4>1
    <3> QED BY <3>1 DEF AdmittedHasRow
  <2>5. LaunchHasRow'
    BY <2>1, <2>2 DEF LaunchHasRow, Loop
  <2> QED BY <2>4, <2>5 DEF LaunchesHaveRows
<1>6. ASSUME NEW c \in Cycle, ListCancellations(c) \/ CancelDisabled(c) PROVE LaunchesHaveRows'
  <2>1. \A e \in Cycle : e = c
    BY DEF OneController
  <2>2. /\ pc[c] \in {"scheduled", "cancelling"} /\ pc'[c] = "cancelling"
        /\ rows' = rows /\ view' = view /\ admit' = admit
    BY <1>2, <1>6 DEF ListCancellations, CancelDisabled, CancelPending, store
  <2>3. AdmittedHasRow'
    BY <2>1, <2>2 DEF LaunchesHaveRows, AdmittedHasRow, HasRow, Owns
  <2>4. LaunchHasRow'
    BY <2>1, <2>2 DEF LaunchHasRow, Loop
  <2> QED BY <2>3, <2>4 DEF LaunchesHaveRows
<1>7. ASSUME NEW c \in Cycle, PrepareDispatches(c) PROVE LaunchesHaveRows'
  <2> DEFINE pending == {i \in Intent : view[c].ready /\ status'[i] = "PENDING"}
             tasks == Task("launch", pending \cap admit[c]) \cup Task("cancel", pending \ admit[c])
                        \cup Task("observe", Unsettled(status) \cap Watched(view[c].digest))
  <2>1. \A e \in Cycle : e = c
    BY DEF OneController
  <2>2. pc[c] = "cancelling" /\ pc'[c] = "dispatching" /\ rows' = rows
    BY <1>2, <1>7 DEF PrepareDispatches
  <2>3. todo'[c] = tasks
    BY <1>0, <1>7 DEF PrepareDispatches, TypeOK
  <2>4. ASSUME NEW t \in tasks, t.op = "launch" PROVE t.on \in admit[c] /\ view[c].ready
    BY <2>4 DEF Task
  <2> HIDE DEF tasks
  <2>5. LaunchHasRow'
    <3>1. ASSUME NEW e \in Cycle, NEW t \in todo'[e], t.op = "launch" PROVE HasRow(t.on)'
      <4>1. e = c /\ t \in tasks
        BY <2>1, <2>3
      <4>2. t.on \in admit[c] /\ view[c].ready
        BY <2>4, <3>1, <4>1
      <4>3. HasRow(t.on)
        BY <2>2, <4>2 DEF LaunchesHaveRows, AdmittedHasRow
      <4> QED BY <2>2, <4>3 DEF HasRow, Owns
    <3> QED BY <3>1 DEF LaunchHasRow
  <2>6. AdmittedHasRow'
    BY <2>1, <2>2 DEF AdmittedHasRow
  <2> QED BY <2>5, <2>6 DEF LaunchesHaveRows
<1>8. ASSUME NEW c \in Cycle, CancelPendingDispatch(c) \/ RefuseSkillSelection(c)
      PROVE  LaunchesHaveRows'
  <2>1. PICK t \in todo[c] : /\ At(c, t, "cancel") \/ At(c, t, "launch")
                             /\ CancelPending(t.on) \/ UNCHANGED <<store, run>>
                             /\ Done(c, t) /\ pc' = pc
    BY <1>8 DEF CancelPendingDispatch, RefuseSkillSelection
  <2>2. pc[c] \in Loop /\ pc'[c] \in Loop /\ todo'[c] \subseteq todo[c] /\ t.on \in Intent
    BY <1>1, <1>3, <2>1 DEF At, Loop
  <2>3. MoveStep(t.on) \/ UNCHANGED <<rows, status>>
    BY <2>1 DEF CancelPending, Pending, MoveStep, Moves, Status, store
  <2> QED BY <1>0, <2>2, <2>3, LoopKeeps
<1>9. ASSUME NEW c \in Cycle, BeginDispatch(c) PROVE LaunchesHaveRows'
  <2>1. PICK t \in todo[c] : /\ At(c, t, "launch") /\ Pending(t.on)
                             /\ status' = [status EXCEPT ![t.on] = "IN_FLIGHT"]
                             /\ Done(c, t) /\ Goto(c, "launching")
                             /\ UNCHANGED <<rows, saved, lastInv, seals>>
    BY <1>9 DEF BeginDispatch
  <2>2. pc[c] \in Loop /\ pc'[c] \in Loop /\ todo'[c] \subseteq todo[c] /\ t.on \in Intent
    BY <1>1, <1>2, <1>3, <2>1 DEF At, Loop
  <2>3. MoveStep(t.on)
    BY <2>1 DEF Pending, MoveStep, Moves, Status
  <2> QED BY <1>0, <2>2, <2>3, LoopKeeps
<1>10. ASSUME NEW c \in Cycle, BeginDispatchReconciliation(c) PROVE LaunchesHaveRows'
  <2>1. PICK t \in todo[c] : At(c, t, "observe") /\ Done(c, t)
    BY <1>10 DEF BeginDispatchReconciliation
  <2>2. pc'[c] = "observing" /\ UNCHANGED <<rows, status>>
    BY <1>10 DEF BeginDispatchReconciliation, store
  <2>3. pc[c] \in Loop /\ pc'[c] \in Loop /\ todo'[c] \subseteq todo[c]
    BY <1>3, <2>1, <2>2 DEF At, Loop
  <2> QED BY <1>0, <2>2, <2>3, LoopKeeps
<1>11. ASSUME NEW c \in Cycle, OperationFails(c) PROVE LaunchesHaveRows'
  <2>1. PICK t \in todo[c] : /\ At(c, t, "launch") \/ At(c, t, "observe")
                             /\ MarkDispatchUnknown(t.on) /\ Done(c, t) /\ pc' = pc
    BY <1>11 DEF OperationFails
  <2>2. pc[c] \in Loop /\ pc'[c] \in Loop /\ todo'[c] \subseteq todo[c]
    BY <1>3, <2>1 DEF At, Loop
  <2>3. \E S \in SUBSET Intent : BlameStep(S)
    BY <1>0, <1>1, <2>1, MarkIsBlame
  <2> QED BY <1>0, <2>2, <2>3, LoopKeeps
<1>12. ASSUME NEW c \in Cycle, DispatchFails(c) PROVE LaunchesHaveRows'
  <2>1. cur[c] \in Intent /\ MarkDispatchUnknown(cur[c])
    BY <1>12 DEF DispatchFails, TypeInv, LocalsRead, Claiming
  <2>2. pc[c] \in Loop /\ pc'[c] \in Loop /\ todo' = todo
    BY <1>2, <1>12 DEF DispatchFails, Back, Loop
  <2>3. \E S \in SUBSET Intent : BlameStep(S)
    BY <1>0, <2>1, MarkIsBlame
  <2> QED BY <1>0, <2>2, <2>3, LoopKeeps
<1>13. ASSUME NEW c \in Cycle, WriteRecord(c) \/ Launch(c) PROVE LaunchesHaveRows'
  <2>1. pc[c] \in Loop /\ pc'[c] \in Loop /\ todo' = todo /\ UNCHANGED <<rows, status>>
    BY <1>2, <1>13 DEF WriteRecord, Launch, Loop, store
  <2> QED BY <1>0, <2>1, LoopKeeps
<1>14. ASSUME NEW c \in Cycle, FinishDispatch(c) \/ ReconcileDispatch(c) PROVE LaunchesHaveRows'
  <2>1. pc[c] \in Loop /\ pc'[c] \in Loop /\ todo' = todo
    BY <1>2, <1>14 DEF FinishDispatch, ReconcileDispatch, Back, Loop
  <2>2. cur[c] \in Intent
    BY <1>14 DEF FinishDispatch, ReconcileDispatch, TypeInv, LocalsRead, Claiming
  <2>3. MoveStep(cur[c]) \/ RestoreStep(cur[c])
    <3>1. CASE FinishDispatch(c)
      BY <3>1 DEF FinishDispatch, Receipts, MoveStep, Moves, Status
    <3>2. CASE ReconcileDispatch(c) /\ status[cur[c]] = "UNKNOWN"
      BY <3>2 DEF ReconcileDispatch, SettleUnknown, RestoreStep
    <3>3. CASE ReconcileDispatch(c) /\ status[cur[c]] = "LAUNCHED"
      BY <3>3 DEF ReconcileDispatch, MoveStep, Moves, Status
    <3> QED BY <1>14, <3>1, <3>2, <3>3 DEF ReconcileDispatch
  <2> QED BY <1>0, <2>1, <2>2, <2>3, LoopKeeps
<1>15. ASSUME UNCHANGED <<rows, status, pc, view, admit, todo>> PROVE LaunchesHaveRows'
  BY <1>15 DEF LaunchesHaveRows, AdmittedHasRow, LaunchHasRow, HasRow, Owns, Pending
<1>16. ASSUME NEW i \in Intent, SessionEnds(i) PROVE LaunchesHaveRows'
  BY <1>15, <1>16 DEF SessionEnds, store, local
<1>17. CASE UNCHANGED vars
  BY <1>15, <1>17 DEF vars
<1>18. ASSUME NEW c \in Cycle, Step(c) PROVE LaunchesHaveRows'
  BY <1>4, <1>5, <1>6, <1>7, <1>8, <1>9, <1>10, <1>11, <1>12, <1>13, <1>14, <1>18 DEF Step
<1> QED BY <1>4, <1>8, <1>16, <1>17, <1>18 DEF Next

\* Only BeginDispatch claims, and what it claims it was given as a launch.
LEMMA ClaimedFromTodo ==
  ASSUME TypeInv, [Next]_vars, NEW i \in Intent,
         status[i] = "PENDING", status'[i] = "IN_FLIGHT"
  PROVE  \E c \in Cycle : \E t \in todo[c] : At(c, t, "launch") /\ t.on = i /\ rows' = rows
<1> DEFINE Claimed == \E c \in Cycle : \E t \in todo[c] : At(c, t, "launch") /\ t.on = i /\ rows' = rows
<1>0. TypeOK
  BY DEF TypeInv
<1>1. ASSUME NEW c \in Cycle, BeginDispatch(c) PROVE Claimed
  <2>1. PICK t \in todo[c] : At(c, t, "launch") /\ status' = [status EXCEPT ![t.on] = "IN_FLIGHT"]
    BY <1>1 DEF BeginDispatch
  <2>2. t.on = i
    BY <1>0, <2>1 DEF TypeOK
  <2> QED BY <1>1, <2>1, <2>2 DEF BeginDispatch
<1>2. status' # status
  OBVIOUS
<1>3. ASSUME NEW j \in Intent, MarkDispatchUnknown(j) PROVE FALSE
  BY <1>0, <1>3 DEF MarkDispatchUnknown, TypeOK
<1>4. ASSUME NEW rws, status' = WithIntents(rws, status) PROVE FALSE
  BY <1>4, <1>0, WrittenIntents DEF NewIntents, Vacant
<1>5. ASSUME NEW j, NEW r \in {"CANCELLED", "TERMINAL", "LAUNCHED"}, status' = [status EXCEPT ![j] = r]
      PROVE  FALSE
  BY <1>0, <1>5 DEF TypeOK
<1>6. ASSUME NEW c \in Cycle, NEW t \in todo[c] PROVE t.on \in Intent
  BY <1>0 DEF TypeOK, TaskType
<1>7. ASSUME NEW c \in Cycle, OperationFails(c) \/ DispatchFails(c) PROVE FALSE
  BY <1>3, <1>6, <1>7 DEF OperationFails, DispatchFails, TypeInv, LocalsRead, Claiming
<1>8. ASSUME NEW c \in Cycle, Schedule(c) \/ PrepareDispatches(c) PROVE FALSE
  BY <1>2, <1>4, <1>8 DEF Schedule, ScheduleTransaction, PrepareDispatches, store
<1>9. ASSUME NEW c \in Cycle,
             CancelDisabled(c) \/ CancelPendingDispatch(c) \/ RefuseSkillSelection(c)
      PROVE  FALSE
  BY <1>2, <1>5, <1>9 DEF CancelDisabled, CancelPendingDispatch, RefuseSkillSelection,
                          CancelPending, store
<1>10. ASSUME NEW c \in Cycle, FinishDispatch(c) \/ ReconcileDispatch(c) PROVE FALSE
  BY <1>5, <1>10 DEF FinishDispatch, ReconcileDispatch, Receipts
<1>11. ASSUME NEW c \in Cycle, RecoverDispatches(c) PROVE FALSE
  BY <1>0, <1>11 DEF RecoverDispatches, Claims
<1>12. ASSUME NEW c \in Cycle,
              \/ ReadCancellationBoundary(c) \/ ReadRoundBoundary(c) \/ ListCancellations(c)
              \/ BeginDispatchReconciliation(c) \/ WriteRecord(c) \/ Launch(c) \/ Report(c)
              \/ Crash(c) \/ SealRoundBoundaryReplan(c)
       PROVE  FALSE
  BY <1>2, <1>12 DEF ReadCancellationBoundary, ReadRoundBoundary, ListCancellations,
                     BeginDispatchReconciliation, WriteRecord, Launch, Report, Crash,
                     SealRoundBoundaryReplan, store
<1>13. ASSUME NEW j \in Intent, SessionEnds(j) PROVE FALSE
  BY <1>2, <1>13 DEF SessionEnds, store
<1>14. ~UNCHANGED vars
  BY <1>2 DEF vars
<1>15. ASSUME NEW c \in Cycle, Step(c) PROVE Claimed
  BY <1>1, <1>7, <1>8, <1>9, <1>10, <1>11, <1>12, <1>15 DEF Step
<1> QED BY <1>9, <1>12, <1>13, <1>14, <1>15 DEF Next

\* What a cycle claims has the row it was admitted with.
LEMMA ClaimsHaveRows ==
  ASSUME TypeInv, LaunchesHaveRows, [Next]_vars, NEW i \in Intent,
         status[i] = "PENDING", status'[i] = "IN_FLIGHT"
  PROVE  HasRow(i) /\ rows' = rows
<1>1. PICK c \in Cycle : \E t \in todo[c] : At(c, t, "launch") /\ t.on = i /\ rows' = rows
  BY ClaimedFromTodo
<1>2. PICK t \in todo[c] : At(c, t, "launch") /\ t.on = i /\ rows' = rows
  BY <1>1
<1> QED BY <1>2 DEF LaunchesHaveRows, LaunchHasRow, At, Loop, Pending

\* A single controller claims a dispatch only for the stream that works on
\* it, and only in a round that no uncertain or running launch crosses
\* without a consumed seal into it that names the launch.
THEOREM LaunchWithinRoundHolds ==
  ASSUME OneController
  PROVE  Spec => LaunchWithinRound
<1>1. ASSUME TypeInv, LaunchesHaveRows, WithinRound, [Next]_vars, NEW i \in Intent,
             status[i] = "PENDING", status'[i] = "IN_FLIGHT"
      PROVE  /\ rows[i.stream].state = "WORKING" /\ Owns(rows[i.stream], i)
             /\ \A j \in Unsettled(status) : InRound(j) \/ SealedInto(j)
  <2>1. HasRow(i)
    BY <1>1, ClaimsHaveRows
  <2>2. \A j \in Unsettled(status) : IsOpen(j, status)
    BY DEF Unsettled, IsOpen, Open
  <2> QED BY <1>1, <2>1, <2>2 DEF HasRow, WithinRound, OpenInRound, Unsettled
<1>2. TypeInv /\ LaunchesHaveRows /\ WithinRound /\ [Next]_vars =>
        [\A i \in Intent :
           status[i] = "PENDING" /\ status'[i] = "IN_FLIGHT" =>
             /\ rows[i.stream].state = "WORKING" /\ Owns(rows[i.stream], i)
             /\ \A j \in Unsettled(status) : InRound(j) \/ SealedInto(j)]_vars
  BY <1>1
<1>3. Spec => []StreamsInv
  BY StreamsInit, StreamsStep, TypeCorrect, PTL DEF Spec
<1>4. TypeInv /\ StreamsInv /\ LaunchesHaveRows /\ [Next]_vars => LaunchesHaveRows'
  BY LaunchesStep
<1>5. Spec => []LaunchesHaveRows
  BY <1>3, <1>4, LaunchesInit, TypeCorrect, PTL DEF Spec
<1>6. Spec => []WithinRound
  BY <1>3, WithinRoundInit, WithinRoundStep, TypeCorrect, PTL DEF Spec
<1> QED BY <1>2, <1>5, <1>6, TypeCorrect, PTL DEF Spec, LaunchWithinRound

-----------------------------------------------------------------------------
(* Host capacity.  A live session belongs to a started dispatch, and the   *)
(* tickets of started dispatches together with the tickets the streams     *)
(* work on never outnumber the host's capacity: a row that is about to be  *)
(* launched is charged before its dispatch starts.                         *)

Busy == {i \in Intent : status[i] \in {"IN_FLIGHT", "UNKNOWN", "LAUNCHED"}}

Working == {s \in Stream : rows[s].state = "WORKING"}

Load == {i.ticket : i \in Busy} \cup {rows[s].ticket : s \in Working}

LoadInv == IsFiniteSet(Busy) /\ Cardinality(Load) <= MaxCapacity

\* The image of a finite set is finite and no larger.
LEMMA Images ==
  ASSUME NEW S, IsFiniteSet(S), NEW f, DOMAIN f = S, f = [x \in S |-> f[x]]
  PROVE  /\ IsFiniteSet({f[x] : x \in S})
         /\ Cardinality({f[x] : x \in S}) \in Nat
         /\ Cardinality({f[x] : x \in S}) <= Cardinality(S)
<1> DEFINE T == {f[x] : x \in S}
<1>1. f \in Surjection(S, T)
  BY DEF Surjection
<1>2. IsFiniteSet(T) /\ Cardinality(T) <= Cardinality(S)
  BY <1>1, FS_Surjection
<1> QED BY <1>2, FS_CardinalityType

\* Streams are finitely many.
LEMMA StreamsFinite == ASSUME NEW S \in SUBSET Stream PROVE IsFiniteSet(S) /\ Cardinality(S) \in Nat
<1>1. IsFiniteSet(Stream)
  BY ConstantsAssumption, FS_Interval DEF Stream
<1> QED BY <1>1, FS_Subset, FS_CardinalityType

\* The tickets charged are finitely many if the started dispatches are.
LEMMA LoadFinite ==
  ASSUME IsFiniteSet(Busy)
  PROVE  IsFiniteSet(Load) /\ Cardinality(Load) \in Nat
<1> DEFINE f == [i \in Busy |-> i.ticket]
           g == [s \in Working |-> rows[s].ticket]
<1>1. IsFiniteSet({f[i] : i \in Busy})
  <2>1. DOMAIN f = Busy /\ f = [i \in Busy |-> f[i]]
    OBVIOUS
  <2> HIDE DEF f
  <2> QED BY <2>1, Images
<1>2. IsFiniteSet({g[s] : s \in Working})
  <2>1. DOMAIN g = Working /\ g = [s \in Working |-> g[s]]
    OBVIOUS
  <2>2. IsFiniteSet(Working)
    BY StreamsFinite DEF Working
  <2> HIDE DEF g
  <2> QED BY <2>1, <2>2, Images
<1>3. Load = {f[i] : i \in Busy} \cup {g[s] : s \in Working}
  BY DEF Load
<1>4. IsFiniteSet(Load)
  <2> HIDE DEF f, g
  <2> QED BY <1>1, <1>2, <1>3, FS_Union
<1> QED BY <1>4, FS_CardinalityType

\* A step that starts nothing and charges no other ticket keeps the bound.
LEMMA LoadShrinks ==
  ASSUME LoadInv, IsFiniteSet(Busy'), Load' \subseteq Load
  PROVE  LoadInv'
<1>1. IsFiniteSet(Load) /\ Cardinality(Load) \in Nat
  BY LoadFinite DEF LoadInv
<1>2. IsFiniteSet(Load') /\ Cardinality(Load') \in Nat /\ Cardinality(Load') <= Cardinality(Load)
  BY <1>1, FS_Subset, FS_CardinalityType
<1> QED BY <1>1, <1>2, ConstantsAssumption DEF LoadInv

\* Streams that each start only while fewer than slots started before them
\* are at most slots: their ranks among each other are different.
LEMMA StartedWithinSlots ==
  ASSUME NEW go \in SUBSET Stream, go # {}, NEW slots \in Int,
         \A s \in go : Cardinality({r \in go : r < s}) < slots
  PROVE  Cardinality(go) <= slots
<1> DEFINE before(s) == {r \in go : r < s}
           rank == [s \in go |-> Cardinality(before(s))]
<1>0. IsFiniteSet(go)
  BY StreamsFinite
<1>1. \A s \in go : IsFiniteSet(before(s)) /\ Cardinality(before(s)) \in Nat
  BY StreamsFinite
<1>2. rank \in [go -> 0..(slots - 1)]
  BY <1>1
<1>3. ASSUME NEW r \in go, NEW s \in go, r < s PROVE rank[r] # rank[s]
  <2>1. before(r) \in SUBSET before(s) /\ r \in before(s) /\ r \notin before(r)
    <3>1. \A q \in go : q \in Int
      BY ConstantsAssumption DEF Stream
    <3> QED BY <1>3, <3>1
  <2>2. Cardinality(before(s)) # Cardinality(before(r))
    <3> HIDE DEF before
    <3> QED BY <1>1, <2>1, FS_Subset
  <2> QED BY <2>2
<1>4. \A r, s \in go : rank[r] = rank[s] => r = s
  <2>1. \A r, s \in go : r # s => r < s \/ s < r
    BY ConstantsAssumption DEF Stream
  <2> QED BY <1>3, <2>1
<1>5. rank \in Injection(go, 0..(slots - 1))
  <2> HIDE DEF rank
  <2> QED BY <1>2, <1>4 DEF Injection, IsInjective
<1>6. IsFiniteSet(0..(slots - 1)) /\ Cardinality(0..(slots - 1)) = IF 0 > slots - 1 THEN 0 ELSE slots
  BY FS_Interval
<1>7. Cardinality(go) <= Cardinality(0..(slots - 1)) /\ Cardinality(go) \in Nat
  BY <1>0, <1>5, <1>6, FS_Injection, FS_CardinalityType
<1>8. slots > 0
  <2>1. PICK s \in go : TRUE
    OBVIOUS
  <2>2. rank[s] \in 0..(slots - 1)
    <3> HIDE DEF rank
    <3> QED BY <1>2, <2>1
  <2> HIDE DEF rank
  <2> QED BY <2>2
<1> QED BY <1>6, <1>7, <1>8

\* The image under an injective function is as large as its domain.
LEMMA InjectiveImages ==
  ASSUME NEW S, IsFiniteSet(S), NEW f, DOMAIN f = S, f = [x \in S |-> f[x]],
         \A x, y \in S : f[x] = f[y] => x = y
  PROVE  /\ IsFiniteSet({f[x] : x \in S})
         /\ Cardinality({f[x] : x \in S}) = Cardinality(S)
<1> DEFINE T == {f[x] : x \in S}
<1>1. f \in Surjection(S, T) /\ f \in Injection(S, T)
  BY DEF Surjection, Injection, IsInjective
<1> QED BY <1>1, FS_Surjection

\* Three sets cover no more than the sum of their sizes.
LEMMA ThreeCover ==
  ASSUME NEW A, NEW B, NEW C, IsFiniteSet(A), IsFiniteSet(B), IsFiniteSet(C), NEW D,
         D \subseteq (A \cup B) \cup C
  PROVE  Cardinality(D) <= Cardinality(A) + Cardinality(B) + Cardinality(C)
<1>1. /\ IsFiniteSet(A \cup B)
      /\ Cardinality(A \cup B) = Cardinality(A) + Cardinality(B) - Cardinality(A \cap B)
  BY FS_Union
<1>2. /\ IsFiniteSet((A \cup B) \cup C)
      /\ Cardinality((A \cup B) \cup C) =
           Cardinality(A \cup B) + Cardinality(C) - Cardinality((A \cup B) \cap C)
  BY <1>1, FS_Union
<1>3. IsFiniteSet(A \cap B) /\ IsFiniteSet((A \cup B) \cap C)
  BY <1>1, FS_Intersection
<1>4. D \in SUBSET ((A \cup B) \cup C)
  OBVIOUS
<1>5. IsFiniteSet(D) /\ Cardinality(D) <= Cardinality((A \cup B) \cup C)
  BY <1>2, <1>4, FS_Subset
<1>6. /\ Cardinality(A) \in Nat /\ Cardinality(B) \in Nat /\ Cardinality(C) \in Nat
      /\ Cardinality(D) \in Nat /\ Cardinality(A \cup B) \in Nat
      /\ Cardinality((A \cup B) \cup C) \in Nat
      /\ Cardinality(A \cap B) \in Nat /\ Cardinality((A \cup B) \cap C) \in Nat
  BY <1>1, <1>2, <1>3, <1>5, FS_CardinalityType
<1> QED BY <1>1, <1>2, <1>5, <1>6

\* The kept streams whose dispatch has started, and one such dispatch each.
Shows(s, i) == i.stream = s /\ i.ticket = rows[s].ticket

ShownBusy(kept) == {s \in kept : \E i \in Busy : Shows(s, i)}

\* The tickets charged after a reschedule that starts something: those kept,
\* those started, and those of the started dispatches no kept stream shows.
LEMMA ChargedFits ==
  ASSUME IsFiniteSet(Busy), NEW cap \in 0..MaxCapacity,
         NEW kept \in SUBSET Stream, NEW go \in SUBSET Stream, go # {},
         \A s \in go : Cardinality({r \in go : r < s}) < Slots(kept, rows, cap),
         Busy' = Busy,
         \A s \in Stream : rows'[s].state = "WORKING" =>
           (s \in kept /\ rows'[s].ticket = rows[s].ticket) \/ s \in go
  PROVE  Cardinality(Load') <= MaxCapacity
<1> DEFINE shown == ShownBusy(kept)
           w == [s \in shown |-> CHOOSE i \in Busy : Shows(s, i)]
           W == {w[s] : s \in shown}
           A == {rows[s].ticket : s \in kept}
           B == {i.ticket : i \in Busy \ W}
           C == {rows'[s].ticket : s \in go}
<1>1. \A s \in shown : w[s] \in Busy /\ Shows(s, w[s])
  BY DEF ShownBusy
<1>2. IsFiniteSet(kept) /\ Cardinality(kept) \in Nat /\ IsFiniteSet(go) /\ Cardinality(go) \in Nat
      /\ IsFiniteSet(shown) /\ Cardinality(shown) \in Nat
  BY StreamsFinite DEF ShownBusy
<1>3. IsFiniteSet(W) /\ Cardinality(W) = Cardinality(shown)
  <2>1. \A x, y \in shown : w[x] = w[y] => x = y
    BY <1>1 DEF Shows
  <2>2. DOMAIN w = shown /\ w = [x \in shown |-> w[x]]
    OBVIOUS
  <2> HIDE DEF w, shown
  <2> QED BY <1>2, <2>1, <2>2, InjectiveImages
<1>4. W \in SUBSET Busy
  <2> HIDE DEF w
  <2> QED BY <1>1
<1>5. IsFiniteSet(Busy \ W) /\ Cardinality(Busy \ W) = Cardinality(Busy) - Cardinality(W)
  <2>1. Busy \cap W = W
    BY <1>4
  <2> HIDE DEF W
  <2> QED BY <2>1, FS_Difference
<1>6. Slots(kept, rows, cap) = cap - Cardinality(kept) - (Cardinality(Busy) - Cardinality(shown))
  BY DEF Slots, Busy, ShownBusy, Shows
<1>7. Cardinality(Busy) \in Nat /\ Cardinality(W) \in Nat /\ Cardinality(Busy \ W) \in Nat
  BY <1>3, <1>5, FS_CardinalityType
<1>8. Cardinality(go) <= Slots(kept, rows, cap)
  <2>1. Slots(kept, rows, cap) \in Int
    BY <1>2, <1>6, <1>7
  <2> QED BY <2>1, StartedWithinSlots
<1>9. IsFiniteSet(A) /\ Cardinality(A) \in Nat /\ Cardinality(A) <= Cardinality(kept)
  <2> DEFINE f == [s \in kept |-> rows[s].ticket]
  <2>1. DOMAIN f = kept /\ f = [s \in kept |-> f[s]] /\ A = {f[s] : s \in kept}
    OBVIOUS
  <2> HIDE DEF f, A
  <2> QED BY <1>2, <2>1, Images
<1>10. IsFiniteSet(B) /\ Cardinality(B) \in Nat /\ Cardinality(B) <= Cardinality(Busy \ W)
  <2> DEFINE rest == Busy \ W
             f == [i \in rest |-> i.ticket]
  <2>1. DOMAIN f = rest /\ f = [i \in rest |-> f[i]] /\ B = {f[i] : i \in rest}
    OBVIOUS
  <2>2. IsFiniteSet(rest)
    BY <1>5
  <2>3. IsFiniteSet(B) /\ Cardinality(B) \in Nat /\ Cardinality(B) <= Cardinality(rest)
    <3> HIDE DEF f, B, rest
    <3> QED BY <2>1, <2>2, Images
  <2> QED BY <2>3
<1>11. IsFiniteSet(C) /\ Cardinality(C) \in Nat /\ Cardinality(C) <= Cardinality(go)
  <2> DEFINE f == [s \in go |-> rows'[s].ticket]
  <2>1. DOMAIN f = go /\ f = [s \in go |-> f[s]] /\ C = {f[s] : s \in go}
    OBVIOUS
  <2> HIDE DEF f, C
  <2> QED BY <1>2, <2>1, Images
<1>12. Load' \subseteq (A \cup B) \cup C
  <2>1. Load' = {i.ticket : i \in Busy} \cup {rows'[s].ticket : s \in Working'}
    BY DEF Load
  <2>2. {rows'[s].ticket : s \in Working'} \subseteq A \cup C
    BY DEF Working
  <2>3. \A i \in W : i.ticket \in A
    <3>1. \A s \in shown : w[s].ticket = rows[s].ticket /\ s \in kept
      BY <1>1 DEF Shows, ShownBusy
    <3> HIDE DEF w
    <3> QED BY <3>1
  <2>4. {i.ticket : i \in Busy} \subseteq A \cup B
    <3> HIDE DEF W, A
    <3> QED BY <2>3
  <2> QED BY <2>1, <2>2, <2>4
<1>13. Cardinality(Load') <= Cardinality(A) + Cardinality(B) + Cardinality(C)
  <2> HIDE DEF A, B, C
  <2> QED BY <1>9, <1>10, <1>11, <1>12, ThreeCover
<1>14. IsFiniteSet(Load') /\ Cardinality(Load') \in Nat
  <2>1. IsFiniteSet((A \cup B) \cup C)
    <3> HIDE DEF A, B, C
    <3> QED BY <1>9, <1>10, <1>11, FS_Union
  <2>2. Load' \in SUBSET ((A \cup B) \cup C)
    BY <1>12
  <2> HIDE DEF A, B, C
  <2> QED BY <2>1, <2>2, FS_Subset, FS_CardinalityType
<1> HIDE DEF A, B, C, W, w, shown
<1> QED BY <1>2, <1>3, <1>5, <1>6, <1>7, <1>8, <1>9, <1>10, <1>11, <1>13, <1>14, ConstantsAssumption

\* A rescheduling step keeps within the capacity the host reports.
LEMMA PlanLoad ==
  ASSUME TypeOK, LoadInv, NEW d \in Digest, NEW p \in Policy, NEW cap \in 0..MaxCapacity,
         PlanStep(d, p, cap)
  PROVE  LoadInv'
<1> DEFINE inv == PlanGated(d, p)
<1>1. Busy' = Busy
  BY DEF PlanStep, Busy, WithIntents, NewIntents, Vacant
<1>2. PICK kept \in SUBSET Stream, go \in SUBSET Stream, pick \in [Stream -> Ticket \cup {None}] :
        /\ kept \cap go = {}
        /\ IsKept(kept, rows, inv, cap, p.reserved)
        /\ IsPick(pick, go, kept, FreeStreams(kept, rows, inv), WaitingBy(kept, rows, inv),
                  Slots(kept, rows, cap), rows, inv, p.reserved, p.rank)
        /\ rows' = [s \in Stream |-> NewRow(s, kept, go, pick, rows, inv)]
  BY RescheduleShape DEF PlanStep
<1>3. IsInventory(inv)
  BY GatedInventory DEF PlanGated
<1>4. ASSUME NEW s \in Stream, rows'[s].state = "WORKING"
      PROVE  \/ s \in kept /\ rows[s].state = "WORKING" /\ rows'[s].ticket = rows[s].ticket
             \/ s \in go
  <2> HIDE DEF inv
  <2>1. /\ s \in kept => KeepsRow(s, inv)
        /\ s \notin kept \cup go => WaitsRow(s, inv) \/ BlockedRow(s, inv) \/ rows'[s] = IdleRow
    BY <1>2, <1>3, RescheduleRows, SMTT(30)
  <2>2. ~WaitsRow(s, inv) /\ rows'[s] # IdleRow
    BY <1>4 DEF WaitsRow, IdleRow
  <2>3. ASSUME BlockedRow(s, inv) PROVE FALSE
    <3>1. PICK u : rows'[s] = [state |-> "BLOCKED", ticket |-> u.ticket, tuple |-> u.tuple, why |-> u]
      BY <2>3 DEF BlockedRow
    <3>2. rows'[s].state = "BLOCKED"
      BY <3>1
    <3> QED BY <1>4, <3>2
  <2> QED BY <2>1, <2>2, <2>3 DEF KeepsRow
<1>5. CASE go = {}
  <2>1. Load' \subseteq Load
    BY <1>1, <1>4, <1>5 DEF Load, Working
  <2> QED BY <1>1, <2>1, LoadShrinks DEF LoadInv
<1>6. CASE go # {}
  <2>1. \A s \in go : Cardinality({r \in go : r < s}) < Slots(kept, rows, cap)
    <3> SUFFICES ASSUME NEW s \in go PROVE Cardinality({r \in go : r < s}) < Slots(kept, rows, cap)
      OBVIOUS
    <3>1. Startable(s, kept, go, pick, WaitingBy(kept, rows, inv), Slots(kept, rows, cap),
                    rows, inv, p.reserved) # {}
      BY <1>2 DEF IsPick
    <3> HIDE DEF inv
    <3> QED BY <3>1 DEF Startable
  <2>2. Cardinality(Load') <= MaxCapacity
    <3> HIDE DEF inv
    <3> QED BY <1>1, <1>4, <1>6, <2>1, ChargedFits DEF LoadInv
  <2> QED BY <1>1, <2>2 DEF LoadInv
<1> QED BY <1>5, <1>6

\* Blaming, settling, sealing and writing charge no other ticket.
LEMMA BlameLoad ==
  ASSUME TypeOK, LoadInv, NEW S \in SUBSET Intent, BlameStep(S)
  PROVE  LoadInv'
<1>1. Busy' = Busy
  BY DEF BlameStep, Uncertain, Busy
<1>2. ASSUME NEW s \in Stream, rows'[s].state = "WORKING"
      PROVE  rows[s].state = "WORKING" /\ rows'[s].ticket = rows[s].ticket
  BY <1>2, BlameShape
<1>3. Load' \subseteq Load
  BY <1>1, <1>2 DEF Load, Working
<1> QED BY <1>1, <1>3, LoadShrinks DEF LoadInv

\* A claim starts a dispatch whose ticket its stream already works on.
LEMMA MoveLoad ==
  ASSUME TypeOK, LoadInv, NEW i \in Intent, MoveStep(i),
         status[i] = "PENDING" /\ status'[i] = "IN_FLIGHT" => HasRow(i)
  PROVE  LoadInv'
<1>0. i.stream \in Stream
  BY DEF Intent
<1>1. PICK r \in Status : <<status[i], r>> \in Moves /\ status' = [status EXCEPT ![i] = r]
  BY DEF MoveStep
<1>2. Busy' \subseteq Busy \cup {i} /\ (i \notin Busy /\ i \in Busy' => HasRow(i))
  BY <1>1 DEF Moves, Busy, TypeOK
<1>3. rows' = rows
  BY DEF MoveStep
<1>4. HasRow(i) => i.ticket \in Load
  BY <1>0 DEF HasRow, Owns, Load, Working
<1>5. i \in Busy => i.ticket \in Load
  BY DEF Load
<1>6. Load' \subseteq Load
  <2>1. \A j \in Busy' : j.ticket \in Load
    BY <1>2, <1>4, <1>5 DEF Load
  <2>2. \A s \in Working' : rows'[s].ticket \in Load
    BY <1>3 DEF Load, Working
  <2> QED BY <2>1, <2>2 DEF Load
<1>7. IsFiniteSet(Busy')
  <2>1. IsFiniteSet(Busy \cup {i})
    BY FS_AddElement DEF LoadInv
  <2>2. Busy' \in SUBSET (Busy \cup {i})
    BY <1>2
  <2> QED BY <2>1, <2>2, FS_Subset
<1> QED BY <1>6, <1>7, LoadShrinks

\* A restored row works on the ticket of the dispatch that blocked it.
LEMMA RestoreLoad ==
  ASSUME TypeOK, LoadInv, NEW i \in Intent, RestoreStep(i)
  PROVE  LoadInv'
<1>1. Busy' \subseteq Busy /\ i \in Busy
  BY DEF RestoreStep, Busy, TypeOK
<1>2. ASSUME NEW s \in Stream, rows'[s].state = "WORKING"
      PROVE  \/ rows[s].state = "WORKING" /\ rows'[s].ticket = rows[s].ticket
             \/ rows'[s].ticket = i.ticket
  BY <1>2, RestoreShape DEF BlockedBy, Owns
<1>3. Load' \subseteq Load
  <2>1. \A s \in Working' : rows'[s].ticket \in Load
    BY <1>1, <1>2 DEF Load, Working
  <2>2. \A j \in Busy' : j.ticket \in Load
    BY <1>1 DEF Load
  <2> QED BY <2>1, <2>2 DEF Load
<1>4. IsFiniteSet(Busy')
  BY <1>1, FS_Subset DEF LoadInv
<1> QED BY <1>3, <1>4, LoadShrinks

\* A step that neither starts a dispatch nor moves a row.
LEMMA QuietLoad ==
  ASSUME LoadInv, rows' = rows, Busy' = Busy
  PROVE  LoadInv'
<1>1. Load' = Load
  BY DEF Load, Working
<1> QED BY <1>1 DEF LoadInv

\* A fresh store charges nothing.
LEMMA LoadInit == Init => LoadInv
<1> SUFFICES ASSUME Init PROVE LoadInv
  OBVIOUS
<1>1. Busy = {} /\ Load = {}
  BY DEF Init, Busy, Load, Working, IdleRow
<1> QED BY <1>1, FS_EmptySet, ConstantsAssumption DEF LoadInv

\* Every step of the one controller keeps it.
LEMMA LoadStep == TypeInv /\ LaunchesHaveRows /\ LoadInv /\ [Next]_vars => LoadInv'
<1> SUFFICES ASSUME TypeInv, LaunchesHaveRows, LoadInv, [Next]_vars PROVE LoadInv'
  OBVIOUS
<1>0. TypeOK
  BY DEF TypeInv
<1>1. CASE StillStep
  BY <1>1, QuietLoad DEF StillStep, Busy
<1>2. ASSUME NEW d \in Digest, SealStep(d) PROVE LoadInv'
  BY <1>2, QuietLoad DEF SealStep, Busy
<1>3. ASSUME NEW d \in Digest, NEW p \in Policy, NEW cap \in 0..MaxCapacity, PlanStep(d, p, cap)
      PROVE  LoadInv'
  BY <1>0, <1>3, PlanLoad
<1>4. ASSUME NEW S \in SUBSET Intent, BlameStep(S) PROVE LoadInv'
  BY <1>0, <1>4, BlameLoad
<1>5. ASSUME NEW i \in Intent, MoveStep(i) PROVE LoadInv'
  BY <1>0, <1>5, ClaimsHaveRows, MoveLoad
<1>6. ASSUME NEW i \in Intent, RestoreStep(i) PROVE LoadInv'
  BY <1>0, <1>6, RestoreLoad
<1>7. CASE WriteStep
  <2>1. Busy' = Busy
    BY <1>7 DEF WriteStep, WithIntents, NewIntents, Vacant, Busy
  <2> QED BY <1>7, <2>1, QuietLoad DEF WriteStep
<1> QED BY <1>1, <1>2, <1>3, <1>4, <1>5, <1>6, <1>7, StoreMoves DEF StoreStep

\* With one controller, the tickets with a live session stay within the
\* host's capacity whatever streams are demoted, launches are uncertain and
\* capacity is withdrawn, and a ticket has a second session only after a
\* replan over the first one (_schedule, begin_dispatch).
THEOREM SessionsWithinCapacityHolds ==
  ASSUME OneController
  PROVE  Spec => []SessionsWithinCapacity
<1>1. ASSUME TypeInv, HostInv, ReplanInv, LoadInv PROVE SessionsWithinCapacity
  <2> DEFINE live == {i \in Intent : run[i] = "LIVE"}
             held == {i.ticket : i \in live}
  <2>1. \A i \in live : i \in Busy /\ IsOpen(i, status)
    BY <1>1 DEF HostInv, HostAndLedgerAgree, Begun, Busy, IsOpen, Open
  <2>2. held \in SUBSET Load
    BY <2>1 DEF Load
  <2>3. IsFiniteSet(Load) /\ Cardinality(Load) \in Nat /\ Cardinality(Load) <= MaxCapacity
    BY <1>1, LoadFinite DEF LoadInv
  <2>4. Cardinality(held) <= MaxCapacity
    <3>1. Cardinality(held) <= Cardinality(Load) /\ Cardinality(held) \in Nat
      <4> HIDE DEF held
      <4> QED BY <2>2, <2>3, FS_Subset, FS_CardinalityType
    <3> QED BY <2>3, <3>1, ConstantsAssumption
  <2>5. \A i, j \in live : i.ticket = j.ticket /\ i # j => Replanned(i) \/ Replanned(j)
    BY <1>1, <2>1 DEF ReplanInv, PairsByReplan
  <2> QED BY <2>4, <2>5 DEF SessionsWithinCapacity
<1>2. TypeInv /\ HostInv /\ ReplanInv /\ LoadInv => SessionsWithinCapacity
  BY <1>1
<1>3. Spec => []StreamsInv
  BY StreamsInit, StreamsStep, TypeCorrect, PTL DEF Spec
<1>4. TypeInv /\ StreamsInv /\ LaunchesHaveRows /\ [Next]_vars => LaunchesHaveRows'
  BY LaunchesStep
<1>5. Spec => []LaunchesHaveRows
  BY <1>3, <1>4, LaunchesInit, TypeCorrect, PTL DEF Spec
<1>6. Spec => []LoadInv
  BY <1>5, LoadInit, LoadStep, TypeCorrect, PTL DEF Spec
<1>7. Spec => []HostInv
  BY HostInit, HostStep, TypeCorrect, PTL DEF Spec
<1>8. Spec => []ReplanInv
  BY <1>3, ReplanInit, ReplanStep, TypeCorrect, PTL DEF Spec
<1> QED BY <1>2, <1>6, <1>7, <1>8, TypeCorrect, PTL

=============================================================================
