------------------------------ MODULE Dispatch ------------------------------
(***************************************************************************)
(* The dispatch ledger of the continuous controller and the production     *)
(* cycle that drives it.                                                   *)
(*                                                                         *)
(* A cycle is one process: it recovers interrupted claims, observes the    *)
(* inventory, optionally seals a round boundary, schedules tickets onto    *)
(* streams, writes dispatch intents, launches them through the host        *)
(* adapter and observes the launches whose outcome is open.  Every store   *)
(* method is one SQLite transaction (one action here); a cycle may crash   *)
(* between any two of them, and nothing excludes a second cycle.           *)
(*                                                                         *)
(* Data abstraction.  An inventory is its digest, Content gives its        *)
(* tickets.  Paths are the symmetric relation Overlaps.  A dispatch        *)
(* identity is its stream, ticket, exact tuple and a generation, since a   *)
(* fresh nonce is drawn only after the earlier intent was cancelled.       *)
(* Overlap allowances are absent (none is granted): see OverlapSync.       *)
(***************************************************************************)
EXTENDS Integers, FiniteSets, Sequences

CONSTANTS
  Cycle,         \* controller processes
  NumStreams,    \* the configured streams are 1..NumStreams, in stream_id order
  Ticket,
  Tuple,         \* exact tuples (candidate identities) of a ticket
  Digest,        \* inventory digests
  Content,       \* Content[d]: the tickets of inventory d with their attributes
  Overlaps,      \* pairs {t, u} of tickets whose owned paths collide
  Policy,        \* what one cycle's switches, publication, planning and
                 \* reservation observations say of the tickets
  MaxCapacity,   \* bound on the observed host capacity
  MaxGen,        \* bound on the intents prepared for one stream, ticket, tuple
  MaxSeals,      \* bound on the replan comments the owner writes
  None           \* no ticket, tuple, intent, digest or cycle

Stream == 1..NumStreams

Disposition == {"ELIGIBLE", "PAUSED_INPUT", "BLOCKED", "COMPLETE"}

Item == [tuple: Tuple, disp: Disposition, ready: BOOLEAN]

PolicyType == [disabled: SUBSET Ticket, refused: SUBSET Ticket,
               reserved: SUBSET Ticket, planned: SUBSET Ticket,
               rank: [Ticket -> Nat]]

ASSUME ConstantsAssumption ==
  /\ NumStreams \in Nat \ {0}
  /\ MaxCapacity \in Nat /\ MaxGen \in Nat \ {0} /\ MaxSeals \in Nat
  /\ \A d \in Digest : /\ DOMAIN Content[d] \subseteq Ticket
                       /\ \A t \in DOMAIN Content[d] : Content[d][t] \in Item
  /\ Policy \subseteq PolicyType
  /\ None \notin Ticket /\ None \notin Tuple /\ None \notin Digest

Intent == [stream: Stream, ticket: Ticket, tuple: Tuple, gen: 1..MaxGen]

StreamState == {"WORKING", "BLOCKED", "PAUSED_INPUT", "COMPLETE"}
Status == {"ABSENT", "PENDING", "IN_FLIGHT", "UNKNOWN", "LAUNCHED", "TERMINAL", "CANCELLED"}
Open == {"PENDING", "IN_FLIGHT", "UNKNOWN", "LAUNCHED"}      \* non-terminal
Begun == {"IN_FLIGHT", "UNKNOWN", "LAUNCHED", "TERMINAL"}

VARIABLES
  rows,      \* stream_status: one labelled row per stream
  status,    \* controller_dispatch.status
  saved,     \* payload._stream_before_unknown
  lastInv,   \* controller_meta.last_inventory_sha256
  seals,     \* controller_replan_seal, in rowid order
  revised,   \* controller_meta.revision > last_digest_revision
  run,       \* the host's record and process of each dispatch
  pc, view, admit, todo, cur    \* control and locals of each cycle

store == <<rows, status, saved, lastInv, seals, revised>>
local == <<pc, view, admit, todo, cur>>
vars == <<rows, status, saved, lastInv, seals, revised, run,
          pc, view, admit, todo, cur>>

-----------------------------------------------------------------------------
(* Rows, intents and the round boundary.                                   *)

NonTerminal == {i \in Intent : status[i] \in Open}
NonTerminalRows == [i \in NonTerminal |-> status[i]]

MIdleRow == [state |-> "IDLE", ticket |-> None, tuple |-> None, why |-> None]
IdleRow == [state |-> "COMPLETE", ticket |-> None, tuple |-> None, why |-> None]

Owns(row, i) == row.ticket = i.ticket /\ row.tuple = i.tuple

\* The dispositions a cycle schedules with: switches, publication readiness
\* and the sealed plan turn ELIGIBLE tickets into BLOCKED ones.
Gated(d, hidden) ==
  [t \in DOMAIN Content[d] |->
     IF Content[d][t].disp = "ELIGIBLE" /\ t \in hidden
     THEN [Content[d][t] EXCEPT !.disp = "BLOCKED"]
     ELSE Content[d][t]]

PolicyGated(d, p) == Gated(d, p.disabled \cup p.refused)
PlanGated(d, p) == Gated(d, p.disabled \cup p.refused \cup (Ticket \ p.planned))

Crossing(d, inv) ==
  {i \in NonTerminal : \/ lastInv # None /\ lastInv # d
                       \/ i.ticket \notin DOMAIN inv
                       \/ inv[i.ticket].tuple # i.tuple
                       \/ inv[i.ticket].disp # "ELIGIBLE"}

MMatchingSeals(d) ==
  {k \in DOMAIN seals : /\ seals[k].state = "SEALED" /\ seals[k].next = d
                        /\ DOMAIN seals[k].bound = NonTerminal}

MatchingSeals(d) ==
  {k \in DOMAIN seals : /\ seals[k].state = "SEALED"
                        /\ seals[k].next = d
                        /\ seals[k].bound = NonTerminalRows}

Admitted(d) ==
  \E k \in DOMAIN seals : /\ seals[k].state = "CONSUMED"
                          /\ seals[k].next = d
                          /\ \A i \in seals[k].heirs : status[i] # "ABSENT"

RoundBoundaryReady(d, inv) ==
  Crossing(d, inv) = {} \/ MatchingSeals(d) # {} \/ Admitted(d)

-----------------------------------------------------------------------------
(* The scheduler.  It walks the streams in order twice; both walks are     *)
(* stated by what they leave: kept, the streams that keep their ticket,    *)
(* then for each other stream the ticket it takes (pick), started on (go)  *)
(* or shown as waiting.                                                    *)

Conflict(t, u) == {t, u} \in Overlaps

Holders(t) == {i.stream : i \in {j \in NonTerminal : j.ticket = t}}

Retainable(s, old, inv, reserved) ==
  LET t == old[s].ticket IN
  /\ old[s].state = "WORKING" /\ t \in DOMAIN inv
  /\ inv[t].disp = "ELIGIBLE" /\ inv[t].ready
  /\ Holders(t) \subseteq {s}
  /\ t \notin reserved

IsKept(kept, old, inv, cap, reserved) ==
  \A s \in Stream :
    s \in kept <=> /\ Retainable(s, old, inv, reserved)
                   /\ Cardinality({r \in kept : r < s}) < cap
                   /\ \A r \in kept : r < s => ~Conflict(old[s].ticket, old[r].ticket)

MSlots(kept, old, cap) == cap - Cardinality(kept)

\* Started intents hold host capacity even when their stream row moved on.
Slots(kept, old, cap) ==
  LET busy == {i \in Intent : status[i] \in {"IN_FLIGHT", "UNKNOWN", "LAUNCHED"}}
      shown == {s \in kept : \E i \in busy : i.stream = s /\ i.ticket = old[s].ticket}
  IN cap - Cardinality(kept) - (Cardinality(busy) - Cardinality(shown))

\* A stream whose own launch has an unknown outcome stays blocked on it.
UnknownOf(s, old, inv) ==
  {i \in Intent : /\ status[i] = "UNKNOWN" /\ i.stream = s /\ Owns(old[s], i)
                  /\ i.ticket \in DOMAIN inv /\ inv[i.ticket].disp # "COMPLETE"}

FreeStreams(kept, old, inv) == {s \in Stream \ kept : UnknownOf(s, old, inv) = {}}

IsFirst(t, S, rank) == t \in S /\ \A u \in S : rank[t] <= rank[u]

MWaiting(disp, kept, old, inv) ==
  {t \in DOMAIN inv : inv[t].disp = disp /\ \A s \in kept : old[s].ticket # t}

\* Tickets of one disposition that no stream holds and no intent reserves.
Waiting(disp, kept, old, inv) ==
  {t \in DOMAIN inv : /\ inv[t].disp = disp
                      /\ Holders(t) = {}
                      /\ \A s \in kept : old[s].ticket # t}

Left(S, s, pick) == S \ {pick[r] : r \in {q \in Stream : q < s}}

Startable(s, kept, go, pick, waiting, slots, old, inv, reserved) ==
  {t \in Left(waiting["ELIGIBLE"], s, pick) :
     /\ inv[t].ready /\ t \notin reserved
     /\ Cardinality({r \in go : r < s}) < slots
     /\ \A r \in kept : ~Conflict(t, old[r].ticket)
     /\ \A r \in go : r < s => ~Conflict(t, pick[r])}

\* What a stream that starts nothing shows: the first ticket left over.
Showable(s, pick, waiting) ==
  LET left(disp) == Left(waiting[disp], s, pick)
  IN IF left("ELIGIBLE") # {} THEN left("ELIGIBLE")
     ELSE IF left("PAUSED_INPUT") # {} THEN left("PAUSED_INPUT")
     ELSE left("BLOCKED")

IsPick(pick, go, kept, free, waiting, slots, old, inv, reserved, rank) ==
  \A s \in Stream :
    LET can == Startable(s, kept, go, pick, waiting, slots, old, inv, reserved)
        show == Showable(s, pick, waiting)
    IN /\ s \in go <=> s \in free /\ can # {}
       /\ \/ s \in go /\ IsFirst(pick[s], can, rank)
          \/ s \in free \ go /\ IsFirst(pick[s], show, rank)
          \/ s \notin go /\ (s \notin free \/ show = {}) /\ pick[s] = None

Waits(inv, t) == IF inv[t].disp = "PAUSED_INPUT" THEN "PAUSED_INPUT" ELSE "BLOCKED"

NewRow(s, kept, go, pick, old, inv) ==
  LET t == IF s \in kept THEN old[s].ticket ELSE pick[s]
      label(st) == [state |-> st, ticket |-> t, tuple |-> inv[t].tuple, why |-> None]
      unknown == UnknownOf(s, old, inv)
  IN IF s \in kept \cup go THEN label("WORKING")
     ELSE IF unknown # {}
          THEN LET i == CHOOSE i \in unknown : TRUE
               IN [state |-> "BLOCKED", ticket |-> i.ticket, tuple |-> i.tuple, why |-> i]
     ELSE IF t # None THEN label(Waits(inv, t))
     ELSE IdleRow

\* What reconciliation restores is refreshed from the scheduled inventory.
Resave(kept, old, inv) ==
  [i \in Intent |->
     IF i.stream \notin kept /\ i \in UnknownOf(i.stream, old, inv)
     THEN [state |-> IF inv[i.ticket].disp = "ELIGIBLE" THEN "WORKING" ELSE inv[i.ticket].disp,
           tuple |-> inv[i.ticket].tuple]
     ELSE saved[i]]

\* The tickets still to place, by what the inventory lets a stream do.
WaitingBy(kept, old, inv) ==
  [ELIGIBLE |-> Waiting("ELIGIBLE", kept, old, inv),
   PAUSED_INPUT |-> Waiting("PAUSED_INPUT", kept, old, inv),
   BLOCKED |-> Waiting("BLOCKED", kept, old, inv)]

\* _schedule on the rows old: the rows it writes.  (What does not depend on
\* the choice of go and pick is bound once, before them.)
Reschedule(old, inv, cap, reserved, rank) ==
  \E kept \in SUBSET Stream :
    /\ IsKept(kept, old, inv, cap, reserved)
    /\ \E free \in {FreeStreams(kept, old, inv)},
          slots \in {Slots(kept, old, cap)}, waiting \in {WaitingBy(kept, old, inv)} :
       \E go \in SUBSET free, pick \in [Stream -> Ticket \cup {None}] :
         /\ IsPick(pick, go, kept, free, waiting, slots, old, inv, reserved, rank)
         /\ rows' = [s \in Stream |-> NewRow(s, kept, go, pick, old, inv)]
         /\ saved' = Resave(kept, old, inv)

\* The first generation of a triple that is neither used nor cancelled.
Vacant(i, st) ==
  /\ st[i] = "ABSENT"
  /\ \A g \in 1..MaxGen : g < i.gen => st[[i EXCEPT !.gen = g]] = "CANCELLED"

\* _create_dispatch_intents: one intent for each WORKING row that has none.
\* Bound MaxGen: a row whose generations are all cancelled gets no other.
NewIntents(rws, st) ==
  {i \in Intent : /\ rws[i.stream].state = "WORKING" /\ Owns(rws[i.stream], i)
                  /\ Vacant(i, st)}

WithIntents(rws, st) ==
  [i \in Intent |-> IF i \in NewIntents(rws, st) THEN "PENDING" ELSE st[i]]

\* The oldest matching seal is consumed and names its successor intents.
Consume(d, heirs) ==
  \E k \in MatchingSeals(d) :
    /\ \A l \in MatchingSeals(d) : k <= l
    /\ seals' = [seals EXCEPT ![k] = [@ EXCEPT !.state = "CONSUMED", !.heirs = heirs]]

\* schedule: nothing moves at a boundary without a seal or with one already
\* admitted; a matching seal is consumed with its successor intents.
ScheduleTransaction(d, inv, cap, reserved, rank) ==
  LET boundary == Crossing(d, inv) # {} IN
  \/ /\ boundary /\ MatchingSeals(d) = {}
     /\ UNCHANGED store
  \/ /\ ~boundary
     /\ Reschedule(rows, inv, cap, reserved, rank)
     /\ lastInv' = d
     /\ revised' = (revised \/ rows' # rows)
     /\ UNCHANGED <<status, seals>>
  \/ /\ boundary /\ MatchingSeals(d) # {}
     /\ Reschedule(rows, inv, cap, reserved, rank)
     /\ status' = WithIntents(rows', status)
     /\ Consume(d, NewIntents(rows', status))
     /\ lastInv' = d
     /\ revised' = (revised \/ rows' # rows)

-----------------------------------------------------------------------------
(* Unknown outcomes.                                                       *)

MBlocked(row, i) == [row EXCEPT !.why = i]
Blocked(row, i) == [row EXCEPT !.state = "BLOCKED", !.why = i]

MRevise(S) == revised' = (revised \/ \E i \in S : Owns(rows[i.stream], i))
Revise(S) == revised' = (revised \/ S # {})

\* _record_dispatch_unknown for every intent of S: block the stream that
\* still owns the intent and remember its row once.
RecordUnknown(S) ==
  LET blames(s) == {i \in S : i.stream = s /\ Owns(rows[s], i)} IN
  /\ rows' = [s \in Stream |->
       IF blames(s) = {} THEN rows[s]
       ELSE Blocked(rows[s], CHOOSE i \in blames(s) : TRUE)]
  /\ saved' = [i \in Intent |->
       IF i \in blames(i.stream) /\ saved[i] = None
       THEN [state |-> rows[i.stream].state, tuple |-> rows[i.stream].tuple]
       ELSE saved[i]]
  /\ Revise(S)

\* mark_dispatch_unknown: only a claim still in flight changes its status.
MarkDispatchUnknown(i) ==
  /\ status' = [status EXCEPT ![i] = IF @ = "IN_FLIGHT" THEN "UNKNOWN" ELSE @]
  /\ RecordUnknown({j \in {i} : status[j] \in {"IN_FLIGHT", "UNKNOWN"}})
  /\ UNCHANGED <<lastInv, seals, run>>

\* _restore_unknown_stream acts only on a row still blocked by this dispatch.
BlockedBy(i) == LET row == rows[i.stream] IN
  Owns(row, i) /\ row.state = "BLOCKED" /\ row.why = i

RestoreAccepted(i) == BlockedBy(i) => saved[i] # None /\ saved[i].tuple = i.tuple

RestoreUnknownStream(i) ==
  rows' = IF BlockedBy(i)
          THEN [rows EXCEPT ![i.stream].state = saved[i].state, ![i.stream].why = None]
          ELSE rows

\* finish_dispatch of an observed outcome that was unknown.
SettleUnknown(i) == RestoreAccepted(i) /\ RestoreUnknownStream(i) /\ revised' = TRUE

MPending(i) == status[i] \in {"PENDING", "IN_FLIGHT"}
Pending(i) == status[i] = "PENDING"

\* cancel_pending_dispatch
CancelPending(i) ==
  /\ Pending(i)
  /\ status' = [status EXCEPT ![i] = "CANCELLED"]
  /\ revised' = TRUE
  /\ UNCHANGED <<rows, saved, lastInv, seals, run>>

-----------------------------------------------------------------------------
(* The production cycle.                                                   *)

NoView == [digest |-> None, policy |-> None, cancelOk |-> FALSE, ready |-> FALSE]

Goto(c, label) == pc' = [pc EXCEPT ![c] = label]

MClaims == {i \in Intent : status[i] = "IN_FLIGHT" /\ run[i] # "NONE"}
Claims == {i \in Intent : status[i] = "IN_FLIGHT"}

\* A new cycle recovers the interrupted claims, then reads the inventory.
RecoverDispatches(c) ==
  /\ pc[c] = "idle"
  /\ status' = [i \in Intent |-> IF i \in Claims THEN "UNKNOWN" ELSE status[i]]
  /\ RecordUnknown(Claims)
  /\ \E d \in Digest : view' = [view EXCEPT ![c] = [NoView EXCEPT !.digest = d]]
  /\ Goto(c, "recovered")
  /\ UNCHANGED <<lastInv, seals, run, admit, todo, cur>>

\* The owner's comment names the inventory just read and every open dispatch.
SealRoundBoundaryReplan(c) ==
  /\ pc[c] = "recovered" /\ Len(seals) < MaxSeals
  /\ lastInv # None /\ NonTerminal # {}
  /\ seals' = Append(seals, [state |-> "SEALED", next |-> view[c].digest,
                             bound |-> NonTerminalRows, heirs |-> {}])
  /\ Goto(c, "sealed")
  /\ UNCHANGED <<rows, status, saved, lastInv, revised, run, view, admit, todo, cur>>

\* The boundary of the inventory as observed decides whether cancelling is
\* allowed; then the switches and the publication preflights are read.
ReadCancellationBoundary(c) ==
  LET d == view[c].digest IN
  /\ pc[c] \in {"recovered", "sealed"}
  /\ \E p \in Policy :
       view' = [view EXCEPT ![c].policy = p,
                            ![c].cancelOk = RoundBoundaryReady(d, Content[d])]
  /\ Goto(c, "gated")
  /\ UNCHANGED <<store, run, admit, todo, cur>>

ReadRoundBoundary(c) ==
  LET d == view[c].digest IN
  /\ pc[c] = "gated"
  /\ view' = [view EXCEPT ![c].ready = RoundBoundaryReady(d, PolicyGated(d, view[c].policy))]
  /\ Goto(c, "planned")
  /\ UNCHANGED <<store, run, admit, todo, cur>>

\* plan_lanes: the connected components of the overlaps of the ready tickets.
Lanes(S) ==
  LET closed(L) == L # {} /\ \A t \in L, u \in S : Conflict(t, u) => u \in L
  IN {L \in SUBSET S : closed(L) /\ \A M \in SUBSET L : closed(M) => M = L}

MAdmissible(rws, inv, p) ==
  {i \in Intent : /\ i.ticket \in p.planned \cap DOMAIN inv
                  /\ inv[i.ticket].disp = "ELIGIBLE" /\ inv[i.ticket].ready
                  /\ inv[i.ticket].tuple = i.tuple}

\* The pending intents this cycle may launch: planned, ready and shown
\* WORKING by the snapshot the scheduling transaction returned.
Admissible(rws, inv, p) ==
  {i \in Intent : /\ i.ticket \in p.planned \cap DOMAIN inv
                  /\ inv[i.ticket].disp = "ELIGIBLE" /\ inv[i.ticket].ready
                  /\ inv[i.ticket].tuple = i.tuple
                  /\ rws[i.stream].state = "WORKING" /\ Owns(rws[i.stream], i)}

Schedule(c) ==
  LET d == view[c].digest
      p == view[c].policy
      inv == PlanGated(d, p)
  IN /\ pc[c] = "planned"
     /\ \/ /\ view[c].ready
           /\ \E cap \in 0..MaxCapacity :
                /\ cap <= Cardinality(Lanes(p.planned \cap DOMAIN inv))
                /\ ScheduleTransaction(d, inv, cap, p.reserved, p.rank)
           /\ admit' = [admit EXCEPT ![c] = Admissible(rows', inv, p)]
        \/ /\ ~view[c].ready
           /\ UNCHANGED <<store, admit>>
     /\ Goto(c, "scheduled")
     /\ UNCHANGED <<run, view, todo, cur>>

-----------------------------------------------------------------------------
(* Cancelling and preparing intents.                                       *)

Task(op, S) == {[op |-> op, on |-> i] : i \in S}

\* Operations run in stream order; the identities of one stream are hashes.
InOrder(c, t) == t \in todo[c] /\ \A u \in todo[c] : t.on.stream <= u.on.stream

Done(c, t) == todo' = [todo EXCEPT ![c] = @ \ {t}]

\* Outside a closed boundary, a ticket whose automation is switched off
\* loses its pending intents.
ListCancellations(c) ==
  LET d == view[c].digest
      off == {t \in DOMAIN Content[d] : /\ Content[d][t].disp = "ELIGIBLE"
                                        /\ t \in view[c].policy.disabled}
  IN /\ pc[c] = "scheduled"
     /\ todo' = [todo EXCEPT ![c] =
          IF view[c].cancelOk
          THEN Task("cancel", {i \in Intent : Pending(i) /\ i.ticket \in off})
          ELSE {}]
     /\ Goto(c, "cancelling")
     /\ UNCHANGED <<store, run, view, admit, cur>>

\* A refusal here is not caught: it ends the cycle (Crash).
CancelDisabled(c) ==
  \E t \in todo[c] :
    /\ pc[c] = "cancelling"
    /\ CancelPending(t.on)
    /\ Done(c, t)
    /\ UNCHANGED <<pc, view, admit, cur>>

MUnsettled(st) == {i \in Intent : st[i] = "UNKNOWN"}
Unsettled(st) == {i \in Intent : st[i] \in {"UNKNOWN", "LAUNCHED"}}

\* An open launch is observed while its ticket is still in the inventory.
Watched(d) ==
  {i \in Intent : /\ i.ticket \in DOMAIN Content[d]
                  /\ Content[d][i.ticket].disp # "COMPLETE"
                  /\ Content[d][i.ticket].tuple = i.tuple}

PrepareDispatches(c) ==
  LET ready == view[c].ready
      pending == {i \in Intent : ready /\ status'[i] = "PENDING"}
  IN /\ pc[c] = "cancelling" /\ todo[c] = {}
     /\ status' = IF ready THEN WithIntents(rows, status) ELSE status
     /\ todo' = [todo EXCEPT ![c] =
          Task("launch", pending \cap admit[c]) \cup Task("cancel", pending \ admit[c])
            \cup Task("observe", Unsettled(status) \cap Watched(view[c].digest))]
     /\ view' = [view EXCEPT ![c] = NoView]
     /\ admit' = [admit EXCEPT ![c] = {}]
     /\ Goto(c, "dispatching")
     /\ UNCHANGED <<rows, saved, lastInv, seals, revised, run, cur>>

-----------------------------------------------------------------------------
(* One operation of the dispatch loop.                                     *)

At(c, t, op) == pc[c] = "dispatching" /\ InOrder(c, t) /\ t.op = op

\* A stale intent is cancelled; an exception is noted and the intent stays.
CancelPendingDispatch(c) ==
  \E t \in todo[c] :
    /\ At(c, t, "cancel")
    /\ CancelPending(t.on) \/ UNCHANGED <<store, run>>
    /\ Done(c, t)
    /\ UNCHANGED <<pc, view, admit, cur>>

RefuseSkillSelection(c) ==
  \E t \in todo[c] :
    /\ At(c, t, "launch")
    /\ CancelPending(t.on)
    /\ Done(c, t)
    /\ UNCHANGED <<pc, view, admit, cur>>

BeginDispatch(c) ==
  \E t \in todo[c] :
    /\ At(c, t, "launch") /\ Pending(t.on)
    /\ status' = [status EXCEPT ![t.on] = "IN_FLIGHT"]
    /\ cur' = [cur EXCEPT ![c] = t.on]
    /\ Done(c, t) /\ Goto(c, "launching")
    /\ UNCHANGED <<rows, saved, lastInv, seals, revised, run, view, admit>>

\* The new reconcile_nonce in the payload outdates every observation of the
\* same dispatch that is under way: its receipt will be refused.
BeginDispatchReconciliation(c) ==
  \E t \in todo[c] :
    /\ At(c, t, "observe") /\ status[t.on] \in {"UNKNOWN", "LAUNCHED"}
    /\ cur' = [cur EXCEPT ![c] = t.on]
    /\ Done(c, t)
    /\ pc' = [e \in Cycle |-> IF e = c THEN "observing"
                             ELSE IF pc[e] = "observing" /\ cur[e] = t.on THEN "outdated"
                             ELSE pc[e]]
    /\ UNCHANGED <<store, run, view, admit>>

\* An exception before the claim: recorded as unknown if that is its status.
OperationFails(c) ==
  \E t \in todo[c] :
    /\ At(c, t, "launch") \/ At(c, t, "observe")
    /\ MarkDispatchUnknown(t.on)
    /\ Done(c, t)
    /\ UNCHANGED <<pc, view, admit, cur>>

\* dispatch_ticket refuses a second durable run record for one dispatch.
WriteRecord(c) ==
  /\ pc[c] = "launching" /\ run[cur[c]] = "NONE"
  /\ run' = [run EXCEPT ![cur[c]] = "PREPARED"]
  /\ Goto(c, "recorded")
  /\ UNCHANGED <<store, view, admit, todo, cur>>

Launch(c) ==
  /\ pc[c] = "recorded"
  /\ run' = [run EXCEPT ![cur[c]] = "LIVE"]
  /\ Goto(c, "started")
  /\ UNCHANGED <<store, view, admit, todo, cur>>

Back(c) == Goto(c, "dispatching") /\ cur' = [cur EXCEPT ![c] = None]

\* Startup is proved by a session that started, also if it ended since; a
\* clean end that is already proved makes the receipt terminal.
Receipts(i) ==
  {"LAUNCHED"} \cup (IF run[i] = "COMPLETED" THEN {"TERMINAL"} ELSE {})

FinishDispatch(c) ==
  LET i == cur[c] IN
  /\ pc[c] = "started" /\ status[i] = "IN_FLIGHT"
  /\ \E r \in Receipts(i) : status' = [status EXCEPT ![i] = r]
  /\ Back(c)
  /\ UNCHANGED <<rows, saved, lastInv, seals, revised, run, view, admit, todo>>

\* Observation accepts only a clean terminal proof of the recorded launch.
Proved(i) == run[i] = "COMPLETED"

ReconcileDispatch(c) ==
  LET i == cur[c] IN
  /\ pc[c] = "observing" /\ Proved(i)
  /\ status[i] \in {"UNKNOWN", "LAUNCHED"}
  /\ \/ status[i] = "UNKNOWN" /\ SettleUnknown(i)
     \/ status[i] = "LAUNCHED" /\ UNCHANGED <<rows, revised>>
  /\ status' = [status EXCEPT ![i] = "TERMINAL"]
  /\ Back(c)
  /\ UNCHANGED <<saved, lastInv, seals, run, view, admit, todo>>

\* Any exception after the claim, from the adapter or from the receipt.
DispatchFails(c) ==
  /\ pc[c] \in {"launching", "recorded", "started", "observing", "outdated"}
  /\ MarkDispatchUnknown(cur[c])
  /\ Back(c)
  /\ UNCHANGED <<view, admit, todo>>

\* digest, deliver_status and acknowledge_digest.
Report(c) ==
  /\ pc[c] = "dispatching" /\ todo[c] = {}
  /\ revised' \in {FALSE, revised}
  /\ Goto(c, "idle")
  /\ UNCHANGED <<rows, status, saved, lastInv, seals, run, view, admit, todo, cur>>

-----------------------------------------------------------------------------
(* The environment.                                                        *)

\* The process dies, or an uncaught exception ends its cycle.  Dying with
\* nothing left to dispatch is a Report whose digest is not acknowledged.
Crash(c) ==
  /\ pc[c] # "idle"
  /\ pc[c] = "dispatching" => todo[c] # {}
  /\ Goto(c, "idle")
  /\ view' = [view EXCEPT ![c] = NoView]
  /\ admit' = [admit EXCEPT ![c] = {}]
  /\ todo' = [todo EXCEPT ![c] = {}]
  /\ cur' = [cur EXCEPT ![c] = None]
  /\ UNCHANGED <<store, run>>

\* The detached session outlives the cycle that launched it.
SessionEnds(i) ==
  /\ run[i] = "LIVE"
  /\ \E end \in {"COMPLETED", "FAILED"} : run' = [run EXCEPT ![i] = end]
  /\ UNCHANGED <<store, local>>

-----------------------------------------------------------------------------
Init ==
  /\ rows = [s \in Stream |-> IdleRow]
  /\ status = [i \in Intent |-> "ABSENT"]
  /\ saved = [i \in Intent |-> None]
  /\ lastInv = None
  /\ seals = << >>
  /\ revised = TRUE
  /\ run = [i \in Intent |-> "NONE"]
  /\ pc = [c \in Cycle |-> "idle"]
  /\ view = [c \in Cycle |-> NoView]
  /\ admit = [c \in Cycle |-> {}]
  /\ todo = [c \in Cycle |-> {}]
  /\ cur = [c \in Cycle |-> None]

Step(c) ==
  \/ RecoverDispatches(c)
  \/ ReadCancellationBoundary(c)
  \/ ReadRoundBoundary(c)
  \/ Schedule(c)
  \/ ListCancellations(c)
  \/ CancelDisabled(c)
  \/ PrepareDispatches(c)
  \/ CancelPendingDispatch(c)
  \/ BeginDispatch(c)
  \/ BeginDispatchReconciliation(c)
  \/ OperationFails(c)
  \/ WriteRecord(c)
  \/ Launch(c)
  \/ FinishDispatch(c)
  \/ ReconcileDispatch(c)
  \/ DispatchFails(c)
  \/ Report(c)

Next ==
  \/ \E c \in Cycle :
       Step(c) \/ SealRoundBoundaryReplan(c) \/ RefuseSkillSelection(c) \/ Crash(c)
  \/ \E i \in Intent : SessionEnds(i)

Spec == Init /\ [][Next]_vars

\* A host that keeps its cycles running, and an observation of a dispatch
\* that is tried again and again is not refused for ever.
FairSpec ==
  /\ Spec
  /\ \A c \in Cycle : WF_vars(Step(c))
  /\ \A c \in Cycle, i \in Intent :
       /\ SF_vars(BeginDispatchReconciliation(c) /\ cur'[c] = i)
       /\ SF_vars(ReconcileDispatch(c) /\ cur[c] = i)

-----------------------------------------------------------------------------
(* Properties.                                                             *)

RowType == [state: StreamState, ticket: Ticket \cup {None},
            tuple: Tuple \cup {None}, why: Intent \cup {None}]

SavedType == [state: StreamState, tuple: Tuple]

SealType == [state: {"SEALED", "CONSUMED"}, next: Digest,
             bound: UNION {[S -> Open] : S \in SUBSET Intent}, heirs: SUBSET Intent]

ViewType == [digest: Digest \cup {None}, policy: Policy \cup {None},
             cancelOk: BOOLEAN, ready: BOOLEAN]

TaskType == [op: {"cancel", "launch", "observe"}, on: Intent]

Label == {"idle", "recovered", "sealed", "gated", "planned", "scheduled",
          "cancelling", "dispatching", "launching", "recorded", "started", "observing", "outdated"}

\* Every row carries one of the four labels (_update_stream refuses an
\* unlabelled idle state), every dispatch a status of the ledger.
TypeOK ==
  /\ rows \in [Stream -> RowType]
  /\ status \in [Intent -> Status]
  /\ saved \in [Intent -> SavedType \cup {None}]
  /\ lastInv \in Digest \cup {None}
  /\ seals \in Seq(SealType)
  /\ revised \in BOOLEAN
  /\ run \in [Intent -> {"NONE", "PREPARED", "LIVE", "COMPLETED", "FAILED"}]
  /\ pc \in [Cycle -> Label]
  /\ view \in [Cycle -> ViewType]
  /\ admit \in [Cycle -> SUBSET Intent]
  /\ todo \in [Cycle -> SUBSET TaskType]
  /\ cur \in [Cycle -> Intent \cup {None}]

\* The ledger never spreads one ticket over two streams, and never holds two
\* open intents for one stream, ticket and exact tuple: what the reserved
\* tickets of _schedule and the prior row of _create_dispatch_intents are for.
OneStreamPerTicket ==
  \A i, j \in NonTerminal :
    i.ticket = j.ticket => i.stream = j.stream /\ (i.tuple = j.tuple => i = j)

\* The ledger never denies a session the host has: whatever the host has a
\* run record of was claimed first, an accepted launch has a process, and a
\* terminal dispatch a proved clean end (finish_dispatch, observe_dispatch).
HostAndLedgerAgree ==
  \A i \in Intent :
    /\ run[i] # "NONE" => status[i] \in Begun
    /\ status[i] = "LAUNCHED" => run[i] \in {"LIVE", "COMPLETED", "FAILED"}
    /\ status[i] = "TERMINAL" => run[i] = "COMPLETED"

\* The owner's consumed replan names the dispatch as it stood.
Replanned(i) ==
  \E k \in DOMAIN seals : seals[k].state = "CONSUMED" /\ i \in DOMAIN seals[k].bound

\* While the outcome of a launch is unknown no stream works on its ticket
\* ("reconcile before retry", _record_dispatch_unknown and _schedule), unless
\* the owner replanned over that very dispatch: then its own stream may.
UnknownBlocksItsTicket ==
  \A i \in Intent, s \in Stream :
    status[i] = "UNKNOWN" /\ rows[s].ticket = i.ticket /\ rows[s].state = "WORKING"
      => s = i.stream /\ Replanned(i)

\* A round with open dispatches gives way to another inventory only in the
\* transaction that consumes the seal naming exactly that inventory and
\* exactly those dispatches as they stand, and that seal records exactly the
\* intents written with it (schedule, _round_boundary_seal).
RoundAdvancesSealed ==
  [][lastInv' # lastInv /\ NonTerminal # {} =>
       \E k \in DOMAIN seals :
         /\ seals[k].state = "SEALED" /\ seals'[k].state = "CONSUMED"
         /\ seals[k].next = lastInv' /\ seals[k].bound = NonTerminalRows
         /\ seals'[k].heirs = {i \in Intent : status[i] = "ABSENT" /\ status'[i] = "PENDING"}]_vars

InRound(i) == LET inv == Content[lastInv] IN
  i.ticket \in DOMAIN inv /\ inv[i.ticket].tuple = i.tuple /\ inv[i.ticket].disp = "ELIGIBLE"

SealedInto(i) ==
  \E k \in DOMAIN seals : /\ seals[k].state = "CONSUMED" /\ seals[k].next = lastInv
                          /\ i \in DOMAIN seals[k].bound

\* A single controller claims a dispatch only for the stream that works on
\* it, and only in a round that no uncertain or running launch crosses
\* without a consumed seal that names it (the dispatch loop of the cycle).
LaunchWithinRound ==
  [][\A i \in Intent :
       status[i] = "PENDING" /\ status'[i] = "IN_FLIGHT" =>
         /\ rows[i.stream].state = "WORKING" /\ Owns(rows[i.stream], i)
         /\ \A j \in Unsettled(status) : InRound(j) \/ SealedInto(j)]_vars

\* What the status digest shows (the rows and the unresolved dispatches)
\* never changes without the revision that makes the next digest due.
Shown == <<rows, {i \in Intent : status[i] = "UNKNOWN"}>>
StatusChangeIsRevised == [][Shown' # Shown => revised']_vars

\* The tickets with a live session stay within the host's capacity even when
\* streams are demoted, launches are uncertain and capacity shrinks (_schedule
\* charges started intents whose row moved on), and a ticket has a second
\* session only after a replan over the first one, which no place is kept for.
SessionsWithinCapacity ==
  LET live == {i \in Intent : run[i] = "LIVE"} IN
  /\ Cardinality({i.ticket : i \in live}) <= MaxCapacity
  /\ \A i, j \in live : i.ticket = j.ticket /\ i # j => Replanned(i) \/ Replanned(j)

\* A claim is settled even if its cycle dies: the next cycle recovers it.
ClaimsSettle ==
  \A i \in Intent : status[i] = "IN_FLIGHT" ~> status[i] # "IN_FLIGHT"

\* Once the controller stops crashing, a session that ended cleanly is read
\* back and its dispatch becomes terminal.
NoMoreCrashes == <>[][\A c \in Cycle : ~Crash(c)]_vars

ProofsSettle ==
  NoMoreCrashes =>
    \A i \in Intent :
      (run[i] = "COMPLETED" /\ status[i] \in {"UNKNOWN", "LAUNCHED"}) ~> status[i] = "TERMINAL"

-----------------------------------------------------------------------------
(* Statements of the repository that the code does not meet.               *)

\* SPECIFICATION.md: "Keep one writer per ticket/path".
OneWriterPerPath ==
  \A i, j \in Intent :
    run[i] = "LIVE" /\ run[j] = "LIVE" /\ i.ticket # j.ticket => ~Conflict(i.ticket, j.ticket)

\* A blocked stream resumes when "the host returns a fresh observation for
\* this dispatch and its ticket" (resume_trigger of the unknown row).
ProofIsAccepted ==
  \A c \in Cycle :
    pc[c] = "observing" /\ Proved(cur[c]) /\ status[cur[c]] = "UNKNOWN"
      => RestoreAccepted(cur[c])

=============================================================================
