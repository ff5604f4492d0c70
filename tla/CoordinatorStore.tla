-------------------------- MODULE CoordinatorStore --------------------------
(***************************************************************************)
(* The reference coordinator store (store.py): one SQLite database that    *)
(* several controllers share.  Every operation but check_lease is one      *)
(* BEGIN IMMEDIATE transaction, so an operation is an action.              *)
(*                                                                         *)
(* A control change and a budget overrun end a generation: they revoke the *)
(* leases and requests, cancel what is pending and leave what is in flight *)
(* uncertain.  The time of a call is an argument that its caller read      *)
(* before it waited for the write lock, so it may lie behind the clock.    *)
(*                                                                         *)
(* Data abstraction.  A lease takes one unit of each capacity class its    *)
(* task demands (workers, heavy, gpu and the named resources are classes   *)
(* alike).  Tokens and cost are limited and settled by the same code; cost *)
(* stands for both.  Rows are sequences and functions, absent rows None.   *)
(***************************************************************************)
EXTENDS Integers, FiniteSets, Sequences

CONSTANTS
  Task, Owner,     \* lease holders: tasks, and the controllers that own them
  Class,           \* capacity classes
  Demand,          \* Demand[t]: the classes task t takes one unit of
  Limit,           \* Limit[c]: units of class c on the host
  Operation,       \* idempotency keys of proposed operations
  Request, Gate,   \* authorization requests and the gates they are bound to
  SourceEvent,     \* provider events that carry an owner's authorization
  Run, Ticket,     \* budget reservations, and the tickets they are charged to
  Cost,            \* what one run may reserve or turn out to have used
  RunLimit, CostLimit, DailyLimit,
  TTL,             \* life of a lease, a request and a claim
  DayLength,
  MaxClock, MaxGeneration, MaxLeases,   \* bounds
  None             \* no row

\* The rows of the tables, with the columns that the operations decide on.
OperationRow == [status : {"PENDING", "IN_FLIGHT", "UNKNOWN", "SUCCEEDED", "FAILED", "CANCELLED"},
                 generation : Nat]
LeaseRow == [task : Task, owner : Owner, expires : Nat, generation : Nat,
             status : {"ACTIVE", "EXPIRED", "RELEASED", "REVOKED"}]
RequestRow == [status : {"OPEN", "CONSUMED", "REVOKED"}, gate : Gate, expires : Nat,
               generation : Nat, source : SourceEvent \cup {None}]
ReservationRow == [status : {"RESERVED", "SETTLED"}, ticket : Ticket, day : Nat,
                   cost : Nat, actual : Nat]
ClaimRow == [owner : Owner, generation : Nat, expires : Nat]

ASSUME StoreAssumption ==
  /\ Demand \in [Task -> SUBSET Class] /\ Limit \in [Class -> Nat]
  /\ Cost \subseteq Nat /\ RunLimit \in Nat /\ CostLimit \in Nat /\ DailyLimit \in Nat
  /\ TTL \in Nat \ {0} /\ DayLength \in Nat \ {0}
  /\ MaxClock \in Nat /\ MaxGeneration \in Nat /\ MaxLeases \in Nat
  /\ None \notin SourceEvent
  /\ None \notin OperationRow \cup RequestRow \cup ReservationRow

VARIABLES
  mode,         \* meta: PAUSED, RUNNING or STOPPED
  generation,   \* meta: the generation
  clock,        \* the host clock
  leases,       \* table leases; the fencing token is the position
  operation,    \* table operations
  request,      \* table requests
  reservation,  \* table reservations
  claim,        \* table ownership
  starts,       \* how often an operation was handed to its executor
  spent         \* the authorizations consumed: pairs of request and source event

storeVars == <<mode, generation, clock, leases, operation, request, reservation, claim, starts, spent>>

StoreTypeOK ==
  /\ mode \in {"PAUSED", "RUNNING", "STOPPED"}
  /\ generation \in Nat /\ clock \in Nat
  /\ leases \in Seq(LeaseRow)
  /\ operation \in [Operation -> OperationRow \cup {None}]
  /\ request \in [Request -> RequestRow \cup {None}]
  /\ reservation \in [Run -> ReservationRow \cup {None}]
  /\ claim \in [Ticket -> ClaimRow \cup {None}]
  /\ starts \in [Operation -> Nat]
  /\ spent \subseteq Request \X SourceEvent

-----------------------------------------------------------------------------
(* Leases.                                                                 *)

Lapsed(lease, now) == lease.status = "ACTIVE" /\ lease.expires <= now

\* The table after acquire_lease has expired what is over at the caller's time.
Expired(table, now) ==
  [i \in DOMAIN table |-> IF Lapsed(table[i], now) THEN [table[i] EXCEPT !.status = "EXPIRED"]
                                                   ELSE table[i]]

Active(table) == {i \in DOMAIN table : table[i].status = "ACTIVE"}

HeldBy(table, t) == {i \in Active(table) : table[i].task = t}

Units(table, c) == {i \in Active(table) : c \in Demand[table[i].task]}

HasCapacity(table, t) == \A c \in Demand[t] : Cardinality(Units(table, c)) + 1 <= Limit[c]

AcquireLease(t, o, now) ==
  LET table == Expired(leases, now) IN
  /\ mode = "RUNNING"
  /\ IF HeldBy(table, t) # {}
       THEN /\ \A i \in HeldBy(table, t) : table[i].owner = o
            /\ leases' = table
       ELSE /\ HasCapacity(table, t) /\ Len(leases) < MaxLeases
            /\ leases' = Append(table, [task |-> t, owner |-> o, expires |-> now + TTL,
                                        generation |-> generation, status |-> "ACTIVE"])
  /\ UNCHANGED <<mode, generation, clock, operation, request, reservation, claim, starts, spent>>

\* A check that trusts the time it reads.
MCheckLease(i, o, now) ==
  /\ mode = "RUNNING" /\ leases[i].owner = o
  /\ leases[i].generation = generation /\ leases[i].expires > now

\* check_lease, a read outside any transaction: what it answers for token i.
CheckLease(i, o, now) ==
  /\ mode = "RUNNING"
  /\ leases[i].status = "ACTIVE" /\ leases[i].owner = o
  /\ leases[i].generation = generation /\ leases[i].expires > now

ReleaseLease(i, o) ==
  /\ leases[i].owner = o /\ leases[i].status = "ACTIVE"
  /\ leases' = [leases EXCEPT ![i].status = "RELEASED"]
  /\ UNCHANGED <<mode, generation, clock, operation, request, reservation, claim, starts, spent>>

-----------------------------------------------------------------------------
(* The end of a generation, as control and settle_budget write it.         *)

RevokedLeases ==
  [i \in DOMAIN leases |-> IF leases[i].status = "ACTIVE" THEN [leases[i] EXCEPT !.status = "REVOKED"]
                                                          ELSE leases[i]]

\* The open requests of the generation that ended are left as they are.
MRevokedRequests == request

RevokedRequests ==
  [r \in Request |-> IF request[r] # None /\ request[r].status = "OPEN"
                       THEN [request[r] EXCEPT !.status = "REVOKED"] ELSE request[r]]

\* What was handed out is cancelled along with what was not.
MSettled(status) == IF status \in {"IN_FLIGHT", "PENDING"} THEN "CANCELLED" ELSE status

\* A status copied from the updates of the other tables.
MCopied(status) == CASE status = "IN_FLIGHT" -> "UNKNOWN"
                     [] status = "PENDING" -> "REVOKED"
                     [] OTHER -> status

\* The statuses of the operations after their generation ended.
Settled(status) == CASE status = "IN_FLIGHT" -> "UNKNOWN"
                     [] status = "PENDING" -> "CANCELLED"
                     [] OTHER -> status

SettledOperations ==
  [p \in Operation |-> IF operation[p] = None THEN None
                       ELSE [operation[p] EXCEPT !.status = Settled(operation[p].status)]]

EndGeneration ==
  /\ generation < MaxGeneration
  /\ generation' = generation + 1
  /\ leases' = RevokedLeases
  /\ request' = RevokedRequests
  /\ operation' = SettledOperations

\* A resume is accepted only with its reconciliation done, which is the caller's word.
Control(m) ==
  /\ EndGeneration
  /\ mode' = m
  /\ UNCHANGED <<clock, reservation, claim, starts, spent>>

-----------------------------------------------------------------------------
(* Operations.                                                             *)

Enqueue(p) ==
  /\ mode = "RUNNING" /\ operation[p] = None
  /\ operation' = [operation EXCEPT ![p] = [status |-> "PENDING", generation |-> generation]]
  /\ UNCHANGED <<mode, generation, clock, leases, request, reservation, claim, starts, spent>>

\* begin_simulated_operation; the effect itself is outside the store.
BeginOperation(p) ==
  /\ mode = "RUNNING" /\ operation[p] # None
  /\ operation[p].status = "PENDING" /\ operation[p].generation = generation
  /\ operation' = [operation EXCEPT ![p].status = "IN_FLIGHT"]
  /\ starts' = [starts EXCEPT ![p] = @ + 1]
  /\ UNCHANGED <<mode, generation, clock, leases, request, reservation, claim, spent>>

\* A terminal outcome is repeated without effect or refused.
ReconcileOperation(p, outcome) ==
  /\ operation[p] # None /\ operation[p].status \in {"IN_FLIGHT", "UNKNOWN"}
  /\ operation' = [operation EXCEPT ![p].status = outcome]
  /\ UNCHANGED <<mode, generation, clock, leases, request, reservation, claim, starts, spent>>

RecoverInflight ==
  /\ operation' = [p \in Operation |-> IF operation[p] # None /\ operation[p].status = "IN_FLIGHT"
                                         THEN [operation[p] EXCEPT !.status = "UNKNOWN"]
                                         ELSE operation[p]]
  /\ UNCHANGED <<mode, generation, clock, leases, request, reservation, claim, starts, spent>>

-----------------------------------------------------------------------------
(* Authorization requests.                                                 *)

RegisterRequest(r, g, now) ==
  /\ mode = "RUNNING" /\ request[r] = None
  /\ request' = [request EXCEPT ![r] = [status |-> "OPEN", gate |-> g, expires |-> now + TTL,
                                        generation |-> generation, source |-> None]]
  /\ UNCHANGED <<mode, generation, clock, leases, operation, reservation, claim, starts, spent>>

SpentSources == {request[r].source : r \in {q \in Request : request[q] # None}} \ {None}

\* A source event that only consumed requests hold on to.
MUsable(s) == \A r \in Request : request[r] # None /\ request[r].status = "CONSUMED"
                                   => request[r].source # s

Usable(s) == s \notin SpentSources

ConsumeRequest(r, g, s, now) ==
  /\ mode = "RUNNING" /\ request[r] # None
  /\ request[r].status = "OPEN" /\ request[r].generation = generation /\ request[r].gate = g
  /\ request[r].expires > now
  /\ Usable(s)
  /\ request' = [request EXCEPT ![r].status = "CONSUMED", ![r].source = s]
  /\ spent' = spent \cup {<<r, s>>}
  /\ UNCHANGED <<mode, generation, clock, leases, operation, reservation, claim, starts>>

\* Whatever its status: a consumed request is revoked as well.
RevokeRequest(r) ==
  /\ request[r] # None
  /\ request' = [request EXCEPT ![r].status = "REVOKED"]
  /\ UNCHANGED <<mode, generation, clock, leases, operation, reservation, claim, starts, spent>>

-----------------------------------------------------------------------------
(* Budgets.                                                                *)

Reserved == {b \in Run : reservation[b] # None}
Of(t) == {b \in Reserved : reservation[b].ticket = t}
On(d) == {b \in Reserved : reservation[b].day = d}

\* Only what is settled counts.
MUsed(b) == IF reservation[b].status = "SETTLED" THEN reservation[b].actual ELSE 0

Used(b) == IF reservation[b].status = "SETTLED" THEN reservation[b].actual ELSE reservation[b].cost

\* A sum is written as the number of the units it counts.
UsedUnits(S) == UNION {{b} \X (1..Used(b)) : b \in S}
Total(S) == Cardinality(UsedUnits(S))

ReserveBudget(b, t, k, now) ==
  LET day == now \div DayLength IN
  /\ mode = "RUNNING" /\ reservation[b] = None /\ k > 0
  /\ Cardinality(Of(t)) < RunLimit
  /\ Total(Of(t)) + k <= CostLimit
  /\ Total(On(day)) + k <= DailyLimit
  /\ reservation' = [reservation EXCEPT ![b] = [status |-> "RESERVED", ticket |-> t, day |-> day,
                                                cost |-> k, actual |-> 0]]
  /\ UNCHANGED <<mode, generation, clock, leases, operation, request, claim, starts, spent>>

Overrun(b, k) == k > reservation[b].cost

SettleBudget(b, k) ==
  /\ reservation[b] # None /\ reservation[b].status = "RESERVED"
  /\ reservation' = [reservation EXCEPT ![b].status = "SETTLED", ![b].actual = k]
  /\ IF Overrun(b, k) THEN EndGeneration /\ mode' = "PAUSED"
                      ELSE UNCHANGED <<mode, generation, leases, request, operation>>
  /\ UNCHANGED <<clock, claim, starts, spent>>

-----------------------------------------------------------------------------
(* Ticket ownership, and time.                                             *)

ClaimGeneration(t) == IF claim[t] = None THEN 1 ELSE claim[t].generation + 1

ClaimIssue(t, o, now) ==
  /\ mode = "RUNNING" /\ ClaimGeneration(t) <= MaxGeneration
  /\ claim[t] # None => claim[t].expires <= now \/ claim[t].owner = o
  /\ claim' = [claim EXCEPT ![t] = [owner |-> o, generation |-> ClaimGeneration(t),
                                    expires |-> now + TTL]]
  /\ UNCHANGED <<mode, generation, clock, leases, operation, request, reservation, starts, spent>>

Tick ==
  /\ clock < MaxClock /\ clock' = clock + 1
  /\ UNCHANGED <<mode, generation, leases, operation, request, reservation, claim, starts, spent>>

StoreInit ==
  /\ mode = "PAUSED" /\ generation = 1 /\ clock = 0
  /\ leases = << >>
  /\ operation = [p \in Operation |-> None]
  /\ request = [r \in Request |-> None]
  /\ reservation = [b \in Run |-> None]
  /\ claim = [t \in Ticket |-> None]
  /\ starts = [p \in Operation |-> 0]
  /\ spent = {}

LeaseStep == \/ \E t \in Task, o \in Owner, now \in 0..clock : AcquireLease(t, o, now)
             \/ \E i \in DOMAIN leases, o \in Owner : ReleaseLease(i, o)

OperationStep == \/ \E p \in Operation : Enqueue(p) \/ BeginOperation(p)
                 \/ \E p \in Operation, s \in {"SUCCEEDED", "FAILED", "UNKNOWN"} : ReconcileOperation(p, s)
                 \/ RecoverInflight

RequestStep == \/ \E r \in Request, g \in Gate, now \in 0..clock :
                    \/ RegisterRequest(r, g, now)
                    \/ \E s \in SourceEvent : ConsumeRequest(r, g, s, now)
               \/ \E r \in Request : RevokeRequest(r)

BudgetStep == \/ \E b \in Run, t \in Ticket, k \in Cost, now \in 0..clock : ReserveBudget(b, t, k, now)
              \/ \E b \in Run, k \in Cost : SettleBudget(b, k)

StoreNext ==
  \/ \E m \in {"PAUSED", "RUNNING", "STOPPED"} : Control(m)
  \/ LeaseStep \/ OperationStep \/ RequestStep \/ BudgetStep
  \/ \E t \in Ticket, o \in Owner, now \in 0..clock : ClaimIssue(t, o, now)
  \/ Tick

StoreSpec == StoreInit /\ [][StoreNext]_storeVars

-----------------------------------------------------------------------------
(* What the operations achieve together.                                   *)

\* A pause, a stop, a resume or a budget overrun leaves nothing of the earlier generation
\* that can still act: whatever is active, open, pending or in flight was created in the
\* current generation, and while the store runs (control, settle_budget).
NothingOutlivesItsGeneration ==
  /\ \A i \in DOMAIN leases : leases[i].status = "ACTIVE" =>
       leases[i].generation = generation /\ mode = "RUNNING"
  /\ \A r \in Request : request[r] # None /\ request[r].status = "OPEN" =>
       request[r].generation = generation /\ mode = "RUNNING"
  /\ \A p \in Operation : operation[p] # None /\ operation[p].status \in {"PENDING", "IN_FLIGHT"} =>
       operation[p].generation = generation /\ mode = "RUNNING"

\* An operation is handed to its executor once at most, however often the store is paused,
\* resumed or recovered in between, and one that was handed out stays visible as in flight,
\* uncertain or reconciled: it is never cancelled and never looks as if it had not begun.
StartsAreAccounted ==
  \A p \in Operation :
    /\ starts[p] <= 1
    /\ starts[p] = 1 <=> /\ operation[p] # None
                        /\ operation[p].status \in {"IN_FLIGHT", "UNKNOWN", "SUCCEEDED", "FAILED"}

\* An owner's authorization event pays for one request, and a request is paid once, also
\* after the request it paid for was revoked (consume_request, revoke_request).
SourcePaysOnce == \A a, b \in spent : a # b => a[1] # b[1] /\ a[2] # b[2]

\* What the store hands out, an operation to its executor or an authorization to its
\* request, it hands out once, and neither a pause nor a recovery makes it forget that.
HandedOutOnce == StartsAreAccounted /\ SourcePaysOnce

\* Of the leases of a task only the newest can pass check_lease, at whatever time the
\* caller read, so two holders of a task never both believe that they hold it.
OnlyNewestLeaseActs ==
  \A i, j \in DOMAIN leases : i < j /\ leases[i].task = leases[j].task =>
    \A o \in Owner, now \in 0..clock : ~CheckLease(i, o, now)

\* Whoever acts on the store does so in its current generation, and alone: neither a pause,
\* an expiry nor a later acquisition leaves a second one who may.
OnlyTheCurrentActs == NothingOutlivesItsGeneration /\ OnlyNewestLeaseActs

\* A lease that failed its check at the current time has failed for good: neither a resume
\* nor a recovery nor an acquisition brings it back.
NoLeaseRevival ==
  [][\A i \in DOMAIN leases, o \in Owner : ~CheckLease(i, o, clock) => ~CheckLease(i, o, clock)']_storeVars

\* A run is charged what it reserved, or less if it used less.
Charge(b) == IF reservation[b].status = "SETTLED" /\ reservation[b].actual < reservation[b].cost
               THEN reservation[b].actual ELSE reservation[b].cost
ChargedUnits(S) == UNION {{b} \X (1..Charge(b)) : b \in S}

\* Apart from what a run used beyond its own reservation, what a ticket and a day are
\* charged stays within the limits, although settling replaces estimates by what was used.
SpendWithinLimits ==
  /\ \A t \in Ticket : Cardinality(Of(t)) <= RunLimit /\ Cardinality(ChargedUnits(Of(t))) <= CostLimit
  /\ \A b \in Reserved : Cardinality(ChargedUnits(On(reservation[b].day))) <= DailyLimit

\* The leases that are active never demand more of a class than the host has, whatever time
\* the callers read that expired and acquired them.
CapacityKept == \A c \in Class : Cardinality(Units(leases, c)) <= Limit[c]

\* The store promises neither capacity nor money that is not there.
NothingOvercommitted == CapacityKept /\ SpendWithinLimits

=============================================================================
