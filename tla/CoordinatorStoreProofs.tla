----------------------- MODULE CoordinatorStoreProofs -----------------------
(***************************************************************************)
(* What the coordinator store keeps for every number of tasks, owners,     *)
(* operations, requests and budgets, and however long it runs.             *)
(***************************************************************************)
EXTENDS CoordinatorStore, FiniteSetTheorems, TLAPS

LEMMA NoneIsNoRow == None \notin OperationRow /\ None \notin RequestRow
BY StoreAssumption DEF OperationRow, RequestRow

\* The rows that the operations replace, and their types.
LEMMA EndGenerationType ==
  ASSUME StoreTypeOK, EndGeneration
  PROVE  /\ generation' \in Nat /\ leases' \in Seq(LeaseRow)
         /\ operation' \in [Operation -> OperationRow \cup {None}]
         /\ request' \in [Request -> RequestRow \cup {None}]
<1>1. generation' \in Nat BY DEF StoreTypeOK, EndGeneration
<1>2. leases' \in Seq(LeaseRow)
  <2>1. PICK n \in Nat : leases \in [1..n -> LeaseRow] BY DEF StoreTypeOK
  <2>2. DOMAIN leases = 1..n BY <2>1
  <2>3. ASSUME NEW i \in 1..n PROVE [leases[i] EXCEPT !.status = "REVOKED"] \in LeaseRow
    BY <2>1 DEF LeaseRow
  <2>4. RevokedLeases \in [1..n -> LeaseRow] BY <2>1, <2>2, <2>3 DEF RevokedLeases
  <2> QED BY <2>4 DEF EndGeneration
<1>3. operation' \in [Operation -> OperationRow \cup {None}]
  <2>1. ASSUME NEW p \in Operation, operation[p] # None
        PROVE  [operation[p] EXCEPT !.status = Settled(operation[p].status)] \in OperationRow
    <3>1. operation[p] \in OperationRow BY <2>1 DEF StoreTypeOK
    <3>2. Settled(operation[p].status) \in
            {"PENDING", "IN_FLIGHT", "UNKNOWN", "SUCCEEDED", "FAILED", "CANCELLED"}
      BY <3>1 DEF OperationRow, Settled
    <3> QED BY <3>1, <3>2 DEF OperationRow
  <2> QED BY <2>1 DEF EndGeneration, SettledOperations
<1>4. request' \in [Request -> RequestRow \cup {None}]
  <2>1. ASSUME NEW r \in Request, request[r] # None
        PROVE  [request[r] EXCEPT !.status = "REVOKED"] \in RequestRow
    <3>1. request[r] \in RequestRow BY <2>1 DEF StoreTypeOK
    <3> QED BY <3>1 DEF RequestRow
  <2> QED BY <2>1 DEF EndGeneration, RevokedRequests, StoreTypeOK
<1> QED BY <1>1, <1>2, <1>3, <1>4

\* Expiring rows keeps the table a table of leases, of the same length.
LEMMA ExpiredType ==
  ASSUME NEW table \in Seq(LeaseRow), NEW now
  PROVE  /\ Expired(table, now) \in Seq(LeaseRow)
         /\ DOMAIN Expired(table, now) = DOMAIN table
         /\ Len(Expired(table, now)) = Len(table)
<1>1. PICK n \in Nat : table \in [1..n -> LeaseRow] OBVIOUS
<1>2. DOMAIN table = 1..n BY <1>1
<1>3. ASSUME NEW i \in 1..n PROVE [table[i] EXCEPT !.status = "EXPIRED"] \in LeaseRow
  BY <1>1 DEF LeaseRow
<1>4. Expired(table, now) \in [1..n -> LeaseRow] BY <1>1, <1>2, <1>3 DEF Expired
<1>5. Expired(table, now) \in Seq(LeaseRow) /\ DOMAIN Expired(table, now) = 1..n BY <1>4
<1> QED BY <1>2, <1>5

LEMMA AcquireType ==
  ASSUME StoreTypeOK, StoreAssumption,
         NEW t \in Task, NEW o \in Owner, NEW now \in 0..clock, AcquireLease(t, o, now)
  PROVE  leases' \in Seq(LeaseRow)
<1> DEFINE table == Expired(leases, now)
<1>1. table \in Seq(LeaseRow) BY ExpiredType DEF StoreTypeOK
<1>2. [task |-> t, owner |-> o, expires |-> now + TTL, generation |-> generation, status |-> "ACTIVE"]
        \in LeaseRow
  BY DEF LeaseRow, StoreTypeOK, StoreAssumption
<1>3. \/ leases' = table
      \/ leases' = Append(table, [task |-> t, owner |-> o, expires |-> now + TTL,
                                  generation |-> generation, status |-> "ACTIVE"])
  BY DEF AcquireLease
<1> HIDE DEF table
<1> QED BY <1>1, <1>2, <1>3

LEMMA ReleaseType ==
  ASSUME StoreTypeOK, NEW i \in DOMAIN leases, NEW o \in Owner, ReleaseLease(i, o)
  PROVE  leases' \in Seq(LeaseRow)
<1>1. PICK n \in Nat : leases \in [1..n -> LeaseRow] BY DEF StoreTypeOK
<1>2. i \in 1..n BY <1>1
<1>3. leases[i] \in LeaseRow BY <1>1, <1>2
<1>4. [leases[i] EXCEPT !.status = "RELEASED"] \in LeaseRow BY <1>3 DEF LeaseRow
<1>5. leases' = [leases EXCEPT ![i] = [leases[i] EXCEPT !.status = "RELEASED"]]
  BY DEF ReleaseLease
<1>6. leases' \in [1..n -> LeaseRow] BY <1>1, <1>2, <1>4, <1>5
<1> QED BY <1>6

LEMMA StoreTypeInit == ASSUME StoreAssumption, StoreInit PROVE StoreTypeOK
BY DEF StoreInit, StoreTypeOK, StoreAssumption

LEMMA LeaseStepType == ASSUME StoreTypeOK, StoreAssumption, LeaseStep PROVE StoreTypeOK'
<1>1. CASE \E t \in Task, o \in Owner, now \in 0..clock : AcquireLease(t, o, now)
  <2>1. PICK t \in Task, o \in Owner, now \in 0..clock : AcquireLease(t, o, now) BY <1>1
  <2>2. leases' \in Seq(LeaseRow) BY <2>1, AcquireType
  <2> QED BY <2>1, <2>2 DEF AcquireLease, StoreTypeOK
<1>2. CASE \E i \in DOMAIN leases, o \in Owner : ReleaseLease(i, o)
  <2>1. PICK i \in DOMAIN leases, o \in Owner : ReleaseLease(i, o) BY <1>2
  <2>2. leases' \in Seq(LeaseRow) BY <2>1, ReleaseType
  <2> QED BY <2>1, <2>2 DEF ReleaseLease, StoreTypeOK
<1> QED BY <1>1, <1>2 DEF LeaseStep

\* A change of the status of an operation keeps its row a row.
LEMMA OperationStatus ==
  ASSUME StoreTypeOK, NEW p \in Operation, operation[p] # None,
         NEW s \in {"PENDING", "IN_FLIGHT", "UNKNOWN", "SUCCEEDED", "FAILED", "CANCELLED"}
  PROVE  /\ [operation[p] EXCEPT !.status = s] \in OperationRow
         /\ [operation EXCEPT ![p].status = s] \in [Operation -> OperationRow \cup {None}]
         /\ [operation EXCEPT ![p].status = s][p] = [operation[p] EXCEPT !.status = s]
<1>1. operation[p] \in OperationRow BY DEF StoreTypeOK
<1>2. [operation[p] EXCEPT !.status = s] \in OperationRow BY <1>1 DEF OperationRow
<1>3. [operation EXCEPT ![p].status = s] = [operation EXCEPT ![p] = [operation[p] EXCEPT !.status = s]]
  OBVIOUS
<1> QED BY <1>2, <1>3 DEF StoreTypeOK

LEMMA OperationStepType == ASSUME StoreTypeOK, StoreAssumption, OperationStep PROVE StoreTypeOK'
<1>1. ASSUME NEW p \in Operation, Enqueue(p) PROVE StoreTypeOK'
  <2>1. [status |-> "PENDING", generation |-> generation] \in OperationRow
    BY DEF OperationRow, StoreTypeOK
  <2> QED BY <1>1, <2>1 DEF Enqueue, StoreTypeOK
<1>2. ASSUME NEW p \in Operation, BeginOperation(p) PROVE StoreTypeOK'
  <2>1. operation' \in [Operation -> OperationRow \cup {None}]
    BY <1>2, OperationStatus DEF BeginOperation
  <2>2. starts' \in [Operation -> Nat] BY <1>2 DEF BeginOperation, StoreTypeOK
  <2> QED BY <1>2, <2>1, <2>2 DEF BeginOperation, StoreTypeOK
<1>3. ASSUME NEW p \in Operation, NEW s \in {"SUCCEEDED", "FAILED", "UNKNOWN"}, ReconcileOperation(p, s)
      PROVE  StoreTypeOK'
  <2>1. operation' \in [Operation -> OperationRow \cup {None}]
    BY <1>3, OperationStatus DEF ReconcileOperation
  <2> QED BY <1>3, <2>1 DEF ReconcileOperation, StoreTypeOK
<1>4. CASE RecoverInflight
  <2>1. ASSUME NEW p \in Operation, operation[p] # None
        PROVE  [operation[p] EXCEPT !.status = "UNKNOWN"] \in OperationRow
    BY <2>1, OperationStatus
  <2>2. operation' \in [Operation -> OperationRow \cup {None}]
    BY <1>4, <2>1 DEF RecoverInflight, StoreTypeOK
  <2> QED BY <1>4, <2>2 DEF RecoverInflight, StoreTypeOK
<1> QED BY <1>1, <1>2, <1>3, <1>4 DEF OperationStep

LEMMA RequestStepType == ASSUME StoreTypeOK, StoreAssumption, RequestStep PROVE StoreTypeOK'
<1>1. ASSUME NEW r \in Request, NEW g \in Gate, NEW now \in 0..clock, RegisterRequest(r, g, now)
      PROVE  StoreTypeOK'
  <2>1. [status |-> "OPEN", gate |-> g, expires |-> now + TTL, generation |-> generation, source |-> None]
          \in RequestRow
    BY DEF RequestRow, StoreTypeOK, StoreAssumption
  <2> QED BY <1>1, <2>1 DEF RegisterRequest, StoreTypeOK
<1>2. ASSUME NEW r \in Request, NEW g \in Gate, NEW now \in 0..clock, NEW s \in SourceEvent,
             ConsumeRequest(r, g, s, now)
      PROVE  StoreTypeOK'
  <2>1. request[r] \in RequestRow BY <1>2 DEF ConsumeRequest, StoreTypeOK
  <2>2. [request[r] EXCEPT !.status = "CONSUMED", !.source = s] \in RequestRow BY <2>1 DEF RequestRow
  <2>3. request' = [request EXCEPT ![r] = [request[r] EXCEPT !.status = "CONSUMED", !.source = s]]
    BY <1>2 DEF ConsumeRequest, StoreTypeOK
  <2>4. spent' \subseteq Request \X SourceEvent BY <1>2 DEF ConsumeRequest, StoreTypeOK
  <2> QED BY <1>2, <2>2, <2>3, <2>4 DEF ConsumeRequest, StoreTypeOK
<1>3. ASSUME NEW r \in Request, RevokeRequest(r) PROVE StoreTypeOK'
  <2>1. request[r] \in RequestRow BY <1>3 DEF RevokeRequest, StoreTypeOK
  <2>2. [request[r] EXCEPT !.status = "REVOKED"] \in RequestRow BY <2>1 DEF RequestRow
  <2>3. request' = [request EXCEPT ![r] = [request[r] EXCEPT !.status = "REVOKED"]]
    BY <1>3 DEF RevokeRequest, StoreTypeOK
  <2> QED BY <1>3, <2>2, <2>3 DEF RevokeRequest, StoreTypeOK
<1> QED BY <1>1, <1>2, <1>3 DEF RequestStep

LEMMA BudgetStepType == ASSUME StoreTypeOK, StoreAssumption, BudgetStep PROVE StoreTypeOK'
<1>1. ASSUME NEW b \in Run, NEW t \in Ticket, NEW k \in Cost, NEW now \in 0..clock,
             ReserveBudget(b, t, k, now)
      PROVE  StoreTypeOK'
  <2>1. now \div DayLength \in Nat
    <3>1. now \in Nat /\ DayLength \in Nat \ {0} BY DEF StoreTypeOK, StoreAssumption
    <3> QED BY <3>1
  <2>2. [status |-> "RESERVED", ticket |-> t, day |-> now \div DayLength, cost |-> k, actual |-> 0]
          \in ReservationRow
    BY <2>1 DEF ReservationRow, StoreAssumption
  <2> QED BY <1>1, <2>2 DEF ReserveBudget, StoreTypeOK
<1>2. ASSUME NEW b \in Run, NEW k \in Cost, SettleBudget(b, k) PROVE StoreTypeOK'
  <2>1. reservation[b] \in ReservationRow BY <1>2 DEF SettleBudget, StoreTypeOK
  <2>2. [reservation[b] EXCEPT !.status = "SETTLED", !.actual = k] \in ReservationRow
    BY <2>1 DEF ReservationRow, StoreAssumption
  <2>3. reservation' = [reservation EXCEPT ![b] = [reservation[b] EXCEPT !.status = "SETTLED", !.actual = k]]
    BY <1>2 DEF SettleBudget, StoreTypeOK
  <2>4. reservation' \in [Run -> ReservationRow \cup {None}] BY <2>2, <2>3 DEF StoreTypeOK
  <2>5. CASE Overrun(b, k)
    <3>1. EndGeneration /\ mode' = "PAUSED" BY <1>2, <2>5 DEF SettleBudget
    <3> QED BY <1>2, <2>4, <3>1, EndGenerationType DEF SettleBudget, StoreTypeOK
  <2>6. CASE ~Overrun(b, k)
    BY <1>2, <2>4, <2>6 DEF SettleBudget, StoreTypeOK
  <2> QED BY <2>5, <2>6
<1> QED BY <1>1, <1>2 DEF BudgetStep

LEMMA StoreTypeStep == ASSUME StoreTypeOK, StoreAssumption, [StoreNext]_storeVars PROVE StoreTypeOK'
<1>1. ASSUME NEW m \in {"PAUSED", "RUNNING", "STOPPED"}, Control(m) PROVE StoreTypeOK'
  BY <1>1, EndGenerationType DEF Control, StoreTypeOK
<1>2. ASSUME NEW t \in Ticket, NEW o \in Owner, NEW now \in 0..clock, ClaimIssue(t, o, now)
      PROVE  StoreTypeOK'
  <2>1. ClaimGeneration(t) \in Nat BY DEF ClaimGeneration, StoreTypeOK, ClaimRow
  <2>2. [owner |-> o, generation |-> ClaimGeneration(t), expires |-> now + TTL] \in ClaimRow
    BY <2>1 DEF ClaimRow, StoreTypeOK, StoreAssumption
  <2> QED BY <1>2, <2>2 DEF ClaimIssue, StoreTypeOK
<1>3. CASE Tick BY <1>3 DEF Tick, StoreTypeOK
<1>4. CASE UNCHANGED storeVars BY <1>4 DEF storeVars, StoreTypeOK
<1> QED BY <1>1, <1>2, <1>3, <1>4, LeaseStepType, OperationStepType, RequestStepType, BudgetStepType
     DEF StoreNext

\* Every row of the store's tables stays of its type (the tables of DDL and their updates).
THEOREM StoreTypeCorrect == StoreSpec => []StoreTypeOK
<1>1. StoreInit => StoreTypeOK BY StoreTypeInit, StoreAssumption
<1>2. StoreTypeOK /\ [StoreNext]_storeVars => StoreTypeOK' BY StoreTypeStep, StoreAssumption
<1> QED BY <1>1, <1>2, PTL DEF StoreSpec

-----------------------------------------------------------------------------
(* Leases.                                                                 *)

\* A row that a step leaves as it was, or takes out of use.
Faded(i) == leases'[i] = leases[i] \/ (leases'[i].task = leases[i].task /\ leases'[i].status # "ACTIVE")

\* What a step does to the lease table: rows fade, and the newest row is added only while the
\* store runs and its task holds nothing active.
LEMMA LeaseTableStep ==
  ASSUME StoreTypeOK, StoreTypeOK', [StoreNext]_storeVars, NEW n \in Nat, DOMAIN leases = 1..n
  PROVE  /\ \A i \in 1..n : Faded(i)
         /\ \/ DOMAIN leases' = 1..n
            \/ /\ DOMAIN leases' = 1..(n + 1)
               /\ mode = "RUNNING" /\ mode' = mode /\ generation' = generation
               /\ leases'[n + 1].status = "ACTIVE" /\ leases'[n + 1].generation = generation
               /\ \A j \in 1..n : leases'[j].status = "ACTIVE" => leases'[j].task # leases'[n + 1].task
         /\ \/ mode' = mode /\ generation' = generation /\ ~EndGeneration
            \/ DOMAIN leases' = 1..n /\ \A i \in 1..n : leases'[i].status # "ACTIVE"
<1>1. leases \in [1..n -> LeaseRow] BY DEF StoreTypeOK
<1>2. Len(leases) = n BY <1>1
<1>3. ASSUME NEW t \in Task, NEW o \in Owner, NEW now \in 0..clock, AcquireLease(t, o, now)
      PROVE  /\ \A i \in 1..n : Faded(i)
             /\ \/ DOMAIN leases' = 1..n
                \/ /\ DOMAIN leases' = 1..(n + 1)
                   /\ leases'[n + 1].status = "ACTIVE" /\ leases'[n + 1].generation = generation
                   /\ \A j \in 1..n : leases'[j].status = "ACTIVE" => leases'[j].task # leases'[n + 1].task
  <2> DEFINE table == Expired(leases, now)
             new == [task |-> t, owner |-> o, expires |-> now + TTL, generation |-> generation,
                     status |-> "ACTIVE"]
  <2>1. table \in Seq(LeaseRow) /\ DOMAIN table = 1..n /\ Len(table) = n
    BY <1>2, ExpiredType DEF StoreTypeOK
  <2>2. ASSUME NEW j \in 1..n
        PROVE  table[j] = leases[j] \/ (table[j].task = leases[j].task /\ table[j].status # "ACTIVE")
    <3>1. leases[j] \in LeaseRow BY <1>1
    <3>2. table[j] = IF Lapsed(leases[j], now) THEN [leases[j] EXCEPT !.status = "EXPIRED"] ELSE leases[j]
      BY DEF Expired
    <3> QED BY <3>1, <3>2 DEF LeaseRow
  <2>3. CASE HeldBy(table, t) # {}
    <3>1. leases' = table BY <1>3, <2>3 DEF AcquireLease
    <3> QED BY <2>1, <2>2, <3>1 DEF Faded
  <2>4. CASE HeldBy(table, t) = {}
    <3>1. leases' = Append(table, new) BY <1>3, <2>4 DEF AcquireLease
    <3>2. \A j \in 1..n : table[j].status = "ACTIVE" => table[j].task # t
      BY <2>1, <2>4 DEF HeldBy, Active
    <3> HIDE DEF table
    <3>3. DOMAIN leases' = 1..(n + 1) /\ leases'[n + 1] = new /\ \A j \in 1..n : leases'[j] = table[j]
      BY <2>1, <3>1
    <3>4. \A j \in 1..n : Faded(j) BY <2>2, <3>3 DEF Faded
    <3> QED BY <3>2, <3>3, <3>4
  <2> QED BY <2>3, <2>4
<1>4. CASE \E t \in Task, o \in Owner, now \in 0..clock : AcquireLease(t, o, now)
  <2>1. mode = "RUNNING" /\ mode' = mode /\ generation' = generation BY <1>4 DEF AcquireLease
  <2>2. ~EndGeneration BY <2>1 DEF EndGeneration, StoreTypeOK
  <2> QED BY <1>3, <1>4, <2>1, <2>2
<1>5. CASE \E k \in DOMAIN leases, o \in Owner : ReleaseLease(k, o)
  <2>1. PICK k \in DOMAIN leases, o \in Owner : ReleaseLease(k, o) BY <1>5
  <2>2. leases' = [leases EXCEPT ![k] = [leases[k] EXCEPT !.status = "RELEASED"]]
    BY <2>1 DEF ReleaseLease
  <2>3. leases[k] \in LeaseRow BY <1>1
  <2>4. [leases[k] EXCEPT !.status = "RELEASED"].task = leases[k].task
        /\ [leases[k] EXCEPT !.status = "RELEASED"].status = "RELEASED"
    BY <2>3 DEF LeaseRow
  <2>5. DOMAIN leases' = 1..n /\ \A i \in 1..n : Faded(i) BY <1>1, <2>2, <2>4 DEF Faded
  <2>6. ~EndGeneration BY <2>1 DEF ReleaseLease, EndGeneration, StoreTypeOK
  <2> QED BY <2>1, <2>5, <2>6 DEF ReleaseLease
<1>6. CASE EndGeneration
  <2>1. leases' = RevokedLeases BY <1>6 DEF EndGeneration
  <2>2. ASSUME NEW i \in 1..n PROVE leases'[i].task = leases[i].task /\ leases'[i].status # "ACTIVE"
    <3>1. leases[i] \in LeaseRow BY <1>1
    <3>2. leases'[i] = IF leases[i].status = "ACTIVE" THEN [leases[i] EXCEPT !.status = "REVOKED"] ELSE leases[i]
      BY <2>1 DEF RevokedLeases
    <3> QED BY <3>1, <3>2 DEF LeaseRow
  <2>3. DOMAIN leases' = 1..n BY <2>1 DEF RevokedLeases
  <2> QED BY <2>2, <2>3 DEF Faded
<1>7. CASE UNCHANGED <<leases, generation, mode>>
  <2>1. ~EndGeneration BY <1>7 DEF EndGeneration, StoreTypeOK
  <2> QED BY <1>7, <2>1 DEF Faded
<1>8. LeaseStep \/ EndGeneration \/ UNCHANGED <<leases, generation, mode>>
  BY ZenonT(60) DEF StoreNext, storeVars, Control, OperationStep, Enqueue, BeginOperation, ReconcileOperation,
         RecoverInflight, RequestStep, RegisterRequest, ConsumeRequest, RevokeRequest,
         BudgetStep, ReserveBudget, SettleBudget, ClaimIssue, Tick
<1> QED BY <1>4, <1>5, <1>6, <1>7, <1>8 DEF LeaseStep

LEMMA LeaseTable == ASSUME StoreTypeOK PROVE \E n \in Nat : DOMAIN leases = 1..n
BY DEF StoreTypeOK

\* Of the leases of a task only the newest is active.
OneActive == \A i, j \in DOMAIN leases : i < j /\ leases[i].task = leases[j].task
                                           => leases[i].status # "ACTIVE"

LEMMA OneActiveStep ==
  ASSUME StoreTypeOK, StoreTypeOK', [StoreNext]_storeVars, OneActive PROVE OneActive'
<1>1. PICK n \in Nat : DOMAIN leases = 1..n BY LeaseTable
<1>2. \A i \in 1..n : Faded(i) BY <1>1, LeaseTableStep
<1>3. ASSUME NEW i \in 1..n, NEW j \in 1..n, i < j, leases'[i].task = leases'[j].task
      PROVE  leases'[i].status # "ACTIVE"
  BY <1>1, <1>2, <1>3 DEF OneActive, Faded
<1>4. CASE DOMAIN leases' = 1..n BY <1>3, <1>4 DEF OneActive
<1>5. CASE /\ DOMAIN leases' = 1..(n + 1)
           /\ \A j \in 1..n : leases'[j].status = "ACTIVE" => leases'[j].task # leases'[n + 1].task
  <2> SUFFICES ASSUME NEW i \in 1..(n + 1), NEW j \in 1..(n + 1), i < j, leases'[i].task = leases'[j].task
               PROVE  leases'[i].status # "ACTIVE"
    BY <1>5 DEF OneActive
  <2>1. i \in 1..n /\ (j \in 1..n \/ j = n + 1) OBVIOUS
  <2> QED BY <1>3, <1>5, <2>1
<1> QED BY <1>1, <1>4, <1>5, LeaseTableStep

\* Two controllers never both pass check_lease for one task: only the newest lease of a task
\* can pass it, whatever time its caller read.
THEOREM OnlyNewestLease == StoreSpec => []OnlyNewestLeaseActs
<1>1. StoreInit => OneActive BY DEF StoreInit, OneActive
<1>2. StoreTypeOK /\ StoreTypeOK' /\ OneActive /\ [StoreNext]_storeVars => OneActive' BY OneActiveStep
<1>3. OneActive => OnlyNewestLeaseActs BY DEF OneActive, OnlyNewestLeaseActs, CheckLease
<1> QED BY <1>1, <1>2, <1>3, StoreTypeCorrect, PTL DEF StoreSpec

LEMMA NoRevivalStep ==
  ASSUME StoreTypeOK, StoreTypeOK', [StoreNext]_storeVars
  PROVE  \A i \in DOMAIN leases, o \in Owner : ~CheckLease(i, o, clock) => ~CheckLease(i, o, clock)'
<1> SUFFICES ASSUME NEW i \in DOMAIN leases, NEW o \in Owner, CheckLease(i, o, clock)'
             PROVE  CheckLease(i, o, clock)
  OBVIOUS
<1>1. PICK n \in Nat : DOMAIN leases = 1..n BY LeaseTable
<1>2. leases'[i].status = "ACTIVE" /\ mode' = "RUNNING" /\ leases'[i].owner = o
      /\ leases'[i].generation = generation' /\ leases'[i].expires > clock'
  BY DEF CheckLease
<1>3. leases'[i] = leases[i] BY <1>1, <1>2, LeaseTableStep DEF Faded
<1>4. mode' = mode /\ generation' = generation BY <1>1, <1>2, LeaseTableStep
<1>5. clock' = clock \/ clock' = clock + 1
  <2>1. CASE LeaseStep BY <2>1 DEF LeaseStep, AcquireLease, ReleaseLease
  <2>2. CASE OperationStep
    BY <2>2 DEF OperationStep, Enqueue, BeginOperation, ReconcileOperation, RecoverInflight
  <2>3. CASE RequestStep BY <2>3 DEF RequestStep, RegisterRequest, ConsumeRequest, RevokeRequest
  <2>4. CASE BudgetStep BY <2>4 DEF BudgetStep, ReserveBudget, SettleBudget
  <2> QED BY <2>1, <2>2, <2>3, <2>4 DEF StoreNext, storeVars, Control, ClaimIssue, Tick
<1>6. clock <= clock' BY <1>5 DEF StoreTypeOK
<1>7. leases[i] \in LeaseRow
  <2>1. leases \in Seq(LeaseRow) /\ i \in DOMAIN leases BY DEF StoreTypeOK
  <2> QED BY <2>1
<1>8. leases[i].expires \in Nat /\ clock \in Nat /\ clock' \in Nat BY <1>7 DEF StoreTypeOK, LeaseRow
<1> QED BY <1>2, <1>3, <1>4, <1>6, <1>8 DEF CheckLease

\* A lease that fails its check at the current time fails it ever after (check_lease).
THEOREM NoLeaseComesBack == StoreSpec => NoLeaseRevival
<1>1. StoreTypeOK /\ StoreTypeOK' /\ [StoreNext]_storeVars =>
        \A i \in DOMAIN leases, o \in Owner : ~CheckLease(i, o, clock) => ~CheckLease(i, o, clock)'
  BY NoRevivalStep
<1> QED BY <1>1, StoreTypeCorrect, PTL DEF StoreSpec, NoLeaseRevival

-----------------------------------------------------------------------------
(* Operations and generations.                                             *)

\* What the end of a generation leaves of an operation and of a request.
LEMMA GenerationEnds ==
  ASSUME StoreTypeOK, EndGeneration
  PROVE  /\ \A p \in Operation : operation[p] = None => operation'[p] = None
         /\ \A p \in Operation : operation[p] # None =>
              /\ operation'[p] # None
              /\ operation'[p].status = Settled(operation[p].status)
         /\ \A r \in Request : request[r] = None => request'[r] = None
         /\ \A r \in Request : request[r] # None =>
              /\ request'[r] # None /\ request'[r].status # "OPEN"
              /\ request'[r].source = request[r].source
<1>1. ASSUME NEW p \in Operation, operation[p] # None
      PROVE  operation'[p] # None /\ operation'[p].status = Settled(operation[p].status)
  <2>1. operation[p] \in OperationRow BY <1>1 DEF StoreTypeOK
  <2>2. operation'[p] = [operation[p] EXCEPT !.status = Settled(operation[p].status)]
    BY <1>1 DEF EndGeneration, SettledOperations
  <2>3. Settled(operation[p].status) \in
          {"PENDING", "IN_FLIGHT", "UNKNOWN", "SUCCEEDED", "FAILED", "CANCELLED"}
    BY <2>1 DEF OperationRow, Settled
  <2>4. operation'[p] \in OperationRow BY <2>1, <2>2, <2>3 DEF OperationRow
  <2> QED BY <2>1, <2>2, <2>4, NoneIsNoRow DEF OperationRow
<1>2. ASSUME NEW r \in Request, request[r] # None
      PROVE  /\ request'[r] # None /\ request'[r].status # "OPEN"
             /\ request'[r].source = request[r].source
  <2>1. request[r] \in RequestRow BY <1>2 DEF StoreTypeOK
  <2>2. request'[r] = IF request[r].status = "OPEN" THEN [request[r] EXCEPT !.status = "REVOKED"] ELSE request[r]
    BY <1>2 DEF EndGeneration, RevokedRequests
  <2>3. request'[r] \in RequestRow BY <2>1, <2>2 DEF RequestRow
  <2> QED BY <2>1, <2>2, <2>3, NoneIsNoRow DEF RequestRow
<1> QED BY <1>1, <1>2 DEF EndGeneration, SettledOperations, RevokedRequests

\* The part of NothingOutlivesItsGeneration and of StartsAreAccounted about one operation.
OperationCurrent(p) ==
  operation[p] # None /\ operation[p].status \in {"PENDING", "IN_FLIGHT"}
    => operation[p].generation = generation /\ mode = "RUNNING"

OperationAccounted(p) ==
  /\ starts[p] <= 1
  /\ starts[p] = 1 <=> /\ operation[p] # None
                      /\ operation[p].status \in {"IN_FLIGHT", "UNKNOWN", "SUCCEEDED", "FAILED"}

\* The rows after a change of status.
LEMMA StatusChanged ==
  ASSUME StoreTypeOK, NEW p \in Operation, operation[p] # None,
         NEW s \in {"PENDING", "IN_FLIGHT", "UNKNOWN", "SUCCEEDED", "FAILED", "CANCELLED"},
         operation' = [operation EXCEPT ![p].status = s]
  PROVE  /\ operation'[p] # None /\ operation'[p].status = s
         /\ operation'[p].generation = operation[p].generation
         /\ \A q \in Operation \ {p} : operation'[q] = operation[q]
<1>1. operation[p] \in OperationRow BY DEF StoreTypeOK
<1>2. operation'[p] = [operation[p] EXCEPT !.status = s] BY OperationStatus
<1>3. operation'[p] \in OperationRow /\ operation'[p].status = s
      /\ operation'[p].generation = operation[p].generation
  BY <1>1, <1>2 DEF OperationRow
<1> QED BY <1>3, NoneIsNoRow DEF StoreTypeOK

LEMMA OperationsStep ==
  ASSUME StoreTypeOK, StoreTypeOK', [StoreNext]_storeVars, NEW q \in Operation,
         OperationCurrent(q), OperationAccounted(q)
  PROVE  OperationCurrent(q)' /\ OperationAccounted(q)'
<1> USE DEF OperationCurrent, OperationAccounted
<1>1. starts[q] \in Nat BY DEF StoreTypeOK
<1>2. CASE EndGeneration /\ starts' = starts
  BY <1>2, GenerationEnds DEF Settled
<1>3. ASSUME NEW p \in Operation, Enqueue(p) PROVE OperationCurrent(q)' /\ OperationAccounted(q)'
  <2>1. operation'[q] = operation[q] \/ (operation'[q] = [status |-> "PENDING", generation |-> generation]
                                         /\ operation[q] = None)
    BY <1>3 DEF Enqueue, StoreTypeOK
  <2> QED BY <1>1, <1>3, <2>1, NoneIsNoRow DEF Enqueue
<1>4. ASSUME NEW p \in Operation, BeginOperation(p) PROVE OperationCurrent(q)' /\ OperationAccounted(q)'
  <2>1. operation'[p] # None /\ operation'[p].status = "IN_FLIGHT"
        /\ operation'[p].generation = operation[p].generation
        /\ \A x \in Operation \ {p} : operation'[x] = operation[x]
    BY <1>4, StatusChanged DEF BeginOperation
  <2>2. starts'[p] = starts[p] + 1 /\ \A x \in Operation \ {p} : starts'[x] = starts[x]
    BY <1>4 DEF BeginOperation, StoreTypeOK
  <2>3. operation[p].status = "PENDING" /\ operation[p].generation = generation
        /\ mode = "RUNNING" /\ mode' = mode /\ generation' = generation
    BY <1>4 DEF BeginOperation
  <2>4. CASE q = p
    <3>1. starts[q] = 0 BY <1>1, <2>3, <2>4
    <3> QED BY <2>1, <2>2, <2>3, <2>4, <3>1
  <2>5. CASE q # p BY <2>1, <2>2, <2>3, <2>5
  <2> QED BY <2>4, <2>5
<1>5. ASSUME NEW p \in Operation, NEW s \in {"SUCCEEDED", "FAILED", "UNKNOWN"}, ReconcileOperation(p, s)
      PROVE  OperationCurrent(q)' /\ OperationAccounted(q)'
  <2>1. operation'[p] # None /\ operation'[p].status = s
        /\ \A x \in Operation \ {p} : operation'[x] = operation[x]
    BY <1>5, StatusChanged DEF ReconcileOperation
  <2>2. UNCHANGED <<mode, generation, starts>> /\ operation[p] # None
        /\ operation[p].status \in {"IN_FLIGHT", "UNKNOWN"}
    BY <1>5 DEF ReconcileOperation
  <2>3. CASE q = p BY <2>1, <2>2, <2>3
  <2>4. CASE q # p BY <2>1, <2>2, <2>4
  <2> QED BY <2>3, <2>4
<1>6. CASE RecoverInflight
  <2>1. CASE operation[q] # None /\ operation[q].status = "IN_FLIGHT"
    <3>1. operation'[q] = [operation[q] EXCEPT !.status = "UNKNOWN"] BY <1>6, <2>1 DEF RecoverInflight
    <3>2. operation[q] \in OperationRow BY <2>1 DEF StoreTypeOK
    <3>3. operation'[q] \in OperationRow /\ operation'[q].status = "UNKNOWN"
      BY <3>1, <3>2 DEF OperationRow
    <3> QED BY <1>6, <2>1, <3>3, NoneIsNoRow DEF RecoverInflight
  <2>2. CASE ~(operation[q] # None /\ operation[q].status = "IN_FLIGHT")
    <3>1. operation'[q] = operation[q] BY <1>6, <2>2 DEF RecoverInflight
    <3> QED BY <1>6, <3>1 DEF RecoverInflight
  <2> QED BY <2>1, <2>2
<1>7. CASE UNCHANGED <<mode, generation, operation, starts>> BY <1>7
<1>8. OperationStep \/ (EndGeneration /\ starts' = starts) \/ UNCHANGED <<mode, generation, operation, starts>>
  <2>1. CASE LeaseStep BY <2>1 DEF LeaseStep, AcquireLease, ReleaseLease
  <2>2. CASE RequestStep BY <2>2, ZenonT(60) DEF RequestStep, RegisterRequest, ConsumeRequest, RevokeRequest
  <2>3. CASE BudgetStep BY <2>3 DEF BudgetStep, ReserveBudget, SettleBudget
  <2> QED BY <2>1, <2>2, <2>3 DEF StoreNext, storeVars, Control, ClaimIssue, Tick
<1> QED BY <1>2, <1>3, <1>4, <1>5, <1>6, <1>7, <1>8 DEF OperationStep

\* The part of NothingOutlivesItsGeneration about one request.
RequestCurrent(r) ==
  request[r] # None /\ request[r].status = "OPEN" => request[r].generation = generation /\ mode = "RUNNING"

\* A consumption stays on record.
SpentOnRecord == \A e \in spent : request[e[1]] # None /\ request[e[1]].status # "OPEN"
                                  /\ request[e[1]].source = e[2]

\* The row of a consumed and of a revoked request.
LEMMA RequestConsumed ==
  ASSUME StoreTypeOK, NEW r \in Request, NEW g \in Gate, NEW s \in SourceEvent, NEW now \in 0..clock,
         ConsumeRequest(r, g, s, now)
  PROVE  /\ request'[r] # None /\ request'[r].status = "CONSUMED" /\ request'[r].source = s
         /\ \A x \in Request \ {r} : request'[x] = request[x]
<1>1. request[r] \in RequestRow BY DEF ConsumeRequest, StoreTypeOK
<1>2. request' = [request EXCEPT ![r] = [request[r] EXCEPT !.status = "CONSUMED", !.source = s]]
  BY DEF ConsumeRequest, StoreTypeOK
<1>3. request'[r] = [request[r] EXCEPT !.status = "CONSUMED", !.source = s] BY <1>2 DEF StoreTypeOK
<1>4. request'[r] \in RequestRow /\ request'[r].status = "CONSUMED" /\ request'[r].source = s
  BY <1>1, <1>3 DEF RequestRow
<1> QED BY <1>2, <1>4, NoneIsNoRow DEF StoreTypeOK

LEMMA RequestRevoked ==
  ASSUME StoreTypeOK, NEW r \in Request, RevokeRequest(r)
  PROVE  /\ request[r] # None /\ request'[r] # None /\ request'[r].status = "REVOKED"
         /\ request'[r].source = request[r].source
         /\ \A x \in Request \ {r} : request'[x] = request[x]
<1>1. request[r] \in RequestRow BY DEF RevokeRequest, StoreTypeOK
<1>2. request' = [request EXCEPT ![r] = [request[r] EXCEPT !.status = "REVOKED"]]
  BY DEF RevokeRequest, StoreTypeOK
<1>3. request'[r] = [request[r] EXCEPT !.status = "REVOKED"] BY <1>2 DEF StoreTypeOK
<1>4. request'[r] \in RequestRow /\ request'[r].status = "REVOKED" /\ request'[r].source = request[r].source
  BY <1>1, <1>3 DEF RequestRow
<1> QED BY <1>2, <1>4, NoneIsNoRow DEF RevokeRequest, StoreTypeOK

LEMMA RequestsStep ==
  ASSUME StoreTypeOK, StoreTypeOK', [StoreNext]_storeVars,
         \A r \in Request : RequestCurrent(r), SpentOnRecord, SourcePaysOnce
  PROVE  (\A r \in Request : RequestCurrent(r)') /\ SpentOnRecord' /\ SourcePaysOnce'
<1> DEFINE Kept == (\A r \in Request : RequestCurrent(r)') /\ SpentOnRecord' /\ SourcePaysOnce'
<1>1. spent \subseteq Request \X SourceEvent BY DEF StoreTypeOK
<1>2. CASE EndGeneration /\ spent' = spent
  BY <1>1, <1>2, GenerationEnds DEF RequestCurrent, SpentOnRecord, SourcePaysOnce
<1>3. ASSUME NEW r \in Request, NEW g \in Gate, NEW now \in 0..clock, RegisterRequest(r, g, now)
      PROVE  Kept
  <2>1. request'[r] = [status |-> "OPEN", gate |-> g, expires |-> now + TTL, generation |-> generation,
                       source |-> None]
        /\ \A x \in Request \ {r} : request'[x] = request[x]
    BY <1>3 DEF RegisterRequest, StoreTypeOK
  <2>2. request[r] = None /\ mode = "RUNNING" /\ UNCHANGED <<mode, generation, spent>>
    BY <1>3 DEF RegisterRequest
  <2>3. \A e \in spent : e[1] # r BY <2>2 DEF SpentOnRecord
  <2> QED BY <1>1, <2>1, <2>2, <2>3 DEF RequestCurrent, SpentOnRecord, SourcePaysOnce
<1>4. ASSUME NEW r \in Request, NEW g \in Gate, NEW now \in 0..clock, NEW s \in SourceEvent,
             ConsumeRequest(r, g, s, now)
      PROVE  Kept
  <2>1. request'[r] # None /\ request'[r].status = "CONSUMED" /\ request'[r].source = s
        /\ \A x \in Request \ {r} : request'[x] = request[x]
    BY <1>4, RequestConsumed
  <2>2. /\ request[r] # None /\ request[r].status = "OPEN" /\ s \notin SpentSources
        /\ spent' = spent \cup {<<r, s>>} /\ UNCHANGED <<mode, generation>>
    BY <1>4 DEF ConsumeRequest, Usable
  <2>3. \A e \in spent : e[1] # r /\ e[2] # s
    <3>1. \A e \in spent : e[1] \in Request /\ e[2] # None BY <1>1, StoreAssumption
    <3> QED BY <2>2, <3>1 DEF SpentOnRecord, SpentSources
  <2>4. SpentOnRecord' BY <1>1, <2>1, <2>2, <2>3 DEF SpentOnRecord
  <2>5. SourcePaysOnce' BY <1>1, <2>2, <2>3 DEF SourcePaysOnce
  <2> QED BY <2>1, <2>2, <2>4, <2>5 DEF RequestCurrent
<1>5. ASSUME NEW r \in Request, RevokeRequest(r) PROVE Kept
  <2>1. UNCHANGED <<mode, generation, spent>> BY <1>5 DEF RevokeRequest
  <2> QED BY <1>1, <1>5, <2>1, RequestRevoked DEF RequestCurrent, SpentOnRecord, SourcePaysOnce
<1>6. CASE UNCHANGED <<mode, generation, request, spent>>
  BY <1>6 DEF RequestCurrent, SpentOnRecord, SourcePaysOnce
<1>7. \/ RequestStep \/ (EndGeneration /\ spent' = spent) \/ UNCHANGED <<mode, generation, request, spent>>
  <2>1. CASE LeaseStep BY <2>1 DEF LeaseStep, AcquireLease, ReleaseLease
  <2>2. CASE OperationStep
    BY <2>2 DEF OperationStep, Enqueue, BeginOperation, ReconcileOperation, RecoverInflight
  <2>3. CASE BudgetStep BY <2>3 DEF BudgetStep, ReserveBudget, SettleBudget
  <2> QED BY <2>1, <2>2, <2>3 DEF StoreNext, storeVars, Control, ClaimIssue, Tick
<1> QED BY <1>2, <1>3, <1>4, <1>5, <1>6, <1>7 DEF RequestStep

LeaseCurrent == \A i \in DOMAIN leases : leases[i].status = "ACTIVE" =>
                  leases[i].generation = generation /\ mode = "RUNNING"

LEMMA LeasesStep ==
  ASSUME StoreTypeOK, StoreTypeOK', [StoreNext]_storeVars, LeaseCurrent PROVE LeaseCurrent'
<1>1. PICK n \in Nat : DOMAIN leases = 1..n BY LeaseTable
<1>2. \A i \in 1..n : Faded(i) BY <1>1, LeaseTableStep
<1>3. CASE DOMAIN leases' = 1..n /\ \A i \in 1..n : leases'[i].status # "ACTIVE"
  BY <1>3 DEF LeaseCurrent
<1>4. CASE mode' = mode /\ generation' = generation
  <2>1. \A i \in 1..n : leases'[i].status = "ACTIVE" =>
          leases'[i].generation = generation' /\ mode' = "RUNNING"
    BY <1>1, <1>2, <1>4 DEF LeaseCurrent, Faded
  <2>2. CASE DOMAIN leases' = 1..n BY <2>1, <2>2 DEF LeaseCurrent
  <2>3. CASE /\ DOMAIN leases' = 1..(n + 1) /\ mode = "RUNNING"
             /\ leases'[n + 1].generation = generation
    <3>1. \A i \in 1..(n + 1) : i \in 1..n \/ i = n + 1 OBVIOUS
    <3> QED BY <1>4, <2>1, <2>3, <3>1 DEF LeaseCurrent
  <2> QED BY <1>1, <2>2, <2>3, LeaseTableStep
<1> QED BY <1>1, <1>3, <1>4, LeaseTableStep

\* What is kept together: the parts of the properties about leases, operations and requests.
StoreInv ==
  /\ StoreTypeOK /\ LeaseCurrent
  /\ \A p \in Operation : OperationCurrent(p) /\ OperationAccounted(p)
  /\ \A r \in Request : RequestCurrent(r)
  /\ SpentOnRecord /\ SourcePaysOnce

LEMMA StoreInvHolds == StoreSpec => []StoreInv
<1>1. StoreInit => StoreInv
  BY StoreTypeInit, StoreAssumption
     DEF StoreInit, StoreInv, LeaseCurrent, OperationCurrent, OperationAccounted, RequestCurrent,
         SpentOnRecord, SourcePaysOnce
<1>2. StoreInv /\ [StoreNext]_storeVars => StoreInv'
  <2> SUFFICES ASSUME StoreInv, [StoreNext]_storeVars PROVE StoreInv' OBVIOUS
  <2>1. StoreTypeOK /\ StoreTypeOK' BY StoreTypeStep, StoreAssumption DEF StoreInv
  <2>2. LeaseCurrent' BY <2>1, LeasesStep DEF StoreInv
  <2>3. \A p \in Operation : OperationCurrent(p)' /\ OperationAccounted(p)'
    BY <2>1, OperationsStep DEF StoreInv
  <2>4. (\A r \in Request : RequestCurrent(r)') /\ SpentOnRecord' /\ SourcePaysOnce'
    BY <2>1, RequestsStep DEF StoreInv
  <2> QED BY <2>1, <2>2, <2>3, <2>4 DEF StoreInv
<1> QED BY <1>1, <1>2, PTL DEF StoreSpec

\* Whatever is active, open, pending or in flight belongs to the generation that runs.
THEOREM GenerationsAreClosed == StoreSpec => []NothingOutlivesItsGeneration
<1>1. StoreInv => NothingOutlivesItsGeneration
  BY DEF StoreInv, LeaseCurrent, OperationCurrent, RequestCurrent, NothingOutlivesItsGeneration
<1> QED BY <1>1, StoreInvHolds, PTL

\* Whoever acts does so in the current generation and alone.
THEOREM OnlyTheCurrentActsHolds == StoreSpec => []OnlyTheCurrentActs
BY GenerationsAreClosed, OnlyNewestLease, PTL DEF OnlyTheCurrentActs

\* An operation is handed out once at most, and is never forgotten once it was.
THEOREM OperationsStartOnce == StoreSpec => []StartsAreAccounted
<1>1. StoreInv => StartsAreAccounted BY DEF StoreInv, OperationAccounted, StartsAreAccounted
<1> QED BY <1>1, StoreInvHolds, PTL

\* One authorization event pays for one request, and one request is paid once.
THEOREM AuthorizationsAreSpentOnce == StoreSpec => []SourcePaysOnce
<1>1. StoreInv => SourcePaysOnce BY DEF StoreInv
<1> QED BY <1>1, StoreInvHolds, PTL

\* Operations and authorizations are handed out once, for any numbers of both.
THEOREM HandedOutOnceHolds == StoreSpec => []HandedOutOnce
BY OperationsStartOnce, AuthorizationsAreSpentOnce, PTL DEF HandedOutOnce

-----------------------------------------------------------------------------
(* Budgets: what a ticket and a day are charged.                           *)

SpendInv == IsFiniteSet(Reserved) /\ IsFiniteSet(UsedUnits(Reserved)) /\ SpendWithinLimits

LEMMA RunUnits == ASSUME NEW b, NEW k \in Nat PROVE IsFiniteSet({b} \X (1..k)) /\ Cardinality({b} \X (1..k)) = k
<1>1. IsFiniteSet({b}) /\ Cardinality({b}) = 1 BY FS_Singleton
<1>2. IsFiniteSet(1..k) /\ Cardinality(1..k) = k BY FS_Interval
<1>3. IsFiniteSet({b} \X (1..k)) /\ Cardinality({b} \X (1..k)) = Cardinality({b}) * Cardinality(1..k)
  BY <1>1, <1>2, FS_Product
<1> QED BY <1>1, <1>2, <1>3

\* No run is charged more than counts against the limits.
LEMMA ChargedIsUsed ==
  ASSUME StoreTypeOK
  PROVE  /\ \A b \in Reserved : Charge(b) \in Nat /\ Used(b) \in Nat /\ Charge(b) <= Used(b)
         /\ \A S \in SUBSET Reserved : ChargedUnits(S) \subseteq UsedUnits(S) /\ UsedUnits(S) \subseteq UsedUnits(Reserved)
<1>1. ASSUME NEW b \in Reserved PROVE Charge(b) \in Nat /\ Used(b) \in Nat /\ Charge(b) <= Used(b)
  <2>1. reservation[b] \in ReservationRow
    BY DEF Reserved, StoreTypeOK
  <2> QED BY <2>1 DEF ReservationRow, Charge, Used
<1>2. ASSUME NEW S \in SUBSET Reserved, NEW u \in ChargedUnits(S) PROVE u \in UsedUnits(S)
  <2>1. PICK b \in S : u \in {b} \X (1..Charge(b))
    BY <1>2 DEF ChargedUnits
  <2>2. u \in {b} \X (1..Used(b))
    BY <1>1, <2>1
  <2> QED BY <2>2 DEF UsedUnits
<1>3. ASSUME NEW S \in SUBSET Reserved PROVE UsedUnits(S) \subseteq UsedUnits(Reserved)
  BY DEF UsedUnits
<1> QED BY <1>1, <1>2, <1>3

\* What a set of runs was charged, as the guards of a reservation count it.
LEMMA ChargedSum ==
  ASSUME StoreTypeOK, IsFiniteSet(UsedUnits(Reserved)), NEW S \in SUBSET Reserved
  PROVE  /\ IsFiniteSet(ChargedUnits(S)) /\ Cardinality(ChargedUnits(S)) \in Nat /\ Total(S) \in Nat
         /\ Cardinality(ChargedUnits(S)) <= Total(S)
<1>1. IsFiniteSet(UsedUnits(S))
  BY ChargedIsUsed, FS_Subset
<1>2. IsFiniteSet(ChargedUnits(S)) /\ Cardinality(ChargedUnits(S)) <= Cardinality(UsedUnits(S))
  BY <1>1, ChargedIsUsed, FS_Subset
<1> QED BY <1>1, <1>2, FS_CardinalityType DEF Total

\* A reservation is charged to its ticket and to its day, within what both have left.
LEMMA ReserveSpends ==
  ASSUME StoreAssumption, StoreTypeOK, SpendInv, NEW b \in Run, NEW t \in Ticket, NEW k \in Cost, NEW now \in 0..clock,
         ReserveBudget(b, t, k, now)
  PROVE  SpendInv'
<1> DEFINE day == now \div DayLength
           units == {b} \X (1..k)
           CU(S) == UNION {{c} \X (1..Charge(c)') : c \in S}
           UU(S) == UNION {{c} \X (1..Used(c)') : c \in S}
<1>1. k \in Nat /\ CostLimit \in Nat /\ DailyLimit \in Nat /\ RunLimit \in Nat
  BY DEF StoreAssumption
<1>2. /\ b \notin Reserved
      /\ reservation' = [reservation EXCEPT ![b] = [status |-> "RESERVED", ticket |-> t, day |-> day, cost |-> k, actual |-> 0]]
  BY DEF ReserveBudget, Reserved
<1>3. reservation'[b] = [status |-> "RESERVED", ticket |-> t, day |-> day, cost |-> k, actual |-> 0]
  BY <1>2 DEF StoreTypeOK
<1>4. \A c \in Run : c # b => reservation'[c] = reservation[c]
  BY <1>2 DEF StoreTypeOK
<1>5. /\ reservation'[b] # None /\ Charge(b)' = k /\ Used(b)' = k
      /\ reservation'[b].ticket = t /\ reservation'[b].day = day
  <2>1. day \in Nat
    <3>1. now \in Nat /\ DayLength \in Nat \ {0} BY DEF StoreTypeOK, StoreAssumption
    <3> QED BY <3>1
  <2>2. reservation'[b] \in ReservationRow
    BY <1>1, <1>3, <2>1 DEF ReservationRow
  <2> QED BY <1>3, <2>2, StoreAssumption DEF Charge, Used
<1>6. Reserved' = Reserved \cup {b}
  BY <1>4, <1>5 DEF Reserved
<1>7. \A c \in Reserved : reservation'[c] = reservation[c] /\ Charge(c)' = Charge(c) /\ Used(c)' = Used(c)
  BY <1>2, <1>4 DEF Reserved, Charge, Used
<1>8. ASSUME NEW S \in SUBSET Reserved
      PROVE  /\ CU(S) = ChargedUnits(S) /\ CU(S \cup {b}) = ChargedUnits(S) \cup units
             /\ UU(S \cup {b}) = UsedUnits(S) \cup units
  BY <1>5, <1>7 DEF ChargedUnits, UsedUnits
<1>9. \A S : ChargedUnits(S)' = CU(S) /\ UsedUnits(S)' = UU(S)
  BY DEF ChargedUnits, UsedUnits
<1>10. IsFiniteSet(units) /\ Cardinality(units) = k
  BY <1>1, RunUnits
<1> HIDE DEF CU, UU, units
<1>11. ASSUME NEW S \in SUBSET Reserved
       PROVE  Cardinality(CU(S \cup {b})) <= Total(S) + k
  <2>1. IsFiniteSet(ChargedUnits(S)) /\ Cardinality(ChargedUnits(S)) \in Nat /\ Cardinality(ChargedUnits(S)) <= Total(S)
        /\ Total(S) \in Nat
    BY ChargedSum DEF SpendInv
  <2>2. Cardinality(ChargedUnits(S) \cup units) <= Cardinality(ChargedUnits(S)) + k
    <3>1. Cardinality(ChargedUnits(S) \cup units) =
            Cardinality(ChargedUnits(S)) + Cardinality(units) - Cardinality(ChargedUnits(S) \cap units)
      BY <1>10, <2>1, FS_Union
    <3>2. IsFiniteSet(ChargedUnits(S) \cap units)
      BY <1>10, FS_Subset
    <3>3. Cardinality(ChargedUnits(S) \cap units) \in Nat
      BY <3>2, FS_CardinalityType
    <3> QED BY <1>1, <1>10, <2>1, <3>1, <3>3
  <2>3. Cardinality(ChargedUnits(S) \cup units) <= Total(S) + k
    <3>1. IsFiniteSet(ChargedUnits(S) \cup units)
      BY <1>10, <2>1, FS_Union
    <3>2. Cardinality(ChargedUnits(S) \cup units) \in Nat
      BY <3>1, FS_CardinalityType
    <3> QED BY <1>1, <2>1, <2>2, <3>2
  <2> QED BY <1>8, <2>3
<1>12. IsFiniteSet(Reserved)' /\ IsFiniteSet(UsedUnits(Reserved))'
  <2>1. IsFiniteSet(Reserved \cup {b})
    BY FS_AddElement DEF SpendInv
  <2>2. IsFiniteSet(UsedUnits(Reserved) \cup units)
    BY <1>10, FS_Union DEF SpendInv
  <2>3. UU(Reserved') = UsedUnits(Reserved) \cup units
    BY <1>6, <1>8
  <2>4. UsedUnits(Reserved)' = UU(Reserved')
    BY DEF UsedUnits, UU
  <2> QED BY <1>6, <2>1, <2>2, <2>3, <2>4
<1>13. ASSUME NEW u \in Ticket
       PROVE  Cardinality(Of(u))' <= RunLimit /\ Cardinality(ChargedUnits(Of(u)))' <= CostLimit
  <2>1. ChargedUnits(Of(u))' = CU(Of(u)')
    BY DEF ChargedUnits, CU
  <2>2. Of(u) \in SUBSET Reserved /\ IsFiniteSet(Of(u))
    BY FS_Subset DEF Of, SpendInv
  <2>3. CASE u = t
    <3>1. Of(u)' = Of(u) \cup {b}
      BY <1>5, <1>6, <1>7, <2>3 DEF Of
    <3>2. Cardinality(Of(u)) < RunLimit /\ Total(Of(u)) + k <= CostLimit
      BY <2>3 DEF ReserveBudget
    <3>3. Cardinality(Of(u) \cup {b}) <= Cardinality(Of(u)) + 1
      <4>1. Cardinality(Of(u) \cup {b}) = IF b \in Of(u) THEN Cardinality(Of(u)) ELSE Cardinality(Of(u)) + 1
        BY <2>2, FS_AddElement
      <4>2. Cardinality(Of(u)) \in Nat
        BY <2>2, FS_CardinalityType
      <4> QED BY <4>1, <4>2
    <3>4. Cardinality(Of(u)) \in Nat /\ Cardinality(Of(u) \cup {b}) \in Nat /\ Total(Of(u)) \in Nat
      BY <2>2, ChargedSum, FS_AddElement, FS_CardinalityType DEF SpendInv
    <3>5. Cardinality(CU(Of(u) \cup {b})) <= Total(Of(u)) + k
      BY <1>11, <2>2
    <3>6. IsFiniteSet(ChargedUnits(Of(u))) BY <2>2, ChargedSum DEF SpendInv
    <3>7. IsFiniteSet(ChargedUnits(Of(u)) \cup units) BY <3>6, <1>10, FS_Union
    <3>8. Cardinality(CU(Of(u) \cup {b})) \in Nat BY <3>7, <1>8, <2>2, FS_CardinalityType
    <3> QED BY <1>1, <2>1, <3>1, <3>2, <3>3, <3>4, <3>5, <3>8
  <2>4. CASE u # t
    <3>1. Of(u)' = Of(u)
      BY <1>5, <1>6, <1>7, <2>4 DEF Of
    <3>2. CU(Of(u)) = ChargedUnits(Of(u))
      BY <1>8, <2>2
    <3> QED BY <2>1, <3>1, <3>2 DEF SpendInv, SpendWithinLimits
  <2> QED BY <2>3, <2>4
<1> DEFINE after(d) == {c \in Reserved' : reservation'[c].day = d}
<1>14. ASSUME NEW d, d = day \/ \E c \in Reserved : reservation[c].day = d
       PROVE  Cardinality(CU(after(d))) <= DailyLimit
  <2>1. On(d) \in SUBSET Reserved
    BY DEF On
  <2>2. CASE d = day
    <3>1. after(d) = On(d) \cup {b}
      BY <1>5, <1>6, <1>7, <2>2 DEF On
    <3>2. Total(On(d)) + k <= DailyLimit
      BY <2>2 DEF ReserveBudget
    <3>3. Total(On(d)) \in Nat /\ IsFiniteSet(ChargedUnits(On(d)))
      BY <2>1, ChargedSum DEF SpendInv
    <3>4. Cardinality(CU(On(d) \cup {b})) <= Total(On(d)) + k
      BY <1>11, <2>1
    <3>5. IsFiniteSet(ChargedUnits(On(d)) \cup units) BY <3>3, <1>10, FS_Union
    <3>6. Cardinality(CU(On(d) \cup {b})) \in Nat BY <3>5, <1>8, <2>1, FS_CardinalityType
    <3> HIDE DEF after
    <3> QED BY <1>1, <3>1, <3>2, <3>3, <3>4, <3>6
  <2>3. CASE d # day
    <3>1. after(d) = On(d)
      BY <1>5, <1>6, <1>7, <2>3 DEF On
    <3>2. CU(On(d)) = ChargedUnits(On(d))
      BY <1>8, <2>1
    <3>3. PICK c \in Reserved : reservation[c].day = d
      BY <1>14, <2>3
    <3> QED BY <3>1, <3>2, <3>3 DEF SpendInv, SpendWithinLimits
  <2> QED BY <2>2, <2>3
<1>15. ASSUME NEW c \in Reserved'
       PROVE  Cardinality(ChargedUnits(On(reservation[c].day)))' <= DailyLimit
  <2>1. ChargedUnits(On(reservation[c].day))' = CU(after(reservation'[c].day))
    BY DEF ChargedUnits, CU, On
  <2>2. reservation'[c].day = day \/ \E e \in Reserved : reservation[e].day = reservation'[c].day
    BY <1>5, <1>6, <1>7
  <2> HIDE DEF after
  <2> QED BY <1>14, <2>1, <2>2
<1> QED
  BY <1>12, <1>13, <1>15 DEF SpendInv, SpendWithinLimits

\* What a run turns out to have used is charged up to what it had reserved.
LEMMA SettleSpends ==
  ASSUME StoreAssumption, StoreTypeOK, SpendInv, NEW b \in Run, NEW k \in Cost, SettleBudget(b, k)
  PROVE  SpendInv'
<1> DEFINE units == {b} \X (1..k)
           CU(S) == UNION {{c} \X (1..Charge(c)') : c \in S}
           UU(S) == UNION {{c} \X (1..Used(c)') : c \in S}
<1>1. k \in Nat
  BY DEF StoreAssumption
<1>2. /\ b \in Reserved /\ reservation[b].status = "RESERVED" /\ reservation[b] \in ReservationRow
      /\ reservation' = [reservation EXCEPT ![b] = [reservation[b] EXCEPT !.status = "SETTLED", !.actual = k]]
  BY DEF SettleBudget, Reserved, StoreTypeOK
<1>3. /\ reservation'[b] = [reservation[b] EXCEPT !.status = "SETTLED", !.actual = k]
      /\ \A c \in Run : c # b => reservation'[c] = reservation[c]
  BY <1>2 DEF StoreTypeOK
<1>4. /\ reservation'[b] \in ReservationRow /\ reservation'[b].ticket = reservation[b].ticket
      /\ reservation'[b].day = reservation[b].day /\ reservation'[b].cost = reservation[b].cost
      /\ reservation'[b].status = "SETTLED" /\ reservation'[b].actual = k
  <2>1. ASSUME NEW row \in ReservationRow
        PROVE  LET new == [row EXCEPT !.status = "SETTLED", !.actual = k]
               IN  /\ new \in ReservationRow /\ new.ticket = row.ticket /\ new.day = row.day /\ new.cost = row.cost
                   /\ new.status = "SETTLED" /\ new.actual = k
    BY <1>1 DEF ReservationRow
  <2> QED BY <1>2, <1>3, <2>1
<1>5. Reserved' = Reserved
  BY <1>2, <1>3, <1>4, StoreAssumption DEF Reserved
<1>6. /\ \A c \in Reserved : Charge(c)' \in Nat /\ Charge(c) \in Nat /\ Charge(c)' <= Charge(c)
      /\ \A c \in Reserved : c # b => Used(c)' = Used(c)
      /\ Used(b)' = k
  <2>1. \A c \in Reserved : c # b => Charge(c)' = Charge(c) /\ Used(c)' = Used(c)
    BY <1>3 DEF Reserved, Charge, Used
  <2>2. Charge(b)' \in Nat /\ Charge(b) \in Nat /\ Charge(b)' <= Charge(b) /\ Used(b)' = k
    BY <1>1, <1>2, <1>4 DEF Charge, Used, ReservationRow
  <2>3. \A c \in Reserved : Charge(c) \in Nat
    BY ChargedIsUsed
  <2> QED BY <2>1, <2>2, <2>3
<1>7. ASSUME NEW S \in SUBSET Reserved
      PROVE  CU(S) \subseteq ChargedUnits(S)
  <2> SUFFICES ASSUME NEW u \in CU(S) PROVE u \in ChargedUnits(S)
    OBVIOUS
  <2>1. PICK c \in S : u \in {c} \X (1..Charge(c)')
    OBVIOUS
  <2>2. u \in {c} \X (1..Charge(c))
    BY <1>6, <2>1
  <2> QED BY <2>2 DEF ChargedUnits
<1>8. UU(Reserved) \subseteq UsedUnits(Reserved) \cup units
  <2> SUFFICES ASSUME NEW u \in UU(Reserved) PROVE u \in UsedUnits(Reserved) \cup units
    OBVIOUS
  <2>1. PICK c \in Reserved : u \in {c} \X (1..Used(c)')
    OBVIOUS
  <2> QED BY <1>6, <2>1 DEF UsedUnits
<1>9. IsFiniteSet(units)
  BY <1>1, RunUnits
<1> HIDE DEF CU, UU, units
<1>10. ASSUME NEW S \in SUBSET Reserved
       PROVE  /\ Cardinality(CU(S)) \in Nat /\ Cardinality(ChargedUnits(S)) \in Nat
              /\ Cardinality(CU(S)) <= Cardinality(ChargedUnits(S))
  <2>1. IsFiniteSet(ChargedUnits(S))
    BY ChargedSum DEF SpendInv
  <2> QED BY <1>7, <2>1, FS_Subset, FS_CardinalityType
<1>11. IsFiniteSet(Reserved)' /\ IsFiniteSet(UsedUnits(Reserved))'
  <2>1. IsFiniteSet(UsedUnits(Reserved) \cup units)
    BY <1>9, FS_Union DEF SpendInv
  <2>2. IsFiniteSet(UU(Reserved))
    BY <1>8, <2>1, FS_Subset
  <2>3. UsedUnits(Reserved)' = UU(Reserved)
    BY <1>5 DEF UsedUnits, UU
  <2> QED BY <1>5, <2>2, <2>3 DEF SpendInv
<1>12. ASSUME NEW t \in Ticket
       PROVE  Cardinality(Of(t))' <= RunLimit /\ Cardinality(ChargedUnits(Of(t)))' <= CostLimit
  <2>1. Of(t)' = Of(t) /\ Of(t) \in SUBSET Reserved
    <3>1. \A c \in Reserved : reservation'[c].ticket = reservation[c].ticket
      BY <1>3, <1>4 DEF Reserved
    <3> QED BY <1>5, <3>1 DEF Of
  <2>2. ChargedUnits(Of(t))' = CU(Of(t)')
    BY DEF ChargedUnits, CU
  <2>3. Cardinality(ChargedUnits(Of(t))) <= CostLimit /\ CostLimit \in Nat
    BY DEF SpendInv, SpendWithinLimits, StoreAssumption
  <2>4. Cardinality(CU(Of(t))) <= CostLimit
    BY <1>10, <2>1, <2>3
  <2> QED BY <2>1, <2>2, <2>4 DEF SpendInv, SpendWithinLimits
<1> DEFINE after(d) == {c \in Reserved' : reservation'[c].day = d}
<1>13. ASSUME NEW d PROVE after(d) = On(d)
  BY <1>3, <1>4, <1>5 DEF On, Reserved
<1>14. ASSUME NEW c \in Reserved'
       PROVE  Cardinality(ChargedUnits(On(reservation[c].day)))' <= DailyLimit
  <2>1. ChargedUnits(On(reservation[c].day))' = CU(after(reservation'[c].day))
    BY DEF ChargedUnits, CU, On
  <2>2. c \in Reserved /\ reservation'[c].day = reservation[c].day
    BY <1>3, <1>4, <1>5 DEF Reserved
  <2> HIDE DEF after
  <2>3. ChargedUnits(On(reservation[c].day))' = CU(On(reservation[c].day))
    BY <1>13, <2>1, <2>2
  <2>4. On(reservation[c].day) \in SUBSET Reserved
    BY DEF On
  <2>5. Cardinality(ChargedUnits(On(reservation[c].day))) <= DailyLimit /\ DailyLimit \in Nat
    BY <2>2 DEF SpendInv, SpendWithinLimits, StoreAssumption
  <2>6. Cardinality(CU(On(reservation[c].day))) <= DailyLimit
    BY <1>10, <2>4, <2>5
  <2> QED BY <2>3, <2>6
<1> QED BY <1>11, <1>12, <1>14 DEF SpendInv, SpendWithinLimits

LEMMA SpendStep == ASSUME StoreAssumption, StoreTypeOK, SpendInv, [StoreNext]_storeVars PROVE SpendInv'
<1>1. CASE UNCHANGED reservation
  BY <1>1 DEF SpendInv, SpendWithinLimits, Reserved, Of, On, UsedUnits, ChargedUnits, Charge, Used
<1>2. CASE BudgetStep
  BY <1>2, ReserveSpends, SettleSpends DEF BudgetStep
<1>3. UNCHANGED reservation \/ BudgetStep
  BY DEF StoreNext, storeVars, Control, LeaseStep, AcquireLease, ReleaseLease, OperationStep, Enqueue, BeginOperation,
         ReconcileOperation, RecoverInflight, RequestStep, RegisterRequest, ConsumeRequest, RevokeRequest, ClaimIssue, Tick
<1> QED BY <1>1, <1>2, <1>3

\* Whatever is reserved and settled in which order, a ticket and a day are charged within
\* their limits, apart from what runs used beyond their own reservations.
THEOREM SpendWithinLimitsHolds == StoreSpec => []SpendWithinLimits
<1>1. StoreInit => SpendInv
  <2> SUFFICES ASSUME StoreInit PROVE SpendInv
    OBVIOUS
  <2>1. Reserved = {}
    BY DEF StoreInit, Reserved
  <2>2. UsedUnits({}) = {} /\ \A t : Of(t) = {}
    BY <2>1 DEF UsedUnits, Of
  <2>3. ChargedUnits({}) = {}
    BY DEF ChargedUnits
  <2> QED BY <2>1, <2>2, <2>3, FS_EmptySet, StoreAssumption DEF SpendInv, SpendWithinLimits, StoreAssumption
<1>2. StoreTypeOK /\ SpendInv /\ [StoreNext]_storeVars => SpendInv'
  BY SpendStep, StoreAssumption
<1>3. SpendInv => SpendWithinLimits
  BY DEF SpendInv
<1> QED BY <1>1, <1>2, <1>3, StoreTypeCorrect, PTL DEF StoreSpec

-----------------------------------------------------------------------------
(* Capacity: what the active leases demand.                                *)

LEMMA UnitsFinite ==
  ASSUME NEW n \in Nat, NEW table, DOMAIN table = 1..n, NEW c
  PROVE  IsFiniteSet(Units(table, c)) /\ Cardinality(Units(table, c)) \in Nat
<1>1. Units(table, c) \in SUBSET (1..n)
  BY DEF Units, Active
<1>2. IsFiniteSet(1..n) BY FS_Interval
<1>3. IsFiniteSet(Units(table, c)) BY <1>1, <1>2, FS_Subset
<1> QED BY <1>3, FS_CardinalityType

\* A lease is acquired only where every class it demands has a unit left.
LEMMA AcquireKeepsCapacity ==
  ASSUME StoreAssumption, StoreTypeOK, CapacityKept,
         NEW t \in Task, NEW o \in Owner, NEW now \in 0..clock, AcquireLease(t, o, now)
  PROVE  CapacityKept'
<1> DEFINE table == Expired(leases, now)
           new == [task |-> t, owner |-> o, expires |-> now + TTL, generation |-> generation, status |-> "ACTIVE"]
<1>1. PICK n \in Nat : leases \in [1..n -> LeaseRow] /\ Len(leases) = n
  BY DEF StoreTypeOK
<1>2. table \in Seq(LeaseRow) /\ DOMAIN table = 1..n /\ Len(table) = n
  BY <1>1, ExpiredType DEF StoreTypeOK
<1>3. ASSUME NEW c \in Class PROVE Units(table, c) \subseteq Units(leases, c)
  <2>1. ASSUME NEW i \in 1..n, table[i].status = "ACTIVE" PROVE table[i] = leases[i]
    <3>1. table[i] = IF Lapsed(leases[i], now) THEN [leases[i] EXCEPT !.status = "EXPIRED"] ELSE leases[i]
      BY <1>1 DEF Expired
    <3>2. leases[i] \in LeaseRow BY <1>1
    <3> QED BY <2>1, <3>1, <3>2 DEF LeaseRow
  <2> HIDE DEF table
  <2> QED BY <1>1, <1>2, <2>1 DEF Units, Active
<1>4. ASSUME NEW c \in Class
      PROVE  /\ Cardinality(Units(table, c)) <= Limit[c] /\ Limit[c] \in Nat
             /\ IsFiniteSet(Units(table, c)) /\ Cardinality(Units(table, c)) \in Nat
  <2>1. IsFiniteSet(Units(leases, c)) /\ Cardinality(Units(leases, c)) \in Nat
    BY <1>1, UnitsFinite
  <2>2. Cardinality(Units(table, c)) <= Cardinality(Units(leases, c))
    BY <1>3, <2>1, FS_Subset
  <2>3. IsFiniteSet(Units(table, c)) /\ Cardinality(Units(table, c)) \in Nat
    BY <1>2, UnitsFinite
  <2>4. Cardinality(Units(leases, c)) <= Limit[c] /\ Limit[c] \in Nat
    BY DEF CapacityKept, StoreAssumption
  <2> QED BY <2>1, <2>2, <2>3, <2>4
<1> HIDE DEF table
<1>5. CASE leases' = table
  BY <1>4, <1>5 DEF CapacityKept
<1>6. CASE HasCapacity(table, t) /\ leases' = Append(table, new)
  <2>1. DOMAIN leases' = 1..(n + 1) /\ leases'[n + 1] = new /\ \A j \in 1..n : leases'[j] = table[j]
    BY <1>2, <1>6
  <2>2. ASSUME NEW c \in Class PROVE Cardinality(Units(leases', c)) <= Limit[c]
    <3>1. CASE c \in Demand[t]
      <4>1. Units(leases', c) \subseteq Units(table, c) \cup {n + 1}
        BY <1>2, <2>1 DEF Units, Active
      <4>2. Cardinality(Units(table, c)) + 1 <= Limit[c]
        BY <1>6, <3>1 DEF HasCapacity
      <4>3. IsFiniteSet(Units(table, c) \cup {n + 1})
            /\ Cardinality(Units(table, c) \cup {n + 1}) =
                 IF n + 1 \in Units(table, c) THEN Cardinality(Units(table, c)) ELSE Cardinality(Units(table, c)) + 1
        BY <1>4, FS_AddElement
      <4>4. Cardinality(Units(leases', c)) <= Cardinality(Units(table, c) \cup {n + 1})
        BY <4>1, <4>3, FS_Subset
      <4>5. Cardinality(Units(leases', c)) \in Nat
        BY <2>1, UnitsFinite
      <4> QED BY <1>4, <4>2, <4>3, <4>4, <4>5
    <3>2. CASE c \notin Demand[t]
      <4>1. Units(leases', c) \subseteq Units(table, c)
        BY <1>2, <2>1, <3>2 DEF Units, Active
      <4>2. Cardinality(Units(leases', c)) <= Cardinality(Units(table, c))
        BY <1>4, <4>1, FS_Subset
      <4>3. Cardinality(Units(leases', c)) \in Nat
        BY <2>1, UnitsFinite
      <4> QED BY <1>4, <4>2, <4>3
    <3> QED BY <3>1, <3>2
  <2> QED BY <2>2 DEF CapacityKept
<1> QED BY <1>5, <1>6 DEF AcquireLease, table

LEMMA CapacityStep ==
  ASSUME StoreAssumption, StoreTypeOK, StoreTypeOK', CapacityKept, [StoreNext]_storeVars PROVE CapacityKept'
<1>1. PICK n \in Nat : DOMAIN leases = 1..n BY LeaseTable
<1>2. ASSUME NEW t \in Task, NEW o \in Owner, NEW now \in 0..clock, AcquireLease(t, o, now) PROVE CapacityKept'
  BY <1>2, AcquireKeepsCapacity
<1>3. CASE DOMAIN leases' = 1..n
  <2>1. \A i \in 1..n : Faded(i)
    BY <1>1, LeaseTableStep
  <2>2. ASSUME NEW c \in Class PROVE Cardinality(Units(leases', c)) <= Limit[c]
    <3>1. Units(leases', c) \subseteq Units(leases, c)
      BY <1>1, <1>3, <2>1 DEF Units, Active, Faded
    <3>2. IsFiniteSet(Units(leases, c)) /\ Cardinality(Units(leases, c)) \in Nat
      BY <1>1, UnitsFinite
    <3>3. Cardinality(Units(leases', c)) <= Cardinality(Units(leases, c))
      BY <3>1, <3>2, FS_Subset
    <3>4. Cardinality(Units(leases', c)) \in Nat
      BY <1>3, UnitsFinite
    <3>5. Cardinality(Units(leases, c)) <= Limit[c] /\ Limit[c] \in Nat
      BY DEF CapacityKept, StoreAssumption
    <3> QED BY <3>2, <3>3, <3>4, <3>5
  <2> QED BY <2>2 DEF CapacityKept
<1>4. (\E t \in Task, o \in Owner, now \in 0..clock : AcquireLease(t, o, now)) \/ DOMAIN leases' = 1..n
  <2>1. CASE LeaseStep
    BY <1>1, <2>1 DEF LeaseStep, ReleaseLease
  <2>2. CASE EndGeneration
    BY <1>1, <2>2 DEF EndGeneration, RevokedLeases
  <2>3. CASE leases' = leases
    BY <1>1, <2>3
  <2>4. LeaseStep \/ EndGeneration \/ leases' = leases
    BY ZenonT(60) DEF StoreNext, storeVars, Control, OperationStep, Enqueue, BeginOperation, ReconcileOperation,
           RecoverInflight, RequestStep, RegisterRequest, ConsumeRequest, RevokeRequest,
           BudgetStep, ReserveBudget, SettleBudget, ClaimIssue, Tick
  <2> QED BY <2>1, <2>2, <2>3, <2>4
<1> QED BY <1>2, <1>3, <1>4

\* However leases expire, are released, revoked and acquired, by callers with clocks that lag,
\* the active ones fit the host.
THEOREM CapacityKeptHolds == StoreSpec => []CapacityKept
<1>1. StoreInit => CapacityKept
  <2> SUFFICES ASSUME StoreInit PROVE CapacityKept
    OBVIOUS
  <2>1. \A c : Units(leases, c) = {}
    BY DEF StoreInit, Units, Active
  <2> QED BY <2>1, FS_EmptySet, StoreAssumption DEF CapacityKept, StoreAssumption
<1>2. StoreTypeOK /\ StoreTypeOK' /\ CapacityKept /\ [StoreNext]_storeVars => CapacityKept'
  BY CapacityStep, StoreAssumption
<1> QED BY <1>1, <1>2, StoreTypeCorrect, PTL DEF StoreSpec

\* Neither capacity nor money is promised twice.
THEOREM NothingOvercommittedHolds == StoreSpec => []NothingOvercommitted
BY CapacityKeptHolds, SpendWithinLimitsHolds, PTL DEF NothingOvercommitted
=============================================================================
