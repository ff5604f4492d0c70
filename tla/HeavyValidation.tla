--------------------------- MODULE HeavyValidation ---------------------------
(***************************************************************************)
(* Heavy validation: runs that take a capacity lease from the host broker, *)
(* start one process tree per partition under it, and give it back.        *)
(*                                                                         *)
(* A lease is marked with a quarantine from the moment it is granted, and  *)
(* a marked lease does not lapse: only its run, after a proved cleanup, or *)
(* somebody with evidence that everything under it has ended, frees it.    *)
(* The time of a lease is read by its own run alone.                       *)
(*                                                                         *)
(* Abstractions.  Capacity is the number of workers: heavy and GPU jobs,   *)
(* engines and named resources are counted the same way.  A check that may *)
(* fail (review, freshness, time of the lease, snapshot) is a choice.  A   *)
(* process tree is its leader, with the children the runner can see.       *)
(***************************************************************************)
EXTENDS Integers, FiniteSets

CONSTANTS
  HeavyRun,     \* invocations of run_validation
  Partition,    \* partitions of a plan
  Parallel,     \* what _parallelism allows each run
  MaxWorkers,   \* host_broker.max_workers
  RetryLimit    \* determinism.retry_limit

ASSUME HeavyAssumption ==
  /\ IsFiniteSet(HeavyRun) /\ IsFiniteSet(Partition) /\ Parallel \in [HeavyRun -> Nat \ {0}]
  /\ MaxWorkers \in Nat /\ RetryLimit \in Nat

NoFence == 0

VARIABLES
  broker,       \* the leases of the state file
  nextFence,
  run,          \* where each invocation is
  fence, size,  \* the lease an invocation holds, and its parallelism
  cancel,       \* cancel_event
  worker,       \* the thread of each partition
  tries,        \* attempts begun
  tree          \* on the host: the process tree of each partition

heavyVars == <<broker, nextFence, run, fence, size, cancel, worker, tries, tree>>
lease == <<broker, nextFence, fence, size>>
threads == <<worker, tries>>

\* As if the direct process had been the whole tree.
MUncertain == {"FAILED"}
Uncertain == {"PARTIAL", "FAILED"}

HeavyInit ==
  /\ broker = {} /\ nextFence = 1
  /\ run = [r \in HeavyRun |-> "idle"] /\ fence = [r \in HeavyRun |-> NoFence]
  /\ size = [r \in HeavyRun |-> 0] /\ cancel = [r \in HeavyRun |-> FALSE]
  /\ worker = [r \in HeavyRun |-> [p \in Partition |-> "none"]]
  /\ tries = [r \in HeavyRun |-> [p \in Partition |-> 0]]
  /\ tree = [r \in HeavyRun |-> [p \in Partition |-> "none"]]

-----------------------------------------------------------------------------
(* The broker: every operation is one transaction under the file's lock.   *)

\* The workers of all leases, counted one by one: no two leases have the same fence.
Slots == UNION {{l.fence} \X (1..l.size) : l \in broker}
InUse == Cardinality(Slots)
Fits(n) == InUse + n <= MaxWorkers
Granted(r, n) == broker \cup {[fence |-> nextFence, run |-> r, size |-> n, quarantine |-> "PENDING"]}

\* What release and quarantine leave in the file.
Released(f) == {l \in broker : l.fence # f \/ l.quarantine \in Uncertain}
Quarantined(f, outcome) ==
  {IF l.fence = f /\ l.quarantine = "PENDING" THEN [l EXCEPT !.quarantine = outcome] ELSE l : l \in broker}

\* release_quarantined: the evidence names the exact fence, whose invocation and trees have ended.
ReleaseQuarantined(l) ==
  /\ l \in broker /\ run[l.run] = "over"
  /\ \A p \in Partition : tree[l.run][p] # "live"
  /\ broker' = broker \ {l}
  /\ UNCHANGED <<nextFence, run, fence, size, cancel, worker, tries, tree>>

-----------------------------------------------------------------------------
(* Admission: in parallel first, then serially.                            *)

Wanted(r) == IF run[r] = "idle" THEN Parallel[r] ELSE 1
MayRetry(n) == IF n = 1 THEN "over" ELSE "serial"
Admitting(r) == run[r] \in {"idle", "serial"}

Grant(r) ==
  LET n == Wanted(r) IN
  /\ Admitting(r) /\ Fits(n)
  /\ broker' = Granted(r, n) /\ nextFence' = nextFence + 1
  /\ fence' = [fence EXCEPT ![r] = nextFence] /\ size' = [size EXCEPT ![r] = n]
  /\ run' = [run EXCEPT ![r] = "admitted"]
  /\ UNCHANGED <<cancel, threads, tree>>

\* Denied, or acquire failed before it committed.
Deny(r) ==
  /\ Admitting(r) /\ run' = [run EXCEPT ![r] = MayRetry(Wanted(r))]
  /\ UNCHANGED <<lease, cancel, threads, tree>>

\* The lease is committed and its answer lost, invalid, or stale with a release that fails:
\* nobody holds the lease any more.
GrantIsLost(r) ==
  LET n == Wanted(r) IN
  /\ Admitting(r) /\ Fits(n)
  /\ broker' = Granted(r, n) /\ nextFence' = nextFence + 1
  /\ \E next \in {"over", MayRetry(n)} : run' = [run EXCEPT ![r] = next]
  /\ UNCHANGED <<fence, size, cancel, threads, tree>>

\* A grant that has gone stale on its way is given back.
GrantIsStale(r) ==
  /\ run[r] = "admitted"
  /\ broker' = Released(fence[r])
  /\ fence' = [fence EXCEPT ![r] = NoFence] /\ size' = [size EXCEPT ![r] = 0]
  /\ run' = [run EXCEPT ![r] = MayRetry(size[r])]
  /\ UNCHANGED <<nextFence, cancel, threads, tree>>

\* What an invocation held in memory ends with it.
Over(r) ==
  /\ run' = [run EXCEPT ![r] = "over"] /\ fence' = [fence EXCEPT ![r] = NoFence]
  /\ size' = [size EXCEPT ![r] = 0] /\ cancel' = [cancel EXCEPT ![r] = FALSE]
  /\ worker' = [worker EXCEPT ![r] = [p \in Partition |-> "none"]]
  /\ tries' = [tries EXCEPT ![r] = [p \in Partition |-> 0]]

\* Every partition is handed to the thread pool.
Submit(r) ==
  /\ run[r] = "admitted" /\ run' = [run EXCEPT ![r] = "running"]
  /\ worker' = [worker EXCEPT ![r] = [p \in Partition |-> "queued"]]
  /\ UNCHANGED <<lease, cancel, tries, tree>>

-----------------------------------------------------------------------------
(* One partition.                                                          *)

Busy(r) == {p \in Partition : worker[r][p] \in {"attempt", "child", "unsure"}}
At(r, p, place) == worker' = [worker EXCEPT ![r][p] = place]
NextAttempt(r, p) == IF cancel[r] \/ tries[r][p] > RetryLimit THEN "failed" ELSE "attempt"

\* The pool has as many threads as the lease has workers.
Begin(r, p) ==
  /\ run[r] = "running" /\ worker[r][p] = "queued" /\ Cardinality(Busy(r)) < size[r]
  /\ At(r, p, "attempt")
  /\ UNCHANGED <<lease, run, cancel, tries, tree>>

\* authorize holds the gate's lock over the last checks and the start of the child.
Start(r, p) ==
  /\ run[r] = "running" /\ worker[r][p] = "attempt" /\ ~cancel[r]
  /\ tree' = [tree EXCEPT ![r][p] = "live"]
  /\ tries' = [tries EXCEPT ![r][p] = @ + 1] /\ At(r, p, "child")
  /\ UNCHANGED <<lease, run, cancel>>

\* The checks under the lock are refused: nothing more is started.
Refuse(r, p) ==
  /\ run[r] = "running" /\ worker[r][p] = "attempt"
  /\ cancel' = [cancel EXCEPT ![r] = TRUE]
  /\ tries' = [tries EXCEPT ![r][p] = @ + 1] /\ At(r, p, "failed")
  /\ UNCHANGED <<lease, run, tree>>

\* The lease has expired before the gate, the executable moved, or Popen failed.
StartFails(r, p) ==
  /\ run[r] = "running" /\ worker[r][p] = "attempt"
  /\ tries' = [tries EXCEPT ![r][p] = @ + 1]
  /\ worker' = [worker EXCEPT ![r][p] = IF cancel[r] \/ tries[r][p] >= RetryLimit THEN "failed" ELSE "attempt"]
  /\ UNCHANGED <<lease, run, cancel, tree>>

\* The child has exited by itself.
Exited(r, p) ==
  /\ run[r] = "running" /\ worker[r][p] = "child" /\ tree[r][p] = "gone"
  /\ \E next \in {"passed", NextAttempt(r, p)} : At(r, p, next)
  /\ UNCHANGED <<lease, run, cancel, tries, tree>>

\* Cancelled, out of time, or without a lease: the tree is killed, and is gone, or its end
\* is not established.
Terminate(r, p) ==
  /\ run[r] = "running" /\ worker[r][p] = "child"
  /\ \/ /\ tree' = [tree EXCEPT ![r][p] = "gone"]
        /\ \E next \in {"failed", NextAttempt(r, p)} : At(r, p, next)
     \/ tree' = tree /\ At(r, p, "unsure")
  /\ UNCHANGED <<lease, run, cancel, tries>>

\* abort takes the gate's lock: the lease is quarantined, unless the broker fails, and
\* nothing more is started.
Abort(r, p) ==
  /\ run[r] = "running" /\ worker[r][p] = "unsure"
  /\ \E outcome \in {"PARTIAL", "FAILED"} :
       /\ broker' \in {broker, Quarantined(fence[r], outcome)}
       /\ At(r, p, outcome)
  /\ cancel' = [cancel EXCEPT ![r] = TRUE]
  /\ UNCHANGED <<nextFence, run, fence, size, tries, tree>>

-----------------------------------------------------------------------------
(* The end of an invocation, its surroundings.                             *)

Ended == {"none", "passed", "failed", "PARTIAL", "FAILED"}
Established(r) == \A p \in Partition : worker[r][p] \notin Uncertain

\* The pool has waited for its threads, or was never filled; the lease is released or
\* quarantined, unless the broker fails.
Finish(r) ==
  /\ run[r] \in {"admitted", "running"} /\ \A p \in Partition : worker[r][p] \in Ended
  /\ broker' \in {broker, IF Established(r) THEN Released(fence[r]) ELSE Quarantined(fence[r], "FAILED")}
  /\ Over(r)
  /\ UNCHANGED <<nextFence, tree>>

\* The trees are sessions of their own: they outlive the runner.
Crash(r) ==
  /\ run[r] \notin {"idle", "over"} /\ Over(r)
  /\ UNCHANGED <<broker, nextFence, tree>>

Cancel(r) ==
  /\ run[r] = "running" /\ ~cancel[r] /\ cancel' = [cancel EXCEPT ![r] = TRUE]
  /\ UNCHANGED <<lease, run, threads, tree>>

TreeEnds(r, p) ==
  /\ tree[r][p] = "live" /\ tree' = [tree EXCEPT ![r][p] = "gone"]
  /\ UNCHANGED <<lease, run, cancel, threads>>

HeavyNext ==
  \/ \E r \in HeavyRun :
       \/ Grant(r) \/ Deny(r) \/ GrantIsLost(r) \/ GrantIsStale(r) \/ Submit(r)
       \/ \E p \in Partition : \/ Begin(r, p) \/ Start(r, p) \/ Refuse(r, p) \/ StartFails(r, p)
                               \/ Exited(r, p) \/ Terminate(r, p) \/ Abort(r, p) \/ TreeEnds(r, p)
       \/ Finish(r) \/ Crash(r) \/ Cancel(r)
  \/ \E l \in broker : ReleaseQuarantined(l)

HeavySpec == HeavyInit /\ [][HeavyNext]_heavyVars

-----------------------------------------------------------------------------
(* Properties.                                                             *)

HeavyTypeOK ==
  /\ broker \subseteq [fence : Nat \ {0}, run : HeavyRun, size : Nat, quarantine : Uncertain \cup {"PENDING"}]
  /\ nextFence \in Nat \ {0} /\ \A l \in broker : l.fence < nextFence
  /\ run \in [HeavyRun -> {"idle", "serial", "admitted", "running", "over"}]
  /\ fence \in [HeavyRun -> Nat] /\ size \in [HeavyRun -> Nat] /\ cancel \in [HeavyRun -> BOOLEAN]
  /\ worker \in [HeavyRun -> [Partition -> Ended \cup {"queued", "attempt", "child", "unsure"}]]
  /\ tries \in [HeavyRun -> [Partition -> 0..(RetryLimit + 1)]]
  /\ tree \in [HeavyRun -> [Partition -> {"none", "live", "gone"}]]

\* The process trees of all runs together, those of crashed runs and those whose cleanup
\* failed included, never exceed the host's workers.
TreesWithinCapacity ==
  Cardinality({x \in HeavyRun \X Partition : tree[x[1]][x[2]] = "live"}) <= MaxWorkers
=============================================================================
