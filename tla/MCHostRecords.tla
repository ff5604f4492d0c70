--------------------------- MODULE MCHostRecords ---------------------------
EXTENDS ReviewLoop, OwnerPublication, TLC

CONSTANTS f1, ci, b1, b2, s1, s2, w1, w2, r1, r2

VARIABLE facet   \* the component that moves in this behaviour

MCFinding == {f1, ci}
MCBoundary == {ci}

MCBatch == {b1, b2}
MCStream == {s1, s2}
MCResumer == {r1, r2}
\* The second batch brings other work of the first stream and the same of the second.
MCWork == [b \in MCBatch |-> [s \in MCStream |-> IF b = b2 /\ s = s1 THEN w1 ELSE w2]]

MCInit ==
  /\ LoopInit /\ HandoffInit /\ facet \in {"loop", "publication"}
  /\ facet = "publication" => host.pr = "none"

MCNext ==
  /\ \/ facet = "loop" /\ LoopNext /\ UNCHANGED handoffVars
     \/ facet = "publication" /\ HandoffNext /\ UNCHANGED loopVars
  /\ facet' = facet

MCSpec == MCInit /\ [][MCNext]_<<loopVars, handoffVars, facet>>

\* Both records keep their types, and the count of the waits its bound.
HostTypeOK == LoopTypeOK /\ WaitsAreBounded /\ HandoffTypeOK

\* Processes that resume a batch are interchangeable.
MCSymmetry == Permutations(MCResumer)
=============================================================================
