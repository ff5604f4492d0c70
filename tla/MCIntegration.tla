--------------------------- MODULE MCIntegration ---------------------------
EXTENDS IntegrationQueue, HeavyValidation, ReviewCompletion, TLC

CONSTANTS a1, b1, d1, ka, kb, kd, ha, hb, hd, h2, i1,   \* the queue
          v1, v2, x1, x2,                               \* heavy validation
          q1, q2, n1, n2, u1, u2                        \* review completion

VARIABLE facet   \* the component that moves in this behaviour, and what happens around it

MCPr == {a1, b1, d1}
MCSha == {ha, hb, hd, h2}
MCTicket == {ka, kb, kd}
\* h2 is a later head of a1; b1 may also offer it as its own.
MCOwn == (ha :> {ha}) @@ (hb :> {hb}) @@ (hd :> {hd}) @@ (h2 :> {ha, h2})
Of(p, h, k, D) == [pr |-> p, sha |-> h, ticket |-> k, deps |-> D]
MCOffer == {Of(a1, ha, ka, {}), Of(a1, h2, ka, {}), Of(b1, hb, kb, {}), Of(b1, hb, ka, {}), Of(b1, hb, kb, {a1}),
            Of(b1, h2, kb, {}), Of(d1, hd, kd, {a1, b1}), Of(d1, hd, kd, {b1})}
MCInstruction == {i1}

\* A run that is admitted in parallel, and one that only asks for one worker.
MCHeavyRun == {v1, v2}
MCPartition == {x1, x2}
MCSymmetry == Permutations(MCPartition)
MCParallel == (v1 :> 2) @@ (v2 :> 1)

MCCandidate == {n1, n2}
MCReviewer == {q1, q2}
MCReviewerSet == {{q1}, {q1, q2}}
MCSubmitter == {u1, u2}

MCInit == Init /\ HeavyInit /\ ReviewInit /\ facet \in {"owner", "host", "heavy", "review"}

\* Stalls and instructions do not meet the merges, so a behaviour of the queue has a clock
\* and an owner, or a host on which the target moves; reviews are of what is in the queue.
QueueNext ==
  \/ facet = "owner" /\ UNCHANGED host /\ Next
  \/ /\ facet = "host" /\ UNCHANGED <<clock, used>> /\ Next
     /\ \A p \in Pr : gate'[p] # gate[p] => <<p, gate'[p].sha>> \in Heads(entry)

\* Only v1 retries a partition: one run with a second attempt meets every case of a retry.
MCNext ==
  \/ facet \in {"owner", "host"} /\ QueueNext /\ UNCHANGED <<heavyVars, reviewVars, facet>>
  \/ facet = "heavy" /\ HeavyNext /\ UNCHANGED <<queueVars, reviewVars, facet>>
     /\ \A p \in Partition : tries'[v2][p] <= 1
  \/ facet = "review" /\ ReviewNext /\ UNCHANGED <<queueVars, heavyVars, facet>>

MCSpec == MCInit /\ [][MCNext]_<<queueVars, heavyVars, reviewVars, facet>>

\* The three components of the delivery of a candidate keep their types.
DeliveryTypeOK == QueueTypeOK /\ HeavyTypeOK /\ ReviewTypeOK
=============================================================================
