-------------------------- MODULE IntegrationQueue --------------------------
(***************************************************************************)
(* The reviewed epic integration queue (integration_queue.py).  Every      *)
(* operation is one BEGIN IMMEDIATE transaction over the state of an epic, *)
(* rolled back by any refusal, so an operation is an action; it ends with  *)
(* a build of the queue it leaves, and with the ejection of the first      *)
(* entry whose prefix fails.                                               *)
(*                                                                         *)
(* The list of entries is a relation: ahead contains <<a, b>> when a is    *)
(* earlier than b.  Target commits are numbered in the order in which the  *)
(* target branch moves.  Builds, commit ranges, merges and reviews are     *)
(* observations of truthful producers; that their receipts are fresh,      *)
(* registered and consumed once is a refusal and has no step here.  An     *)
(* entry's base branch follows from its dependencies; the generation only  *)
(* numbers the builds.                                                     *)
(***************************************************************************)
EXTENDS Integers, FiniteSets

CONSTANTS
  Pr, Sha, Ticket,   \* pull requests, heads, and the ticket with its task branch
  Own,               \* Own[h]: the commits of the range that ends in head h
  Offer,             \* the entries that callers may present
  Instruction,       \* the owner's instructions, each usable once
  StallAfter,        \* stall_after_hours of the mode record
  MaxTip, MaxClock,   \* bounds on the moves of the target and of the queue clock
  None

Entry == [sha : Sha, ticket : Ticket, deps : SUBSET Pr,
          kept : [review : Nat, prior : Nat, target : Nat] \cup {None}]
Merged == [sha : Sha, old : Nat, new : Nat]
Gate == [sha : Sha, target : Nat]

ASSUME QueueAssumption ==
  /\ Own \in [Sha -> SUBSET Sha] /\ \A h \in Sha : h \in Own[h]
  /\ Offer \subseteq [pr : Pr, sha : Sha, ticket : Ticket, deps : SUBSET Pr]
  /\ \A x \in Offer : x.pr \notin x.deps
  /\ StallAfter \in Nat \ {0}
  /\ MaxTip \in Nat /\ MaxClock \in Nat
  /\ None \notin Pr \cup Entry \cup Merged \cup Gate \cup Nat

VARIABLES
  entry,        \* entry[p]: the admitted entry of p, None when p is not admitted
  ahead,        \* the order of the admitted entries
  quarantined,  \* quarantined_entries, with the identity they reserve
  build,        \* current_build: the heads, order and target it was made of
  target,       \* target_sha
  owner,        \* observed_commits: the pull request a commit belongs to
  used,         \* consumed_instruction_ids
  frontSince,   \* front_since
  closed,
  clock,        \* the queue clock
  arrived,      \* since when the present front has been the front, in committed states
  tip, merged,  \* on the host: the target's tip, and how pull requests were merged
  gate          \* the newest final gate of a pull request, with its authorization

store == <<entry, ahead, quarantined, build, target, owner, used, frontSince, closed>>
host == <<tip, merged, gate>>
queueVars == <<store, arrived, clock, host>>

-----------------------------------------------------------------------------
(* The queue as an ordered set.                                            *)

Admitted(e) == {p \in Pr : e[p] # None}
Heads(e) == {<<p, e[p].sha>> : p \in Admitted(e)}
MWithin(a, P) == a \cap (P \X Pr)

Within(a, P) == a \cap (P \X P)

\* The pull request and head at position one; nothing when the queue is empty.
Front(e, a) == {f \in Heads(e) : \A q \in Admitted(e) : <<q, f[1]>> \notin a}

\* What a build is bound to.
InputOf(e, a, t) == [heads |-> Heads(e), ahead |-> a, target |-> t]

\* The pass of the code over the entries behind f: it collects what depends on something
\* collected before it.
MCollected(e, a, f, S) ==
  S = {f} \cup {p \in Admitted(e) : <<f, p>> \in a /\ f \in e[p].deps}

Collected(e, a, f, S) ==
  /\ S \subseteq Admitted(e)
  /\ \A p \in Admitted(e) :
       p \in S <=> \/ p = f
                   \/ <<f, p>> \in a /\ \E d \in S \cap e[p].deps : <<d, p>> \in a

\* _refresh_front_since, when the front was f before.
MSince(f, e, a, since) == IF Admitted(e) = {} THEN None
                          ELSE IF {x[1] : x \in Front(e, a)} # {x[1] : x \in f} THEN clock ELSE since

Since(f, e, a, since) == IF Admitted(e) = {} THEN None
                         ELSE IF Front(e, a) # f THEN clock ELSE since

\* The orders of the entries e that leave dependencies first.
IsOrder(e, a) ==
  /\ \A p \in Admitted(e) : <<p, p>> \notin a
  /\ \A p, q \in Admitted(e) : p # q => <<p, q>> \in a \/ <<q, p>> \in a
  /\ \A p, q, r \in Admitted(e) : <<p, q>> \in a /\ <<q, r>> \in a => <<p, r>> \in a
  /\ \A p \in Admitted(e) : \A d \in e[p].deps : d \in Admitted(e) /\ <<d, p>> \in a

Needed(p) == \E q \in Admitted(entry) : p \in entry[q].deps

Reserved(x) == {<<q, entry[q].ticket>> : q \in x}

\* The build that stays recorded after a build of e in order a, when f is the entry whose
\* prefix fails first.
MRecorded(e, a, t, f) == InputOf(e, a, t)

Recorded(e, a, t, f) == IF f = None THEN InputOf(e, a, t) ELSE None

\* _install_build and _eject_first_failure, on the entries e in order a on target t.
InstallAndEject(e, a, t) ==
  \E f \in Admitted(e) \cup {None}, out \in SUBSET Admitted(e) :
    /\ IF f = None THEN out = {} ELSE Collected(e, a, f, out)
    /\ entry' = [p \in Pr |-> IF p \in out THEN None ELSE e[p]]
    /\ ahead' = Within(a, Admitted(e) \ out)
    /\ frontSince' = Since(Front(e, a), entry', ahead', Since(Front(entry, ahead), e, a, frontSince))
    /\ quarantined' = quarantined \cup Reserved(out)
    /\ build' = Recorded(e, a, t, f)
    /\ target' = t
  /\ UNCHANGED closed

\* What every operation leaves alone, and the record of how long the front has been there.
Committed ==
  /\ ~closed
  /\ arrived' = IF Front(entry', ahead') = Front(entry, ahead) THEN arrived ELSE clock
  /\ UNCHANGED <<clock, host>>

-----------------------------------------------------------------------------
(* Operations.                                                             *)

\* Commits that are another pull request's, in the queue or by the record, are refused.
OwnsCommits(p, h) ==
  /\ \A q \in Admitted(entry) \ {p} : Own[entry[q].sha] \cap Own[h] = {}
  /\ \A c \in Own[h] : owner[c] \in {None, p}

Claimed(p, h) == [c \in Sha |-> IF c \in Own[h] THEN p ELSE owner[c]]

\* Identities are unique among the admitted entries and reserved for the quarantined ones.
MIdentifies(x) ==
  /\ \A q \in Admitted(entry) : entry[q].ticket # x.ticket
  /\ \A r \in quarantined : r[1] = x.pr => r[2] = x.ticket

Identifies(x) ==
  /\ \A q \in Admitted(entry) : entry[q].ticket # x.ticket
  /\ \A r \in quarantined : r[1] = x.pr <=> r[2] = x.ticket

\* An open pull request is offered.  A red admission takes back only the new entry; a
\* failure before it is a refusal.
Admit(x) ==
  LET e == [entry EXCEPT ![x.pr] = [sha |-> x.sha, ticket |-> x.ticket, deps |-> x.deps, kept |-> None]]
      a == ahead \cup (Admitted(entry) \X {x.pr})
  IN /\ entry[x.pr] = None /\ merged[x.pr] = None
     /\ x.deps \subseteq Admitted(entry)
     /\ Identifies(x) /\ OwnsCommits(x.pr, x.sha)
     /\ owner' = Claimed(x.pr, x.sha)
     /\ \/ /\ entry' = e /\ ahead' = a /\ build' = InputOf(e, a, target)
           /\ quarantined' = {r \in quarantined : r[1] # x.pr}
           /\ frontSince' = Since(Front(entry, ahead), e, a, frontSince)
        \/ /\ build' = None
           /\ frontSince' = Since(Front(entry, ahead), entry, ahead,
                                  Since(Front(entry, ahead), e, a, frontSince))
           /\ UNCHANGED <<entry, ahead, quarantined>>
     /\ Committed /\ UNCHANGED <<target, used, closed>>

\* A conflict with the tip of the current build reserves the commits and nothing else.
Conflict(x) ==
  /\ entry[x.pr] = None /\ x.deps \subseteq Admitted(entry)
  /\ Admitted(entry) # {} => build = InputOf(entry, ahead, target)
  /\ OwnsCommits(x.pr, x.sha)
  /\ owner' = Claimed(x.pr, x.sha)
  /\ UNCHANGED <<entry, ahead, quarantined, build, target, used, frontSince, closed>>
  /\ Committed

HeadChanged(x) ==
  /\ entry[x.pr] # None
  /\ x.sha # entry[x.pr].sha /\ x.ticket = entry[x.pr].ticket
  /\ OwnsCommits(x.pr, x.sha)
  /\ owner' = Claimed(x.pr, x.sha)
  /\ InstallAndEject([entry EXCEPT ![x.pr] = [@ EXCEPT !.sha = x.sha, !.kept = None]], ahead, target)
  /\ Committed /\ UNCHANGED used

OwnerReorder(a, i) ==
  /\ i \notin used /\ used' = used \cup {i}
  /\ a \subseteq Admitted(entry) \X Admitted(entry) /\ IsOrder(entry, a)
  /\ InstallAndEject(entry, a, target)
  /\ Committed /\ UNCHANGED owner

\* A removal by the owner uses an instruction up; a review or lifecycle trigger does not.
Remove(p, I) ==
  /\ entry[p] # None /\ ~Needed(p)
  /\ I \cap used = {} /\ used' = used \cup I
  /\ InstallAndEject([entry EXCEPT ![p] = None], Within(ahead, Admitted(entry) \ {p}), target)
  /\ Committed /\ UNCHANGED owner

OwnerSkip(p, i) == Remove(p, {i})

\* The first entry that does not depend on the stalled front moves before it.
MoveStalledFront ==
  /\ Cardinality(Admitted(entry)) > 1 /\ clock - frontSince > StallAfter
  /\ \E f, p \in Admitted(entry), S \in SUBSET Admitted(entry) :
       /\ \A q \in Admitted(entry) : <<q, f>> \notin ahead
       /\ Collected(entry, ahead, f, S)
       /\ p \notin S /\ \A q \in Admitted(entry) \ S : <<q, p>> \notin ahead
       /\ InstallAndEject(entry, Within(ahead, Admitted(entry) \ {p}) \cup ({p} \X (Admitted(entry) \ {p})), target)
  /\ Committed /\ UNCHANGED <<owner, used>>

Rebuild ==
  /\ InstallAndEject(entry, ahead, tip)
  /\ Committed /\ UNCHANGED <<owner, used>>

Dependants(p) == {q \in Admitted(entry) : p \in entry[q].deps}

\* What a dependant whose patch is unchanged by the retarget keeps its review by.
Retained(q) == [review |-> IF entry[q].kept # None THEN entry[q].kept.review ELSE target,
                prior |-> target, target |-> tip]

\* The front has been merged onto the target the queue knows, and nothing came after it; U
\* are its dependants with an unchanged patch.
RetargetAfterMerge(p, U) ==
  LET e == [q \in Pr |-> IF q = p THEN None
                         ELSE IF q \in Dependants(p)
                           THEN [entry[q] EXCEPT !.deps = @ \ {p},
                                                 !.kept = IF q \in U THEN Retained(q) ELSE None]
                           ELSE entry[q]]
  IN /\ entry[p] # None /\ \A q \in Admitted(entry) : <<q, p>> \notin ahead
     /\ merged[p] = [sha |-> entry[p].sha, old |-> target, new |-> tip]
     /\ InstallAndEject(e, Within(ahead, Admitted(entry) \ {p}), tip)
     /\ Committed /\ UNCHANGED <<owner, used>>

Close ==
  /\ Admitted(entry) = {} /\ closed' = TRUE /\ build' = None
  /\ UNCHANGED <<entry, ahead, quarantined, target, owner, used, frontSince>>
  /\ Committed

-----------------------------------------------------------------------------
(* Readiness, and the host.                                                *)

\* What an observation of the retarget is attested by, and what the reader of a kept review
\* takes for it: nothing more and nothing less.
Attestation == {"producer", "observation", "time", "request", "receipt", "implementation", "release", "registration"}
ClosedShape == {"producer", "observation", "time", "request", "receipt", "implementation", "release"}

\* The target whose review the last retarget kept, when the reader can use it.
KeptTarget(p) ==
  IF entry[p].kept # None /\ entry[p].kept.target = target /\ Attestation = ClosedShape
    THEN {entry[p].kept.review} ELSE {}

\* The gates of an entry that integration_status accepts.
Accepts(p, g) == g # None /\ g.sha = entry[p].sha /\ g.target \in {target} \cup KeptTarget(p)

Ready(p) ==
  /\ <<p, entry[p].sha>> \in Front(entry, ahead)
  /\ build = InputOf(entry, ahead, target)
  /\ Accepts(p, gate[p])

\* A gate is of a pull request into the target branch: one that is not stacked, or whose base
\* the host moved there because the dependency it is stacked on has been merged.
IntoTarget(p) == entry[p] # None /\ entry[p].deps # {} => \E d \in entry[p].deps : merged[d] # None

\* A gate is evaluated for a head on the tip of the target, at any position in the queue.
Review(x) ==
  /\ merged[x.pr] = None /\ IntoTarget(x.pr)
  /\ gate' = [gate EXCEPT ![x.pr] = [sha |-> x.sha, target |-> tip]]
  /\ UNCHANGED <<store, arrived, clock, tip, merged>>

\* The required check lets the owner merge what is ready, wherever the target is by then.
MergeFront(p) ==
  /\ entry[p] # None /\ merged[p] = None /\ Ready(p) /\ tip < MaxTip
  /\ tip' = tip + 1
  /\ merged' = [merged EXCEPT ![p] = [sha |-> entry[p].sha, old |-> tip, new |-> tip + 1]]
  /\ UNCHANGED <<store, arrived, clock, gate>>

Push ==
  /\ tip < MaxTip /\ tip' = tip + 1
  /\ UNCHANGED <<store, arrived, clock, merged, gate>>

Tick ==
  /\ clock < MaxClock /\ clock' = clock + 1
  /\ UNCHANGED <<store, arrived, host>>

Init ==
  /\ entry = [p \in Pr |-> None] /\ ahead = {} /\ quarantined = {} /\ build = None
  /\ target = 0 /\ owner = [c \in Sha |-> None] /\ used = {} /\ frontSince = None
  /\ closed = FALSE /\ clock = 0 /\ arrived = 0
  /\ tip = 0 /\ merged = [p \in Pr |-> None] /\ gate = [p \in Pr |-> None]

Next ==
  \/ \E x \in Offer : Admit(x) \/ Conflict(x) \/ HeadChanged(x) \/ Review(x)
  \/ \E i \in Instruction :
       \E a \in SUBSET {x \in Admitted(entry) \X Admitted(entry) : x[1] # x[2]} : OwnerReorder(a, i)
  \/ \E p \in Pr : Remove(p, {}) \/ MergeFront(p)
  \/ \E p \in Pr, i \in Instruction : Remove(p, {i}) \/ OwnerSkip(p, i)
  \/ MoveStalledFront \/ Rebuild
  \/ \E p \in Pr : \E U \in SUBSET Dependants(p) : RetargetAfterMerge(p, U)
  \/ Close \/ Push \/ Tick

Spec == Init /\ [][Next]_queueVars

-----------------------------------------------------------------------------
QueueTypeOK ==
  /\ entry \in [Pr -> Entry \cup {None}]
  /\ ahead \subseteq Admitted(entry) \X Admitted(entry)
  /\ quarantined \subseteq Pr \X Ticket
  /\ build = None \/ build \in [heads : SUBSET (Pr \X Sha), ahead : SUBSET (Pr \X Pr), target : Nat]
  /\ target \in Nat /\ owner \in [Sha -> Pr \cup {None}] /\ used \subseteq Instruction
  /\ frontSince \in Nat \cup {None} /\ closed \in BOOLEAN
  /\ clock \in Nat /\ arrived \in Nat
  /\ tip \in Nat /\ merged \in [Pr -> Merged \cup {None}] /\ gate \in [Pr -> Gate \cup {None}]

\* Whatever is admitted, ejected, moved, removed or merged, the entries stay in one order in
\* which every dependency is admitted and earlier, so no branch is built or merged before
\* the branch it stacks on, and nothing in the queue rests on something in quarantine.
DependenciesFirst == IsOrder(entry, ahead)

\* A build that is recorded is of the entries, heads, order and target of the present
\* queue, all green: no operation leaves the proof of a queue that is no longer there.
BuildIsCurrent == build # None => build = InputOf(entry, ahead, target)

\* Of the pull requests that are admitted or in quarantine no two share a ticket, and of all
\* that ever were admitted no two share a commit of an admitted head.
OneOwner ==
  /\ \A p, q \in Admitted(entry) : p # q => entry[p].ticket # entry[q].ticket
  /\ \A p \in Admitted(entry) : \A r \in quarantined : p # r[1] /\ entry[p].ticket # r[2]
  /\ \A p \in Admitted(entry) : \A c \in Own[entry[p].sha] : owner[c] = p

\* What the queue promises to those who read it: its order, its build and its identities
\* belong together after every operation (admit, merge, eject, stall, reorder, return).
QueueIsSound == DependenciesFirst /\ BuildIsCurrent /\ OneOwner

\* A front is never treated as stalled before it has been the front for the whole interval,
\* with the head it has now: the recorded time is not older than its arrival.
FrontGetsItsTime ==
  /\ Admitted(entry) = {} <=> frontSince = None
  /\ frontSince # None => arrived <= frontSince /\ frontSince <= clock

\* A dependant whose patch the retarget leaves unchanged keeps the review it had: a gate that
\* was accepted before is accepted after, unless the build ejected the entry.  The decision
\* the retarget returns says so; what the store keeps is for the reader to accept.
ReviewSurvives ==
  [][\A p \in Pr : \A U \in SUBSET Dependants(p) : RetargetAfterMerge(p, U) =>
       \A q \in U : entry'[q] # None /\ Accepts(q, gate[q]) => Accepts(q, gate[q])']_queueVars
=============================================================================
