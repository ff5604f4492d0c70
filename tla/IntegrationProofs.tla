------------------------- MODULE IntegrationProofs -------------------------
(***************************************************************************)
(* What a candidate can rely on until it is merged: what the integration   *)
(* queue keeps for every number of pull requests, whichever prefixes fail  *)
(* and however the target moves; that validation runs stay within the      *)
(* host's workers; and that a review submission holds its cycle.           *)
(***************************************************************************)
EXTENDS MCIntegration, FiniteSetTheorems, FunctionTheorems, SequenceTheorems, TLAPS

-----------------------------------------------------------------------------
(* The integration queue.                                                  *)

\* The entries and the order that an operation hands to the build.
Successor(e, a) ==
  /\ e \in [Pr -> Entry \cup {None}] /\ a \subseteq Admitted(e) \X Admitted(e)
  /\ IsOrder(e, a)
  /\ Admitted(e) \subseteq Admitted(entry)
  /\ \A p \in Admitted(e) : e[p].ticket = entry[p].ticket

\* The commits of the admitted heads are recorded as theirs.
Recording(e, o) == \A p \in Admitted(e) : \A c \in Own[e[p].sha] : o[c] = p

Rebuilt ==
  \E e, a : \E t \in Nat : Successor(e, a) /\ Recording(e, owner') /\ InstallAndEject(e, a, t)

\* What is in the queue after a build and the ejection.
Shrunk ==
  /\ entry' \in [Pr -> Entry \cup {None}]
  /\ ahead' \subseteq Admitted(entry') \X Admitted(entry')
  /\ Admitted(entry') \subseteq Admitted(entry)
  /\ \A p \in Admitted(entry') : entry'[p].ticket = entry[p].ticket

LEMMA Admissions == ASSUME NEW e \in [Pr -> Entry \cup {None}], NEW p \in Admitted(e)
                    PROVE p \in Pr /\ e[p] \in Entry
BY DEF Admitted

\* What is left when everything that rests on f is collected is in order.
LEMMA EjectionKeepsOrder ==
  ASSUME NEW e \in [Pr -> Entry \cup {None}], NEW a \in SUBSET (Admitted(e) \X Admitted(e)),
         IsOrder(e, a), NEW f \in Admitted(e), NEW S, Collected(e, a, f, S),
         NEW g, g = [p \in Pr |-> IF p \in S THEN None ELSE e[p]]
  PROVE  /\ Admitted(g) = Admitted(e) \ S
         /\ IsOrder(g, Within(a, Admitted(e) \ S))
<1>1. Admitted(g) = Admitted(e) \ S BY DEF Admitted
<1>2. ASSUME NEW p \in Admitted(g), NEW d \in g[p].deps
      PROVE  d \in Admitted(g) /\ <<d, p>> \in Within(a, Admitted(e) \ S)
  <2>1. p \in Admitted(e) /\ p \notin S /\ g[p] = e[p] BY <1>1, <1>2 DEF Admitted
  <2>2. d \in Admitted(e) /\ <<d, p>> \in a BY <1>2, <2>1 DEF IsOrder
  <2>3. d # f => <<f, p>> \notin a \/ d \notin S
    BY <1>2, <2>1, <2>2 DEF Collected
  <2>4. d = f => FALSE BY <1>2, <2>1, <2>2 DEF Collected
  <2>5. d \in S => <<f, d>> \in a BY <2>2, <2>4 DEF Collected
  <2>6. d \in S => <<f, p>> \in a BY <2>1, <2>2, <2>5 DEF IsOrder
  <2>7. d \notin S BY <2>3, <2>4, <2>6
  <2> QED BY <1>1, <2>1, <2>2, <2>7 DEF Within
<1>3. /\ \A p \in Admitted(g) : <<p, p>> \notin Within(a, Admitted(e) \ S)
      /\ \A p, q \in Admitted(g) : p # q => \/ <<p, q>> \in Within(a, Admitted(e) \ S)
                                            \/ <<q, p>> \in Within(a, Admitted(e) \ S)
      /\ \A p, q, r \in Admitted(g) : /\ <<p, q>> \in Within(a, Admitted(e) \ S)
                                      /\ <<q, r>> \in Within(a, Admitted(e) \ S)
                                      => <<p, r>> \in Within(a, Admitted(e) \ S)
  BY <1>1 DEF IsOrder, Within
<1> QED BY <1>1, <1>2, <1>3 DEF IsOrder

LEMMA RebuiltQueue ==
  ASSUME QueueTypeOK, Rebuilt
  PROVE  /\ Shrunk /\ DependenciesFirst' /\ BuildIsCurrent' /\ Recording(entry', owner')
         /\ target' \in Nat
         /\ build' = None \/ build' \in [heads : SUBSET (Pr \X Sha), ahead : SUBSET (Pr \X Pr), target : Nat]
         /\ \A r \in quarantined' :
              r \in quarantined \/ \E q \in Admitted(entry) \ Admitted(entry') : r = <<q, entry[q].ticket>>
<1>1. PICK e, a : \E t \in Nat : Successor(e, a) /\ Recording(e, owner') /\ InstallAndEject(e, a, t)
  BY DEF Rebuilt
<1>2. PICK t \in Nat : Successor(e, a) /\ Recording(e, owner') /\ InstallAndEject(e, a, t) BY <1>1
<1>3. PICK f \in Admitted(e) \cup {None}, out \in SUBSET Admitted(e) :
        /\ IF f = None THEN out = {} ELSE Collected(e, a, f, out)
        /\ entry' = [p \in Pr |-> IF p \in out THEN None ELSE e[p]]
        /\ ahead' = Within(a, Admitted(e) \ out)
        /\ quarantined' = quarantined \cup Reserved(out)
        /\ build' = Recorded(e, a, t, f)
        /\ target' = t
  BY <1>2 DEF InstallAndEject
<1>4. /\ e \in [Pr -> Entry \cup {None}] /\ a \subseteq Admitted(e) \X Admitted(e)
      /\ IsOrder(e, a) /\ Admitted(e) \subseteq Admitted(entry)
      /\ \A p \in Admitted(e) : e[p].ticket = entry[p].ticket
  BY <1>2 DEF Successor
<1>5. Admitted(entry') = Admitted(e) \ out BY <1>3 DEF Admitted
<1>6. \A p \in Admitted(entry') : entry'[p] = e[p] BY <1>3, <1>5 DEF Admitted
<1>7. entry' \in [Pr -> Entry \cup {None}] BY <1>3, <1>4
<1>8. Shrunk BY <1>3, <1>4, <1>5, <1>6, <1>7 DEF Shrunk, Within
<1>9. f = None => entry' = e /\ ahead' = a
  <2> SUFFICES ASSUME f = None PROVE entry' = e /\ ahead' = a OBVIOUS
  <2>1. out = {} BY <1>3
  <2>2. entry' = e BY <1>3, <1>4, <2>1
  <2>3. ahead' = a BY <1>3, <1>4, <2>1 DEF Within
  <2> QED BY <2>2, <2>3
<1>10. IsOrder(entry', ahead')
  <2>1. CASE f = None BY <2>1, <1>4, <1>9
  <2>2. CASE f # None BY <2>2, <1>3, <1>4, EjectionKeepsOrder
  <2> QED BY <2>1, <2>2
<1>11. DependenciesFirst' BY <1>10 DEF DependenciesFirst, IsOrder, Admitted
<1>12. build' # None => build' = InputOf(entry', ahead', target') BY <1>3, <1>9 DEF Recorded
<1>13. BuildIsCurrent' BY <1>12 DEF BuildIsCurrent, InputOf, Heads, Admitted
<1>14. Heads(entry') \subseteq Pr \X Sha
  <2>1. ASSUME NEW p \in Admitted(entry') PROVE p \in Pr /\ entry'[p].sha \in Sha
    BY <2>1, <1>7, Admissions DEF Entry
  <2> QED BY <2>1 DEF Heads
<1>15. ahead' \subseteq Pr \X Pr BY <1>8 DEF Shrunk, Admitted
<1>16. build' = None \/ build' \in [heads : SUBSET (Pr \X Sha), ahead : SUBSET (Pr \X Pr), target : Nat]
  BY <1>3, <1>12, <1>14, <1>15 DEF InputOf
<1>17. \A r \in quarantined' :
         r \in quarantined \/ \E q \in Admitted(entry) \ Admitted(entry') : r = <<q, entry[q].ticket>>
  BY <1>3, <1>4, <1>5 DEF Reserved
<1>18. Recording(entry', owner') BY <1>2, <1>5, <1>6 DEF Recording
<1> QED BY <1>3, <1>8, <1>11, <1>13, <1>16, <1>17, <1>18

\* The recorded time of the front after a build and the ejection.
Timed == arrived <= clock /\ FrontGetsItsTime

LEMMA RebuiltFront ==
  ASSUME QueueTypeOK, Timed, Rebuilt, Committed
  PROVE  Timed' /\ frontSince' \in Nat \cup {None} /\ arrived' \in Nat
<1>1. PICK e, a : \E t \in Nat : Successor(e, a) /\ InstallAndEject(e, a, t) BY DEF Rebuilt
<1>2. Successor(e, a) /\ \E t \in Nat : InstallAndEject(e, a, t) BY <1>1
<1>3. frontSince' = Since(Front(e, a), entry', ahead', Since(Front(entry, ahead), e, a, frontSince))
  BY <1>2 DEF InstallAndEject
<1>4. /\ arrived' = IF Front(entry', ahead') = Front(entry, ahead) THEN arrived ELSE clock
      /\ clock' = clock
  BY DEF Committed
<1>5. Admitted(entry') \subseteq Admitted(e) /\ Admitted(e) \subseteq Admitted(entry)
  BY <1>2 DEF Successor, InstallAndEject, Admitted
<1>6. /\ clock \in Nat /\ arrived \in Nat /\ frontSince \in Nat \cup {None} /\ None \notin Nat
      /\ arrived <= clock
      /\ Admitted(entry) = {} <=> frontSince = None
      /\ frontSince # None => arrived <= frontSince /\ frontSince <= clock
  BY QueueAssumption DEF QueueTypeOK, Timed, FrontGetsItsTime
<1>7. CASE Admitted(entry') = {}
  <2>1. frontSince' = None BY <1>3, <1>7 DEF Since
  <2> QED BY <2>1, <1>4, <1>6, <1>7 DEF Timed, FrontGetsItsTime, Admitted
<1>8. CASE Admitted(entry') # {}
  <2>1. Admitted(e) # {} /\ Admitted(entry) # {} BY <1>5, <1>8
  <2>2. frontSince' = IF Front(entry', ahead') # Front(e, a) THEN clock
                      ELSE IF Front(e, a) # Front(entry, ahead) THEN clock ELSE frontSince
    BY <1>3, <1>8, <2>1 DEF Since
  <2>3. frontSince' # None /\ arrived' <= frontSince' /\ frontSince' <= clock' /\ arrived' <= clock'
    BY <1>4, <1>6, <2>1, <2>2
  <2> QED BY <2>2, <2>3, <1>4, <1>6, <1>8 DEF Timed, FrontGetsItsTime, Admitted
<1> QED BY <1>7, <1>8

\* What the operations that end with a build leave alone.
Kept == closed' = closed /\ owner' \in [Sha -> Pr \cup {None}] /\ used' \in SUBSET Instruction

LEMMA RebuiltType ==
  ASSUME QueueTypeOK, Timed, Rebuilt, Committed, Kept
  PROVE  QueueTypeOK'
<1>1. /\ Shrunk /\ target' \in Nat
      /\ build' = None \/ build' \in [heads : SUBSET (Pr \X Sha), ahead : SUBSET (Pr \X Pr), target : Nat]
      /\ \A r \in quarantined' :
           r \in quarantined \/ \E q \in Admitted(entry) \ Admitted(entry') : r = <<q, entry[q].ticket>>
  BY RebuiltQueue
<1>2. frontSince' \in Nat \cup {None} /\ arrived' \in Nat BY RebuiltFront
<1>3. quarantined' \subseteq Pr \X Ticket
  <2>1. ASSUME NEW q \in Admitted(entry) PROVE q \in Pr /\ entry[q].ticket \in Ticket
    BY <2>1, Admissions DEF QueueTypeOK, Entry
  <2>2. quarantined \subseteq Pr \X Ticket BY DEF QueueTypeOK
  <2> QED BY <1>1, <2>1, <2>2
<1>4. closed' \in BOOLEAN /\ owner' \in [Sha -> Pr \cup {None}] /\ used' \subseteq Instruction
  BY DEF Kept, QueueTypeOK
<1>5. clock' \in Nat /\ tip' \in Nat /\ merged' \in [Pr -> Merged \cup {None}] /\ gate' \in [Pr -> Gate \cup {None}]
  BY DEF QueueTypeOK, Committed, host
<1>6. entry' \in [Pr -> Entry \cup {None}] /\ ahead' \subseteq Admitted(entry') \X Admitted(entry')
  BY <1>1 DEF Shrunk
<1> QED BY <1>1, <1>2, <1>3, <1>4, <1>5, <1>6 DEF QueueTypeOK, Admitted

LEMMA RebuiltOwner ==
  ASSUME QueueTypeOK, OneOwner, Rebuilt
  PROVE  OneOwner'
<1>1. /\ Shrunk /\ Recording(entry', owner')
      /\ \A r \in quarantined' :
           r \in quarantined \/ \E q \in Admitted(entry) \ Admitted(entry') : r = <<q, entry[q].ticket>>
  BY RebuiltQueue
<1>2. \A p, q \in Admitted(entry') : p # q => entry'[p].ticket # entry'[q].ticket
  BY <1>1 DEF Shrunk, OneOwner
<1>3. ASSUME NEW p \in Admitted(entry'), NEW r \in quarantined'
      PROVE  p # r[1] /\ entry'[p].ticket # r[2]
  <2>1. p \in Admitted(entry) /\ entry'[p].ticket = entry[p].ticket BY <1>1, <1>3 DEF Shrunk
  <2>2. CASE r \in quarantined BY <2>1, <2>2 DEF OneOwner
  <2>3. CASE \E q \in Admitted(entry) \ Admitted(entry') : r = <<q, entry[q].ticket>>
    <3>1. PICK q \in Admitted(entry) \ Admitted(entry') : r = <<q, entry[q].ticket>> BY <2>3
    <3>2. q # p BY <1>3, <3>1
    <3>3. r[1] = q /\ r[2] = entry[q].ticket BY <3>1
    <3> QED BY <2>1, <3>1, <3>2, <3>3 DEF OneOwner
  <2> QED BY <1>1, <1>3, <2>2, <2>3
<1> QED BY <1>1, <1>2, <1>3 DEF OneOwner, Admitted, Recording

QueueInv == QueueTypeOK /\ DependenciesFirst /\ BuildIsCurrent /\ OneOwner /\ Timed

LEMMA QueueInvUse ==
  ASSUME QueueInv
  PROVE  /\ entry \in [Pr -> Entry \cup {None}] /\ ahead \subseteq Admitted(entry) \X Admitted(entry)
         /\ IsOrder(entry, ahead) /\ Recording(entry, owner)
         /\ owner \in [Sha -> Pr \cup {None}] /\ used \subseteq Instruction /\ target \in Nat /\ tip \in Nat
         /\ None \notin Entry
BY QueueAssumption DEF QueueInv, QueueTypeOK, DependenciesFirst, OneOwner, Recording

\* An operation that leaves the owners of commits alone records no other head.
LEMMA SameOwner ==
  ASSUME QueueInv, owner' = owner, NEW e, Admitted(e) \subseteq Admitted(entry),
         \A p \in Admitted(e) : e[p].sha = entry[p].sha
  PROVE  Recording(e, owner')
BY QueueInvUse DEF Recording

LEMMA HeadChangedRebuilds ==
  ASSUME QueueInv, NEW x \in Offer, HeadChanged(x)
  PROVE  Rebuilt /\ Committed /\ Kept
<1> DEFINE e == [entry EXCEPT ![x.pr] = [entry[x.pr] EXCEPT !.sha = x.sha, !.kept = None]]
<1>1. /\ entry[x.pr] # None /\ x.ticket = entry[x.pr].ticket /\ OwnsCommits(x.pr, x.sha)
      /\ owner' = Claimed(x.pr, x.sha) /\ used' = used /\ Committed
      /\ InstallAndEject(e, ahead, target)
  BY DEF HeadChanged
<1>2. x.pr \in Pr /\ x.sha \in Sha BY QueueAssumption
<1>3. e \in [Pr -> Entry \cup {None}]
  <2>1. entry[x.pr] \in Entry BY <1>1, <1>2, QueueInvUse
  <2>2. [entry[x.pr] EXCEPT !.sha = x.sha, !.kept = None] \in Entry BY <2>1, <1>2 DEF Entry
  <2> QED BY <2>2, <1>2, QueueInvUse
<1>4. /\ Admitted(e) = Admitted(entry)
      /\ \A p \in Admitted(entry) : e[p].deps = entry[p].deps /\ e[p].ticket = entry[p].ticket
      /\ \A p \in Admitted(entry) : e[p].sha = IF p = x.pr THEN x.sha ELSE entry[p].sha
  <2>1. entry[x.pr] \in Entry /\ entry \in [Pr -> Entry \cup {None}] BY <1>1, <1>2, QueueInvUse
  <2>2. [entry[x.pr] EXCEPT !.sha = x.sha, !.kept = None] \in Entry BY <2>1, <1>2 DEF Entry
  <2>3. None \notin Entry BY QueueAssumption
  <2>4. \A p \in Pr : e[p] = IF p = x.pr THEN [entry[x.pr] EXCEPT !.sha = x.sha, !.kept = None] ELSE entry[p]
    BY <2>1
  <2>5. Admitted(e) = Admitted(entry) BY <1>1, <2>2, <2>3, <2>4 DEF Admitted
  <2>6. /\ [entry[x.pr] EXCEPT !.sha = x.sha, !.kept = None].deps = entry[x.pr].deps
        /\ [entry[x.pr] EXCEPT !.sha = x.sha, !.kept = None].ticket = entry[x.pr].ticket
        /\ [entry[x.pr] EXCEPT !.sha = x.sha, !.kept = None].sha = x.sha
    BY <2>1 DEF Entry
  <2>7. Admitted(entry) \subseteq Pr BY DEF Admitted
  <2> HIDE DEF e
  <2> QED BY <2>4, <2>5, <2>6, <2>7
<1> HIDE DEF e
<1>5. Successor(e, ahead) BY <1>3, <1>4, QueueInvUse DEF Successor, IsOrder
<1>6. Recording(e, owner')
  <2> SUFFICES ASSUME NEW p \in Admitted(entry), NEW c \in Own[e[p].sha] PROVE owner'[c] = p
    BY <1>4 DEF Recording
  <2>1. CASE p = x.pr BY <2>1, <1>1, <1>2, <1>4, QueueAssumption DEF Claimed
  <2>2. CASE p # x.pr
    <3>1. c \in Own[entry[p].sha] /\ c \notin Own[x.sha] BY <2>2, <1>1, <1>4 DEF OwnsCommits
    <3>2. c \in Sha BY <3>1, QueueInvUse, Admissions, QueueAssumption DEF Entry
    <3> QED BY <3>1, <3>2, <1>1, QueueInvUse DEF Claimed, Recording
  <2> QED BY <2>1, <2>2
<1>7. Rebuilt BY <1>1, <1>5, <1>6, QueueInvUse DEF Rebuilt
<1>8. owner' \in [Sha -> Pr \cup {None}] BY <1>1, <1>2, QueueInvUse DEF Claimed
<1> QED BY <1>1, <1>7, <1>8, QueueInvUse DEF Kept, InstallAndEject

\* The present entries in any order that leaves dependencies first.
LEMMA OrderRebuilds ==
  ASSUME QueueInv, owner' = owner, NEW a \in SUBSET (Admitted(entry) \X Admitted(entry)),
         IsOrder(entry, a), \E t \in Nat : InstallAndEject(entry, a, t)
  PROVE  Rebuilt
<1>1. Successor(entry, a) BY QueueInvUse DEF Successor
<1>2. Recording(entry, owner') BY QueueInvUse DEF Recording
<1> QED BY <1>1, <1>2 DEF Rebuilt

LEMMA OwnerReorderRebuilds ==
  ASSUME QueueInv, NEW a, NEW i \in Instruction, OwnerReorder(a, i)
  PROVE  Rebuilt /\ Committed /\ Kept
<1>1. Rebuilt BY OrderRebuilds, QueueInvUse DEF OwnerReorder
<1> QED BY <1>1, QueueInvUse DEF OwnerReorder, Kept, InstallAndEject

LEMMA RebuildRebuilds ==
  ASSUME QueueInv, Rebuild
  PROVE  Rebuilt /\ Committed /\ Kept
<1>1. Rebuilt BY OrderRebuilds, QueueInvUse DEF Rebuild
<1> QED BY <1>1, QueueInvUse DEF Rebuild, Kept, InstallAndEject

LEMMA RemoveRebuilds ==
  ASSUME QueueInv, NEW p \in Pr, NEW I \in SUBSET Instruction, Remove(p, I)
  PROVE  Rebuilt /\ Committed /\ Kept
<1> DEFINE e == [entry EXCEPT ![p] = None]
           a == Within(ahead, Admitted(entry) \ {p})
<1>1. ~Needed(p) /\ owner' = owner /\ Committed /\ InstallAndEject(e, a, target) BY DEF Remove
<1>2. e \in [Pr -> Entry \cup {None}] /\ Admitted(e) = Admitted(entry) \ {p}
      /\ \A q \in Admitted(e) : e[q] = entry[q]
  BY QueueInvUse DEF Admitted
<1>3. a \subseteq Admitted(e) \X Admitted(e) BY <1>2 DEF Within
<1>4. IsOrder(e, a)
  <2>1. \A q \in Admitted(entry) : p \notin entry[q].deps BY <1>1 DEF Needed
  <2> HIDE DEF e
  <2> QED BY <1>2, <2>1, QueueInvUse DEF IsOrder, Within
<1> HIDE DEF e, a
<1>5. Successor(e, a) BY <1>2, <1>3, <1>4 DEF Successor
<1>6. Recording(e, owner') BY <1>1, <1>2, QueueInvUse DEF Recording
<1>7. Rebuilt BY <1>1, <1>5, <1>6, QueueInvUse DEF Rebuilt
<1> QED BY <1>1, <1>7, QueueInvUse DEF Remove, Kept, InstallAndEject

\* What moves before the front rests on nothing in the queue.
LEMMA MovedOrder ==
  ASSUME QueueInv, NEW f \in Admitted(entry), \A q \in Admitted(entry) : <<q, f>> \notin ahead,
         NEW S, Collected(entry, ahead, f, S), NEW p \in Admitted(entry) \ S,
         \A q \in Admitted(entry) \ S : <<q, p>> \notin ahead,
         NEW a, a = Within(ahead, Admitted(entry) \ {p}) \cup ({p} \X (Admitted(entry) \ {p}))
  PROVE  a \subseteq Admitted(entry) \X Admitted(entry) /\ IsOrder(entry, a)
<1>1. a \subseteq Admitted(entry) \X Admitted(entry) BY DEF Within
<1>2. \A q, r \in Admitted(entry) :
        <<q, r>> \in a <=> \/ q = p /\ r # p
                           \/ q # p /\ r # p /\ <<q, r>> \in ahead
  BY DEF Within
<1>3. IsOrder(entry, ahead) BY QueueInvUse
<1>4. ASSUME NEW d \in entry[p].deps PROVE FALSE
  <2>1. d \in Admitted(entry) /\ <<d, p>> \in ahead BY <1>3, <1>4 DEF IsOrder
  <2>2. d \in S BY <2>1
  <2>3. d = f \/ <<f, d>> \in ahead BY <2>1, <2>2 DEF Collected
  <2>4. <<f, p>> \in ahead BY <1>3, <2>1, <2>3 DEF IsOrder
  <2> QED BY <1>4, <2>1, <2>2, <2>4 DEF Collected
<1>5. \A q \in Admitted(entry) : \A d \in entry[q].deps : d \in Admitted(entry) /\ <<d, q>> \in a
  BY <1>2, <1>3, <1>4 DEF IsOrder
<1>6. /\ \A q \in Admitted(entry) : <<q, q>> \notin a
      /\ \A q, r \in Admitted(entry) : q # r => <<q, r>> \in a \/ <<r, q>> \in a
      /\ \A q, r, s \in Admitted(entry) : <<q, r>> \in a /\ <<r, s>> \in a => <<q, s>> \in a
  BY <1>2, <1>3 DEF IsOrder
<1> QED BY <1>1, <1>5, <1>6 DEF IsOrder

LEMMA MoveRebuilds ==
  ASSUME QueueInv, MoveStalledFront
  PROVE  Rebuilt /\ Committed /\ Kept
<1> DEFINE After(p) == Within(ahead, Admitted(entry) \ {p}) \cup ({p} \X (Admitted(entry) \ {p}))
<1>0. PICK f \in Admitted(entry), p \in Admitted(entry), S \in SUBSET Admitted(entry) :
        /\ \A q \in Admitted(entry) : <<q, f>> \notin ahead
        /\ Collected(entry, ahead, f, S)
        /\ p \notin S /\ \A q \in Admitted(entry) \ S : <<q, p>> \notin ahead
        /\ InstallAndEject(entry, After(p), target)
  BY DEF MoveStalledFront
<1> DEFINE a == After(p)
<1>1. /\ f \in Admitted(entry) /\ (\A q \in Admitted(entry) : <<q, f>> \notin ahead)
      /\ Collected(entry, ahead, f, S) /\ p \in Admitted(entry) \ S
      /\ (\A q \in Admitted(entry) \ S : <<q, p>> \notin ahead)
      /\ InstallAndEject(entry, a, target) /\ Committed /\ owner' = owner /\ used' = used
  BY <1>0 DEF MoveStalledFront
<1> HIDE DEF a
<1>2. a \subseteq Admitted(entry) \X Admitted(entry) /\ IsOrder(entry, a)
  BY <1>1, MovedOrder DEF a
<1>3. Rebuilt BY <1>1, <1>2, OrderRebuilds, QueueInvUse
<1> QED BY <1>1, <1>3, QueueInvUse DEF Kept, InstallAndEject

LEMMA RetargetRebuilds ==
  ASSUME QueueInv, NEW p \in Pr, NEW U \in SUBSET Dependants(p), RetargetAfterMerge(p, U)
  PROVE  Rebuilt /\ Committed /\ Kept
<1> DEFINE moved(q) == [entry[q] EXCEPT !.deps = entry[q].deps \ {p},
                                        !.kept = IF q \in U THEN Retained(q) ELSE None]
           e == [q \in Pr |-> IF q = p THEN None ELSE IF q \in Dependants(p) THEN moved(q) ELSE entry[q]]
           a == Within(ahead, Admitted(entry) \ {p})
<1>1. /\ entry[p] # None /\ InstallAndEject(e, a, tip)
      /\ Committed /\ owner' = owner /\ used' = used
  BY DEF RetargetAfterMerge
<1>2. ASSUME NEW q \in Dependants(p)
      PROVE  /\ moved(q) \in Entry /\ moved(q) # None /\ moved(q).deps = entry[q].deps \ {p}
             /\ moved(q).sha = entry[q].sha /\ moved(q).ticket = entry[q].ticket
  <2>1. entry[q] \in Entry BY QueueInvUse, Admissions DEF Dependants
  <2>2. Retained(q) \in [review : Nat, prior : Nat, target : Nat]
    BY <2>1, QueueInvUse DEF Retained, Entry
  <2> HIDE DEF moved
  <2>3. moved(q) \in Entry /\ moved(q).deps = entry[q].deps \ {p}
      /\ moved(q).sha = entry[q].sha /\ moved(q).ticket = entry[q].ticket
    BY <2>1, <2>2 DEF Entry, moved
  <2> QED BY <2>3, QueueInvUse
<1>3. e \in [Pr -> Entry \cup {None}] BY <1>2, QueueInvUse
<1>4. /\ Admitted(e) = Admitted(entry) \ {p}
      /\ \A q \in Admitted(e) : e[q].sha = entry[q].sha /\ e[q].ticket = entry[q].ticket
      /\ \A q \in Admitted(e) : e[q].deps = entry[q].deps \ {p}
  <2> HIDE DEF moved
  <2>1. \A q \in Pr \ {p} : e[q] = IF q \in Dependants(p) THEN moved(q) ELSE entry[q] OBVIOUS
  <2>2. e[p] = None OBVIOUS
  <2> HIDE DEF e
  <2>3. Admitted(e) = Admitted(entry) \ {p} BY <1>2, <2>1, <2>2 DEF Admitted, Dependants
  <2>4. \A q \in Admitted(e) : q \in Pr \ {p} /\ q \in Admitted(entry) BY <2>3 DEF Admitted
  <2>5. \A q \in Admitted(e) \ Dependants(p) : p \notin entry[q].deps BY <2>4 DEF Dependants
  <2>6. \A q \in Admitted(entry) : entry[q].deps \in SUBSET Pr BY QueueInvUse, Admissions DEF Entry
  <2> QED BY <1>2, <2>1, <2>3, <2>4, <2>5, <2>6
<1> HIDE DEF e, moved
<1>5. a \subseteq Admitted(e) \X Admitted(e) BY <1>4 DEF Within
<1>6. IsOrder(e, a) BY <1>4, QueueInvUse DEF IsOrder, Within
<1> HIDE DEF a
<1>7. Successor(e, a) BY <1>3, <1>4, <1>5, <1>6 DEF Successor
<1>8. Recording(e, owner') BY <1>1, <1>4, QueueInvUse DEF Recording
<1>9. Rebuilt BY <1>1, <1>7, <1>8, QueueInvUse DEF Rebuilt
<1> QED BY <1>1, <1>9, QueueInvUse DEF Kept, InstallAndEject

\* Every operation that ends with a build and an ejection keeps the invariant.
LEMMA RebuiltKeeps ==
  ASSUME QueueInv, Rebuilt, Committed, Kept
  PROVE  QueueInv'
BY RebuiltQueue, RebuiltFront, RebuiltType, RebuiltOwner DEF QueueInv

\* The commits that an offer may claim leave the records of the admitted heads as they are.
LEMMA ClaimedRecords ==
  ASSUME QueueInv, NEW x \in Offer, OwnsCommits(x.pr, x.sha), owner' = Claimed(x.pr, x.sha),
         entry[x.pr] = None
  PROVE  /\ owner' \in [Sha -> Pr \cup {None}] /\ Recording(entry, owner')
         /\ \A c \in Own[x.sha] : owner'[c] = x.pr
<1>1. x.pr \in Pr /\ x.sha \in Sha /\ Own[x.sha] \subseteq Sha BY QueueAssumption
<1>2. owner' \in [Sha -> Pr \cup {None}] BY <1>1, QueueInvUse DEF Claimed
<1>3. \A c \in Own[x.sha] : owner'[c] = x.pr BY <1>1 DEF Claimed
<1>4. ASSUME NEW p \in Admitted(entry), NEW c \in Own[entry[p].sha] PROVE owner'[c] = p
  <2>1. p # x.pr BY <1>4 DEF Admitted
  <2>2. c \notin Own[x.sha] BY <1>4, <2>1 DEF OwnsCommits
  <2>3. c \in Sha BY <1>4, QueueInvUse, Admissions, QueueAssumption DEF Entry
  <2> QED BY <1>4, <2>2, <2>3, QueueInvUse DEF Claimed, Recording
<1> QED BY <1>2, <1>3, <1>4 DEF Recording

\* What stays when the entries and their order do.
Still == entry' = entry /\ ahead' = ahead

LEMMA StillKeeps ==
  ASSUME QueueInv, Still, Recording(entry, owner'), owner' \in [Sha -> Pr \cup {None}],
         quarantined' = quarantined, build' \in {None, build}, target' = target, used' = used,
         frontSince' = frontSince, closed' \in BOOLEAN, clock' \in Nat, clock <= clock',
         arrived' = arrived, tip' \in Nat,
         merged' \in [Pr -> Merged \cup {None}], gate' \in [Pr -> Gate \cup {None}]
  PROVE  QueueInv'
<1>1. QueueTypeOK' BY DEF QueueInv, QueueTypeOK, Still, Admitted
<1>2. DependenciesFirst' BY DEF QueueInv, DependenciesFirst, IsOrder, Still, Admitted
<1>3. BuildIsCurrent' BY DEF QueueInv, BuildIsCurrent, InputOf, Heads, Still, Admitted
<1>4. OneOwner' BY DEF QueueInv, OneOwner, Still, Admitted, Recording
<1>5. Timed'
  <2>1. (Admitted(entry) = {} <=> frontSince = None) /\ arrived <= clock /\ clock \in Nat /\ arrived \in Nat
        /\ frontSince \in Nat \cup {None} /\ (frontSince # None => arrived <= frontSince /\ frontSince <= clock)
    BY DEF QueueInv, QueueTypeOK, Timed, FrontGetsItsTime
  <2>2. arrived' <= clock' /\ (frontSince' # None => arrived' <= frontSince' /\ frontSince' <= clock')
    BY <2>1
  <2> QED BY <2>1, <2>2 DEF Timed, FrontGetsItsTime, Still, Admitted
<1> QED BY <1>1, <1>2, <1>3, <1>4, <1>5 DEF QueueInv

LEMMA AdmitKeeps ==
  ASSUME QueueInv, NEW x \in Offer, Admit(x)
  PROVE  QueueInv'
<1> DEFINE new == [sha |-> x.sha, ticket |-> x.ticket, deps |-> x.deps, kept |-> None]
           e == [entry EXCEPT ![x.pr] = new]
           a == ahead \cup (Admitted(entry) \X {x.pr})
<1>1. /\ entry[x.pr] = None /\ x.deps \subseteq Admitted(entry)
      /\ Identifies(x) /\ OwnsCommits(x.pr, x.sha) /\ owner' = Claimed(x.pr, x.sha)
      /\ \/ /\ entry' = e /\ ahead' = a /\ build' = InputOf(e, a, target)
            /\ quarantined' = {r \in quarantined : r[1] # x.pr}
            /\ frontSince' = Since(Front(entry, ahead), e, a, frontSince)
         \/ /\ build' = None
            /\ frontSince' = Since(Front(entry, ahead), entry, ahead,
                                   Since(Front(entry, ahead), e, a, frontSince))
            /\ UNCHANGED <<entry, ahead, quarantined>>
      /\ Committed /\ target' = target /\ used' = used /\ closed' = closed
  BY DEF Admit
<1>2. x.pr \in Pr /\ x.sha \in Sha /\ x.ticket \in Ticket /\ x.deps \in SUBSET Pr /\ x.pr \notin x.deps
  BY QueueAssumption
<1>3. new \in Entry /\ new # None /\ new.deps = x.deps /\ new.ticket = x.ticket /\ new.sha = x.sha
  <2>1. new \in Entry BY <1>2 DEF Entry
  <2> QED BY <2>1, QueueInvUse
<1> HIDE DEF new
<1>4. /\ e \in [Pr -> Entry \cup {None}] /\ e[x.pr] = new
      /\ \A p \in Pr \ {x.pr} : e[p] = entry[p]
  BY <1>2, <1>3, QueueInvUse
<1>5. /\ Admitted(e) = Admitted(entry) \cup {x.pr} /\ x.pr \notin Admitted(entry)
      /\ \A p \in Admitted(entry) : e[p] = entry[p]
  BY <1>1, <1>2, <1>3, <1>4 DEF Admitted
<1> HIDE DEF e
<1>6. a \subseteq Admitted(e) \X Admitted(e) BY <1>5, QueueInvUse
<1>7. IsOrder(e, a)
  <2>1. \A p, q \in Admitted(e) : <<p, q>> \in a <=> \/ p \in Admitted(entry) /\ q \in Admitted(entry) /\ <<p, q>> \in ahead
                                                     \/ p \in Admitted(entry) /\ q = x.pr
    BY <1>5, QueueInvUse
  <2> HIDE DEF a
  <2>2. ASSUME NEW p \in Admitted(e), NEW d \in e[p].deps PROVE d \in Admitted(e) /\ <<d, p>> \in a
    <3>1. CASE p = x.pr BY <3>1, <2>1, <2>2, <1>1, <1>3, <1>4, <1>5
    <3>2. CASE p # x.pr BY <3>2, <2>1, <2>2, <1>5, QueueInvUse DEF IsOrder
    <3> QED BY <3>1, <3>2
  <2>3. /\ \A p \in Admitted(e) : <<p, p>> \notin a
        /\ \A p, q \in Admitted(e) : p # q => <<p, q>> \in a \/ <<q, p>> \in a
        /\ \A p, q, r \in Admitted(e) : <<p, q>> \in a /\ <<q, r>> \in a => <<p, r>> \in a
    BY <2>1, <1>5, QueueInvUse DEF IsOrder
  <2> QED BY <2>2, <2>3 DEF IsOrder
<1> HIDE DEF a
<1>8. /\ owner' \in [Sha -> Pr \cup {None}] /\ Recording(entry, owner')
      /\ \A c \in Own[x.sha] : owner'[c] = x.pr
  BY <1>1, ClaimedRecords
<1>9. Recording(e, owner') BY <1>3, <1>4, <1>5, <1>8 DEF Recording
<1>10. /\ clock \in Nat /\ arrived \in Nat /\ frontSince \in Nat \cup {None} /\ None \notin Nat
       /\ arrived <= clock
       /\ Admitted(entry) = {} <=> frontSince = None
       /\ frontSince # None => arrived <= frontSince /\ frontSince <= clock
  BY QueueAssumption DEF QueueInv, QueueTypeOK, Timed, FrontGetsItsTime
<1>11. /\ arrived' = IF Front(entry', ahead') = Front(entry, ahead) THEN arrived ELSE clock
       /\ clock' = clock /\ tip' = tip /\ merged' = merged /\ gate' = gate
  BY <1>1 DEF Committed, host
<1>12. CASE /\ entry' = e /\ ahead' = a /\ build' = InputOf(e, a, target)
            /\ quarantined' = {r \in quarantined : r[1] # x.pr}
            /\ frontSince' = Since(Front(entry, ahead), e, a, frontSince)
  <2>1. frontSince' = IF Front(e, a) # Front(entry, ahead) THEN clock ELSE frontSince
    BY <1>5, <1>12 DEF Since
  <2>2. Admitted(entry) = {} => Front(e, a) # Front(entry, ahead)
    <3>1. SUFFICES ASSUME Admitted(entry) = {} PROVE Front(e, a) # Front(entry, ahead) OBVIOUS
    <3>2. Front(entry, ahead) = {} BY <3>1 DEF Front, Heads
    <3>3. <<x.pr, e[x.pr].sha>> \in Heads(e) BY <1>5 DEF Heads
    <3>4. \A q \in Admitted(e) : q = x.pr BY <3>1, <1>5
    <3>5. <<x.pr, x.pr>> \notin a BY <1>5, <1>7 DEF IsOrder
    <3>6. <<x.pr, e[x.pr].sha>> \in Front(e, a) BY <3>3, <3>4, <3>5 DEF Front
    <3> QED BY <3>2, <3>6
  <2>3. frontSince' # None /\ arrived' <= frontSince' /\ frontSince' <= clock' /\ arrived' <= clock'
        /\ frontSince' \in Nat /\ arrived' \in Nat
    BY <1>10, <1>11, <1>12, <2>1, <2>2
  <2>4. Timed' BY <1>5, <1>12, <2>3 DEF Timed, FrontGetsItsTime, Admitted
  <2>5. DependenciesFirst' BY <1>7, <1>12 DEF DependenciesFirst, IsOrder, Admitted
  <2>6. BuildIsCurrent' BY <1>1, <1>12 DEF BuildIsCurrent, InputOf, Heads, Admitted
  <2>7. OneOwner'
    <3>1. \A p, q \in Admitted(e) : p # q => e[p].ticket # e[q].ticket
      BY <1>1, <1>3, <1>4, <1>5 DEF QueueInv, OneOwner, Identifies
    <3>2. \A p \in Admitted(e) : \A r \in quarantined' : p # r[1] /\ e[p].ticket # r[2]
      BY <1>1, <1>3, <1>4, <1>5, <1>12 DEF QueueInv, OneOwner, Identifies
    <3> QED BY <3>1, <3>2, <1>9, <1>12 DEF OneOwner, Recording, Admitted
  <2>8. QueueTypeOK'
    <3>1. Heads(e) \subseteq Pr \X Sha
      <4>1. ASSUME NEW p \in Admitted(e) PROVE p \in Pr /\ e[p].sha \in Sha
        BY <4>1, <1>4, Admissions DEF Entry
      <4> QED BY <4>1 DEF Heads
    <3>2. a \subseteq Pr \X Pr BY <1>6 DEF Admitted
    <3>3. build' \in [heads : SUBSET (Pr \X Sha), ahead : SUBSET (Pr \X Pr), target : Nat]
      BY <1>12, <3>1, <3>2, QueueInvUse DEF InputOf
    <3>4. quarantined' \subseteq Pr \X Ticket BY <1>12 DEF QueueInv, QueueTypeOK
    <3>5. entry' \in [Pr -> Entry \cup {None}] /\ ahead' \subseteq Admitted(entry') \X Admitted(entry')
      BY <1>4, <1>6, <1>12
    <3> QED BY <1>1, <1>8, <1>11, <2>3, <3>3, <3>4, <3>5 DEF QueueInv, QueueTypeOK, Admitted
  <2> QED BY <2>4, <2>5, <2>6, <2>7, <2>8 DEF QueueInv
<1>13. CASE /\ build' = None
            /\ frontSince' = Since(Front(entry, ahead), entry, ahead,
                                   Since(Front(entry, ahead), e, a, frontSince))
            /\ UNCHANGED <<entry, ahead, quarantined>>
  <2>1. arrived' = arrived BY <1>11, <1>13
  <2>2. frontSince' = IF Admitted(entry) = {} THEN None
                      ELSE IF Front(e, a) # Front(entry, ahead) THEN clock ELSE frontSince
    BY <1>5, <1>13 DEF Since
  <2>3. /\ Admitted(entry) = {} <=> frontSince' = None
        /\ frontSince' \in Nat \cup {None}
        /\ frontSince' # None => arrived' <= frontSince' /\ frontSince' <= clock'
    BY <1>10, <1>11, <2>1, <2>2
  <2>4. Timed' BY <1>10, <1>11, <1>13, <2>1, <2>3 DEF Timed, FrontGetsItsTime, Admitted
  <2>5. DependenciesFirst' BY <1>13 DEF QueueInv, DependenciesFirst, IsOrder, Admitted
  <2>6. BuildIsCurrent' BY <1>13 DEF BuildIsCurrent
  <2>7. OneOwner' BY <1>8, <1>13 DEF QueueInv, OneOwner, Recording, Admitted
  <2>8. QueueTypeOK' BY <1>1, <1>8, <1>11, <1>13, <2>1, <2>3 DEF QueueInv, QueueTypeOK, Admitted
  <2> QED BY <2>4, <2>5, <2>6, <2>7, <2>8 DEF QueueInv
<1> QED BY <1>1, <1>12, <1>13

LEMMA ConflictKeeps ==
  ASSUME QueueInv, NEW x \in Offer, Conflict(x)
  PROVE  QueueInv'
<1>1. owner' \in [Sha -> Pr \cup {None}] /\ Recording(entry, owner')
  BY ClaimedRecords DEF Conflict
<1>2. Still BY DEF Conflict, Still
<1>3. arrived' = arrived BY DEF Conflict, Committed
<1> QED BY <1>1, <1>2, <1>3, StillKeeps DEF Conflict, Committed, host, QueueInv, QueueTypeOK

LEMMA CloseKeeps ==
  ASSUME QueueInv, Close
  PROVE  QueueInv'
<1>1. Still BY DEF Close, Still
<1>2. arrived' = arrived BY DEF Close, Committed
<1> QED BY <1>1, <1>2, StillKeeps, QueueInvUse DEF Close, Committed, host, QueueInv, QueueTypeOK

LEMMA HostKeeps ==
  ASSUME QueueInv,
         \/ \E x \in Offer : Review(x)
         \/ \E p \in Pr : MergeFront(p)
         \/ Push \/ Tick \/ UNCHANGED queueVars
  PROVE  QueueInv'
<1>1. CASE \E x \in Offer : Review(x)
  <2>1. PICK x \in Offer : Review(x) BY <1>1
  <2>2. gate' \in [Pr -> Gate \cup {None}]
    <3>1. x.sha \in Sha /\ tip \in Nat BY QueueAssumption, QueueInvUse
    <3> QED BY <2>1, <3>1 DEF Review, Gate, QueueInv, QueueTypeOK
  <2> QED BY <2>1, <2>2, StillKeeps, QueueInvUse DEF Review, store, Still, QueueInv, QueueTypeOK
<1>2. CASE \E p \in Pr : MergeFront(p)
  <2>1. PICK p \in Pr : MergeFront(p) BY <1>2
  <2>2. tip' \in Nat /\ merged' \in [Pr -> Merged \cup {None}]
    <3>1. entry[p] \in Entry /\ tip \in Nat BY <2>1, QueueInvUse DEF MergeFront
    <3>2. [sha |-> entry[p].sha, old |-> tip, new |-> tip + 1] \in Merged BY <3>1 DEF Merged, Entry
    <3>3. merged \in [Pr -> Merged \cup {None}] BY DEF QueueInv, QueueTypeOK
    <3> QED BY <2>1, <3>1, <3>2, <3>3 DEF MergeFront
  <2> QED BY <2>1, <2>2, StillKeeps, QueueInvUse DEF MergeFront, store, Still, QueueInv, QueueTypeOK
<1>3. CASE Push
  BY <1>3, StillKeeps, QueueInvUse DEF Push, store, Still, QueueInv, QueueTypeOK
<1>4. CASE Tick
  BY <1>4, StillKeeps, QueueInvUse DEF Tick, store, host, Still, QueueInv, QueueTypeOK
<1>5. CASE UNCHANGED queueVars
  BY <1>5, StillKeeps, QueueInvUse DEF queueVars, store, host, Still, QueueInv, QueueTypeOK
<1> QED BY <1>1, <1>2, <1>3, <1>4, <1>5

LEMMA QueueInit == Init => QueueInv
<1> SUFFICES ASSUME Init PROVE QueueInv OBVIOUS
<1>1. Admitted(entry) = {} BY DEF Init, Admitted
<1>2. QueueTypeOK BY <1>1 DEF Init, QueueTypeOK
<1>3. DependenciesFirst /\ BuildIsCurrent /\ OneOwner
  BY <1>1 DEF Init, DependenciesFirst, IsOrder, BuildIsCurrent, OneOwner
<1>4. Timed BY <1>1 DEF Init, Timed, FrontGetsItsTime
<1> QED BY <1>2, <1>3, <1>4 DEF QueueInv

LEMMA QueueStep == QueueInv /\ [Next]_queueVars => QueueInv'
<1> SUFFICES ASSUME QueueInv, [Next]_queueVars PROVE QueueInv' OBVIOUS
<1>1. CASE \E x \in Offer : Admit(x) BY <1>1, AdmitKeeps
<1>2. CASE \E x \in Offer : Conflict(x) BY <1>2, ConflictKeeps
<1>3. CASE \E x \in Offer : HeadChanged(x) BY <1>3, HeadChangedRebuilds, RebuiltKeeps
<1>4. CASE \E i \in Instruction :
             \E a \in SUBSET {x \in Admitted(entry) \X Admitted(entry) : x[1] # x[2]} : OwnerReorder(a, i)
  BY <1>4, OwnerReorderRebuilds, RebuiltKeeps
<1>5. CASE \E p \in Pr : Remove(p, {}) BY <1>5, RemoveRebuilds, RebuiltKeeps
<1>6. CASE \E p \in Pr, i \in Instruction : Remove(p, {i}) \/ OwnerSkip(p, i)
  BY <1>6, RemoveRebuilds, RebuiltKeeps DEF OwnerSkip
<1>7. CASE MoveStalledFront
  BY <1>7, MoveRebuilds, RebuiltKeeps
<1>8. CASE Rebuild BY <1>8, RebuildRebuilds, RebuiltKeeps
<1>9. CASE \E p \in Pr : \E U \in SUBSET Dependants(p) : RetargetAfterMerge(p, U)
  BY <1>9, RetargetRebuilds, RebuiltKeeps
<1>10. CASE Close BY <1>10, CloseKeeps
<1>11. CASE \/ \E x \in Offer : Review(x)
            \/ \E p \in Pr : MergeFront(p)
            \/ Push \/ Tick \/ UNCHANGED queueVars
  BY <1>11, HostKeeps
<1> QED BY <1>1, <1>2, <1>3, <1>4, <1>5, <1>6, <1>7, <1>8, <1>9, <1>10, <1>11 DEF Next

\* Whatever the callers, the builds and the host do, every part of the queue keeps its form.
THEOREM QueueTypeCorrect == Spec => []QueueTypeOK
<1>1. QueueInv => QueueTypeOK BY DEF QueueInv
<1> QED BY <1>1, QueueInit, QueueStep, PTL DEF Spec

\* No ejection, move, removal, merge or owner's order leaves an entry before, or without, the
\* entry it is stacked on.
THEOREM DependenciesStayFirst == Spec => []DependenciesFirst
<1>1. QueueInv => DependenciesFirst BY DEF QueueInv
<1> QED BY <1>1, QueueInit, QueueStep, PTL DEF Spec

\* The recorded build is always of the queue and target as they are.
THEOREM BuildsAreCurrent == Spec => []BuildIsCurrent
<1>1. QueueInv => BuildIsCurrent BY DEF QueueInv
<1> QED BY <1>1, QueueInit, QueueStep, PTL DEF Spec

\* Tickets and commits keep one pull request, in the queue, in quarantine and on return.
THEOREM IdentitiesAreOwned == Spec => []OneOwner
<1>1. QueueInv => OneOwner BY DEF QueueInv
<1> QED BY <1>1, QueueInit, QueueStep, PTL DEF Spec

\* The three together.
THEOREM QueueStaysSound == Spec => []QueueIsSound
BY DependenciesStayFirst, BuildsAreCurrent, IdentitiesAreOwned, PTL DEF QueueIsSound

\* The stall clock of a front never starts before the front, with its head, is there.
THEOREM FrontsGetTheirTime == Spec => []FrontGetsItsTime
<1>1. QueueInv => FrontGetsItsTime BY DEF QueueInv, Timed
<1> QED BY <1>1, QueueInit, QueueStep, PTL DEF Spec

-----------------------------------------------------------------------------
(* Heavy validation: the leases, and the trees under them.                 *)

Trees(r) == {p \in Partition : tree[r][p] = "live"}
BusyPlaces == {"attempt", "child", "unsure"}

\* A lease is found by its fence, and an invocation's fence finds its own lease.
FencesAreUnique ==
  /\ \A l, k \in broker : l.fence = k.fence => l = k
  /\ \A r \in HeavyRun : fence[r] < nextFence /\ \A l \in broker : l.fence = fence[r] => l.run = r

SlotsAreThere == IsFiniteSet(Slots) /\ Cardinality(Slots) <= MaxWorkers

Leased(r) == \E l \in broker : l.run = r /\ l.fence = fence[r] /\ l.size = size[r]

Untouched(r) == \A p \in Partition : tree[r][p] # "live" /\ tries[r][p] = 0

Attended(r) ==
  /\ \A p \in Partition : tree[r][p] = "live" => worker[r][p] \in {"child", "unsure"} \cup Uncertain
  /\ \A p \in Partition : worker[r][p] \in Uncertain => cancel[r]
  /\ Cardinality(Trees(r)) <= size[r] /\ Cardinality(Busy(r)) <= size[r]

\* Trees that outlive their run are within one of its leases.
Backed(r) == Trees(r) # {} => \E l \in broker : l.run = r /\ Cardinality(Trees(r)) <= l.size

RunInv(r) ==
  /\ run[r] \in {"idle", "serial", "admitted"} => Untouched(r)
  /\ run[r] \in {"admitted", "running"} => Leased(r)
  /\ run[r] = "running" => Attended(r)
  /\ run[r] = "over" => Backed(r)
  /\ \A p \in Partition : worker[r][p] \in {"queued", "attempt"} => tries[r][p] <= RetryLimit

HeavyInv == HeavyTypeOK /\ FencesAreUnique /\ SlotsAreThere /\ \A r \in HeavyRun : RunInv(r)

LEMMA PartsFinite ==
  ASSUME HeavyAssumption, NEW r
  PROVE  /\ IsFiniteSet(Trees(r)) /\ Cardinality(Trees(r)) \in Nat
         /\ IsFiniteSet(Busy(r)) /\ Cardinality(Busy(r)) \in Nat
<1>1. Trees(r) \in SUBSET Partition /\ Busy(r) \in SUBSET Partition BY DEF Trees, Busy
<1>2. IsFiniteSet(Trees(r)) /\ IsFiniteSet(Busy(r)) BY <1>1, FS_Subset, HeavyAssumption DEF HeavyAssumption
<1> QED BY <1>2, FS_CardinalityType

\* A step keeps a run that it does not touch, as long as it keeps the lease of that run.
LEMMA RunKept ==
  ASSUME NEW s \in HeavyRun, RunInv(s),
         run'[s] = run[s], fence'[s] = fence[s], size'[s] = size[s], cancel'[s] = cancel[s],
         worker'[s] = worker[s], tries'[s] = tries[s], tree'[s] = tree[s],
         \A l \in broker : l.run = s => \E k \in broker' : k.run = s /\ k.fence = l.fence /\ k.size = l.size
  PROVE  RunInv(s)'
<1>1. Trees(s)' = Trees(s) /\ Busy(s)' = Busy(s) BY DEF Trees, Busy
<1>2. Backed(s) => Backed(s)'
  <2> SUFFICES ASSUME Backed(s), Trees(s)' # {}
               PROVE  \E l \in broker' : l.run = s /\ Cardinality(Trees(s)') <= l.size
    BY DEF Backed
  <2>1. PICK l \in broker : l.run = s /\ Cardinality(Trees(s)) <= l.size BY <1>1 DEF Backed
  <2>2. PICK k \in broker' : k.run = s /\ k.fence = l.fence /\ k.size = l.size BY <2>1
  <2> QED BY <1>1, <2>1, <2>2
<1>5. Leased(s) => Leased(s)' BY DEF Leased
<1>3. Attended(s) => Attended(s)' BY <1>1 DEF Attended
<1>4. Untouched(s) => Untouched(s)' BY DEF Untouched
<1> QED BY <1>2, <1>3, <1>4, <1>5 DEF RunInv

\* A step of one partition under a lease, and what it may do to it.
ThreadMove(r, p, w, t, n, k) ==
  /\ UNCHANGED <<broker, nextFence, fence, size, run>> /\ run[r] = "running"
  /\ worker' = [worker EXCEPT ![r][p] = w] /\ tries' = [tries EXCEPT ![r][p] = n]
  /\ tree' = [tree EXCEPT ![r][p] = t] /\ cancel' = [cancel EXCEPT ![r] = k]

ThreadMay(r, p, w, t, n, k) ==
  /\ w \in Ended \cup {"queued"} \cup BusyPlaces /\ t \in {"none", "live", "gone"}
  /\ n \in 0..(RetryLimit + 1) /\ k \in BOOLEAN /\ (cancel[r] => k)
  /\ w \in BusyPlaces => worker[r][p] \in BusyPlaces \/ Cardinality(Busy(r)) < size[r]
  /\ t = "live" => w \in {"child", "unsure"} \cup Uncertain /\ (tree[r][p] = "live" \/ ~k)
  /\ w \in Uncertain => k
  /\ w \in {"queued", "attempt"} => n <= RetryLimit

LEMMA ThreadKeeps ==
  ASSUME HeavyAssumption, HeavyInv, NEW r \in HeavyRun, NEW p \in Partition, NEW w, NEW t, NEW n, NEW k,
         ThreadMove(r, p, w, t, n, k), ThreadMay(r, p, w, t, n, k)
  PROVE  HeavyInv'
<1> USE DEF HeavyInv, ThreadMove, ThreadMay
<1>1. HeavyTypeOK' BY DEF HeavyTypeOK, BusyPlaces
<1>2. FencesAreUnique' BY DEF FencesAreUnique
<1>3. SlotsAreThere' BY DEF SlotsAreThere, Slots
<1>4. ASSUME NEW s \in HeavyRun, s # r PROVE RunInv(s)'
  BY <1>4, RunKept DEF HeavyTypeOK
<1>5. worker'[r] = [worker[r] EXCEPT ![p] = w] /\ tries'[r] = [tries[r] EXCEPT ![p] = n]
      /\ tree'[r] = [tree[r] EXCEPT ![p] = t] /\ cancel'[r] = k
  BY DEF HeavyTypeOK
<1>6. worker[r] \in [Partition -> Ended \cup {"queued", "attempt", "child", "unsure"}]
      /\ tree[r] \in [Partition -> {"none", "live", "gone"}] /\ tries[r] \in [Partition -> 0..(RetryLimit + 1)]
      /\ size[r] \in Nat /\ cancel[r] \in BOOLEAN
  BY DEF HeavyTypeOK
<1>7. Attended(r) BY DEF RunInv
<1>8. Cardinality(Busy(r)') <= size[r]
  <2>1. CASE w \in BusyPlaces /\ worker[r][p] \notin BusyPlaces
    <3>1. Busy(r)' = Busy(r) \cup {p} /\ p \notin Busy(r) BY <1>5, <1>6, <2>1 DEF Busy, BusyPlaces
    <3>2. Cardinality(Busy(r)') = Cardinality(Busy(r)) + 1 BY <3>1, PartsFinite, FS_AddElement
    <3> QED BY <1>6, <2>1, <3>2, PartsFinite
  <2>2. CASE w \notin BusyPlaces \/ worker[r][p] \in BusyPlaces
    <3>1. Busy(r)' \in SUBSET Busy(r) BY <1>5, <1>6, <2>2 DEF Busy, BusyPlaces
    <3> HIDE DEF Busy
    <3>2. Cardinality(Busy(r)') <= Cardinality(Busy(r)) BY <3>1, PartsFinite, FS_Subset
    <3>3. Cardinality(Busy(r)') \in Nat BY <3>1, PartsFinite, FS_Subset, FS_CardinalityType
    <3> QED BY <1>6, <1>7, <3>2, <3>3, PartsFinite DEF Attended
  <2> QED BY <2>1, <2>2
<1>9. /\ \A q \in Partition : tree'[r][q] = "live" => worker'[r][q] \in {"child", "unsure"} \cup Uncertain
      /\ \A q \in Partition : worker'[r][q] \in Uncertain => cancel'[r]
  BY <1>5, <1>6, <1>7 DEF Attended
<1>10. Trees(r)' \in SUBSET Trees(r) \/ (Trees(r)' \in SUBSET Busy(r)' /\ ~k)
  <2>1. CASE t # "live" \/ tree[r][p] = "live" BY <1>5, <1>6, <2>1 DEF Trees
  <2>2. CASE t = "live" /\ tree[r][p] # "live"
    <3>1. ~k /\ \A q \in Partition : worker'[r][q] \notin Uncertain BY <1>5, <1>9, <2>2
    <3> QED BY <1>5, <1>9, <3>1 DEF Trees, Busy
  <2> QED BY <2>1, <2>2
<1>11. IsFiniteSet(Busy(r)') /\ Cardinality(Busy(r)') \in Nat
  <2>1. Busy(r)' \in SUBSET Partition BY DEF Busy
  <2> QED BY <2>1, FS_Subset, FS_CardinalityType DEF HeavyAssumption
<1>12. Cardinality(Trees(r)') <= size[r] /\ Cardinality(Trees(r)') \in Nat
  <2>1. CASE Trees(r)' \in SUBSET Trees(r)
    <3>1. Cardinality(Trees(r)') <= Cardinality(Trees(r)) /\ IsFiniteSet(Trees(r)') BY <2>1, PartsFinite, FS_Subset
    <3>2. Cardinality(Trees(r)') \in Nat BY <3>1, FS_CardinalityType
    <3> QED BY <1>6, <1>7, <3>1, <3>2, PartsFinite DEF Attended
  <2>2. CASE Trees(r)' \in SUBSET Busy(r)'
    <3>1. Cardinality(Trees(r)') <= Cardinality(Busy(r)') /\ IsFiniteSet(Trees(r)') BY <1>11, <2>2, FS_Subset
    <3>2. Cardinality(Trees(r)') \in Nat BY <3>1, FS_CardinalityType
    <3> QED BY <1>6, <1>8, <1>11, <3>1, <3>2
  <2> QED BY <1>10, <2>1, <2>2
<1>13. Attended(r)' BY <1>8, <1>9, <1>12 DEF Attended
<1>14. Leased(r)' BY DEF RunInv, Leased
<1>15. \A q \in Partition : worker'[r][q] \in {"queued", "attempt"} => tries'[r][q] <= RetryLimit
  BY <1>5, <1>6 DEF RunInv
<1>16. RunInv(r)' BY <1>13, <1>14, <1>15 DEF RunInv
<1> QED BY <1>1, <1>2, <1>3, <1>4, <1>16

LEMMA HeavyStarts == ASSUME HeavyAssumption, HeavyInit PROVE HeavyInv
<1>1. HeavyTypeOK BY DEF HeavyInit, HeavyTypeOK, HeavyAssumption, Ended, NoFence
<1>2. FencesAreUnique BY DEF HeavyInit, FencesAreUnique, NoFence
<1>3. Slots = {} BY DEF HeavyInit, Slots
<1>4. SlotsAreThere BY <1>3, FS_EmptySet, HeavyAssumption DEF SlotsAreThere, HeavyAssumption
<1>5. ASSUME NEW r \in HeavyRun PROVE RunInv(r) BY DEF HeavyInit, RunInv, Untouched
<1> QED BY <1>1, <1>2, <1>4, <1>5 DEF HeavyInv

\* The threads of a run: each action is one case of the lemma above.
LEMMA ThreadStep ==
  ASSUME HeavyAssumption, HeavyInv, NEW r \in HeavyRun, NEW p \in Partition,
         \/ Begin(r, p) \/ Start(r, p) \/ Refuse(r, p) \/ StartFails(r, p) \/ Exited(r, p) \/ Terminate(r, p)
  PROVE  HeavyInv'
<1> DEFINE W == worker[r][p]  N == tries[r][p]  T == tree[r][p]  K == cancel[r]
<1>1. /\ W \in Ended \cup {"queued"} \cup BusyPlaces /\ N \in 0..(RetryLimit + 1) /\ RetryLimit \in Nat
      /\ T \in {"none", "live", "gone"} /\ K \in BOOLEAN
  BY DEF HeavyInv, HeavyTypeOK, BusyPlaces, HeavyAssumption
<1>2. /\ worker = [worker EXCEPT ![r][p] = W] /\ tries = [tries EXCEPT ![r][p] = N]
      /\ tree = [tree EXCEPT ![r][p] = T] /\ cancel = [cancel EXCEPT ![r] = K]
  BY DEF HeavyInv, HeavyTypeOK
<1>3. /\ W \in {"queued", "attempt"} => N <= RetryLimit
      /\ run[r] = "running" => (T = "live" => W \in {"child", "unsure"} \cup Uncertain) /\ (W \in Uncertain => K)
  BY DEF HeavyInv, RunInv, Attended
<1> USE DEF lease, threads, At
<1>4. CASE Begin(r, p)
  <2>1. W = "queued" /\ Cardinality(Busy(r)) < size[r] /\ ThreadMove(r, p, "attempt", T, N, K)
    BY <1>2, <1>4 DEF Begin, ThreadMove
  <2>2. T # "live" BY <1>3, <1>4 DEF Begin, Uncertain
  <2>3. ThreadMay(r, p, "attempt", T, N, K) BY <1>1, <1>3, <2>1, <2>2 DEF ThreadMay, BusyPlaces, Uncertain
  <2> QED BY <2>1, <2>3, ThreadKeeps
<1>5. CASE Start(r, p)
  <2>1. W = "attempt" /\ ~K /\ ThreadMove(r, p, "child", "live", N + 1, K)
    BY <1>2, <1>5 DEF Start, ThreadMove
  <2>2. ThreadMay(r, p, "child", "live", N + 1, K) BY <1>1, <1>3, <2>1 DEF ThreadMay, BusyPlaces, Uncertain
  <2> QED BY <2>1, <2>2, ThreadKeeps
<1>6. CASE Refuse(r, p)
  <2>1. W = "attempt" /\ ThreadMove(r, p, "failed", T, N + 1, TRUE)
    BY <1>2, <1>6 DEF Refuse, ThreadMove
  <2>2. T # "live" BY <1>3, <1>6 DEF Refuse, Uncertain
  <2>3. ThreadMay(r, p, "failed", T, N + 1, TRUE)
    BY <1>1, <1>3, <2>1, <2>2 DEF ThreadMay, BusyPlaces, Uncertain, Ended
  <2> QED BY <2>1, <2>3, ThreadKeeps
<1>7. CASE StartFails(r, p)
  <2> DEFINE w == IF K \/ N >= RetryLimit THEN "failed" ELSE "attempt"
  <2>1. W = "attempt" /\ ThreadMove(r, p, w, T, N + 1, K)
    BY <1>2, <1>7 DEF StartFails, ThreadMove
  <2>2. T # "live" BY <1>3, <1>7 DEF StartFails, Uncertain
  <2>3. ThreadMay(r, p, w, T, N + 1, K)
    BY <1>1, <1>3, <2>1, <2>2 DEF ThreadMay, BusyPlaces, Uncertain, Ended
  <2> HIDE DEF w
  <2> QED BY <2>1, <2>3, ThreadKeeps
<1>8. CASE Exited(r, p)
  <2>1. PICK w \in {"passed", NextAttempt(r, p)} : ThreadMove(r, p, w, T, N, K)
    BY <1>2, <1>8 DEF Exited, ThreadMove
  <2>2. W = "child" /\ T = "gone" BY <1>8 DEF Exited
  <2>3. ThreadMay(r, p, w, T, N, K)
    BY <1>1, <2>1, <2>2 DEF ThreadMay, BusyPlaces, Uncertain, Ended, NextAttempt
  <2> QED BY <2>1, <2>3, ThreadKeeps
<1>9. CASE Terminate(r, p)
  <2>1. W = "child" BY <1>9 DEF Terminate
  <2>2. ASSUME NEW w \in {"failed", NextAttempt(r, p)}, ThreadMove(r, p, w, "gone", N, K) PROVE HeavyInv'
    <3>1. ThreadMay(r, p, w, "gone", N, K)
      BY <1>1, <2>1, <2>2 DEF ThreadMay, BusyPlaces, Uncertain, Ended, NextAttempt
    <3> QED BY <2>2, <3>1, ThreadKeeps
  <2>3. ASSUME ThreadMove(r, p, "unsure", T, N, K) PROVE HeavyInv'
    <3>1. ThreadMay(r, p, "unsure", T, N, K)
      BY <1>1, <2>1 DEF ThreadMay, BusyPlaces, Uncertain, Ended
    <3> QED BY <2>3, <3>1, ThreadKeeps
  <2>4. \/ \E w \in {"failed", NextAttempt(r, p)} : ThreadMove(r, p, w, "gone", N, K)
        \/ ThreadMove(r, p, "unsure", T, N, K)
    BY <1>2, <1>9 DEF Terminate, ThreadMove
  <2> QED BY <2>2, <2>3, <2>4
<1> QED BY <1>4, <1>5, <1>6, <1>7, <1>8, <1>9

\* A tree that ends by itself, whoever its run has become.
LEMMA TreeEndsKeeps ==
  ASSUME HeavyAssumption, HeavyInv, NEW r \in HeavyRun, NEW p \in Partition, TreeEnds(r, p)
  PROVE  HeavyInv'
<1> USE DEF HeavyInv, TreeEnds, lease, threads
<1>1. HeavyTypeOK' BY DEF HeavyTypeOK
<1>2. FencesAreUnique' BY DEF FencesAreUnique
<1>3. SlotsAreThere' BY DEF SlotsAreThere, Slots
<1>4. ASSUME NEW s \in HeavyRun, s # r PROVE RunInv(s)'
  BY <1>4, RunKept DEF HeavyTypeOK
<1>5. tree'[r] = [tree[r] EXCEPT ![p] = "gone"] /\ tree[r] \in [Partition -> {"none", "live", "gone"}]
  BY DEF HeavyTypeOK
<1>6. Trees(r)' \in SUBSET Trees(r) BY <1>5 DEF Trees
<1>7. Cardinality(Trees(r)') <= Cardinality(Trees(r)) /\ Cardinality(Trees(r)') \in Nat
  BY <1>6, PartsFinite, FS_Subset, FS_CardinalityType
<1>8. Busy(r)' = Busy(r) BY DEF Busy
<1>9. RunInv(r) BY DEF HeavyInv
<1>10. Untouched(r) => Untouched(r)' BY <1>5 DEF Untouched
<1>11. Leased(r) => Leased(r)' BY DEF Leased
<1>12. Attended(r) => Attended(r)'
  <2>1. size[r] \in Nat BY DEF HeavyTypeOK
  <2> QED BY <1>5, <1>7, <1>8, <2>1, PartsFinite DEF Attended
<1>13. Backed(r) => Backed(r)'
  <2> SUFFICES ASSUME Backed(r), Trees(r)' # {}
               PROVE  \E l \in broker : l.run = r /\ Cardinality(Trees(r)') <= l.size
    BY DEF Backed
  <2>1. PICK l \in broker : l.run = r /\ Cardinality(Trees(r)) <= l.size BY <1>6 DEF Backed
  <2>2. l.size \in Nat BY DEF HeavyTypeOK
  <2> QED BY <1>7, <2>1, <2>2, PartsFinite
<1>14. RunInv(r)' BY <1>9, <1>10, <1>11, <1>12, <1>13 DEF RunInv
<1> QED BY <1>1, <1>2, <1>3, <1>4, <1>14

\* What is released or quarantined: no lease of another run goes, and none gets another size.
Lessened(b) ==
  /\ \A k \in b : \E l \in broker : k.fence = l.fence /\ k.run = l.run /\ k.size = l.size
  /\ \A k, m \in b : k.fence = m.fence => k = m
Spared(b, s) == \A l \in broker : l.run = s => \E k \in b : k.run = s /\ k.fence = l.fence /\ k.size = l.size

LEMMA Lessening ==
  ASSUME HeavyInv, NEW r \in HeavyRun
  PROVE  /\ Lessened(broker) /\ Lessened(Released(fence[r]))
         /\ \A b \in SUBSET broker : Lessened(b)
         /\ \A o : Lessened(Quarantined(fence[r], o))
         /\ \A s : Spared(broker, s)
         /\ \A s, o : Spared(Quarantined(fence[r], o), s)
         /\ \A s \in HeavyRun \ {r} : Spared(Released(fence[r]), s)
<1>1. \A l, k \in broker : l.fence = k.fence => l = k BY DEF HeavyInv, FencesAreUnique
<1>2. \A b \in SUBSET broker : Lessened(b) BY <1>1 DEF Lessened
<1>3. Released(fence[r]) \in SUBSET broker BY DEF Released
<1>4. ASSUME NEW o PROVE Lessened(Quarantined(fence[r], o)) /\ \A s : Spared(Quarantined(fence[r], o), s)
  <2> DEFINE F(l) == IF l.fence = fence[r] /\ l.quarantine = "PENDING" THEN [l EXCEPT !.quarantine = o] ELSE l
  <2>1. Quarantined(fence[r], o) = {F(l) : l \in broker} BY DEF Quarantined
  <2>2. ASSUME NEW l \in broker PROVE F(l).fence = l.fence /\ F(l).run = l.run /\ F(l).size = l.size
    BY DEF HeavyInv, HeavyTypeOK
  <2> HIDE DEF F
  <2>3. Lessened(Quarantined(fence[r], o)) BY <1>1, <2>1, <2>2 DEF Lessened
  <2>4. \A s : Spared(Quarantined(fence[r], o), s) BY <2>1, <2>2 DEF Spared
  <2> QED BY <2>3, <2>4
<1>5. \A s \in HeavyRun \ {r} : Spared(Released(fence[r]), s)
  BY DEF Spared, Released, HeavyInv, FencesAreUnique
<1>6. \A s : Spared(broker, s) BY DEF Spared
<1> QED BY <1>2, <1>3, <1>4, <1>5, <1>6

\* The leases that are left have unique fences, and take no more slots.
LEMMA LessenedLeases ==
  ASSUME HeavyInv, Lessened(broker'), nextFence' = nextFence,
         \A s \in HeavyRun : fence'[s] = fence[s] \/ fence'[s] = NoFence
  PROVE  FencesAreUnique' /\ SlotsAreThere'
<1>1. FencesAreUnique'
  <2>1. \A k \in broker' : k.fence \in Nat \ {0}
    BY DEF HeavyInv, HeavyTypeOK, Lessened
  <2>2. nextFence \in Nat \ {0} BY DEF HeavyInv, HeavyTypeOK
  <2>3. ASSUME NEW s \in HeavyRun, NEW k \in broker', k.fence = fence'[s] PROVE k.run = s
    BY <2>1, <2>3 DEF HeavyInv, FencesAreUnique, Lessened, NoFence
  <2> QED BY <2>2, <2>3 DEF HeavyInv, FencesAreUnique, Lessened, NoFence
<1>2. Slots' \in SUBSET Slots
  <2> SUFFICES ASSUME NEW x \in Slots' PROVE x \in Slots OBVIOUS
  <2>1. PICK k \in broker' : x \in {k.fence} \X (1..k.size) BY DEF Slots
  <2>2. PICK l \in broker : k.fence = l.fence /\ k.size = l.size BY DEF Lessened
  <2> QED BY <2>1, <2>2 DEF Slots
<1>3. SlotsAreThere'
  <2>1. IsFiniteSet(Slots) /\ Cardinality(Slots) <= MaxWorkers BY DEF HeavyInv, SlotsAreThere
  <2>2. IsFiniteSet(Slots') /\ Cardinality(Slots') <= Cardinality(Slots) BY <1>2, <2>1, FS_Subset
  <2>3. Cardinality(Slots') \in Nat /\ Cardinality(Slots) \in Nat BY <2>1, <2>2, FS_CardinalityType
  <2> QED BY <2>1, <2>2, <2>3, HeavyAssumption DEF SlotsAreThere, HeavyAssumption
<1> QED BY <1>1, <1>3

\* Leases are granted for slots that nobody has.
LEMMA GrantedLeases ==
  ASSUME HeavyInv, NEW r \in HeavyRun, NEW n \in Nat, Fits(n), broker' = Granted(r, n),
         nextFence' = nextFence + 1,
         \A s \in HeavyRun : fence'[s] = fence[s] \/ (s = r /\ fence'[s] = nextFence)
  PROVE  FencesAreUnique' /\ SlotsAreThere'
<1> DEFINE new == [fence |-> nextFence, run |-> r, size |-> n, quarantine |-> "PENDING"]
<1>1. broker' = broker \cup {new} BY DEF Granted
<1>2. nextFence \in Nat /\ \A l \in broker : l.fence \in Nat /\ l.fence < nextFence
  BY DEF HeavyInv, HeavyTypeOK
<1>3. \A s \in HeavyRun : fence[s] \in Nat /\ fence[s] < nextFence
  BY DEF HeavyInv, HeavyTypeOK, FencesAreUnique
<1>4. new.fence = nextFence /\ new.run = r /\ new.size = n OBVIOUS
<1> HIDE DEF new
<1>5. FencesAreUnique'
  <2>1. \A l, k \in broker' : l.fence = k.fence => l = k
    BY <1>1, <1>2, <1>4 DEF HeavyInv, FencesAreUnique
  <2>2. \A s \in HeavyRun : fence'[s] < nextFence'
    BY <1>2, <1>3
  <2>3. ASSUME NEW s \in HeavyRun, NEW l \in broker', l.fence = fence'[s] PROVE l.run = s
    <3>1. CASE l \in broker
      BY <1>2, <1>3, <2>3, <3>1 DEF HeavyInv, FencesAreUnique
    <3>2. CASE l = new
      BY <1>2, <1>3, <1>4, <2>3, <3>2
    <3> QED BY <1>1, <3>1, <3>2
  <2> QED BY <2>1, <2>2, <2>3 DEF FencesAreUnique
<1>6. SlotsAreThere'
  <2> DEFINE more == {nextFence} \X (1..n)
  <2>1. Slots' = Slots \cup more BY <1>1, <1>4 DEF Slots
  <2>2. IsFiniteSet(more) /\ Cardinality(more) = n
    <3>1. IsFiniteSet({nextFence}) /\ Cardinality({nextFence}) = 1 BY FS_Singleton
    <3>2. IsFiniteSet(1..n) /\ Cardinality(1..n) = n BY FS_Interval
    <3>3. IsFiniteSet(more) /\ Cardinality(more) = Cardinality({nextFence}) * Cardinality(1..n)
      BY <3>1, <3>2, FS_Product
    <3> HIDE DEF more
    <3> QED BY <3>1, <3>2, <3>3
  <2> HIDE DEF more
  <2>3. IsFiniteSet(Slots) /\ Cardinality(Slots) + n <= MaxWorkers
    BY DEF HeavyInv, SlotsAreThere, Fits, InUse
  <2>4. /\ IsFiniteSet(Slots \cup more)
        /\ Cardinality(Slots \cup more) = Cardinality(Slots) + Cardinality(more) - Cardinality(Slots \cap more)
    BY <2>2, <2>3, FS_Union
  <2>5. IsFiniteSet(Slots \cap more) BY <2>2, FS_Subset
  <2>6. Cardinality(Slots) \in Nat /\ Cardinality(Slots \cap more) \in Nat BY <2>3, <2>5, FS_CardinalityType
  <2>7. Cardinality(Slots \cup more) <= MaxWorkers
    BY <2>2, <2>3, <2>4, <2>6, HeavyAssumption DEF HeavyAssumption
  <2> QED BY <2>1, <2>4, <2>7 DEF SlotsAreThere
<1> QED BY <1>5, <1>6

LEMMA QuarantinedTyped ==
  ASSUME HeavyTypeOK, NEW f, NEW o \in Uncertain
  PROVE  /\ Quarantined(f, o) \subseteq [fence : Nat \ {0}, run : HeavyRun, size : Nat,
                                         quarantine : Uncertain \cup {"PENDING"}]
         /\ \A l \in Quarantined(f, o) : l.fence < nextFence
<1> DEFINE LeaseRow == [fence : Nat \ {0}, run : HeavyRun, size : Nat, quarantine : Uncertain \cup {"PENDING"}]
           F(l) == IF l.fence = f /\ l.quarantine = "PENDING" THEN [l EXCEPT !.quarantine = o] ELSE l
<1>1. Quarantined(f, o) = {F(l) : l \in broker} BY DEF Quarantined
<1>2. ASSUME NEW l \in LeaseRow PROVE F(l) \in LeaseRow /\ F(l).fence = l.fence
  OBVIOUS
<1>3. broker \subseteq LeaseRow /\ \A l \in broker : l.fence < nextFence BY DEF HeavyTypeOK
<1> HIDE DEF LeaseRow, F
<1>4. Quarantined(f, o) \subseteq LeaseRow /\ \A l \in Quarantined(f, o) : l.fence < nextFence
  BY <1>1, <1>2, <1>3
<1> QED BY <1>4 DEF LeaseRow

\* What a run does leaves the others as they are.
LEMMA OthersKept ==
  ASSUME HeavyInv, HeavyTypeOK', NEW r \in HeavyRun,
         \A s \in HeavyRun \ {r} : /\ Spared(broker', s)
                                   /\ run'[s] = run[s] /\ fence'[s] = fence[s] /\ size'[s] = size[s]
                                   /\ cancel'[s] = cancel[s] /\ worker'[s] = worker[s]
                                   /\ tries'[s] = tries[s] /\ tree'[s] = tree[s]
  PROVE  \A s \in HeavyRun \ {r} : RunInv(s)'
<1> SUFFICES ASSUME NEW s \in HeavyRun \ {r} PROVE RunInv(s)' OBVIOUS
<1> QED BY RunKept DEF Spared, HeavyInv

LEMMA BrokerSpared == ASSUME broker \subseteq broker' PROVE \A s : Spared(broker', s)
BY DEF Spared

\* A run that has been refused, or has lost what it was granted, has started nothing.
LEMMA AdmissionKeeps ==
  ASSUME HeavyAssumption, HeavyInv, NEW r \in HeavyRun,
         Grant(r) \/ Deny(r) \/ GrantIsLost(r) \/ GrantIsStale(r)
  PROVE  HeavyInv'
<1> USE DEF threads, lease
<1>1. HeavyTypeOK /\ UNCHANGED <<cancel, worker, tries, tree>>
  BY DEF HeavyInv, Grant, Deny, GrantIsLost, GrantIsStale
<1>2. Untouched(r) /\ Untouched(r)' /\ Trees(r)' = {}
  <2>1. run[r] \in {"idle", "serial", "admitted"}
    BY DEF Grant, Deny, GrantIsLost, GrantIsStale, Admitting
  <2>2. Untouched(r) BY <2>1 DEF HeavyInv, RunInv
  <2> QED BY <1>1, <2>2 DEF Untouched, Trees
<1>3. \A p \in Partition : worker'[r][p] \in {"queued", "attempt"} => tries'[r][p] <= RetryLimit
  BY <1>1 DEF HeavyInv, RunInv
<1>4. Wanted(r) \in Nat BY DEF Wanted, HeavyAssumption
<1>5. MayRetry(Wanted(r)) \in {"serial", "over"} /\ MayRetry(size[r]) \in {"serial", "over"} BY DEF MayRetry
<1>6. CASE Grant(r)
  <2> DEFINE new == [fence |-> nextFence, run |-> r, size |-> Wanted(r), quarantine |-> "PENDING"]
  <2>1. broker' = broker \cup {new} /\ nextFence' = nextFence + 1 /\ Fits(Wanted(r))
        /\ fence' = [fence EXCEPT ![r] = nextFence] /\ size' = [size EXCEPT ![r] = Wanted(r)]
        /\ run' = [run EXCEPT ![r] = "admitted"]
    BY <1>6 DEF Grant, Granted
  <2>2. HeavyTypeOK'
    <3>1. new \in [fence : Nat \ {0}, run : HeavyRun, size : Nat, quarantine : Uncertain \cup {"PENDING"}]
      BY <1>1, <1>4 DEF HeavyTypeOK
    <3>2. new.fence = nextFence OBVIOUS
    <3> HIDE DEF new
    <3> QED BY <1>1, <1>4, <2>1, <3>1, <3>2 DEF HeavyTypeOK
  <2>3. new.run = r /\ new.fence = fence'[r] /\ new.size = size'[r] BY <1>1, <2>1 DEF HeavyTypeOK
  <2> HIDE DEF new
  <2>4. FencesAreUnique' /\ SlotsAreThere'
    BY <1>1, <1>4, <1>6, <2>1, GrantedLeases DEF Grant, HeavyTypeOK
  <2>5. Leased(r)' BY <2>1, <2>3 DEF Leased
  <2>6. run'[r] = "admitted" BY <1>1, <2>1 DEF HeavyTypeOK
  <2>7. RunInv(r)' BY <1>2, <1>3, <2>5, <2>6 DEF RunInv
  <2>8. \A s \in HeavyRun \ {r} : RunInv(s)'
    BY <1>1, <2>1, <2>2, BrokerSpared, OthersKept DEF HeavyTypeOK
  <2> QED BY <2>2, <2>4, <2>7, <2>8 DEF HeavyInv
<1>7. CASE Deny(r)
  <2>1. UNCHANGED <<broker, nextFence, fence, size>> /\ run' = [run EXCEPT ![r] = MayRetry(Wanted(r))]
    BY <1>7 DEF Deny
  <2>2. HeavyTypeOK' BY <1>1, <1>5, <2>1 DEF HeavyTypeOK
  <2>3. FencesAreUnique' /\ SlotsAreThere' BY <2>1 DEF HeavyInv, FencesAreUnique, SlotsAreThere, Slots
  <2>4. run'[r] \in {"serial", "over"} BY <1>1, <1>5, <2>1 DEF HeavyTypeOK
  <2>5. RunInv(r)' BY <1>2, <1>3, <2>4 DEF RunInv, Backed
  <2>6. \A s \in HeavyRun \ {r} : RunInv(s)'
    BY <1>1, <2>1, <2>2, BrokerSpared, OthersKept DEF HeavyTypeOK
  <2> QED BY <2>2, <2>3, <2>5, <2>6 DEF HeavyInv
<1>8. CASE GrantIsLost(r)
  <2> DEFINE new == [fence |-> nextFence, run |-> r, size |-> Wanted(r), quarantine |-> "PENDING"]
  <2>1. PICK next \in {"over", MayRetry(Wanted(r))} : run' = [run EXCEPT ![r] = next]
    BY <1>8 DEF GrantIsLost
  <2>2. broker' = broker \cup {new} /\ nextFence' = nextFence + 1 /\ UNCHANGED <<fence, size>>
    BY <1>8 DEF GrantIsLost, Granted
  <2>3. HeavyTypeOK'
    <3>1. new \in [fence : Nat \ {0}, run : HeavyRun, size : Nat, quarantine : Uncertain \cup {"PENDING"}]
      BY <1>1, <1>4 DEF HeavyTypeOK
    <3>2. new.fence = nextFence OBVIOUS
    <3> HIDE DEF new
    <3> QED BY <1>1, <1>5, <2>1, <2>2, <3>1, <3>2 DEF HeavyTypeOK
  <2> HIDE DEF new
  <2>4. FencesAreUnique' /\ SlotsAreThere'
    BY <1>4, <1>8, <2>2, GrantedLeases DEF GrantIsLost
  <2>5. run'[r] \in {"serial", "over"} BY <1>1, <1>5, <2>1 DEF HeavyTypeOK
  <2>6. RunInv(r)' BY <1>2, <1>3, <2>5 DEF RunInv, Backed
  <2>7. \A s \in HeavyRun \ {r} : RunInv(s)'
    BY <1>1, <2>1, <2>2, <2>3, BrokerSpared, OthersKept DEF HeavyTypeOK
  <2> QED BY <2>3, <2>4, <2>6, <2>7 DEF HeavyInv
<1>9. CASE GrantIsStale(r)
  <2>1. broker' = Released(fence[r]) /\ nextFence' = nextFence
        /\ fence' = [fence EXCEPT ![r] = NoFence] /\ size' = [size EXCEPT ![r] = 0]
        /\ run' = [run EXCEPT ![r] = MayRetry(size[r])]
    BY <1>9 DEF GrantIsStale
  <2>2. HeavyTypeOK' BY <1>1, <1>5, <2>1 DEF HeavyTypeOK, Released, NoFence
  <2>3. Lessened(broker') /\ \A s \in HeavyRun \ {r} : Spared(broker', s) BY <2>1, Lessening
  <2>4. FencesAreUnique' /\ SlotsAreThere'
    BY <1>1, <2>1, <2>3, LessenedLeases DEF HeavyTypeOK
  <2>5. run'[r] \in {"serial", "over"} BY <1>1, <1>5, <2>1 DEF HeavyTypeOK
  <2>6. RunInv(r)' BY <1>2, <1>3, <2>5 DEF RunInv, Backed
  <2>7. \A s \in HeavyRun \ {r} : RunInv(s)'
    BY <1>1, <2>1, <2>2, <2>3, OthersKept DEF HeavyTypeOK
  <2> QED BY <2>2, <2>4, <2>6, <2>7 DEF HeavyInv
<1> QED BY <1>6, <1>7, <1>8, <1>9

\* A run that is admitted hands its partitions to the pool, and can be cancelled from then on.
LEMMA SubmitKeeps ==
  ASSUME HeavyAssumption, HeavyInv, NEW r \in HeavyRun, Submit(r) \/ Cancel(r)
  PROVE  HeavyInv'
<1> USE DEF threads, lease
<1>1. UNCHANGED <<broker, nextFence, fence, size, tries, tree>> /\ HeavyTypeOK
  BY DEF HeavyInv, Submit, Cancel
<1>2. HeavyTypeOK'
  <2>1. CASE Submit(r)
    <3>1. worker' = [worker EXCEPT ![r] = [p \in Partition |-> "queued"]] /\ cancel' = cancel
          /\ run' = [run EXCEPT ![r] = "running"]
      BY <2>1 DEF Submit
    <3>2. [p \in Partition |-> "queued"] \in [Partition -> Ended \cup {"queued", "attempt", "child", "unsure"}]
      OBVIOUS
    <3>3. worker' \in [HeavyRun -> [Partition -> Ended \cup {"queued", "attempt", "child", "unsure"}]]
      BY <1>1, <3>1, <3>2 DEF HeavyTypeOK
    <3> QED BY <1>1, <3>1, <3>3 DEF HeavyTypeOK
  <2>2. CASE Cancel(r)
    BY <1>1, <2>2 DEF HeavyTypeOK, Cancel
  <2> QED BY <2>1, <2>2
<1>3. FencesAreUnique' /\ SlotsAreThere' BY <1>1 DEF HeavyInv, FencesAreUnique, SlotsAreThere, Slots
<1>4. \A s \in HeavyRun \ {r} : RunInv(s)'
  <2>1. \A s \in HeavyRun \ {r} : run'[s] = run[s] /\ cancel'[s] = cancel[s] /\ worker'[s] = worker[s]
    BY <1>1 DEF HeavyTypeOK, Submit, Cancel
  <2> QED BY <1>1, <1>2, <2>1, BrokerSpared, OthersKept
<1>5. Trees(r)' = Trees(r) BY <1>1 DEF Trees
<1>6. CASE Submit(r)
  <2>1. run[r] = "admitted" /\ run'[r] = "running" /\ \A p \in Partition : worker'[r][p] = "queued"
    BY <1>1, <1>6 DEF Submit, HeavyTypeOK
  <2>2. Untouched(r) /\ Leased(r) BY <2>1 DEF HeavyInv, RunInv
  <2>3. Trees(r)' = {} /\ Busy(r)' = {} BY <1>5, <2>1, <2>2 DEF Untouched, Trees, Busy
  <2>4. Cardinality({}) = 0 BY FS_EmptySet
  <2>5. Attended(r)'
    <3>1. size'[r] \in Nat BY <1>2 DEF HeavyTypeOK
    <3>2. \A p \in Partition : tree'[r][p] # "live" BY <1>1, <2>2 DEF Untouched
    <3> QED BY <2>1, <2>3, <2>4, <3>1, <3>2 DEF Attended, Uncertain
  <2>6. \A p \in Partition : tries'[r][p] <= RetryLimit
    BY <1>1, <2>2 DEF Untouched, HeavyAssumption
  <2>7. Leased(r)' BY <1>1, <2>2 DEF Leased
  <2>8. RunInv(r)' BY <2>1, <2>5, <2>6, <2>7 DEF RunInv
  <2> QED BY <1>2, <1>3, <1>4, <2>8 DEF HeavyInv
<1>7. CASE Cancel(r)
  <2>1. run[r] = "running" /\ run' = run /\ worker' = worker /\ cancel'[r] = TRUE
    BY <1>1, <1>7 DEF Cancel, HeavyTypeOK
  <2>2. Attended(r) /\ Leased(r) BY <2>1 DEF HeavyInv, RunInv
  <2>3. Busy(r)' = Busy(r) BY <2>1 DEF Busy
  <2>4. Attended(r)' BY <1>1, <1>5, <2>1, <2>2, <2>3 DEF Attended
  <2>5. Leased(r)' BY <1>1, <2>2 DEF Leased
  <2>6. RunInv(r)' BY <1>1, <2>1, <2>4, <2>5 DEF RunInv, HeavyInv
  <2> QED BY <1>2, <1>3, <1>4, <2>6 DEF HeavyInv
<1> QED BY <1>6, <1>7

\* abort quarantines the lease of its run, which keeps its size.
LEMMA AbortKeeps ==
  ASSUME HeavyAssumption, HeavyInv, NEW r \in HeavyRun, NEW p \in Partition, Abort(r, p)
  PROVE  HeavyInv'
<1>1. PICK outcome \in {"PARTIAL", "FAILED"} :
        /\ broker' \in {broker, Quarantined(fence[r], outcome)}
        /\ worker' = [worker EXCEPT ![r][p] = outcome]
  BY DEF Abort, At
<1>2. /\ run[r] = "running" /\ worker[r][p] = "unsure" /\ cancel' = [cancel EXCEPT ![r] = TRUE]
      /\ UNCHANGED <<nextFence, run, fence, size, tries, tree>> /\ HeavyTypeOK
  BY DEF Abort, HeavyInv
<1>3. HeavyTypeOK'
  <2>1. broker' \subseteq [fence : Nat \ {0}, run : HeavyRun, size : Nat, quarantine : Uncertain \cup {"PENDING"}]
        /\ \A l \in broker' : l.fence < nextFence
    <3>1. CASE broker' = broker BY <1>2, <3>1 DEF HeavyTypeOK
    <3>2. CASE broker' = Quarantined(fence[r], outcome)
      BY <1>2, <3>2, QuarantinedTyped DEF Uncertain
    <3> QED BY <1>1, <3>1, <3>2
  <2>2. outcome \in Ended BY DEF Ended
  <2>3. worker' \in [HeavyRun -> [Partition -> Ended \cup {"queued", "attempt", "child", "unsure"}]]
    BY <1>1, <1>2, <2>2 DEF HeavyTypeOK
  <2> QED BY <1>2, <2>1, <2>3 DEF HeavyTypeOK
<1>4. Lessened(broker') /\ \A s : Spared(broker', s) BY <1>1, Lessening
<1>5. FencesAreUnique' /\ SlotsAreThere' BY <1>2, <1>4, LessenedLeases
<1>6. \A s \in HeavyRun \ {r} : RunInv(s)'
  BY <1>1, <1>2, <1>3, <1>4, OthersKept DEF HeavyTypeOK
<1>7. worker'[r] = [worker[r] EXCEPT ![p] = outcome] /\ cancel'[r] = TRUE
  BY <1>1, <1>2 DEF HeavyTypeOK
<1>8. worker[r] \in [Partition -> Ended \cup {"queued", "attempt", "child", "unsure"}] /\ size[r] \in Nat
  BY <1>2 DEF HeavyTypeOK
<1>9. Attended(r) /\ Leased(r) BY <1>2 DEF HeavyInv, RunInv
<1>10. Leased(r)' BY <1>2, <1>4, <1>9 DEF Leased, Spared
<1>11. Trees(r)' = Trees(r) BY <1>2 DEF Trees
<1>12. Busy(r)' \in SUBSET Busy(r) BY <1>7, <1>8 DEF Busy
<1>13. Cardinality(Busy(r)') <= Cardinality(Busy(r)) /\ Cardinality(Busy(r)') \in Nat
  BY <1>12, PartsFinite, FS_Subset, FS_CardinalityType
<1>14. Attended(r)'
  <2>1. Cardinality(Busy(r)') <= size[r] BY <1>8, <1>9, <1>13, PartsFinite DEF Attended
  <2>2. \A q \in Partition : tree'[r][q] = "live" => worker'[r][q] \in {"child", "unsure"} \cup Uncertain
    BY <1>2, <1>7, <1>8, <1>9 DEF Attended, Uncertain
  <2> QED BY <1>2, <1>7, <1>9, <1>11, <2>1, <2>2 DEF Attended
<1>15. RunInv(r)'
  <2>1. \A q \in Partition : worker'[r][q] \in {"queued", "attempt"} => tries'[r][q] <= RetryLimit
    BY <1>2, <1>7, <1>8 DEF HeavyInv, RunInv
  <2> QED BY <1>2, <1>10, <1>14, <2>1 DEF RunInv
<1> QED BY <1>3, <1>5, <1>6, <1>15 DEF HeavyInv

\* A run that ends gives its lease back only when all of its trees have ended; a run that
\* dies leaves its lease behind.
LEMMA EndKeeps ==
  ASSUME HeavyAssumption, HeavyInv, NEW r \in HeavyRun, Finish(r) \/ Crash(r)
  PROVE  HeavyInv'
<1>1. /\ run' = [run EXCEPT ![r] = "over"] /\ fence' = [fence EXCEPT ![r] = NoFence]
      /\ size' = [size EXCEPT ![r] = 0] /\ cancel' = [cancel EXCEPT ![r] = FALSE]
      /\ worker' = [worker EXCEPT ![r] = [p \in Partition |-> "none"]]
      /\ tries' = [tries EXCEPT ![r] = [p \in Partition |-> 0]]
      /\ UNCHANGED <<nextFence, tree>> /\ HeavyTypeOK
  BY DEF Finish, Crash, Over, HeavyInv
<1>2. broker' \in {broker, Released(fence[r]), Quarantined(fence[r], "FAILED")}
  BY DEF Finish, Crash
<1>3. broker' \subseteq [fence : Nat \ {0}, run : HeavyRun, size : Nat, quarantine : Uncertain \cup {"PENDING"}]
      /\ \A l \in broker' : l.fence < nextFence
  <2>1. CASE broker' = broker BY <1>1, <2>1 DEF HeavyTypeOK
  <2>2. CASE broker' = Released(fence[r]) BY <1>1, <2>2 DEF HeavyTypeOK, Released
  <2>3. CASE broker' = Quarantined(fence[r], "FAILED")
    BY <1>1, <2>3, QuarantinedTyped DEF Uncertain
  <2> QED BY <1>2, <2>1, <2>2, <2>3
<1>4. HeavyTypeOK'
  <2>1. worker' \in [HeavyRun -> [Partition -> Ended \cup {"queued", "attempt", "child", "unsure"}]]
    <3>1. [p \in Partition |-> "none"] \in [Partition -> Ended \cup {"queued", "attempt", "child", "unsure"}]
      BY DEF Ended
    <3> QED BY <1>1, <3>1 DEF HeavyTypeOK
  <2>2. tries' \in [HeavyRun -> [Partition -> 0..(RetryLimit + 1)]]
    <3>1. [p \in Partition |-> 0] \in [Partition -> 0..(RetryLimit + 1)] BY DEF HeavyAssumption
    <3> QED BY <1>1, <3>1 DEF HeavyTypeOK
  <2>3. /\ run' \in [HeavyRun -> {"idle", "serial", "admitted", "running", "over"}]
        /\ fence' \in [HeavyRun -> Nat] /\ size' \in [HeavyRun -> Nat] /\ cancel' \in [HeavyRun -> BOOLEAN]
        /\ nextFence' = nextFence /\ tree' = tree
    BY <1>1 DEF HeavyTypeOK, NoFence
  <2> QED BY <1>1, <1>3, <2>1, <2>2, <2>3 DEF HeavyTypeOK
<1>5. Lessened(broker') /\ \A s \in HeavyRun \ {r} : Spared(broker', s)
  <2>1. CASE broker' = broker BY <2>1, Lessening
  <2>2. CASE broker' = Released(fence[r]) BY <2>2, Lessening
  <2>3. CASE broker' = Quarantined(fence[r], "FAILED") BY <2>3, Lessening
  <2> QED BY <1>2, <2>1, <2>2, <2>3
<1>6. FencesAreUnique' /\ SlotsAreThere' BY <1>1, <1>5, LessenedLeases DEF HeavyTypeOK
<1>7. \A s \in HeavyRun \ {r} : RunInv(s)'
  BY <1>1, <1>4, <1>5, OthersKept DEF HeavyTypeOK
<1>8. run'[r] = "over" /\ worker'[r] = [p \in Partition |-> "none"] BY <1>1 DEF HeavyTypeOK
<1>9. Trees(r)' = Trees(r) BY <1>1 DEF Trees
<1>10. Backed(r)'
  <2> SUFFICES ASSUME Trees(r) # {} PROVE \E l \in broker' : l.run = r /\ Cardinality(Trees(r)) <= l.size
    BY <1>9 DEF Backed
  <2>1. run[r] \in {"idle", "serial", "admitted"} => Trees(r) = {} BY DEF HeavyInv, RunInv, Untouched, Trees
  <2>2. run[r] = "running"
    <3>1. run[r] # "over" BY DEF Finish, Crash
    <3> QED BY <1>1, <2>1, <3>1 DEF HeavyTypeOK
  <2>3. Attended(r) /\ Leased(r) BY <2>2 DEF HeavyInv, RunInv
  <2>4. Spared(broker', r)
    <3>1. CASE Finish(r)
      <4>1. PICK p \in Partition : tree[r][p] = "live" BY DEF Trees
      <4>2. ~Established(r) BY <2>3, <3>1, <4>1 DEF Finish, Attended, Ended, Established, Uncertain
      <4>3. broker' \in {broker, Quarantined(fence[r], "FAILED")} BY <3>1, <4>2 DEF Finish
      <4> QED BY <4>3, Lessening
    <3>2. CASE Crash(r) BY <3>2, Lessening DEF Crash
    <3> QED BY <3>1, <3>2
  <2>5. PICK l \in broker : l.run = r /\ l.size = size[r] BY <2>3 DEF Leased
  <2> QED BY <2>3, <2>4, <2>5 DEF Attended, Spared
<1>11. RunInv(r)' BY <1>8, <1>10 DEF RunInv
<1> QED BY <1>4, <1>6, <1>7, <1>11 DEF HeavyInv

\* Somebody who frees a lease has the evidence that nothing lives under its run.
LEMMA RecoveryKeeps ==
  ASSUME HeavyAssumption, HeavyInv, NEW l \in broker, ReleaseQuarantined(l)
  PROVE  HeavyInv'
<1>1. /\ broker' = broker \ {l} /\ run[l.run] = "over" /\ \A p \in Partition : tree[l.run][p] # "live"
      /\ UNCHANGED <<nextFence, run, fence, size, cancel, worker, tries, tree>> /\ HeavyTypeOK
      /\ l.run \in HeavyRun
  BY DEF ReleaseQuarantined, HeavyInv, HeavyTypeOK
<1>2. HeavyTypeOK' BY <1>1 DEF HeavyTypeOK
<1>3. Lessened(broker')
  <2>1. broker' \in SUBSET broker BY <1>1
  <2> QED BY <1>1, <2>1, Lessening
<1>4. FencesAreUnique' /\ SlotsAreThere' BY <1>1, <1>3, LessenedLeases
<1>5. \A s \in HeavyRun \ {l.run} : RunInv(s)'
  <2>1. \A s \in HeavyRun \ {l.run} : Spared(broker', s) BY <1>1 DEF Spared
  <2> QED BY <1>1, <1>2, <2>1, OthersKept
<1>6. RunInv(l.run)'
  <2>1. Trees(l.run)' = {} BY <1>1 DEF Trees
  <2> QED BY <1>1, <2>1 DEF HeavyInv, RunInv, Backed
<1> QED BY <1>2, <1>4, <1>5, <1>6 DEF HeavyInv

LEMMA HeavyStep == ASSUME HeavyInv, [HeavyNext]_heavyVars PROVE HeavyInv'
<1>1. CASE UNCHANGED heavyVars
  <2>1. UNCHANGED <<broker, nextFence, run, fence, size, cancel, worker, tries, tree>> BY <1>1 DEF heavyVars
  <2>2. HeavyTypeOK' /\ FencesAreUnique' /\ SlotsAreThere'
    BY <2>1 DEF HeavyInv, HeavyTypeOK, FencesAreUnique, SlotsAreThere, Slots
  <2>3. \A s : Spared(broker', s) BY <2>1, BrokerSpared
  <2>4. ASSUME NEW s \in HeavyRun PROVE RunInv(s)' BY <2>1, <2>3, RunKept DEF HeavyInv, Spared
  <2> QED BY <2>2, <2>4 DEF HeavyInv
<1> QED BY <1>1, HeavyAssumption, ThreadStep, TreeEndsKeeps, AdmissionKeeps, SubmitKeeps, AbortKeeps, EndKeeps,
           RecoveryKeeps DEF HeavyNext

\* The trees of all runs fit into the slots of the leases: every tree has a slot of its own.
LEMMA TreesHaveSlots == ASSUME HeavyAssumption, HeavyInv PROVE TreesWithinCapacity
<1> DEFINE All == {x \in HeavyRun \X Partition : tree[x[1]][x[2]] = "live"}
           Covers(l, r) == l \in broker /\ l.run = r /\ Cardinality(Trees(r)) <= l.size
           Under(r) == CHOOSE l : Covers(l, r)
           Number(r) == CHOOSE g : g \in Injection(Trees(r), 1..Cardinality(Trees(r)))
           slot == [x \in All |-> <<Under(x[1]).fence, Number(x[1])[x[2]]>>]
<1>1. ASSUME NEW r \in HeavyRun, Trees(r) # {} PROVE Covers(Under(r), r)
  <2>1. run[r] \in {"running", "over"}
    BY <1>1 DEF HeavyInv, HeavyTypeOK, RunInv, Untouched, Trees
  <2>2. \E l : Covers(l, r)
    <3>1. CASE run[r] = "running"
      <4>1. Attended(r) /\ Leased(r) BY <3>1 DEF HeavyInv, RunInv
      <4> QED BY <4>1 DEF Attended, Leased
    <3>2. CASE run[r] = "over"
      BY <1>1, <3>2 DEF HeavyInv, RunInv, Backed
    <3> QED BY <2>1, <3>1, <3>2
  <2> HIDE DEF Covers
  <2> QED BY <2>2
<1>2. ASSUME NEW r \in HeavyRun PROVE Number(r) \in Injection(Trees(r), 1..Cardinality(Trees(r)))
  <2>1. ExistsBijection(1..Cardinality(Trees(r)), Trees(r)) BY PartsFinite, FS_CardinalityType
  <2>2. ExistsBijection(Trees(r), 1..Cardinality(Trees(r))) BY <2>1, Fun_ExistsBijSymmetric
  <2>3. \E g : g \in Injection(Trees(r), 1..Cardinality(Trees(r)))
    BY <2>2 DEF ExistsBijection, Bijection
  <2> QED BY <2>3
<1>3. ASSUME NEW x \in All
      PROVE  /\ x[1] \in HeavyRun /\ x[2] \in Trees(x[1]) /\ x = <<x[1], x[2]>>
             /\ Covers(Under(x[1]), x[1])
             /\ Number(x[1])[x[2]] \in 1..Cardinality(Trees(x[1]))
  <2>1. x[1] \in HeavyRun /\ x[2] \in Trees(x[1]) /\ x = <<x[1], x[2]>> BY DEF Trees
  <2>2. Covers(Under(x[1]), x[1]) BY <1>1, <2>1
  <2>3. Number(x[1]) \in [Trees(x[1]) -> 1..Cardinality(Trees(x[1]))] BY <1>2, <2>1 DEF Injection
  <2> QED BY <2>1, <2>2, <2>3
<1>4. ASSUME NEW x \in All PROVE slot[x] \in Slots
  <2>1. Under(x[1]) \in broker /\ Cardinality(Trees(x[1])) <= Under(x[1]).size BY <1>3
  <2>2. Under(x[1]).size \in Nat BY <2>1 DEF HeavyInv, HeavyTypeOK
  <2>3. Cardinality(Trees(x[1])) \in Nat BY PartsFinite
  <2>4. Number(x[1])[x[2]] \in 1..Cardinality(Trees(x[1])) BY <1>3
  <2>5. slot[x] = <<Under(x[1]).fence, Number(x[1])[x[2]]>> OBVIOUS
  <2> HIDE DEF Of, Number, slot, Covers, All
  <2>6. Number(x[1])[x[2]] \in 1..Under(x[1]).size BY <2>1, <2>2, <2>3, <2>4
  <2>7. slot[x] \in {Under(x[1]).fence} \X (1..Under(x[1]).size) BY <2>5, <2>6
  <2>8. slot[x] \in UNION {{l.fence} \X (1..l.size) : l \in broker} BY <2>1, <2>7
  <2> QED BY <2>8 DEF Slots
<1>5. ASSUME NEW x \in All, NEW y \in All, slot[x] = slot[y] PROVE x = y
  <2>1. Under(x[1]).fence = Under(y[1]).fence /\ Number(x[1])[x[2]] = Number(y[1])[y[2]]
    <3>1. ASSUME NEW a, NEW b, NEW c, NEW d, <<a, b>> = <<c, d>> PROVE a = c /\ b = d BY <3>1
    <3>2. <<Under(x[1]).fence, Number(x[1])[x[2]]>> = <<Under(y[1]).fence, Number(y[1])[y[2]]>> BY <1>5
    <3> HIDE DEF Of, Number, slot, All
    <3> QED BY <3>1, <3>2
  <2>2. Covers(Under(x[1]), x[1]) /\ Covers(Under(y[1]), y[1]) BY <1>3
  <2>3. x[1] = y[1] BY <2>1, <2>2 DEF HeavyInv, FencesAreUnique
  <2>4. x[2] = y[2]
    <3>1. x[2] \in Trees(x[1]) /\ y[2] \in Trees(x[1]) BY <1>3, <2>3
    <3>2. Number(x[1]) \in Injection(Trees(x[1]), 1..Cardinality(Trees(x[1]))) BY <1>2, <1>3
    <3> HIDE DEF Number, All, Of
    <3>3. Number(x[1])[x[2]] = Number(x[1])[y[2]] BY <2>1, <2>3
    <3> QED BY <3>1, <3>2, <3>3 DEF Injection, IsInjective
  <2> QED BY <1>3, <2>3, <2>4
<1>6. slot \in [All -> Slots]
  <2> HIDE DEF Of, Number
  <2> SUFFICES \A x \in All : slot[x] \in Slots OBVIOUS
  <2> QED BY <1>4
<1> HIDE DEF slot, All
<1>7. slot \in Injection(All, Slots) BY <1>5, <1>6 DEF Injection, IsInjective
<1>8. IsFiniteSet(Slots) /\ Cardinality(Slots) <= MaxWorkers BY DEF HeavyInv, SlotsAreThere
<1>9. IsFiniteSet(All) /\ Cardinality(All) <= Cardinality(Slots) BY <1>7, <1>8, FS_Injection
<1>10. Cardinality(All) \in Nat /\ Cardinality(Slots) \in Nat BY <1>8, <1>9, FS_CardinalityType
<1>11. Cardinality(All) <= MaxWorkers BY <1>8, <1>9, <1>10, HeavyAssumption DEF HeavyAssumption
<1> QED BY <1>11 DEF TreesWithinCapacity, All

\* The process trees of all runs together never exceed the host's workers, whoever crashes,
\* loses a grant or fails to clean up: FileLeaseBroker and the launch gate, for any runs.
THEOREM TreesStayWithinCapacity == HeavySpec => []TreesWithinCapacity
<1>1. HeavyInit => HeavyInv BY HeavyStarts, HeavyAssumption
<1>2. HeavyInv => TreesWithinCapacity BY TreesHaveSlots, HeavyAssumption
<1> QED BY <1>1, <1>2, HeavyStep, PTL DEF HeavySpec

-----------------------------------------------------------------------------
(* Review completion: what has been prepared holds its cycle.              *)

States == {"COLLECTING", "INVALIDATED", "SUBMITTING", "SUBMISSION_UNKNOWN", "SUBMITTED"}
Results == {"none", "RUNNING", "ACCEPTABLE", "REJECTED", "STALE"}
CycleRow == [cand : Candidate, required : ReviewerSet, twice : SUBSET Reviewer, state : States,
             result : [Reviewer -> Results]]

\* A mutation that was sent, and one that a process is about to send.
Prepared == sent \cup ({submitter[s] : s \in Submitter} \ {Idling})

Dispatched == \A k \in DOMAIN cycles, q \in Reviewer : Row(k, q) # "none" => <<k, q>> \in bindings

CycleHeld(k) ==
  /\ Complete(k)
  /\ \/ k = active /\ Held(cycles[k].state)
     \/ k \in submissions /\ cycles[k].state = "SUBMITTED"

ReviewInv == ReviewTypeOK /\ Dispatched /\ \A k \in Prepared : CycleHeld(k)

LEMMA CyclesTable ==
  ASSUME ReviewTypeOK
  PROVE  /\ active \in Nat /\ DOMAIN cycles = 1..active /\ cycles \in [1..active -> CycleRow]
         /\ Idling \notin DOMAIN cycles
<1>1. cycles \in Seq(CycleRow) BY DEF ReviewTypeOK, CycleRow, States, Results
<1> QED BY <1>1 DEF active, Idling

LEMMA RowFields ==
  ASSUME NEW row \in CycleRow
  PROVE  /\ row.state \in States /\ row.required \subseteq Reviewer /\ row.required \in ReviewerSet
         /\ row.cand \in Candidate
         /\ row.result \in [Reviewer -> Results] /\ row.twice \subseteq Reviewer
         /\ \A s \in States : /\ [row EXCEPT !.state = s] \in CycleRow
                              /\ [row EXCEPT !.state = s].result = row.result
                              /\ [row EXCEPT !.state = s].twice = row.twice
                              /\ [row EXCEPT !.state = s].required = row.required
                              /\ [row EXCEPT !.state = s].state = s
         /\ \A q \in Reviewer, o \in Results :
              /\ [row EXCEPT !.result[q] = o] \in CycleRow
              /\ [row EXCEPT !.result[q] = o].state = row.state
              /\ [row EXCEPT !.result[q] = o].result = [row.result EXCEPT ![q] = o]
         /\ \A q \in Reviewer :
              /\ [row EXCEPT !.twice = @ \cup {q}] \in CycleRow
              /\ [row EXCEPT !.twice = @ \cup {q}].state = row.state
              /\ [row EXCEPT !.twice = @ \cup {q}].result = row.result
<1>1. row.required \subseteq Reviewer BY ReviewAssumption DEF CycleRow
<1> QED BY <1>1 DEF CycleRow

LEMMA PreparedIsCycle == ASSUME ReviewTypeOK PROVE Prepared \subseteq DOMAIN cycles
BY DEF Prepared, ReviewTypeOK

LEMMA ReviewTyped ==
  ASSUME NEW n \in Nat, cycles' \in [1..n -> CycleRow], n >= active, ReviewTypeOK,
         bindings' \subseteq (1..n) \X Reviewer, submitter' \in [Submitter -> {Idling} \cup 1..n],
         underway' \cup submissions' \subseteq sent', sent' \subseteq 1..n
  PROVE  ReviewTypeOK'
<1>1. cycles' \in Seq(CycleRow) /\ DOMAIN cycles' = 1..n OBVIOUS
<1> QED BY <1>1 DEF ReviewTypeOK, CycleRow, States, Results

\* The state of the newest cycle moves, and nothing else of any cycle.
LEMMA SetKeeps ==
  ASSUME ReviewInv, NEW state \in States, active > 0, Set(state), bindings' = bindings, sent' = sent,
         UNCHANGED <<underway, submissions>>,
         \A s \in Submitter : submitter'[s] \in {submitter[s], Idling} \/ submitter'[s] = active,
         submitter' \in [Submitter -> {Idling} \cup DOMAIN cycles],
         active \in Prepared => Held(state) \/ (active \in submissions /\ state = "SUBMITTED"),
         active \in Prepared' => active \in Prepared \/ (Held(state) /\ Complete(active))
  PROVE  ReviewInv'
<1>1. /\ active \in Nat /\ DOMAIN cycles = 1..active /\ cycles \in [1..active -> CycleRow]
      /\ active \in 1..active
  BY CyclesTable DEF ReviewInv
<1>2. cycles' = [cycles EXCEPT ![active].state = state] BY DEF Set
<1>3. cycles' \in [1..active -> CycleRow] /\ active' = active /\ DOMAIN cycles' = 1..active
  <2>1. [cycles[active] EXCEPT !.state = state] \in CycleRow BY <1>1, RowFields
  <2>2. cycles' = [cycles EXCEPT ![active] = [cycles[active] EXCEPT !.state = state]] BY <1>1, <1>2
  <2>3. cycles' \in [1..active -> CycleRow] BY <1>1, <2>1, <2>2
  <2>4. Len(cycles') = active BY <1>1, <2>3
  <2> QED BY <2>3, <2>4 DEF active
<1>4. /\ \A k \in 1..active : k # active => cycles'[k] = cycles[k]
      /\ cycles'[active] = [cycles[active] EXCEPT !.state = state]
  BY <1>1, <1>2
<1>5. \A k \in 1..active : cycles'[k].result = cycles[k].result /\ cycles'[k].twice = cycles[k].twice
                           /\ cycles'[k].required = cycles[k].required
  <2>1. /\ cycles'[active].result = cycles[active].result /\ cycles'[active].twice = cycles[active].twice
        /\ cycles'[active].required = cycles[active].required
    BY <1>1, <1>4, RowFields
  <2> QED BY <1>4, <2>1
<1>6. cycles'[active].state = state BY <1>1, <1>4, RowFields
<1>7. ReviewTypeOK'
  <2>1. bindings' \subseteq (1..active) \X Reviewer /\ submitter' \in [Submitter -> {Idling} \cup 1..active]
        /\ underway' \cup submissions' \subseteq sent' /\ sent' \subseteq 1..active
    BY <1>1 DEF ReviewInv, ReviewTypeOK
  <2>2. ReviewTypeOK /\ active >= active BY <1>1 DEF ReviewInv
  <2> QED BY <1>1, <1>3, <2>1, <2>2, ReviewTyped
<1>8. Dispatched' BY <1>1, <1>3, <1>5 DEF ReviewInv, Dispatched, Row
<1>9. ASSUME NEW k \in Prepared' PROVE CycleHeld(k)'
  <2>1. k \in Prepared \/ k = active BY DEF Prepared
  <2>2. k \in 1..active BY <1>1, <2>1, PreparedIsCycle DEF ReviewInv
  <2>3. CASE k \in Prepared /\ k # active
    <3>1. CycleHeld(k) BY <2>3 DEF ReviewInv
    <3> QED BY <1>3, <1>4, <1>5, <2>2, <2>3, <3>1 DEF CycleHeld, Complete, Row
  <2>4. CASE k = active
    <3>1. Complete(k) BY <1>9, <2>4 DEF ReviewInv, CycleHeld
    <3>2. Complete(k)' BY <1>5, <2>2, <3>1 DEF Complete, Row
    <3>3. Held(state) \/ (active \in submissions /\ state = "SUBMITTED") BY <1>9, <2>4
    <3> QED BY <1>3, <1>6, <2>4, <3>2, <3>3 DEF CycleHeld
  <2> QED BY <2>1, <2>3, <2>4
<1> QED BY <1>7, <1>8, <1>9 DEF ReviewInv

\* A step that leaves the cycles alone.
LEMMA RemoteKeeps ==
  ASSUME ReviewInv, UNCHANGED <<cycles, bindings>>, ReviewTypeOK', Prepared' \subseteq Prepared,
         submissions \subseteq submissions'
  PROVE  ReviewInv'
<1>1. active' = active BY DEF active
<1> QED BY <1>1 DEF ReviewInv, Dispatched, CycleHeld, Complete, Row

LEMMA FreezeKeeps ==
  ASSUME ReviewInv, NEW c \in Candidate, NEW R \in ReviewerSet, NEW d \in BOOLEAN, Freeze(c, R, d)
  PROVE  ReviewInv'
<1> DEFINE F(k) == IF k = active /\ cycles[k].state # "SUBMITTED"
                     THEN [cycles[k] EXCEPT !.state = "INVALIDATED"] ELSE cycles[k]
           old == [k \in DOMAIN cycles |-> F(k)]
<1>1. /\ active \in Nat /\ DOMAIN cycles = 1..active /\ cycles \in [1..active -> CycleRow]
  BY CyclesTable DEF ReviewInv
<1>2. cycles' = Append(old, NewCycle(c, R)) /\ UNCHANGED <<bindings, submitter, sent, underway, submissions>>
  BY DEF Freeze, remote
<1>3. NewCycle(c, R) \in CycleRow /\ \A q \in Reviewer : NewCycle(c, R).result[q] = "none"
  BY DEF NewCycle, CycleRow, States, Results
<1>4. ASSUME NEW k \in 1..active
      PROVE  /\ F(k) \in CycleRow /\ F(k).result = cycles[k].result /\ F(k).twice = cycles[k].twice
             /\ F(k).required = cycles[k].required
             /\ F(k).state = cycles[k].state \/ (k = active /\ cycles[k].state # "SUBMITTED")
  <2>1. cycles[k] \in CycleRow /\ "INVALIDATED" \in States BY <1>1 DEF States
  <2> QED BY <2>1, RowFields
<1> HIDE DEF F
<1>5. old \in [1..active -> CycleRow] /\ Len(old) = active /\ old \in Seq(CycleRow)
  BY <1>1, <1>4
<1>6. /\ \A k \in 1..active : cycles'[k] = F(k)
      /\ cycles'[active + 1] = NewCycle(c, R) /\ DOMAIN cycles' = 1..(active + 1)
      /\ cycles' \in [1..(active + 1) -> CycleRow] /\ active' = active + 1
  <2> DEFINE n == active
  <2>1. n \in Nat /\ old \in [1..n -> CycleRow] /\ Len(old) = n /\ cycles' = Append(old, NewCycle(c, R))
        /\ \A k \in 1..n : old[k] = F(k)
    BY <1>1, <1>2, <1>5
  <2>2. active' = Len(cycles') BY DEF active
  <2> HIDE DEF n, old
  <2>3. /\ \A k \in 1..n : cycles'[k] = F(k)
        /\ cycles'[n + 1] = NewCycle(c, R) /\ DOMAIN cycles' = 1..(n + 1)
        /\ cycles' \in [1..(n + 1) -> CycleRow] /\ Len(cycles') = n + 1
    <3>1. old \in Seq(CycleRow) BY <2>1
    <3>2. DOMAIN cycles' = 1..(n + 1) /\ Len(cycles') = n + 1 /\ cycles' \in Seq(CycleRow)
          /\ (\A k \in 1..n : cycles'[k] = old[k]) /\ cycles'[n + 1] = NewCycle(c, R)
      BY <1>3, <2>1, <3>1, AppendProperties
    <3>3. cycles' \in [1..Len(cycles') -> CycleRow] BY <3>2
    <3>4. \A k \in 1..n : cycles'[k] = F(k) BY <2>1, <3>2
    <3> QED BY <3>2, <3>3, <3>4
  <2> QED BY <2>2, <2>3 DEF n
<1>7. ReviewTypeOK'
  <2>1. bindings' \subseteq (1..(active + 1)) \X Reviewer
        /\ submitter' \in [Submitter -> {Idling} \cup 1..(active + 1)]
        /\ underway' \cup submissions' \subseteq sent' /\ sent' \subseteq 1..(active + 1)
    BY <1>1, <1>2 DEF ReviewInv, ReviewTypeOK
  <2>2. ReviewTypeOK /\ active + 1 \in Nat /\ active + 1 >= active BY <1>1 DEF ReviewInv
  <2> QED BY <1>6, <2>1, <2>2, ReviewTyped
<1>8. Dispatched'
  <2> SUFFICES ASSUME NEW k \in 1..(active + 1), NEW q \in Reviewer, cycles'[k].result[q] # "none"
               PROVE  <<k, q>> \in bindings
    BY <1>2, <1>6 DEF Dispatched, Row
  <2>1. k \in 1..active BY <1>1, <1>3, <1>6
  <2> QED BY <1>1, <1>4, <1>6, <2>1 DEF ReviewInv, Dispatched, Row
<1>9. ASSUME NEW k \in Prepared' PROVE CycleHeld(k)'
  <2>1. k \in Prepared BY <1>2 DEF Prepared
  <2>2. k \in 1..active BY <1>1, <2>1, PreparedIsCycle DEF ReviewInv
  <2>3. CycleHeld(k) BY <2>1 DEF ReviewInv
  <2>4. ~Held(cycles[active].state) BY <1>1, <2>2 DEF Freeze
  <2>5. k \in submissions /\ cycles[k].state = "SUBMITTED" BY <2>3, <2>4 DEF CycleHeld
  <2>6. Complete(k)' BY <1>4, <1>6, <2>2, <2>3 DEF CycleHeld, Complete, Row
  <2> QED BY <1>2, <1>4, <1>6, <2>2, <2>5, <2>6 DEF CycleHeld
<1> QED BY <1>7, <1>8, <1>9 DEF ReviewInv

\* Results are taken only while the newest cycle collects them.
LEMMA ResultKeeps ==
  ASSUME ReviewInv,
         \/ \E q \in Reviewer : DispatchReviewer(q)
         \/ \E b \in bindings, outcome \in {"ACCEPTABLE", "REJECTED"} : RecordResult(b, outcome)
  PROVE  ReviewInv'
<1>1. /\ active \in Nat /\ DOMAIN cycles = 1..active /\ cycles \in [1..active -> CycleRow]
  BY CyclesTable DEF ReviewInv
<1>2. bindings \subseteq (1..active) \X Reviewer BY <1>1 DEF ReviewInv, ReviewTypeOK
<1>3. active \in 1..active /\ cycles[active].state = "COLLECTING" /\ cycles[active] \in CycleRow
  <2>1. active > 0 BY <1>1, <1>2 DEF DispatchReviewer, RecordResult
  <2> QED BY <1>1, <2>1 DEF DispatchReviewer, RecordResult
<1>4. PICK q \in Reviewer, row \in CycleRow :
        /\ cycles' = [cycles EXCEPT ![active] = row] /\ row.state = "COLLECTING"
        /\ \A p \in Reviewer : row.result[p] # "none" => cycles[active].result[p] # "none" \/ p = q
        /\ bindings \subseteq bindings' /\ bindings' \subseteq bindings \cup {<<active, q>>}
        /\ row.result[q] # "none" => <<active, q>> \in bindings'
        /\ UNCHANGED <<submitter, sent, underway, submissions>>
  <2>1. ASSUME NEW q \in Reviewer, DispatchReviewer(q)
        PROVE  \E p \in Reviewer, row \in CycleRow :
                 /\ cycles' = [cycles EXCEPT ![active] = row] /\ row.state = "COLLECTING"
                 /\ \A r \in Reviewer : row.result[r] # "none" => cycles[active].result[r] # "none" \/ r = p
                 /\ bindings \subseteq bindings' /\ bindings' \subseteq bindings \cup {<<active, p>>}
                 /\ row.result[p] # "none" => <<active, p>> \in bindings'
                 /\ UNCHANGED <<submitter, sent, underway, submissions>>
    <3> DEFINE row == [cycles[active] EXCEPT !.result[q] = "RUNNING"]
    <3>1. row \in CycleRow /\ row.state = "COLLECTING"
          /\ row.result = [cycles[active].result EXCEPT ![q] = "RUNNING"]
          /\ cycles[active].result \in [Reviewer -> Results]
      BY <1>3, RowFields DEF Results
    <3>2. cycles' = [cycles EXCEPT ![active] = row] BY <1>1, <1>3, <2>1 DEF DispatchReviewer
    <3>3. bindings' = bindings \cup {<<active, q>>} /\ UNCHANGED <<submitter, sent, underway, submissions>>
      BY <2>1 DEF DispatchReviewer, remote
    <3> HIDE DEF row
    <3> QED BY <3>1, <3>2, <3>3
  <2>2. ASSUME NEW b \in bindings, NEW o \in {"ACCEPTABLE", "REJECTED"}, RecordResult(b, o)
        PROVE  \E p \in Reviewer, row \in CycleRow :
                 /\ cycles' = [cycles EXCEPT ![active] = row] /\ row.state = "COLLECTING"
                 /\ \A r \in Reviewer : row.result[r] # "none" => cycles[active].result[r] # "none" \/ r = p
                 /\ bindings \subseteq bindings' /\ bindings' \subseteq bindings \cup {<<active, p>>}
                 /\ row.result[p] # "none" => <<active, p>> \in bindings'
                 /\ UNCHANGED <<submitter, sent, underway, submissions>>
    <3> DEFINE q == b[2]
    <3>1. q \in Reviewer BY <1>2
    <3>2. bindings' = bindings /\ UNCHANGED <<submitter, sent, underway, submissions>>
          /\ cycles[active].result[q] # "none"
      BY <2>2 DEF RecordResult, remote, Row
    <3>3. <<active, q>> \in bindings BY <1>1, <1>3, <3>1, <3>2 DEF ReviewInv, Dispatched, Row
    <3>4. CASE Row(active, q) # "RUNNING"
      <4> DEFINE row == [cycles[active] EXCEPT !.twice = @ \cup {q}]
      <4>1. row \in CycleRow /\ row.state = "COLLECTING" /\ row.result = cycles[active].result
        BY <1>3, <3>1, RowFields
      <4>2. cycles' = [cycles EXCEPT ![active] = row] BY <1>1, <1>3, <2>2, <3>4 DEF RecordResult
      <4> HIDE DEF row, q
      <4> QED BY <3>1, <3>2, <3>3, <4>1, <4>2
    <3>5. CASE Row(active, q) = "RUNNING"
      <4> DEFINE out == IF b[1] = active THEN o ELSE "STALE"
                 row == [cycles[active] EXCEPT !.result[q] = out]
      <4>1. out \in Results BY DEF Results
      <4>2. cycles' = [cycles EXCEPT ![active] = row] BY <1>1, <1>3, <2>2, <3>5 DEF RecordResult
      <4> HIDE DEF out
      <4>3. row \in CycleRow /\ row.state = "COLLECTING"
            /\ row.result = [cycles[active].result EXCEPT ![q] = out]
            /\ cycles[active].result \in [Reviewer -> Results]
        BY <1>3, <3>1, <4>1, RowFields
      <4> HIDE DEF row, q
      <4>4. \A r \in Reviewer : row.result[r] # "none" => cycles[active].result[r] # "none" \/ r = q
        BY <3>1, <4>3
      <4> QED BY <3>1, <3>2, <3>3, <4>2, <4>3, <4>4
    <3> QED BY <3>4, <3>5
  <2> QED BY <2>1, <2>2
<1>5. cycles' \in [1..active -> CycleRow] /\ DOMAIN cycles' = 1..active /\ cycles'[active] = row
      /\ \A k \in 1..active : k # active => cycles'[k] = cycles[k]
  BY <1>1, <1>3, <1>4
<1>6. active' = active
  <2>1. Len(cycles') = active BY <1>1, <1>5
  <2> QED BY <2>1 DEF active
<1>7. ReviewTypeOK'
  <2>1. bindings' \subseteq (1..active) \X Reviewer /\ submitter' \in [Submitter -> {Idling} \cup 1..active]
        /\ underway' \cup submissions' \subseteq sent' /\ sent' \subseteq 1..active
    BY <1>1, <1>2, <1>3, <1>4 DEF ReviewInv, ReviewTypeOK
  <2>2. ReviewTypeOK /\ active >= active BY <1>1 DEF ReviewInv
  <2> QED BY <1>1, <1>5, <2>1, <2>2, ReviewTyped
<1>8. Dispatched'
  <2> SUFFICES ASSUME NEW k \in 1..active, NEW p \in Reviewer, cycles'[k].result[p] # "none"
               PROVE  <<k, p>> \in bindings'
    BY <1>5 DEF Dispatched, Row
  <2>1. CASE k # active BY <1>1, <1>4, <1>5, <2>1 DEF ReviewInv, Dispatched, Row
  <2>2. CASE k = active BY <1>1, <1>4, <1>5, <2>2 DEF ReviewInv, Dispatched, Row
  <2> QED BY <2>1, <2>2
<1>9. ASSUME NEW k \in Prepared' PROVE CycleHeld(k)'
  <2>1. k \in Prepared BY <1>4 DEF Prepared
  <2>2. k \in 1..active BY <1>1, <2>1, PreparedIsCycle DEF ReviewInv
  <2>3. CycleHeld(k) BY <2>1 DEF ReviewInv
  <2>4. k # active BY <1>3, <2>3 DEF CycleHeld, Held
  <2> QED BY <1>4, <1>5, <1>6, <2>2, <2>3, <2>4 DEF CycleHeld, Complete, Row
<1> QED BY <1>7, <1>8, <1>9 DEF ReviewInv

\* One process prepares a submission, and with it the newest cycle.
LEMMA PrepareKeeps == ASSUME ReviewInv, NEW s \in Submitter, PrepareSubmission(s) PROVE ReviewInv'
<1>1. active > 0 /\ Set("SUBMITTING") /\ Complete(active) /\ submitter' = [submitter EXCEPT ![s] = active]
      /\ UNCHANGED <<bindings, sent, underway, submissions>>
  BY DEF PrepareSubmission, remote
<1>2. active \in 1..active /\ DOMAIN cycles = 1..active BY <1>1, CyclesTable DEF ReviewInv
<1>3. submitter' \in [Submitter -> {Idling} \cup DOMAIN cycles]
      /\ \A t \in Submitter : submitter'[t] \in {submitter[t], Idling} \/ submitter'[t] = active
  BY <1>1, <1>2 DEF ReviewInv, ReviewTypeOK
<1> QED BY <1>1, <1>3, SetKeeps DEF Held, States

\* The cycle of a submission becomes uncertain, or is found submitted.
LEMMA StateKeeps ==
  ASSUME ReviewInv,
         \/ ObserveMoved \/ RecoverSubmission \/ ReconcileSubmission
         \/ \E s \in Submitter : CompleteSubmission(s) \/ MarkSubmissionUnknown(s)
  PROVE  ReviewInv'
<1> USE DEF remote
<1>1. submitter \in [Submitter -> {Idling} \cup DOMAIN cycles] BY DEF ReviewInv, ReviewTypeOK
<1>2. \A k \in Prepared : CycleHeld(k) BY DEF ReviewInv
<1>3. submissions \subseteq DOMAIN cycles /\ DOMAIN cycles = 1..active /\ active \in Nat /\ Idling \notin DOMAIN cycles
  BY CyclesTable DEF ReviewInv, ReviewTypeOK
<1>4. CASE ObserveMoved
  <2>1. PICK state \in {"INVALIDATED", "SUBMISSION_UNKNOWN"} :
          /\ active > 0 /\ Set(state) /\ UNCHANGED <<bindings, submitter, sent, underway, submissions>>
          /\ state = "INVALIDATED" => cycles[active].state = "COLLECTING"
    BY <1>4 DEF ObserveMoved
  <2>2. active \in Prepared => Held(state) BY <1>2, <2>1 DEF CycleHeld, Held
  <2>3. Prepared' = Prepared BY <2>1 DEF Prepared
  <2> QED BY <1>1, <2>1, <2>2, <2>3, SetKeeps DEF States
<1>5. CASE RecoverSubmission
  <2>1. Prepared' = Prepared BY <1>5 DEF RecoverSubmission, Prepared
  <2> QED BY <1>1, <1>5, <2>1, SetKeeps DEF RecoverSubmission, Held, States
<1>6. CASE ReconcileSubmission
  <2>1. active > 0 BY <1>3, <1>6 DEF ReconcileSubmission
  <2>2. Prepared' = Prepared BY <1>6 DEF ReconcileSubmission, Prepared
  <2> QED BY <1>1, <1>6, <2>1, <2>2, SetKeeps DEF ReconcileSubmission, States
<1>7. ASSUME NEW s \in Submitter, CompleteSubmission(s) PROVE ReviewInv'
  <2>1. active > 0 /\ active \in submissions BY <1>3, <1>7 DEF CompleteSubmission
  <2>2. submitter' = [submitter EXCEPT ![s] = Idling] /\ Set("SUBMITTED")
        /\ UNCHANGED <<bindings, sent, underway, submissions>>
    BY <1>7 DEF CompleteSubmission
  <2>3. Prepared' \subseteq Prepared BY <1>1, <2>2 DEF Prepared
  <2>4. submitter' \in [Submitter -> {Idling} \cup DOMAIN cycles]
        /\ \A t \in Submitter : submitter'[t] \in {submitter[t], Idling}
    BY <1>1, <2>2
  <2> QED BY <2>1, <2>2, <2>3, <2>4, SetKeeps DEF States
<1>8. ASSUME NEW s \in Submitter, MarkSubmissionUnknown(s) PROVE ReviewInv'
  <2>1. submitter' = [submitter EXCEPT ![s] = Idling] /\ UNCHANGED <<bindings, sent, underway, submissions>>
        /\ submitter[s] # Idling
    BY <1>8 DEF MarkSubmissionUnknown
  <2>2. Prepared' \subseteq Prepared BY <1>1, <2>1 DEF Prepared
  <2>3. submitter' \in [Submitter -> {Idling} \cup DOMAIN cycles]
        /\ \A t \in Submitter : submitter'[t] \in {submitter[t], Idling}
    BY <1>1, <2>1
  <2>4. CASE submitter[s] = active /\ cycles[active].state = "SUBMITTING"
    <3>1. Set("SUBMISSION_UNKNOWN") /\ active > 0
      BY <1>1, <1>3, <1>8, <2>1, <2>4 DEF MarkSubmissionUnknown
    <3> QED BY <2>1, <2>2, <2>3, <3>1, SetKeeps DEF States, Held
  <2>5. CASE ~(submitter[s] = active /\ cycles[active].state = "SUBMITTING")
    <3>1. cycles' = cycles BY <1>8, <2>5 DEF MarkSubmissionUnknown
    <3>2. ReviewTypeOK' BY <2>1, <2>3, <3>1 DEF ReviewInv, ReviewTypeOK
    <3> QED BY <2>1, <2>2, <3>1, <3>2, RemoteKeeps
  <2> QED BY <2>4, <2>5
<1> QED BY <1>4, <1>5, <1>6, <1>7, <1>8

\* What the processes send, and the provider takes, changes no cycle.
LEMMA SendingKeeps ==
  ASSUME ReviewInv,
         \/ \E s \in Submitter : Mutate(s) \/ SubmitterDies(s)
         \/ \E k \in underway : MutationArrives(k) \/ MutationIsLost(k)
  PROVE  ReviewInv'
<1> USE DEF ReviewInv, ReviewTypeOK, Prepared, remote
<1>1. ASSUME NEW s \in Submitter, Mutate(s) PROVE ReviewInv'
  <2>1. ReviewTypeOK' BY <1>1 DEF Mutate
  <2>2. Prepared' \subseteq Prepared BY <1>1 DEF Mutate
  <2> QED BY <1>1, <2>1, <2>2, RemoteKeeps DEF Mutate
<1>2. ASSUME NEW s \in Submitter, SubmitterDies(s) PROVE ReviewInv'
  <2>1. ReviewTypeOK' BY <1>2 DEF SubmitterDies
  <2>2. Prepared' \subseteq Prepared BY <1>2 DEF SubmitterDies
  <2> QED BY <1>2, <2>1, <2>2, RemoteKeeps DEF SubmitterDies
<1>3. ASSUME NEW k \in underway, MutationArrives(k) \/ MutationIsLost(k) PROVE ReviewInv'
  <2>1. UNCHANGED <<cycles, bindings, submitter, sent>> /\ submissions \subseteq submissions'
        /\ underway' \cup submissions' \subseteq sent'
    BY <1>3 DEF MutationArrives, MutationIsLost
  <2>2. ReviewTypeOK' BY <2>1
  <2> QED BY <2>1, <2>2, RemoteKeeps
<1> QED BY <1>1, <1>2, <1>3

LEMMA ReviewStarts == ASSUME ReviewInit PROVE ReviewInv
BY DEF ReviewInit, ReviewInv, ReviewTypeOK, Dispatched, Prepared

LEMMA ReviewStep == ASSUME ReviewInv, [ReviewNext]_reviewVars PROVE ReviewInv'
<1>1. CASE UNCHANGED reviewVars
  <2>1. UNCHANGED <<cycles, bindings, submitter, sent, underway, submissions>> BY <1>1 DEF reviewVars
  <2>2. ReviewTypeOK' BY <2>1 DEF ReviewInv, ReviewTypeOK
  <2>3. Prepared' = Prepared BY <2>1 DEF Prepared
  <2> QED BY <2>1, <2>2, <2>3, RemoteKeeps
<1> QED BY <1>1, FreezeKeeps, ResultKeeps, PrepareKeeps, StateKeeps, SendingKeeps DEF ReviewNext

\* A submission that was sent holds its cycle until the provider shows it, whatever recoveries,
\* late results and other processes do (prepare_submission, mark_submission_unknown, freeze).
THEOREM SubmissionsHoldTheirCycles == ReviewSpec => []SubmissionHoldsItsCycle
<1>1. ReviewInv => SubmissionHoldsItsCycle
  <2> SUFFICES ASSUME ReviewInv, NEW k \in sent
               PROVE  /\ CycleHeld(k)
                      /\ \A q \in cycles[k].required : <<k, q>> \in bindings
    BY DEF SubmissionHoldsItsCycle, CycleHeld
  <2>1. k \in Prepared /\ k \in DOMAIN cycles BY DEF Prepared, ReviewInv, ReviewTypeOK, Idling
  <2>2. CycleHeld(k) BY <2>1 DEF ReviewInv
  <2>3. cycles[k].required \subseteq Reviewer BY <2>1, CyclesTable, RowFields DEF ReviewInv
  <2> QED BY <2>1, <2>2, <2>3 DEF ReviewInv, Dispatched, CycleHeld, Complete
<1> QED BY <1>1, ReviewStarts, ReviewStep, PTL DEF ReviewSpec

-----------------------------------------------------------------------------
(* The three components together.                                          *)

\* Whichever component moves, and whatever happens around it, each of the three keeps its form
\* (integration_queue, heavy_validation, review_completion).
THEOREM DeliveryTypeCorrect == MCSpec => []DeliveryTypeOK
<1> DEFINE DeliveryInv == QueueInv /\ HeavyInv /\ ReviewInv
<1>1. MCInit => DeliveryInv BY QueueInit, HeavyStarts, ReviewStarts, HeavyAssumption DEF MCInit
<1>2. DeliveryInv /\ [MCNext]_<<queueVars, heavyVars, reviewVars, facet>> => DeliveryInv'
  <2> SUFFICES ASSUME DeliveryInv, [MCNext]_<<queueVars, heavyVars, reviewVars, facet>> PROVE DeliveryInv'
    OBVIOUS
  <2>1. [Next]_queueVars /\ [HeavyNext]_heavyVars /\ [ReviewNext]_reviewVars
    <3>1. CASE facet \in {"owner", "host"} /\ QueueNext /\ UNCHANGED <<heavyVars, reviewVars, facet>>
      BY <3>1 DEF QueueNext
    <3>2. CASE HeavyNext /\ UNCHANGED <<queueVars, reviewVars, facet>> BY <3>2
    <3>3. CASE ReviewNext /\ UNCHANGED <<queueVars, heavyVars, facet>> BY <3>3
    <3>4. CASE UNCHANGED <<queueVars, heavyVars, reviewVars, facet>> BY <3>4
    <3> QED BY <3>1, <3>2, <3>3, <3>4, Zenon DEF MCNext
  <2> QED BY <2>1, QueueStep, HeavyStep, ReviewStep
<1>3. DeliveryInv => DeliveryTypeOK
  BY DEF DeliveryTypeOK, QueueInv, HeavyInv, ReviewInv
<1> QED BY <1>1, <1>2, <1>3, PTL DEF MCSpec
=============================================================================
