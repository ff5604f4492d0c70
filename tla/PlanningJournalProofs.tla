----------------------- MODULE PlanningJournalProofs ------------------------
(***************************************************************************)
(* Theorems about PlanningJournal.  The types hold for any number of       *)
(* cycles; what the journal promises holds for a single controller whose   *)
(* clock advances from one cycle to the next.                              *)
(***************************************************************************)
EXTENDS PlanningJournal, FiniteSetTheorems, TLAPS

SingleController == (\A c, e \in Cycle : c = e) /\ MinTick > 0

-----------------------------------------------------------------------------
(* Types.                                                                  *)

\* Saving changes what the journal remembers and nothing else of it.
LEMMA EncodedKeeps ==
  ASSUME NEW j \in JournalType, NEW k \in Encoded(j)
  PROVE  /\ k \in JournalType
         /\ k.pending = j.pending /\ k.cand = j.cand /\ k.obs = j.obs
         /\ k.chain = j.chain /\ k.seq = j.seq
<1>1. PICK F : k = Forget(j, F)
  BY DEF Encoded
<1> QED
  BY <1>1 DEF Forget, JournalType

\* Forgetting sources keeps the rest of the journal.
LEMMA ForgetKeeps ==
  ASSUME NEW j \in JournalType, NEW F
  PROVE  /\ Forget(j, F) \in JournalType
         /\ Forget(j, F).pending = j.pending /\ Forget(j, F).cand = j.cand
         /\ Forget(j, F).obs = j.obs /\ Forget(j, F).chain = j.chain
  BY DEF Forget, JournalType

\* A derived event is well formed and the only one of its queue.
LEMMA DeriveGives ==
  ASSUME NEW j \in JournalType, NEW seen \in Observation, NEW trigger \in TriggerName
  PROVE  LET d == Derive(j, seen, trigger) IN
         /\ d \in JournalType
         /\ d.cand = j.cand /\ d.obs = j.obs /\ d.chain = j.chain /\ d.seq = j.seq
         /\ \/ d = j /\ (j.obs = seen \/ j.pending # {})
            \/ /\ j.obs # seen /\ j.pending = {}
               /\ d.pending = {[src |-> seen, trigger |-> trigger, pos |-> j.seq]}
<1>1. [src |-> seen, trigger |-> trigger, pos |-> j.seq] \in Event
  BY DEF Event, Id, JournalType
<1> QED
  BY <1>1 DEF Derive, JournalType

\* The chain after a batch is the old one or continues it.
LEMMA LatestContinues ==
  ASSUME JournalAssumption, NEW j \in JournalType, NEW E \in SUBSET Source,
         Continues(j, E), NEW h \in Latest(j, E)
  PROVE  h \in Chain /\ (h = j.chain \/ Extends(h, j.chain))
<1>1. CASE Owners(j, E) = {}
  BY <1>1 DEF Latest, JournalType
<1>2. CASE Owners(j, E) # {}
  <2>1. PICK s \in Owners(j, E) : h = Override[s]
    BY <1>2 DEF Latest
  <2>2. s \in Source
    BY DEF Owners, Fresh
  <2> QED
    BY <2>1, <2>2 DEF Continues, Chain
<1> QED
  BY <1>1, <1>2

\* Staging keeps the candidate, the observation and every pending event, and
\* what it adds to a queue that was not empty comes after it.
LEMMA StageGives ==
  ASSUME JournalAssumption, NEW j \in JournalType, NEW seen \in Observation,
         NEW E \in SUBSET Source
  PROVE  LET k == Stage(j, seen, E) IN
         /\ k \in JournalType
         /\ k.cand = j.cand /\ k.obs = j.obs /\ k.chain = seen.chain
         /\ j.pending \subseteq k.pending
         /\ j.pending # {} => \A e \in k.pending : e \in j.pending \/ e.pos > j.seq
<1> DEFINE new == {[src |-> s, trigger |-> Trigger[s], pos |-> j.seq + 1] : s \in Fresh(j, E)}
           staged ==
             [seq |-> j.seq + 1, chain |-> seen.chain, cand |-> j.cand, obs |-> j.obs,
              seen |-> [s \in Source |-> IF s \in E THEN j.seq + 1 ELSE j.seen[s]],
              pending |-> j.pending \cup new]
           trigger == IF j.obs = None THEN "project_start" ELSE "files_changed"
<1>1. j.seq \in Nat /\ j.seen \in [Source -> Nat \cup {None}]
  BY DEF JournalType
<1>2. new \subseteq Event /\ \A e \in new : e.pos > j.seq
  <2>1. \A s \in Fresh(j, E) : s \in Source /\ Trigger[s] \in TriggerName
    BY DEF Fresh, JournalAssumption
  <2> QED
    BY <1>1, <2>1 DEF Event, Id
<1>3. seen.chain \in Chain
  BY DEF Observation
<1>4. [s \in Source |-> IF s \in E THEN j.seq + 1 ELSE j.seen[s]] \in [Source -> Nat \cup {None}]
  BY <1>1
<1>5. /\ staged \in JournalType /\ staged.pending = j.pending \cup new
      /\ staged.cand = j.cand /\ staged.obs = j.obs /\ staged.chain = seen.chain
  <2> HIDE DEF new
  <2> QED
    BY <1>1, <1>2, <1>3, <1>4 DEF JournalType
<1>6. trigger \in TriggerName
  BY DEF TriggerName
<1>7. Stage(j, seen, E) = Derive(staged, seen, trigger)
  BY DEF Stage
<1> HIDE DEF new, staged, trigger
<1>8. CASE Derive(staged, seen, trigger) = staged
  BY <1>2, <1>5, <1>7, <1>8
<1>9. CASE Derive(staged, seen, trigger) # staged
  <2>1. staged.pending = {}
    BY <1>5, <1>6, <1>9, DeriveGives
  <2>2. j.pending = {}
    BY <1>5, <2>1
  <2> QED
    BY <1>5, <1>6, <1>7, <2>2, DeriveGives
<1> QED
  BY <1>8, <1>9

Busy == {"staged", "planning", "appending", "appended"}

\* A cycle at work has observed its inputs.
TypeInv == TypeOK /\ \A c \in Cycle : pc[c] \in Busy => view[c].of \in Observation

\* A new store is well formed.
LEMMA EmptyType ==
  /\ EmptyJournal \in JournalType /\ EmptyJournal.cand = None /\ EmptyJournal.pending = {}
  /\ EmptyJournal.obs = None /\ EmptyJournal.chain = << >> /\ EmptyJournal.seq = 0
  BY DEF EmptyJournal, JournalType, Chain

\* So is one of the earlier format.
LEMMA LegacyType ==
  ASSUME JournalAssumption, NEW s \in Source, NEW p \in Plan
  PROVE  LET j == LegacyJournal(s, p)
             e == [src |-> s, trigger |-> Trigger[s], pos |-> 0]
             d == [plan |-> p, obs |-> None, srcs |-> {}]
         IN /\ j \in JournalType /\ j.pending = {e} /\ j.cand = d /\ j.obs = None
            /\ j.chain = << >> /\ d \in Candidate /\ e \in Event /\ j.seq = 0
<1> DEFINE e == [src |-> s, trigger |-> Trigger[s], pos |-> 0]
           d == [plan |-> p, obs |-> None, srcs |-> {}]
<1>1. e \in Event
  BY DEF Event, Id, JournalAssumption
<1>2. d \in Candidate
  BY DEF Candidate
<1>3. [r \in Source |-> IF r = s THEN 0 ELSE None] \in [Source -> Nat \cup {None}]
  OBVIOUS
<1> HIDE DEF e, d
<1> QED
  BY <1>1, <1>2, <1>3 DEF LegacyJournal, JournalType, Chain, e, d

\* The initial states are well formed.
LEMMA TypeInit == Init => TypeInv
<1> SUFFICES ASSUME Init PROVE TypeInv
  OBVIOUS
<1> USE JournalAssumption
<1>1. journal \in JournalType /\ history \in Seq(Plan)
  <2>1. CASE journal = EmptyJournal /\ history = << >>
    BY <2>1, EmptyType
  <2>2. ASSUME NEW s \in Source, NEW inp \in Input,
               NEW p, p = [of |-> [inp |-> inp, chain |-> << >>], trigger |-> Trigger[s], at |-> 0],
               journal = LegacyJournal(s, p), history \in {<< >>, <<p>>}
        PROVE  journal \in JournalType /\ history \in Seq(Plan)
    <3>1. p \in Plan
      BY <2>2 DEF Plan, Observation, Chain, JournalAssumption
    <3>2. journal \in JournalType
      BY <2>2, <3>1, LegacyType
    <3>3. <<p>> \in Seq(Plan) /\ << >> \in Seq(Plan)
      BY <3>1
    <3> QED
      BY <2>2, <3>2, <3>3
  <2> QED
    BY <2>1, <2>2 DEF Init
<1>2. NoView \in [of : Observation \cup {None}, at : 0..MaxClock,
                  events : SUBSET Source, plan : Plan \cup {None}]
  BY DEF NoView, JournalAssumption
<1> QED
  BY <1>1, <1>2, EmptyType DEF Init, TypeInv, TypeOK, JournalAssumption, Busy

\* Every step of a cycle keeps the types.
LEMMA StepTypes ==
  ASSUME TypeInv, NEW c \in Cycle, Step(c) \/ Crash(c)
  PROVE  TypeInv'
<1> USE JournalAssumption
<1>1. /\ st[c] \in JournalType /\ journal \in JournalType /\ clock \in 0..MaxClock
      /\ view[c].at \in 0..MaxClock
      /\ pc[c] \in Busy => view[c].of \in Observation
  BY DEF TypeInv, TypeOK
<1>2. NoView \in [of : Observation \cup {None}, at : 0..MaxClock,
                  events : SUBSET Source, plan : Plan \cup {None}]
  BY DEF NoView, JournalAssumption
<1>3. CASE ReadJournal(c)
  <2>0. PICK inp \in Input, E \in SUBSET Source :
          /\ Continues(journal, E)
          /\ \E chain \in Latest(journal, E) :
               LET seen == [inp |-> inp, chain |-> chain] IN
               /\ st' = [st EXCEPT ![c] = Stage(journal, seen, E)]
               /\ view' = [view EXCEPT ![c] = [of |-> seen, at |-> clock', events |-> E, plan |-> None]]
    BY <1>3 DEF ReadJournal
  <2>1. PICK chain \in Latest(journal, E) :
          LET seen == [inp |-> inp, chain |-> chain] IN
          /\ st' = [st EXCEPT ![c] = Stage(journal, seen, E)]
          /\ view' = [view EXCEPT ![c] = [of |-> seen, at |-> clock', events |-> E, plan |-> None]]
    BY <2>0
  <2>2. [inp |-> inp, chain |-> chain] \in Observation
    BY <1>1, <2>0, LatestContinues DEF Observation
  <2>3. Stage(journal, [inp |-> inp, chain |-> chain], E) \in JournalType
    BY <1>1, <2>2, StageGives
  <2> QED
    BY <1>3, <2>1, <2>2, <2>3 DEF ReadJournal, TypeInv, TypeOK, Goto, Busy
<1>4. CASE SaveObserved(c)
  <2>1. PICK k \in Encoded(st[c]) : journal' = k /\ st' = [st EXCEPT ![c] = k]
    BY <1>4 DEF SaveObserved, Save
  <2>2. k \in JournalType /\ k.cand = st[c].cand
    BY <1>1, <2>1, EncodedKeeps
  <2> QED
    BY <1>4, <2>1, <2>2 DEF SaveObserved, TypeInv, TypeOK, Goto, Busy, AfterSave
<1>5. CASE SaveInsideRound(c)
  BY <1>1, <1>2, <1>5, EncodedKeeps, EmptyType
     DEF SaveInsideRound, End, TypeInv, TypeOK, Goto, Busy
<1>6. CASE SealCandidate(c)
  <2> DEFINE j == Derive(st[c], view[c].of, "files_changed")
             cand(e) == [plan |-> [of |-> view[c].of, trigger |-> e.trigger, at |-> view[c].at],
                         obs |-> view[c].of,
                         srcs |-> {f.src : f \in {g \in j.pending : g.trigger = e.trigger}}]
  <2>1. j \in JournalType
    BY <1>1, <1>6, DeriveGives DEF SealCandidate, Busy, TriggerName
  <2>2. PICK e \in Heads(j) : Save(c, [j EXCEPT !.cand = cand(e)])
    BY <1>6 DEF SealCandidate
  <2>3. cand(e) \in Candidate
    <3>1. j.pending \subseteq Event /\ e \in Event
      BY <2>1, <2>2 DEF JournalType, Heads
    <3>2. view[c].of \in Observation
      BY <1>1, <1>6 DEF SealCandidate, Busy
    <3>3. {f.src : f \in {g \in j.pending : g.trigger = e.trigger}} \in SUBSET Id
      BY <3>1 DEF Event
    <3> QED
      BY <1>1, <3>1, <3>2, <3>3 DEF Event, Plan, Candidate
  <2> HIDE DEF j, cand
  <2>4. [j EXCEPT !.cand = cand(e)] \in JournalType /\ cand(e) # None
    BY <2>1, <2>3 DEF JournalType, JournalAssumption
  <2>5. PICK k \in Encoded([j EXCEPT !.cand = cand(e)]) :
          journal' = k /\ st' = [st EXCEPT ![c] = k]
    BY <2>2 DEF Save
  <2>6. k \in JournalType /\ k.cand # None
    BY <2>1, <2>4, <2>5, EncodedKeeps DEF JournalType
  <2> QED
    BY <1>6, <2>5, <2>6 DEF SealCandidate, TypeInv, TypeOK, Goto, Busy
<1>7. CASE AppendCandidate(c)
  <2>1. st[c].cand.plan \in Plan
    BY <1>1, <1>7 DEF AppendCandidate, TypeInv, TypeOK, JournalType, Candidate
  <2> QED
    BY <1>7, <2>1 DEF AppendCandidate, TypeInv, TypeOK, Goto, Busy
<1>8. CASE AcknowledgeCandidate(c)
  <2>1. PICK S \in Covered(st[c]) :
          Save(c, [st[c] EXCEPT !.obs = st[c].cand.obs, !.cand = None,
                                !.pending = {e \in @ : e.src \notin S}])
    BY <1>8 DEF AcknowledgeCandidate
  <2>2. st[c].cand.obs \in Observation \cup {None}
    BY <1>1, <1>8 DEF AcknowledgeCandidate, TypeInv, TypeOK, JournalType, Candidate
  <2>3. [st[c] EXCEPT !.obs = st[c].cand.obs, !.cand = None,
                      !.pending = {e \in @ : e.src \notin S}] \in JournalType
    BY <1>1, <2>2 DEF JournalType
  <2> QED
    BY <1>8, <2>1, <2>3, EncodedKeeps
       DEF AcknowledgeCandidate, Save, TypeInv, TypeOK, Goto, Busy
<1>9. CASE ReturnPlan(c)
  <2>1. history[Len(history)] \in Plan
    BY <1>9 DEF ReturnPlan, TypeInv, TypeOK
  <2>2. [view[c] EXCEPT !.plan = history[Len(history)]] \in
          [of : Observation \cup {None}, at : 0..MaxClock,
           events : SUBSET Source, plan : Plan \cup {None}]
    BY <2>1, ZenonT(60) DEF TypeInv, TypeOK
  <2>3. view' = [view EXCEPT ![c] = [view[c] EXCEPT !.plan = history[Len(history)]]]
    BY <1>9 DEF ReturnPlan
  <2>4. /\ pc' = [pc EXCEPT ![c] = "returned"]
        /\ st' = [st EXCEPT ![c] = EmptyJournal]
        /\ UNCHANGED <<journal, history, clock>>
    BY <1>9 DEF ReturnPlan, Goto
  <2> QED
    BY <2>2, <2>3, <2>4, EmptyType DEF TypeInv, TypeOK, Busy
<1>10. CASE Crash(c)
  BY <1>2, <1>10, EmptyType DEF Crash, End, TypeInv, TypeOK, Goto, Busy
<1> QED
  BY <1>3, <1>4, <1>5, <1>6, <1>7, <1>8, <1>9, <1>10 DEF Step

\* Every step keeps the types, whatever the number of cycles.
LEMMA TypeStep == TypeInv /\ [Next]_vars => TypeInv'
<1> SUFFICES ASSUME TypeInv, [Next]_vars PROVE TypeInv'
  OBVIOUS
<1>1. ASSUME NEW c \in Cycle, Step(c) \/ Crash(c) PROVE TypeInv'
  BY <1>1, StepTypes
<1>2. CASE Prune
  BY <1>2, ForgetKeeps DEF Prune, TypeInv, TypeOK
<1>3. CASE UNCHANGED vars
  BY <1>3 DEF vars, TypeInv, TypeOK
<1> QED
  BY <1>1, <1>2, <1>3 DEF Next

\* Every stored and held journal is well formed, whatever the interleaving.
THEOREM TypeCorrect == Spec => []TypeInv
  BY TypeInit, TypeStep, PTL DEF Spec

-----------------------------------------------------------------------------
(* The inductive invariant of a single controller.                         *)

Continuing(new, old) == new = old \/ Extends(new, old)

Newest == history[Len(history)]

\* Recorded plans are of the past and of owner chains the journal continues.
HistoryInv ==
  /\ OwnerChainGrows
  /\ \A k \in DOMAIN history : /\ Continuing(journal.chain, history[k].of.chain)
                               /\ history[k].at <= clock

\* A retained candidate continues the history and covers pending events; a
\* recorded one is the newest plan.
CandidateInv ==
  journal.cand # None =>
    LET d == journal.cand IN
    /\ Continuing(journal.chain, d.plan.of.chain) /\ d.plan.at <= clock
    /\ \A k \in DOMAIN history : Continuing(d.plan.of.chain, history[k].of.chain)
    /\ d.plan \in Recorded => Newest = d.plan
    /\ d.obs # None => d.obs = d.plan.of /\ d.srcs \subseteq Pinned(journal) /\ d.srcs # {}
    /\ d.obs = None => \E h \in journal.pending :
                          h.pos = 0 /\ \A e \in journal.pending : e = h \/ e.pos > 0

\* The acknowledged observation is that of the newest plan.
ObservedInv ==
  journal.cand = None /\ journal.obs # None => history # << >> /\ Newest.of = journal.obs

\* What a cycle holds differs from the journal only by what it has staged.
CopyInv(c) ==
  /\ pc[c] \in {"planning", "appending", "appended"} => st[c] = journal
  /\ pc[c] = "staged" =>
       /\ st[c].cand = journal.cand /\ st[c].obs = journal.obs
       /\ Continuing(st[c].chain, journal.chain)
       /\ journal.pending \subseteq st[c].pending
       /\ journal.pending # {} =>
            \A e \in st[c].pending : e \in journal.pending \/ e.pos > journal.seq
  /\ pc[c] \in Busy => view[c].of.chain = st[c].chain /\ view[c].at = clock

\* No plan of this cycle is recorded yet.
FirstPlan(c) == \A k \in DOMAIN history : history[k].at # view[c].at

\* What this cycle recorded is planned: its triggers are pending no more.
PlannedInv(c) ==
  /\ pc[c] = "staged" => /\ FirstPlan(c)
                         /\ journal.cand # None => journal.cand.plan.at # view[c].at
  /\ pc[c] = "planning" =>
       /\ journal.cand = None
       /\ \A k \in DOMAIN history : history[k].at = view[c].at =>
            /\ journal.obs = view[c].of
            /\ \A e \in journal.pending : e.trigger # history[k].trigger
  /\ pc[c] \in {"appending", "appended"} =>
       LET d == journal.cand IN
       \/ d.plan.at # view[c].at /\ FirstPlan(c)
       \/ /\ d.plan.at = view[c].at /\ d.obs = view[c].of
          /\ \A e \in journal.pending : e.trigger = d.plan.trigger => e.src \in d.srcs
          /\ \A k \in DOMAIN history : history[k].at = view[c].at =>
               \/ history[k] = d.plan
               \/ \A e \in journal.pending : e.trigger # history[k].trigger
  /\ pc[c] = "appended" => journal.cand.plan \in Recorded
  /\ pc[c] = "returned" => journal.pending = {} /\ view[c].plan.of = view[c].of

JournalInv ==
  /\ HistoryInv /\ CandidateInv /\ ObservedInv
  /\ \A c \in Cycle : CopyInv(c) /\ PlannedInv(c)

\* Continuation of owner chains is transitive.
LEMMA ContinuingTransitive ==
  ASSUME NEW g \in Seq(Nat), NEW h \in Seq(Nat), NEW i \in Seq(Nat),
         Continuing(g, h), Continuing(h, i)
  PROVE  Continuing(g, i)
<1>1. CASE Extends(g, h) /\ Extends(h, i)
  <2>1. Len(g) \in Nat /\ Len(h) \in Nat /\ Len(i) \in Nat
    OBVIOUS
  <2>2. \A k \in 1..Len(i) : k \in 1..Len(h) /\ g[k] = i[k]
    BY <1>1, <2>1, SMTT(30) DEF Extends
  <2> QED
    BY <1>1, <2>1, <2>2 DEF Extends, Continuing
<1> QED
  BY <1>1 DEF Continuing

\* Every chain in sight is a sequence, every recorded plan a plan.
LEMMA ChainsAreSequences ==
  ASSUME JournalAssumption, TypeOK
  PROVE  /\ \A j \in JournalType : j.chain \in Seq(Nat)
         /\ \A p \in Plan : p.of.chain \in Seq(Nat) /\ p.at \in Nat /\ p.of \in Observation
         /\ \A k \in DOMAIN history : history[k] \in Plan
         /\ clock \in Nat
<1>1. \A h \in Chain : h \in Seq(Nat)
  BY DEF JournalAssumption
<1>2. /\ \A j \in JournalType : j.chain \in Chain
      /\ \A p \in Plan : p.of \in Observation /\ p.at \in Nat
      /\ \A o \in Observation : o.chain \in Chain
  BY DEF JournalType, Plan, Observation
<1>3. \A k \in DOMAIN history : history[k] \in Plan
  BY DEF TypeOK
<1>4. clock \in Nat
  BY DEF TypeOK, JournalAssumption
<1> QED
  BY <1>1, <1>2, <1>3, <1>4

\* A new store and one of the earlier format satisfy the invariant.
LEMMA JournalInit == Init => JournalInv
<1> SUFFICES ASSUME Init PROVE JournalInv
  OBVIOUS
<1> USE JournalAssumption
<1>1. \A c \in Cycle : CopyInv(c) /\ PlannedInv(c)
  BY DEF Init, CopyInv, PlannedInv, Busy
<1>2. CASE journal = EmptyJournal /\ history = << >>
  BY <1>1, <1>2, EmptyType
     DEF JournalInv, HistoryInv, CandidateInv, ObservedInv, OwnerChainGrows, Init
<1>3. ASSUME NEW s \in Source, NEW inp \in Input,
             NEW p, p = [of |-> [inp |-> inp, chain |-> << >>], trigger |-> Trigger[s], at |-> 0],
             journal = LegacyJournal(s, p), history \in {<< >>, <<p>>}
      PROVE  JournalInv
  <2>1. p \in Plan /\ p.of.chain = << >> /\ p.at = 0
    BY <1>3 DEF Plan, Observation, Chain, JournalAssumption
  <2>2. /\ journal.chain = << >> /\ journal.cand = [plan |-> p, obs |-> None, srcs |-> {}]
        /\ journal.cand # None
        /\ journal.pending = {[src |-> s, trigger |-> Trigger[s], pos |-> 0]}
    BY <1>3, <2>1, LegacyType, ZenonT(60) DEF JournalAssumption
  <2>3. \A k \in DOMAIN history : k = 1 /\ history[k] = p /\ history[Len(history)] = p
    BY <1>3, <2>1
  <2>4. clock = 0
    BY DEF Init
  <2>5. HistoryInv
    BY <2>1, <2>2, <2>3, <2>4 DEF HistoryInv, OwnerChainGrows, Continuing
  <2>6. CandidateInv
    <3>1. journal.cand.plan = p /\ journal.cand.obs = None
      BY <2>2
    <3>2. \E h \in journal.pending : h.pos = 0 /\ \A e \in journal.pending : e = h \/ e.pos > 0
      BY <2>2
    <3>3. p \in Recorded => Newest = p
      BY <2>3 DEF Recorded, Newest
    <3> QED
      BY <2>1, <2>2, <2>3, <2>4, <3>1, <3>2, <3>3 DEF CandidateInv, Continuing
  <2> QED
    BY <1>1, <2>2, <2>5, <2>6 DEF JournalInv, ObservedInv
<1> QED
  BY <1>2, <1>3 DEF Init

\* What a step does to the memory of seen sources and to the position counter
\* alone leaves the shared part of the invariant as it is.
LEMMA SharedKept ==
  ASSUME JournalAssumption, TypeOK, HistoryInv, CandidateInv, ObservedInv,
         history' = history, clock' \in Nat, clock <= clock',
         journal'.pending = journal.pending, journal'.cand = journal.cand,
         journal'.obs = journal.obs, journal'.chain = journal.chain
  PROVE  HistoryInv' /\ CandidateInv' /\ ObservedInv'
<1>1. \A k \in DOMAIN history : history[k].at \in Nat
  BY ChainsAreSequences
<1>2. clock \in Nat
  BY ChainsAreSequences
<1>3. HistoryInv'
  BY <1>1, <1>2 DEF HistoryInv, OwnerChainGrows, Continuing
<1>4. CandidateInv'
  <2> SUFFICES ASSUME journal.cand # None
      PROVE CandidateInv'
    BY DEF CandidateInv
  <2>1. journal.cand.plan \in Plan
    BY DEF TypeOK, JournalType, Candidate
  <2>2. journal.cand.plan.at \in Nat
    BY <2>1, ChainsAreSequences
  <2>3. Recorded' = Recorded /\ Newest' = Newest /\ Pinned(journal)' = Pinned(journal)
    BY DEF Recorded, Newest, Pinned
  <2> QED
    BY <1>2, <2>2, <2>3 DEF CandidateInv
<1>5. ObservedInv'
  BY DEF ObservedInv, Newest
<1> QED
  BY <1>3, <1>4, <1>5

\* Reading: what is recorded and retained is of an earlier tick of the clock.
LEMMA ReadKeeps ==
  ASSUME TypeInv, TypeInv', JournalInv, SingleController, NEW c \in Cycle, ReadJournal(c)
  PROVE  JournalInv'
<1> USE JournalAssumption
<1>1. \A e \in Cycle : e = c
  BY DEF SingleController
<1>2. /\ clock \in Nat /\ clock' \in Nat /\ clock < clock'
      /\ journal' = journal /\ history' = history
      /\ pc' = [pc EXCEPT ![c] = "staged"]
  BY DEF ReadJournal, SingleController, Goto, TypeInv, TypeOK
<1>3. HistoryInv' /\ CandidateInv' /\ ObservedInv'
  BY <1>2, SharedKept DEF JournalInv, TypeInv
<1>4. pc'[c] = "staged"
  BY <1>2 DEF TypeInv, TypeOK
<1>5. PICK inp \in Input, E \in SUBSET Source :
        /\ Continues(journal, E)
        /\ \E chain \in Latest(journal, E) :
             LET seen == [inp |-> inp, chain |-> chain] IN
             /\ st' = [st EXCEPT ![c] = Stage(journal, seen, E)]
             /\ view' = [view EXCEPT ![c] = [of |-> seen, at |-> clock', events |-> E, plan |-> None]]
  BY DEF ReadJournal
<1>6. PICK chain \in Latest(journal, E) :
        LET seen == [inp |-> inp, chain |-> chain] IN
        /\ st' = [st EXCEPT ![c] = Stage(journal, seen, E)]
        /\ view' = [view EXCEPT ![c] = [of |-> seen, at |-> clock', events |-> E, plan |-> None]]
  BY <1>5
<1> DEFINE seen == [inp |-> inp, chain |-> chain]
<1>7. journal \in JournalType
  BY DEF TypeInv, TypeOK
<1>8. chain \in Chain /\ Continuing(chain, journal.chain)
  BY <1>5, <1>7, LatestContinues DEF Continuing
<1>9. seen \in Observation /\ seen.chain = chain
  BY <1>8 DEF Observation
<1>10. st'[c] = Stage(journal, seen, E) /\ view'[c].of = seen /\ view'[c].at = clock'
  BY <1>6 DEF TypeInv, TypeOK
<1> HIDE DEF seen
<1>11. CopyInv(c)'
  <2>1. /\ st'[c].cand = journal.cand /\ st'[c].obs = journal.obs /\ st'[c].chain = chain
        /\ journal.pending \subseteq st'[c].pending
        /\ journal.pending # {} =>
             \A e \in st'[c].pending : e \in journal.pending \/ e.pos > journal.seq
    BY <1>5, <1>7, <1>9, <1>10, StageGives
  <2> QED
    BY <1>2, <1>4, <1>8, <1>9, <1>10, <2>1 DEF CopyInv, Busy
<1>12. PlannedInv(c)'
  <2>1. \A k \in DOMAIN history : history[k].at \in Nat /\ history[k].at < clock'
    BY <1>2, ChainsAreSequences DEF JournalInv, HistoryInv, TypeInv
  <2>2. FirstPlan(c)'
    BY <1>2, <1>10, <2>1 DEF FirstPlan
  <2>3. journal.cand # None => journal.cand.plan.at # clock'
    <3>1. ASSUME journal.cand # None PROVE journal.cand.plan.at \in Nat
      BY <1>7, <3>1, ChainsAreSequences DEF JournalType, Candidate, TypeInv
    <3> QED
      BY <1>2, <3>1 DEF JournalInv, CandidateInv
  <2> QED
    BY <1>2, <1>4, <1>10, <2>2, <2>3 DEF PlannedInv
<1> QED
  BY <1>1, <1>3, <1>11, <1>12 DEF JournalInv
\* Saving what a cycle has staged keeps the candidate it found, and its chain
\* continues the chain of the journal.
LEMMA StagedSaved ==
  ASSUME TypeInv, JournalInv, NEW c \in Cycle, pc[c] = "staged",
         journal' \in Encoded(st[c]), history' = history, clock' = clock
  PROVE  /\ HistoryInv' /\ CandidateInv' /\ ObservedInv'
         /\ journal'.cand = journal.cand /\ journal'.chain = st[c].chain
<1> USE JournalAssumption
<1>1. st[c] \in JournalType /\ journal \in JournalType
  BY DEF TypeInv, TypeOK
<1>2. /\ journal' \in JournalType /\ journal'.pending = st[c].pending
      /\ journal'.cand = journal.cand /\ journal'.obs = journal.obs
      /\ journal'.chain = st[c].chain
  BY <1>1, EncodedKeeps DEF JournalInv, CopyInv
<1>3. /\ journal.pending \subseteq journal'.pending
      /\ journal.pending # {} =>
           \A e \in journal'.pending : e \in journal.pending \/ e.pos > journal.seq
  BY <1>2 DEF JournalInv, CopyInv
<1>4. Continuing(journal'.chain, journal.chain)
  BY <1>2 DEF JournalInv, CopyInv
<1>5. \A h \in Seq(Nat) : Continuing(journal.chain, h) => Continuing(journal'.chain, h)
  <2>1. journal.chain \in Seq(Nat) /\ journal'.chain \in Seq(Nat)
    BY <1>1, <1>2, ChainsAreSequences DEF TypeInv
  <2> QED
    BY <1>4, <2>1, ContinuingTransitive
<1>6. \A k \in DOMAIN history : history[k].of.chain \in Seq(Nat)
  BY ChainsAreSequences DEF TypeInv
<1>7. HistoryInv'
  BY <1>5, <1>6 DEF JournalInv, HistoryInv, OwnerChainGrows
<1>8. CandidateInv'
  <2> SUFFICES ASSUME journal.cand # None
      PROVE CandidateInv'
    BY <1>2 DEF CandidateInv
  <2> DEFINE d == journal.cand
  <2>1. d \in Candidate
    BY <1>1 DEF JournalType
  <2>2. d.plan.of.chain \in Seq(Nat)
    BY <2>1, ChainsAreSequences DEF Candidate, TypeInv
  <2>3. Continuing(journal'.chain, d.plan.of.chain) /\ d.plan.at <= clock
    BY <1>5, <2>2 DEF JournalInv, CandidateInv
  <2>4. \A k \in DOMAIN history : Continuing(d.plan.of.chain, history[k].of.chain)
    BY DEF JournalInv, CandidateInv
  <2>5. Recorded' = Recorded /\ Newest' = Newest
    BY DEF Recorded, Newest
  <2>6. Pinned(journal) \subseteq Pinned(journal')
    BY <1>3 DEF Pinned
  <2>7. d.obs # None => d.obs = d.plan.of /\ d.srcs \subseteq Pinned(journal') /\ d.srcs # {}
    BY <2>6 DEF JournalInv, CandidateInv
  <2>8. d.obs = None =>
          \E h \in journal'.pending : h.pos = 0 /\ \A e \in journal'.pending : e = h \/ e.pos > 0
    <3> SUFFICES ASSUME d.obs = None
        PROVE \E h \in journal'.pending : h.pos = 0 /\ \A e \in journal'.pending : e = h \/ e.pos > 0
      OBVIOUS
    <3>1. PICK h \in journal.pending : h.pos = 0 /\ \A e \in journal.pending : e = h \/ e.pos > 0
      BY DEF JournalInv, CandidateInv
    <3>2. journal.seq \in Nat
      BY <1>1 DEF JournalType
    <3>3. \A e \in journal'.pending : e.pos \in Nat
      BY <1>2 DEF JournalType, Event
    <3>4. \A e \in journal'.pending : e = h \/ e.pos > 0
      BY <1>3, <3>1, <3>2, <3>3
    <3> QED
      BY <1>3, <3>1, <3>4
  <2>9. d.plan \in Recorded' => Newest' = d.plan
    BY <2>5 DEF JournalInv, CandidateInv
  <2> QED
    BY <1>2, <2>3, <2>4, <2>7, <2>8, <2>9 DEF CandidateInv
<1>9. ObservedInv'
  BY <1>2 DEF JournalInv, ObservedInv, Newest
<1> QED
  BY <1>2, <1>7, <1>8, <1>9

\* A save at a round boundary keeps the invariant.
LEMMA SaveObservedKeeps ==
  ASSUME TypeInv, JournalInv, SingleController, NEW c \in Cycle, SaveObserved(c)
  PROVE  JournalInv'
<1>1. \A e \in Cycle : e = c
  BY DEF SingleController
<1>2. PICK k \in Encoded(st[c]) : journal' = k /\ st' = [st EXCEPT ![c] = k]
  BY DEF SaveObserved, Save
<1>3. /\ pc[c] = "staged" /\ history' = history /\ clock' = clock /\ view' = view
      /\ st'[c] = journal' /\ pc'[c] = AfterSave(st[c])
  BY <1>2 DEF SaveObserved, Goto, TypeInv, TypeOK
<1>4. /\ HistoryInv' /\ CandidateInv' /\ ObservedInv'
      /\ journal'.cand = journal.cand /\ journal'.chain = st[c].chain
  BY <1>2, <1>3, StagedSaved
<1>5. st[c].cand = journal.cand
  BY <1>3 DEF JournalInv, CopyInv
<1>6. CopyInv(c)'
  BY <1>3, <1>4 DEF JournalInv, CopyInv, Busy, AfterSave
<1>7. PlannedInv(c)'
  <2>1. FirstPlan(c) /\ (journal.cand # None => journal.cand.plan.at # view[c].at)
    BY <1>3 DEF JournalInv, PlannedInv
  <2>2. FirstPlan(c)'
    BY <1>3, <2>1 DEF FirstPlan
  <2>3. CASE journal.cand = None
    BY <1>3, <1>4, <1>5, <2>2, <2>3 DEF PlannedInv, FirstPlan, AfterSave
  <2>4. CASE journal.cand # None
    BY <1>3, <1>4, <1>5, <2>1, <2>2, <2>4 DEF PlannedInv, AfterSave
  <2> QED
    BY <2>3, <2>4
<1> QED
  BY <1>1, <1>4, <1>6, <1>7 DEF JournalInv

\* So does a save inside a round, which ends the cycle.
LEMMA SaveInsideRoundKeeps ==
  ASSUME TypeInv, JournalInv, SingleController, NEW c \in Cycle, SaveInsideRound(c)
  PROVE  JournalInv'
<1>1. \A e \in Cycle : e = c
  BY DEF SingleController
<1>2. /\ pc[c] = "staged" /\ history' = history /\ clock' = clock
      /\ journal' \in Encoded(st[c]) /\ pc'[c] = "idle"
  BY DEF SaveInsideRound, End, Goto, TypeInv, TypeOK
<1>3. HistoryInv' /\ CandidateInv' /\ ObservedInv'
  BY <1>2, StagedSaved
<1>4. CopyInv(c)' /\ PlannedInv(c)'
  BY <1>2 DEF CopyInv, PlannedInv, Busy
<1> QED
  BY <1>1, <1>3, <1>4 DEF JournalInv

\* A plan sealed by a cycle differs from every recorded one: what the cycle
\* recorded it acknowledged, and older plans carry an older clock.
LEMMA SealGives ==
  ASSUME TypeInv, JournalInv, NEW c \in Cycle, SealCandidate(c)
  PROVE  \E e \in Event :
           LET d == [plan |-> [of |-> view[c].of, trigger |-> e.trigger, at |-> view[c].at],
                     obs |-> view[c].of,
                     srcs |-> {f.src : f \in {g \in journal'.pending : g.trigger = e.trigger}}]
           IN /\ e \in journal'.pending
              /\ st'[c] = journal' /\ journal'.cand = d /\ d \in Candidate
              /\ journal'.chain = journal.chain /\ journal'.obs = journal.obs
              /\ journal.pending \subseteq journal'.pending
              /\ d.plan \notin Recorded
              /\ \A k \in DOMAIN history : history[k].at = view[c].at =>
                   \A g \in journal'.pending : g.trigger # history[k].trigger
<1> USE JournalAssumption
<1> DEFINE j == Derive(st[c], view[c].of, "files_changed")
           cand(e) == [plan |-> [of |-> view[c].of, trigger |-> e.trigger, at |-> view[c].at],
                       obs |-> view[c].of,
                       srcs |-> {f.src : f \in {g \in j.pending : g.trigger = e.trigger}}]
<1>1. /\ pc[c] = "planning" /\ st[c] = journal /\ journal \in JournalType
      /\ view[c].of \in Observation /\ view[c].at \in 0..MaxClock
  BY DEF SealCandidate, JournalInv, CopyInv, TypeInv, TypeOK, Busy
<1>2. /\ j \in JournalType /\ j.chain = journal.chain /\ j.obs = journal.obs
      /\ journal.pending \subseteq j.pending
      /\ journal.obs = view[c].of => j = journal
  <2>1. "files_changed" \in TriggerName
    BY DEF TriggerName
  <2>2. j = Derive(journal, view[c].of, "files_changed")
    BY <1>1
  <2> HIDE DEF j
  <2> QED
    BY <1>1, <2>1, <2>2, DeriveGives
<1>3. PICK e \in Heads(j) : Save(c, [j EXCEPT !.cand = cand(e)])
  BY DEF SealCandidate
<1>4. e \in j.pending /\ j.pending \subseteq Event /\ e \in Event
  BY <1>2, <1>3 DEF Heads, JournalType
<1>5. cand(e) \in Candidate
  <2>1. {f.src : f \in {g \in j.pending : g.trigger = e.trigger}} \in SUBSET Id
    BY <1>4 DEF Event
  <2> QED
    BY <1>1, <1>4, <2>1 DEF Event, Plan, Candidate
<1>6. \A k \in DOMAIN history : history[k].at = view[c].at =>
        \A g \in j.pending : g.trigger # history[k].trigger
  BY <1>1, <1>2 DEF JournalInv, PlannedInv
<1>7. cand(e).plan \notin Recorded
  BY <1>4, <1>6 DEF Recorded
<1> HIDE DEF j
<1>8. /\ [j EXCEPT !.cand = cand(e)] \in JournalType
      /\ [j EXCEPT !.cand = cand(e)].cand = cand(e)
      /\ [j EXCEPT !.cand = cand(e)].pending = j.pending
      /\ [j EXCEPT !.cand = cand(e)].obs = j.obs
      /\ [j EXCEPT !.cand = cand(e)].chain = j.chain
  <2> HIDE DEF cand
  <2> QED
    BY <1>2, <1>5 DEF JournalType
<1>9. PICK k \in Encoded([j EXCEPT !.cand = cand(e)]) :
        journal' = k /\ st' = [st EXCEPT ![c] = k]
  BY <1>3 DEF Save
<1>10. /\ journal'.cand = cand(e) /\ journal'.pending = j.pending
       /\ journal'.obs = j.obs /\ journal'.chain = j.chain /\ st'[c] = journal'
  <2> HIDE DEF cand
  <2> QED
    BY <1>8, <1>9, EncodedKeeps DEF TypeInv, TypeOK
<1> QED
  BY <1>2, <1>4, <1>5, <1>6, <1>7, <1>10

\* Sealing keeps it: the new candidate continues the history.
LEMMA SealKeeps ==
  ASSUME TypeInv, JournalInv, SingleController, NEW c \in Cycle, SealCandidate(c)
  PROVE  JournalInv'
<1> USE JournalAssumption
<1>1. \A e \in Cycle : e = c
  BY DEF SingleController
<1>2. /\ pc[c] = "planning" /\ st[c] = journal /\ view[c].of \in Observation
      /\ history' = history /\ clock' = clock /\ view' = view /\ pc'[c] = "appending"
      /\ view[c].of.chain = journal.chain /\ view[c].at = clock
  BY DEF SealCandidate, JournalInv, CopyInv, TypeInv, TypeOK, Busy, Goto
<1>3. PICK e \in Event :
        LET d == [plan |-> [of |-> view[c].of, trigger |-> e.trigger, at |-> view[c].at],
                  obs |-> view[c].of,
                  srcs |-> {f.src : f \in {g \in journal'.pending : g.trigger = e.trigger}}]
        IN /\ e \in journal'.pending
           /\ st'[c] = journal' /\ journal'.cand = d /\ d \in Candidate
           /\ journal'.chain = journal.chain /\ journal'.obs = journal.obs
           /\ journal.pending \subseteq journal'.pending
           /\ d.plan \notin Recorded
           /\ \A k \in DOMAIN history : history[k].at = view[c].at =>
                \A g \in journal'.pending : g.trigger # history[k].trigger
  BY SealGives
<1>4. /\ journal'.cand.plan.of = view[c].of /\ journal'.cand.plan.at = view[c].at
      /\ journal'.cand.plan.trigger = e.trigger /\ journal'.cand.obs = view[c].of
      /\ journal'.cand.srcs = {f.src : f \in {g \in journal'.pending : g.trigger = e.trigger}}
      /\ journal'.cand.plan \notin Recorded /\ journal'.cand # None
  <2>1. /\ journal'.cand \in Candidate
        /\ journal'.cand = [plan |-> [of |-> view[c].of, trigger |-> e.trigger, at |-> view[c].at],
             obs |-> view[c].of,
             srcs |-> {f.src : f \in {g \in journal'.pending : g.trigger = e.trigger}}]
    BY <1>3
  <2>2. journal'.cand # None
    BY <2>1 DEF JournalAssumption
  <2>3. journal'.cand.plan \notin Recorded
    BY <1>3
  <2> QED
    BY <2>1, <2>2, <2>3
<1>5. HistoryInv'
  BY <1>2, <1>3 DEF JournalInv, HistoryInv, OwnerChainGrows
<1>6. CandidateInv'
  <2>1. Recorded' = Recorded /\ clock \in Nat
    BY <1>2, ChainsAreSequences DEF Recorded, TypeInv
  <2>2. Continuing(journal'.chain, journal'.cand.plan.of.chain)
    BY <1>2, <1>3, <1>4 DEF Continuing
  <2>3. \A k \in DOMAIN history' : Continuing(journal'.cand.plan.of.chain, history'[k].of.chain)
    BY <1>2, <1>4 DEF JournalInv, HistoryInv
  <2>4. journal'.cand.srcs \subseteq Pinned(journal)' /\ journal'.cand.srcs # {}
    BY <1>3, <1>4 DEF Pinned
  <2>5. journal'.cand.obs # None
    BY <1>2, <1>4 DEF JournalAssumption
  <2> QED
    BY <1>2, <1>4, <2>1, <2>2, <2>3, <2>4, <2>5 DEF CandidateInv
<1>7. ObservedInv'
  BY <1>4 DEF ObservedInv
<1>8. CopyInv(c)'
  BY <1>2, <1>3 DEF CopyInv, Busy
<1>9. PlannedInv(c)'
  BY <1>2, <1>3, <1>4 DEF PlannedInv
<1> QED
  BY <1>1, <1>5, <1>6, <1>7, <1>8, <1>9 DEF JournalInv

\* Appending keeps it: the candidate becomes the newest plan.
LEMMA AppendKeeps ==
  ASSUME TypeInv, JournalInv, SingleController, NEW c \in Cycle, AppendCandidate(c)
  PROVE  JournalInv'
<1> USE JournalAssumption
<1>1. \A e \in Cycle : e = c
  BY DEF SingleController
<1> DEFINE p == journal.cand.plan
<1>2. /\ pc[c] = "appending" /\ st[c] = journal /\ journal.cand # None /\ journal.cand \in Candidate
      /\ history \in Seq(Plan) /\ p \in Plan
      /\ journal' = journal /\ clock' = clock /\ st' = st /\ view' = view /\ pc'[c] = "appended"
      /\ history' = IF p \in Recorded THEN history ELSE Append(history, p)
  BY DEF AppendCandidate, JournalInv, CopyInv, TypeInv, TypeOK, Goto, JournalType, Candidate
<1>3. /\ Continuing(journal.chain, p.of.chain) /\ p.at <= clock
      /\ \A k \in DOMAIN history : Continuing(p.of.chain, history[k].of.chain)
  BY <1>2 DEF JournalInv, CandidateInv
<1>4. CASE p \in Recorded
  <2>1. history' = history
    BY <1>2, <1>4
  <2>2. HistoryInv' /\ CandidateInv' /\ ObservedInv'
    BY <1>2, <2>1, SharedKept, ChainsAreSequences DEF JournalInv, TypeInv
  <2>3. CopyInv(c)'
    BY <1>2 DEF JournalInv, CopyInv, Busy
  <2>4. PlannedInv(c)'
    BY <1>2, <1>4, <2>1 DEF JournalInv, PlannedInv, FirstPlan, Recorded
  <2> QED
    BY <1>1, <2>2, <2>3, <2>4 DEF JournalInv
<1>5. CASE p \notin Recorded
  <2> DEFINE n == Len(history)
  <2>1. /\ n \in Nat /\ DOMAIN history = 1..n /\ DOMAIN history' = 1..(n + 1) /\ Len(history') = n + 1
        /\ history'[n + 1] = p /\ \A k \in 1..n : history'[k] = history[k]
    BY <1>2, <1>5
  <2> HIDE DEF p, n
  <2>2. \A k \in DOMAIN history' : k = n + 1 \/ k \in DOMAIN history
    BY <2>1
  <2>3. OwnerChainGrows'
    <3> SUFFICES ASSUME NEW k \in DOMAIN history', NEW l \in DOMAIN history', k < l
        PROVE Continuing(history'[l].of.chain, history'[k].of.chain)
      BY DEF OwnerChainGrows, Continuing
    <3>1. k \in 1..n
      BY <2>1
    <3>2. CASE l = n + 1
      BY <1>3, <2>1, <3>1, <3>2
    <3>3. CASE l \in 1..n
      BY <2>1, <3>1, <3>3 DEF JournalInv, HistoryInv, OwnerChainGrows, Continuing
    <3> QED
      BY <2>1, <2>2, <3>2, <3>3
  <2>4. HistoryInv'
    BY <1>2, <1>3, <2>1, <2>2, <2>3 DEF JournalInv, HistoryInv
  <2>5. Newest' = p
    BY <2>1 DEF Newest
  <2>6. CandidateInv'
    <3>1. \A k \in DOMAIN history' : Continuing(p.of.chain, history'[k].of.chain)
      BY <1>3, <2>1, <2>2 DEF Continuing
    <3>2. /\ Continuing(journal.chain, p.of.chain) /\ p.at <= clock
      BY <1>3
    <3> QED
      BY <1>2, <2>5, <3>1, <3>2 DEF JournalInv, CandidateInv, p
  <2>7. ObservedInv'
    BY <1>2 DEF ObservedInv
  <2>8. CopyInv(c)'
    BY <1>2 DEF JournalInv, CopyInv, Busy
  <2>9. PlannedInv(c)'
    <3>1. p \in Recorded'
      BY <2>1 DEF Recorded
    <3>2. CASE p.at # view[c].at /\ FirstPlan(c)
      <4>1. FirstPlan(c)'
        BY <1>2, <2>1, <2>2, <3>2 DEF FirstPlan
      <4> QED
        BY <1>2, <3>1, <3>2, <4>1 DEF PlannedInv, p
    <3>3. CASE ~(p.at # view[c].at /\ FirstPlan(c))
      <4>1. /\ p.at = view[c].at /\ journal.cand.obs = view[c].of
            /\ \A e \in journal.pending : e.trigger = p.trigger => e.src \in journal.cand.srcs
            /\ \A k \in DOMAIN history : history[k].at = view[c].at =>
                 \/ history[k] = p
                 \/ \A e \in journal.pending : e.trigger # history[k].trigger
        BY <1>2, <3>3 DEF JournalInv, PlannedInv, p
      <4>2. \A k \in DOMAIN history' : history'[k].at = view[c].at =>
                 \/ history'[k] = p
                 \/ \A e \in journal.pending : e.trigger # history'[k].trigger
        BY <2>1, <2>2, <4>1
      <4> QED
        BY <1>2, <3>1, <4>1, <4>2 DEF PlannedInv, p
    <3> QED
      BY <3>2, <3>3
  <2> QED
    BY <1>1, <2>4, <2>6, <2>7, <2>8, <2>9 DEF JournalInv
<1> QED
  BY <1>4, <1>5

\* A retained candidate covers one set of sources, some of them pending.
LEMMA CoveredGives ==
  ASSUME TypeOK, CandidateInv, journal.cand # None
  PROVE  \E S \in SUBSET Id :
           /\ Covered(journal) = {S}
           /\ S \subseteq Pinned(journal) /\ S # {}
           /\ journal.cand.obs # None => S = journal.cand.srcs
<1>1. journal \in JournalType /\ journal.cand \in Candidate
  BY DEF TypeOK, JournalType
<1>2. CASE journal.cand.obs = None
  <2>1. PICK h \in journal.pending : h.pos = 0 /\ \A e \in journal.pending : e = h \/ e.pos > 0
    BY <1>2 DEF CandidateInv
  <2>2. \A e \in journal.pending : e \in Event /\ e.pos \in Nat /\ e.src \in Id
    BY <1>1 DEF JournalType, Event
  <2>3. Heads(journal) = {h}
    BY <2>1, <2>2 DEF Heads
  <2>4. Covered(journal) = {{h.src}}
    BY <1>2, <2>3 DEF Covered
  <2>5. {h.src} \in SUBSET Id /\ {h.src} \subseteq Pinned(journal) /\ {h.src} # {}
    BY <2>1, <2>2 DEF Pinned
  <2> QED
    BY <1>2, <2>4, <2>5
<1>3. CASE journal.cand.obs # None
  <2>1. Covered(journal) = {journal.cand.srcs}
    BY <1>3 DEF Covered
  <2>2. journal.cand.srcs \in SUBSET Id
    BY <1>1 DEF Candidate
  <2> QED
    BY <1>3, <2>1, <2>2 DEF CandidateInv
<1> QED
  BY <1>2, <1>3

\* Acknowledging takes what the candidate covers off the queue.
LEMMA AcknowledgeGives ==
  ASSUME TypeInv, JournalInv, NEW c \in Cycle, AcknowledgeCandidate(c)
  PROVE  /\ journal.cand # None /\ journal.cand.plan \in Recorded
         /\ st'[c] = journal' /\ journal'.cand = None
         /\ journal'.obs = journal.cand.obs /\ journal'.chain = journal.chain
         /\ \E S \in Covered(journal) :
              journal'.pending = {e \in journal.pending : e.src \notin S}
<1> USE JournalAssumption
<1>1. /\ pc[c] = "appended" /\ st[c] = journal /\ journal.cand # None
      /\ journal \in JournalType /\ journal.cand.plan \in Recorded
  BY DEF AcknowledgeCandidate, JournalInv, CopyInv, PlannedInv, TypeInv, TypeOK
<1>2. PICK S \in Covered(journal) :
        Save(c, [journal EXCEPT !.obs = journal.cand.obs, !.cand = None,
                                !.pending = {e \in @ : e.src \notin S}])
  BY <1>1 DEF AcknowledgeCandidate
<1> DEFINE j == [journal EXCEPT !.obs = journal.cand.obs, !.cand = None,
                                !.pending = {e \in @ : e.src \notin S}]
<1>3. /\ j \in JournalType /\ j.obs = journal.cand.obs /\ j.cand = None
      /\ j.pending = {e \in journal.pending : e.src \notin S} /\ j.chain = journal.chain
  <2>1. journal.cand.obs \in Observation \cup {None}
    BY <1>1 DEF JournalType, Candidate
  <2> QED
    BY <1>1, <2>1 DEF JournalType
<1> HIDE DEF j
<1>4. PICK k \in Encoded(j) : journal' = k /\ st' = [st EXCEPT ![c] = k]
  BY <1>2 DEF Save, j
<1>5. st'[c] = journal'
  BY <1>4 DEF TypeInv, TypeOK
<1> QED
  BY <1>1, <1>3, <1>4, <1>5, EncodedKeeps

\* Acknowledging keeps it: the observation is the newest plan's.
LEMMA AcknowledgeKeeps ==
  ASSUME TypeInv, JournalInv, SingleController, NEW c \in Cycle, AcknowledgeCandidate(c)
  PROVE  JournalInv'
<1> USE JournalAssumption
<1>1. \A e \in Cycle : e = c
  BY DEF SingleController
<1>2. /\ pc[c] = "appended" /\ st[c] = journal /\ view[c].of \in Observation
      /\ history' = history /\ clock' = clock /\ view' = view /\ pc'[c] = "planning"
      /\ view[c].of.chain = journal.chain /\ view[c].at = clock
  BY DEF AcknowledgeCandidate, JournalInv, CopyInv, TypeInv, TypeOK, Busy, Goto
<1>3. /\ journal.cand # None /\ journal.cand.plan \in Recorded
      /\ st'[c] = journal' /\ journal'.cand = None
      /\ journal'.obs = journal.cand.obs /\ journal'.chain = journal.chain
  BY AcknowledgeGives
<1>4. PICK S \in Covered(journal) : journal'.pending = {e \in journal.pending : e.src \notin S}
  BY AcknowledgeGives
<1>5. HistoryInv'
  BY <1>2, <1>3 DEF JournalInv, HistoryInv, OwnerChainGrows
<1>6. CandidateInv'
  BY <1>3 DEF CandidateInv
<1>7. ObservedInv'
  <2> SUFFICES ASSUME journal.cand.obs # None
      PROVE history # << >> /\ Newest.of = journal.cand.obs
    BY <1>2, <1>3 DEF ObservedInv, Newest
  <2>1. Newest = journal.cand.plan /\ journal.cand.obs = journal.cand.plan.of
    BY <1>3 DEF JournalInv, CandidateInv
  <2>2. history # << >>
    BY <1>3 DEF Recorded
  <2> QED
    BY <2>1, <2>2
<1>8. CopyInv(c)'
  BY <1>2, <1>3 DEF CopyInv, Busy
<1>9. PlannedInv(c)'
  <2> SUFFICES ASSUME NEW k \in DOMAIN history, history[k].at = view[c].at
      PROVE /\ journal'.obs = view[c].of
            /\ \A e \in journal'.pending : e.trigger # history[k].trigger
    BY <1>2, <1>3 DEF PlannedInv
  <2>1. ~FirstPlan(c)
    BY DEF FirstPlan
  <2>2. LET d == journal.cand IN
        /\ d.plan.at = view[c].at /\ d.obs = view[c].of
        /\ \A e \in journal.pending : e.trigger = d.plan.trigger => e.src \in d.srcs
        /\ \A l \in DOMAIN history : history[l].at = view[c].at =>
             \/ history[l] = d.plan
             \/ \A e \in journal.pending : e.trigger # history[l].trigger
    BY <1>2, <2>1 DEF JournalInv, PlannedInv
  <2>3. journal.cand.obs # None
    BY <1>2, <2>2 DEF JournalAssumption
  <2>4. S = journal.cand.srcs
    BY <1>3, <1>4, <2>3, CoveredGives DEF TypeInv, JournalInv
  <2> QED
    BY <1>3, <1>4, <2>2, <2>4
<1> QED
  BY <1>1, <1>5, <1>6, <1>7, <1>8, <1>9 DEF JournalInv

\* Returning keeps it: the newest plan is of what the cycle observed.
LEMMA ReturnKeeps ==
  ASSUME TypeInv, JournalInv, SingleController, NEW c \in Cycle, ReturnPlan(c)
  PROVE  JournalInv'
<1> USE JournalAssumption
<1>1. \A e \in Cycle : e = c
  BY DEF SingleController
<1>2. /\ pc[c] = "planning" /\ st[c] = journal /\ journal \in JournalType
      /\ view[c].of \in Observation /\ journal.cand = None
      /\ journal' = journal /\ history' = history /\ clock' = clock /\ pc'[c] = "returned"
      /\ Derive(journal, view[c].of, "files_changed").pending = {}
  BY DEF ReturnPlan, JournalInv, CopyInv, PlannedInv, TypeInv, TypeOK, Busy, Goto
<1>3. journal.pending = {} /\ journal.obs = view[c].of
  <2>1. "files_changed" \in TriggerName
    BY DEF TriggerName
  <2> DEFINE d == Derive(journal, view[c].of, "files_changed")
  <2>2. \/ d = journal /\ (journal.obs = view[c].of \/ journal.pending # {})
        \/ d.pending = {[src |-> view[c].of, trigger |-> "files_changed", pos |-> journal.seq]}
    <3> HIDE DEF d
    <3>1. d = Derive(journal, view[c].of, "files_changed")
      BY DEF d
    <3> QED
      BY <1>2, <2>1, <3>1, DeriveGives
  <2>3. d.pending = {}
    BY <1>2
  <2> HIDE DEF d
  <2> QED
    BY <2>2, <2>3
<1>4. view'[c].of = view[c].of /\ view'[c].plan = Newest
  <2>1. view' = [view EXCEPT ![c] = [view[c] EXCEPT !.plan = Newest]]
    BY DEF ReturnPlan, Newest
  <2>2. view[c] \in [of : Observation \cup {None}, at : 0..MaxClock,
                     events : SUBSET Source, plan : Plan \cup {None}]
    BY DEF TypeInv, TypeOK
  <2>3. view'[c] = [view[c] EXCEPT !.plan = Newest]
    BY <2>1 DEF TypeInv, TypeOK
  <2> QED
    BY <2>2, <2>3
<1>5. Newest.of = view[c].of
  BY <1>2, <1>3 DEF JournalInv, ObservedInv, JournalAssumption
<1>6. HistoryInv' /\ CandidateInv' /\ ObservedInv'
  BY <1>2, SharedKept, ChainsAreSequences DEF JournalInv, TypeInv
<1>7. CopyInv(c)' /\ PlannedInv(c)'
  BY <1>2, <1>3, <1>4, <1>5 DEF CopyInv, PlannedInv, Busy
<1> QED
  BY <1>1, <1>6, <1>7 DEF JournalInv

\* A crash keeps it: what is saved and recorded stays.
LEMMA CrashKeeps ==
  ASSUME TypeInv, JournalInv, SingleController, NEW c \in Cycle, Crash(c)
  PROVE  JournalInv'
<1>1. \A e \in Cycle : e = c
  BY DEF SingleController
<1>2. pc'[c] = "idle" /\ UNCHANGED <<journal, history, clock>>
  BY DEF Crash, End, Goto, TypeInv, TypeOK
<1>3. HistoryInv' /\ CandidateInv' /\ ObservedInv'
  BY <1>2, SharedKept, ChainsAreSequences, JournalAssumption DEF JournalInv, TypeInv
<1>4. CopyInv(c)' /\ PlannedInv(c)'
  BY <1>2 DEF CopyInv, PlannedInv, Busy
<1> QED
  BY <1>1, <1>3, <1>4 DEF JournalInv

\* Pruning keeps it, for any number of stopped cycles.
LEMMA PruneKeeps ==
  ASSUME TypeInv, JournalInv, Prune
  PROVE  JournalInv'
<1>1. /\ journal'.pending = journal.pending /\ journal'.cand = journal.cand
      /\ journal'.obs = journal.obs /\ journal'.chain = journal.chain
      /\ UNCHANGED <<history, clock, pc, st, view>>
  BY ForgetKeeps DEF Prune, TypeInv, TypeOK
<1>2. HistoryInv' /\ CandidateInv' /\ ObservedInv'
  BY <1>1, SharedKept, ChainsAreSequences, JournalAssumption DEF JournalInv, TypeInv
<1>3. ASSUME NEW c \in Cycle PROVE CopyInv(c)' /\ PlannedInv(c)'
  <2>1. pc[c] \in {"idle", "returned"}
    BY DEF Prune
  <2> QED
    BY <1>1, <2>1 DEF JournalInv, CopyInv, PlannedInv, Busy
<1> QED
  BY <1>2, <1>3 DEF JournalInv

\* Every step of a single controller keeps the invariant.
LEMMA JournalStep ==
  ASSUME TypeInv, TypeInv', JournalInv, SingleController, [Next]_vars
  PROVE  JournalInv'
<1>1. ASSUME NEW c \in Cycle, Step(c) \/ Crash(c) PROVE JournalInv'
  BY <1>1, ReadKeeps, SaveObservedKeeps, SaveInsideRoundKeeps, SealKeeps, AppendKeeps,
     AcknowledgeKeeps, ReturnKeeps, CrashKeeps DEF Step
<1>2. CASE Prune
  BY <1>2, PruneKeeps
<1>3. CASE UNCHANGED vars
  BY <1>3 DEF vars, JournalInv, HistoryInv, OwnerChainGrows, CandidateInv, ObservedInv,
     CopyInv, PlannedInv, FirstPlan, Recorded, Newest
<1> QED
  BY <1>1, <1>2, <1>3 DEF Next

-----------------------------------------------------------------------------
(* What a single controller can rely on.                                   *)

\* The invariant holds in every state a single controller reaches.
THEOREM JournalCorrect ==
  ASSUME SingleController
  PROVE  Spec => [](TypeInv /\ JournalInv)
<1>1. Init => TypeInv /\ JournalInv
  BY TypeInit, JournalInit
<1>2. TypeInv /\ JournalInv /\ [Next]_vars => (TypeInv /\ JournalInv)'
  BY TypeStep, JournalStep
<1> QED
  BY <1>1, <1>2, PTL DEF Spec

\* A cycle is given a plan of exactly the inputs it has read, and only when
\* every accepted event is planned.
THEOREM PlanIsCurrentHolds ==
  ASSUME SingleController
  PROVE  Spec => []PlanIsCurrent
<1>1. TypeInv /\ JournalInv => PlanIsCurrent
  BY DEF JournalInv, PlannedInv, PlanIsCurrent, Due, Pinned
<1> QED
  BY <1>1, JournalCorrect, PTL

\* The owner's chain never rolls back from a recorded plan to a later one.
THEOREM OwnerChainGrowsHolds ==
  ASSUME SingleController
  PROVE  Spec => []OwnerChainGrows
<1>1. TypeInv /\ JournalInv => OwnerChainGrows
  BY DEF JournalInv, HistoryInv
<1> QED
  BY <1>1, JournalCorrect, PTL

\* The stored journal, the history and every cycle's copy keep their types,
\* for any number of cycles.
THEOREM TypeOKHolds == Spec => []TypeOK
<1>1. TypeInv => TypeOK
  BY DEF TypeInv
<1> QED
  BY <1>1, TypeCorrect, PTL

-----------------------------------------------------------------------------
(* The journal of a single controller implements the ledger.               *)

\* What is due: everything pending, but for what a recorded candidate covers.
DueFacts ==
  /\ Due \in SUBSET Id
  /\ ~(journal.cand # None /\ journal.cand.plan \in Recorded) => Due = Pinned(journal)
  /\ journal.cand # None /\ journal.cand.plan \in Recorded =>
       \A S \in Covered(journal) : Due = Pinned(journal) \ S

\* The facts above follow from the types and from CandidateInv.
LEMMA DueIs == TypeOK /\ CandidateInv => DueFacts
<1> SUFFICES ASSUME TypeOK, CandidateInv PROVE DueFacts
  OBVIOUS
<1>1. Pinned(journal) \in SUBSET Id
  BY DEF TypeOK, JournalType, Event, Pinned
<1>2. ASSUME journal.cand # None, NEW S \in Covered(journal)
      PROVE  UNION Covered(journal) = S
  <2>1. PICK T \in SUBSET Id : Covered(journal) = {T}
    BY <1>2, CoveredGives
  <2> QED
    BY <1>2, <2>1
<1> QED
  BY <1>1, <1>2 DEF Due, DueFacts

\* The same after a step.
LEMMA DueIsNext == (TypeOK /\ CandidateInv => DueFacts)'
  BY DueIs, PTL

\* Saving what was staged accepts events: nothing due is lost.
LEMMA SaveAccepts ==
  ASSUME TypeInv, TypeInv', JournalInv, NEW c \in Cycle, pc[c] = "staged",
         journal' \in Encoded(st[c]), history' = history, clock' = clock
  PROVE  Ledger!Accept
<1>1. CandidateInv' /\ journal'.cand = journal.cand
  BY StagedSaved
<1>2. journal'.pending = st[c].pending /\ journal.pending \subseteq journal'.pending
  BY EncodedKeeps DEF TypeInv, TypeOK, JournalInv, CopyInv
<1>3. Pinned(journal) \subseteq Pinned(journal')
  BY <1>2 DEF Pinned
<1>4. Due \in SUBSET Id /\ Due' \in SUBSET Id
  BY <1>1, DueIs, DueIsNext DEF DueFacts, TypeInv, JournalInv
<1>5. Due \subseteq Due'
  <2>1. Recorded' = Recorded
    BY DEF Recorded
  <2>2. CASE ~(journal.cand # None /\ journal.cand.plan \in Recorded)
    <3>1. Due' = Pinned(journal') /\ Due = Pinned(journal)
      BY <1>1, <2>1, <2>2, DueIs, DueIsNext DEF DueFacts, TypeInv, JournalInv
    <3> QED
      BY <1>3, <3>1
  <2>3. CASE journal.cand # None /\ journal.cand.plan \in Recorded
    <3>1. PICK S \in SUBSET Id :
            /\ Covered(journal) = {S}
            /\ journal.cand.obs # None => S = journal.cand.srcs
      BY <2>3, CoveredGives DEF TypeInv, JournalInv
    <3>2. Covered(journal') = {S}
      <4>1. CASE journal.cand.obs # None
        BY <1>1, <3>1, <4>1 DEF Covered
      <4>2. CASE journal.cand.obs = None
        <5>1. PICK h \in journal.pending : h.pos = 0 /\ \A e \in journal.pending : e = h \/ e.pos > 0
          BY <2>3, <4>2 DEF JournalInv, CandidateInv
        <5>2. PICK g \in journal'.pending : g.pos = 0 /\ \A e \in journal'.pending : e = g \/ e.pos > 0
          BY <1>1, <2>3, <4>2 DEF CandidateInv
        <5>3. h = g
          BY <1>2, <5>1, <5>2
        <5>4. \A e \in journal'.pending : e.pos \in Nat
          BY DEF TypeInv, TypeOK, JournalType, Event
        <5>5. Heads(journal) = {h} /\ Heads(journal') = {h}
          BY <1>2, <5>1, <5>2, <5>3, <5>4 DEF Heads
        <5> QED
          BY <1>1, <3>1, <4>2, <5>5 DEF Covered
      <4> QED
        BY <4>1, <4>2
    <3>3. Due = Pinned(journal) \ S /\ Due' = Pinned(journal') \ S
      BY <1>1, <2>1, <2>3, <3>1, <3>2, DueIs, DueIsNext DEF DueFacts, TypeInv, JournalInv
    <3> QED
      BY <1>3, <3>3
  <2> QED
    BY <2>2, <2>3
<1> QED
  BY <1>4, <1>5 DEF Ledger!Accept

\* Sealing makes nothing less due: its plan is not recorded yet.
LEMMA SealAccepts ==
  ASSUME TypeInv, JournalInv, CandidateInv', TypeInv', NEW c \in Cycle, SealCandidate(c)
  PROVE  Ledger!Accept
<1>1. journal.cand = None /\ history' = history
  BY DEF SealCandidate, JournalInv, PlannedInv
<1>2. journal.pending \subseteq journal'.pending /\ journal'.cand.plan \notin Recorded
  BY SealGives
<1>3. Recorded' = Recorded
  BY <1>1 DEF Recorded
<1>4. Due = Pinned(journal) /\ Due' = Pinned(journal') /\ Due' \in SUBSET Id
  BY <1>1, <1>2, <1>3, DueIs, DueIsNext DEF DueFacts, TypeInv, JournalInv
<1>5. Pinned(journal) \subseteq Pinned(journal')
  BY <1>2 DEF Pinned
<1> QED
  BY <1>1, <1>4, <1>5 DEF Ledger!Accept

\* Appending records what the candidate covers, unless it is recorded already.
LEMMA AppendRecords ==
  ASSUME TypeInv, TypeInv', JournalInv, CandidateInv', NEW c \in Cycle, AppendCandidate(c)
  PROVE  (\E p \in Plan : Ledger!Record(p)) \/ UNCHANGED <<Due, history>>
<1> DEFINE p == journal.cand.plan
<1>1. /\ journal.cand # None /\ p \in Plan /\ journal' = journal /\ history \in Seq(Plan)
      /\ history' = IF p \in Recorded THEN history ELSE Append(history, p)
  BY DEF AppendCandidate, JournalInv, CopyInv, TypeInv, TypeOK, JournalType, Candidate
<1>2. CASE p \in Recorded
  BY <1>1, <1>2 DEF Due, Recorded
<1>3. CASE p \notin Recorded
  <2>1. history' = Append(history, p)
    BY <1>1, <1>3
  <2>2. p \in Recorded'
    <3> HIDE DEF p
    <3>1. Len(history) + 1 \in DOMAIN history' /\ history'[Len(history) + 1] = p
      BY <1>1, <2>1
    <3> QED
      BY <3>1 DEF Recorded
  <2>3. PICK S \in SUBSET Id : Covered(journal) = {S} /\ S \subseteq Pinned(journal) /\ S # {}
    BY <1>1, CoveredGives DEF TypeInv, JournalInv
  <2>4. Due = Pinned(journal)
    BY <1>3, DueIs DEF DueFacts, TypeInv, JournalInv
  <2>5. Due' = Pinned(journal) \ S
    <3>1. Covered(journal') = {S}
      BY <1>1, <2>3
    <3> QED
      BY <1>1, <2>2, <3>1, DueIsNext DEF DueFacts, TypeInv
  <2>6. Due' \subseteq Due /\ Due' # Due
    BY <2>3, <2>4, <2>5
  <2>7. p \notin Ledger!Recorded
    BY <1>3 DEF Ledger!Recorded, Recorded
  <2> QED
    BY <1>1, <2>1, <2>6, <2>7 DEF Ledger!Record
<1> QED
  BY <1>2, <1>3

\* Acknowledging changes nothing the ledger sees.
LEMMA AcknowledgeStutters ==
  ASSUME TypeInv, TypeInv', JournalInv, CandidateInv', NEW c \in Cycle, AcknowledgeCandidate(c)
  PROVE  UNCHANGED <<Due, history>>
<1>1. journal.cand # None /\ journal.cand.plan \in Recorded /\ journal'.cand = None
  BY AcknowledgeGives
<1>2. PICK S \in Covered(journal) : journal'.pending = {e \in journal.pending : e.src \notin S}
  BY AcknowledgeGives
<1>3. Due = Pinned(journal) \ S
  BY <1>1, DueIs DEF DueFacts, TypeInv, JournalInv
<1>4. Due' = Pinned(journal')
  BY <1>1, DueIsNext DEF DueFacts, TypeInv
<1>5. Pinned(journal') = Pinned(journal) \ S
  BY <1>2 DEF Pinned
<1> QED
  BY <1>3, <1>4, <1>5 DEF AcknowledgeCandidate

\* The rest of a cycle leaves the queue, the candidate and the history alone.
LEMMA OtherStutters ==
  ASSUME history' = history, journal'.pending = journal.pending, journal'.cand = journal.cand
  PROVE  UNCHANGED <<Due, history>>
<1>1. Recorded' = Recorded /\ Pinned(journal)' = Pinned(journal) /\ Covered(journal)' = Covered(journal)
  BY DEF Recorded, Pinned, Covered, Heads
<1> QED
  BY <1>1 DEF Due

\* Every step is a step of the ledger or a stutter of it.
LEMMA LedgerStep ==
  ASSUME TypeInv, TypeInv', JournalInv, JournalInv', [Next]_vars
  PROVE  [Ledger!Next]_<<Due, history>>
<1>1. CandidateInv'
  BY DEF JournalInv
<1>2. ASSUME NEW c \in Cycle, Step(c) \/ Crash(c) PROVE [Ledger!Next]_<<Due, history>>
  <2>1. CASE ReadJournal(c)
    BY <2>1, OtherStutters DEF ReadJournal
  <2>2. CASE SaveObserved(c)
    BY <2>2, SaveAccepts DEF SaveObserved, Save, Ledger!Next
  <2>3. CASE SaveInsideRound(c)
    BY <2>3, SaveAccepts DEF SaveInsideRound, Ledger!Next
  <2>4. CASE SealCandidate(c)
    BY <1>1, <2>4, SealAccepts DEF Ledger!Next
  <2>5. CASE AppendCandidate(c)
    BY <1>1, <2>5, AppendRecords DEF Ledger!Next
  <2>6. CASE AcknowledgeCandidate(c)
    BY <1>1, <2>6, AcknowledgeStutters
  <2>7. CASE ReturnPlan(c)
    BY <2>7, OtherStutters DEF ReturnPlan
  <2>8. CASE Crash(c)
    BY <2>8, OtherStutters DEF Crash
  <2> QED
    BY <1>2, <2>1, <2>2, <2>3, <2>4, <2>5, <2>6, <2>7, <2>8 DEF Step
<1>3. CASE Prune
  <2>1. history' = history /\ journal'.pending = journal.pending /\ journal'.cand = journal.cand
    BY <1>3, ForgetKeeps DEF Prune, TypeInv, TypeOK
  <2> QED
    BY <2>1, OtherStutters
<1>4. CASE UNCHANGED vars
  BY <1>4, OtherStutters DEF vars
<1> QED
  BY <1>2, <1>3, <1>4 DEF Next

\* The journal of a single controller implements PlanLedger: an accepted
\* event stays due through crashes until the one append of its plan.
THEOREM ImplementsPlanLedgerHolds ==
  ASSUME SingleController
  PROVE  Spec => ImplementsPlanLedger
<1>1. Init => Ledger!Init
  <2>1. Init => TypeInv /\ JournalInv
    BY TypeInit, JournalInit
  <2> QED
    BY <2>1, DueIs DEF DueFacts, TypeInv, TypeOK, JournalInv, Ledger!Init
<1>2. /\ TypeInv /\ JournalInv
      /\ (TypeInv /\ JournalInv)'
      /\ [Next]_vars
      => [Ledger!Next]_<<Due, history>>
  BY LedgerStep
<1> QED
  BY <1>1, <1>2, JournalCorrect, PTL DEF Spec, Ledger!Spec, ImplementsPlanLedger

-----------------------------------------------------------------------------
(* What the journal remembers, for any number of cycles: saving forgets a  *)
(* reported event only if reported and pending events alone exceed the     *)
(* retention.                                                              *)

\* Pending events are remembered, and no memory is younger than the journal.
Remembers(j) ==
  /\ Pinned(j) \cap Source \subseteq Known(j)
  /\ \A s \in Known(j) : j.seen[s] <= j.seq

\* What a cycle has staged is exactly what its copy remembers as just seen.
JustSeen(j, E) == E = {s \in Source : j.seen[s] = j.seq}

MemoryInv ==
  /\ Remembers(journal)
  /\ \A c \in Cycle : /\ Remembers(st[c])
                      /\ pc[c] = "staged" => JustSeen(st[c], view[c].events)

\* The sources that are reported or pending.
Wanted(j, E) == E \cup (Pinned(j) \cap Source)

\* Forgetting sources that are not pending keeps what must be remembered.
LEMMA ForgetRemembers ==
  ASSUME JournalAssumption, NEW j \in JournalType, Remembers(j), NEW F, F \cap Pinned(j) = {}
  PROVE  /\ Remembers(Forget(j, F)) /\ Known(Forget(j, F)) = Known(j) \ F
         /\ Forget(j, F).pending = j.pending
<1>1. /\ Forget(j, F).pending = j.pending /\ Forget(j, F).seq = j.seq
      /\ Forget(j, F).seen = [s \in Source |-> IF s \in F THEN None ELSE j.seen[s]]
  BY DEF Forget, JournalType
<1>2. Known(Forget(j, F)) = Known(j) \ F
  BY <1>1 DEF Known
<1>3. Pinned(Forget(j, F)) = Pinned(j)
  BY <1>1 DEF Pinned
<1>4. \A s \in Known(j) \ F : Forget(j, F).seen[s] = j.seen[s]
  BY <1>1 DEF Known
<1> QED
  BY <1>1, <1>2, <1>3, <1>4 DEF Remembers

\* Eviction leaves at least Retain sources, all of them wanted if it takes a
\* wanted one.
LEMMA EvictableGives ==
  ASSUME JournalAssumption, NEW j \in JournalType, Remembers(j),
         NEW F \in Evictable(j), NEW E, JustSeen(j, E),
         NEW s \in Wanted(j, E), s \in F
  PROVE  /\ s \notin Pinned(j)
         /\ Cardinality(Wanted(j, E)) > Retain
<1> DEFINE free == Known(j) \ Pinned(j)
           excess == Cardinality(Known(j)) - Retain
           left == Known(j) \ F
<1>1. /\ F \in SUBSET free
      /\ IF excess <= 0 THEN F = {}
         ELSE IF excess <= Cardinality(free) THEN Cardinality(F) = excess ELSE F = free
      /\ \A r \in free \ F : j.seen[s] <= j.seen[r]
  BY DEF Evictable
<1>2. IsFiniteSet(Source) /\ Retain \in Nat
  BY DEF JournalAssumption
<1>3. IsFiniteSet(Known(j)) /\ Known(j) \subseteq Source
  BY <1>2, FS_Subset DEF Known
<1>4. s \notin Pinned(j) /\ s \in Known(j) /\ s \in E
  BY <1>1 DEF Wanted
<1>5. /\ j.seq \in Nat /\ j.seen[s] = j.seq
      /\ \A r \in Known(j) : j.seen[r] \in Nat /\ j.seen[r] <= j.seq
  <2>1. j.seq \in Nat /\ \A r \in Known(j) : j.seen[r] \in Nat
    BY DEF JournalType, Known
  <2> QED
    BY <1>4, <2>1 DEF JustSeen, Remembers
<1>6. left \subseteq Wanted(j, E)
  <2> SUFFICES ASSUME NEW r \in left, r \notin Pinned(j) PROVE r \in E
    BY <1>3 DEF Wanted
  <2>1. j.seen[r] = j.seq
    BY <1>1, <1>5
  <2> QED
    BY <1>3, <2>1 DEF JustSeen
<1>7. Wanted(j, E) \subseteq Source /\ IsFiniteSet(Wanted(j, E))
  <2>1. Wanted(j, E) \subseteq Source
    BY DEF Wanted, JustSeen
  <2> QED
    BY <1>2, <2>1, FS_Subset
<1>8. /\ IsFiniteSet(left) /\ Cardinality(left) = Cardinality(Known(j)) - Cardinality(F)
      /\ Cardinality(Known(j)) \in Nat /\ Cardinality(F) \in Nat /\ Cardinality(left) \in Nat
  <2>1. Known(j) \cap F = F /\ IsFiniteSet(F)
    BY <1>1, <1>3, FS_Subset
  <2>2. IsFiniteSet(left) /\ Cardinality(left) = Cardinality(Known(j)) - Cardinality(Known(j) \cap F)
    BY <1>3, FS_Difference
  <2> QED
    BY <1>3, <2>1, <2>2, FS_CardinalityType
<1>9. Cardinality(left) >= Retain
  <2>1. F # {}
    OBVIOUS
  <2>2. Cardinality(free) \in Nat
    BY <1>3, FS_Subset, FS_CardinalityType
  <2> HIDE DEF left, free
  <2>3. excess \in Int /\ excess = Cardinality(Known(j)) - Retain
    BY <1>2, <1>8
  <2>4. \/ Cardinality(F) = excess
        \/ F = free /\ ~(excess <= Cardinality(free))
    BY <1>1, <2>1
  <2> HIDE DEF excess
  <2>5. Cardinality(F) <= excess
    BY <1>8, <2>2, <2>3, <2>4
  <2> QED
    BY <1>2, <1>8, <2>3, <2>5
<1>10. Cardinality(left \cup {s}) = Cardinality(left) + 1
  BY <1>8, FS_AddElement
<1>11. left \cup {s} \subseteq Wanted(j, E)
  BY <1>6
<1>12. Cardinality(left \cup {s}) <= Cardinality(Wanted(j, E))
  BY <1>7, <1>11, FS_Subset
<1>13. Cardinality(Wanted(j, E)) \in Nat
  BY <1>7, FS_CardinalityType
<1> HIDE DEF left
<1> QED
  BY <1>2, <1>4, <1>8, <1>9, <1>10, <1>12, <1>13

\* Saving keeps the memory, and what it forgets it had to forget.
LEMMA SaveRemembers ==
  ASSUME JournalAssumption, NEW j \in JournalType, Remembers(j), NEW k \in Encoded(j)
  PROVE  /\ Remembers(k) /\ k.pending = j.pending
         /\ \A E : JustSeen(j, E) =>
              \A s \in Wanted(k, E) :
                \/ s \in Known(k)
                \/ s \notin Pinned(k) /\ Cardinality(Wanted(k, E)) > Retain
<1>1. PICK F \in Evictable(j) : k = Forget(j, F)
  BY DEF Encoded
<1>2. F \cap Pinned(j) = {}
  BY DEF Evictable
<1>3. Remembers(k) /\ Known(k) = Known(j) \ F /\ k.pending = j.pending
  BY <1>1, <1>2, ForgetRemembers
<1>4. ASSUME NEW E, JustSeen(j, E), NEW s \in Wanted(k, E), s \notin Known(k)
      PROVE  s \notin Pinned(k) /\ Cardinality(Wanted(k, E)) > Retain
  <2>1. Pinned(k) = Pinned(j) /\ Wanted(k, E) = Wanted(j, E)
    BY <1>3 DEF Pinned, Wanted
  <2>2. s \in Known(j)
    <3>1. j.seq \in Nat /\ None \notin Nat
      BY DEF JournalType, JournalAssumption
    <3> QED
      BY <1>4, <2>1, <3>1 DEF Wanted, JustSeen, Known, Remembers
  <2>3. s \in F
    BY <1>3, <1>4, <2>2
  <2> QED
    BY <1>4, <2>1, <2>3, EvictableGives
<1> QED
  BY <1>3, <1>4

\* A derived event is not a source.
LEMMA DeriveRemembers ==
  ASSUME JournalAssumption, NEW j \in JournalType, Remembers(j),
         NEW seen \in Observation, NEW trigger \in TriggerName
  PROVE  Remembers(Derive(j, seen, trigger))
<1> DEFINE d == Derive(j, seen, trigger)
           e == [src |-> seen, trigger |-> trigger, pos |-> j.seq]
<1>1. CASE d = j
  BY <1>1
<1>2. CASE d # j
  <2>1. d = [j EXCEPT !.pending = {e}]
    BY <1>2 DEF Derive
  <2>2. d.pending = {e} /\ d.seq = j.seq /\ d.seen = j.seen
    <3> HIDE DEF d, e
    <3> QED
      BY <2>1 DEF JournalType
  <2>3. Pinned(d) = {seen}
    BY <2>2 DEF Pinned
  <2>4. Pinned(d) \cap Source = {}
    BY <2>3 DEF JournalAssumption
  <2>5. Known(d) = Known(j)
    BY <2>2 DEF Known
  <2> HIDE DEF d
  <2> QED
    BY <2>2, <2>4, <2>5 DEF Remembers, d
<1> QED
  BY <1>1, <1>2

\* Staging remembers what it stages as just seen.
LEMMA StageRemembers ==
  ASSUME JournalAssumption, NEW j \in JournalType, Remembers(j),
         NEW seen \in Observation, NEW E \in SUBSET Source
  PROVE  Remembers(Stage(j, seen, E)) /\ JustSeen(Stage(j, seen, E), E)
<1> DEFINE new == {[src |-> s, trigger |-> Trigger[s], pos |-> j.seq + 1] : s \in Fresh(j, E)}
           memory == [s \in Source |-> IF s \in E THEN j.seq + 1 ELSE j.seen[s]]
           staged == [seq |-> j.seq + 1, chain |-> seen.chain, cand |-> j.cand, obs |-> j.obs,
                      seen |-> memory, pending |-> j.pending \cup new]
           trigger == IF j.obs = None THEN "project_start" ELSE "files_changed"
<1>1. /\ j.seq \in Nat /\ j.seq + 1 # None /\ j.seen \in [Source -> Nat \cup {None}]
      /\ \A s \in Known(j) : j.seen[s] \in Nat /\ j.seen[s] <= j.seq
  <2>1. j.seq \in Nat /\ j.seen \in [Source -> Nat \cup {None}] /\ None \notin Nat
    BY DEF JournalType, JournalAssumption
  <2>2. j.seq + 1 \in Nat
    BY <2>1
  <2> QED
    BY <2>1, <2>2 DEF Known, Remembers
<1>2. Known(staged) = Known(j) \cup E
  BY <1>1 DEF Known
<1>3. Pinned(staged) \cap Source \subseteq Known(staged)
  <2>1. \A e \in new : e.src \in E
    BY DEF Fresh
  <2>2. \A e \in j.pending : e.src \in Source => e.src \in Known(j)
    BY DEF Remembers, Pinned
  <2> HIDE DEF new
  <2>3. \A e \in staged.pending : e \in j.pending \/ e \in new
    OBVIOUS
  <2> QED
    BY <1>2, <2>1, <2>2, <2>3 DEF Pinned
<1>4. \A s \in Known(staged) : memory[s] <= j.seq + 1
  BY <1>1, <1>2 DEF Known
<1>5. staged \in JournalType
  <2>1. \A s \in Fresh(j, E) : s \in Source /\ Trigger[s] \in TriggerName
    BY DEF Fresh, JournalAssumption
  <2>2. new \subseteq Event
    BY <1>1, <2>1 DEF Event, Id
  <2>3. memory \in [Source -> Nat \cup {None}]
    BY <1>1
  <2>4. seen.chain \in Chain
    BY DEF Observation
  <2> HIDE DEF new, memory
  <2> QED
    BY <1>1, <2>2, <2>3, <2>4 DEF JournalType
<1>6. Remembers(staged)
  BY <1>3, <1>4 DEF Remembers
<1>7. JustSeen(staged, E)
  <2>1. \A s \in Source : j.seen[s] # j.seq + 1
    BY <1>1 DEF Known
  <2>2. \A s \in Source : staged.seen[s] = staged.seq <=> s \in E
    BY <1>1, <2>1
  <2> HIDE DEF staged
  <2> QED
    BY <2>2 DEF JustSeen
<1>8. trigger \in TriggerName
  BY DEF TriggerName
<1>9. Stage(j, seen, E) = Derive(staged, seen, trigger)
  BY DEF Stage
<1>10. Derive(staged, seen, trigger).seq = staged.seq /\ Derive(staged, seen, trigger).seen = staged.seen
  <2> HIDE DEF staged, trigger
  <2> QED
    BY <1>5 DEF Derive, JournalType
<1> HIDE DEF staged, trigger
<1> QED
  BY <1>5, <1>6, <1>7, <1>8, <1>9, <1>10, DeriveRemembers DEF JustSeen
\* A new store and one of the earlier format remember what is pending.
LEMMA MemoryInit == Init => MemoryInv
<1> SUFFICES ASSUME Init PROVE MemoryInv
  OBVIOUS
<1> USE JournalAssumption
<1>1. Remembers(EmptyJournal)
  BY DEF EmptyJournal, Remembers, Pinned, Known
<1>2. ASSUME NEW s \in Source, NEW p PROVE Remembers(LegacyJournal(s, p))
  BY DEF LegacyJournal, Remembers, Pinned, Known
<1> QED
  BY <1>1, <1>2 DEF Init, MemoryInv

\* A save forgets only what it has to.
LEMMA StagedSaveRemembers ==
  ASSUME TypeInv, MemoryInv, NEW c \in Cycle, pc[c] = "staged", journal' \in Encoded(st[c])
  PROVE  /\ Remembers(journal')
         /\ \A s \in Wanted(journal', view[c].events) :
              \/ s \in Known(journal')
              \/ s \notin Pinned(journal') /\ Cardinality(Wanted(journal', view[c].events)) > Retain
  BY SaveRemembers, JournalAssumption DEF TypeInv, TypeOK, MemoryInv

\* Every step of a cycle keeps the memory of the journal and of all cycles.
LEMMA StepRemembers ==
  ASSUME TypeInv, MemoryInv, NEW c \in Cycle, Step(c) \/ Crash(c)
  PROVE  MemoryInv'
<1> USE JournalAssumption
<1>1. st[c] \in JournalType /\ journal \in JournalType /\ Remembers(journal) /\ Remembers(st[c])
  BY DEF TypeInv, TypeOK, MemoryInv
<1>2. Remembers(EmptyJournal)
  BY DEF EmptyJournal, Remembers, Pinned, Known
<1>3. CASE ReadJournal(c)
  <2>0. PICK inp \in Input, E \in SUBSET Source :
          /\ Continues(journal, E)
          /\ \E chain \in Latest(journal, E) :
               LET seen == [inp |-> inp, chain |-> chain] IN
               /\ st' = [st EXCEPT ![c] = Stage(journal, seen, E)]
               /\ view' = [view EXCEPT ![c] = [of |-> seen, at |-> clock', events |-> E, plan |-> None]]
    BY <1>3 DEF ReadJournal
  <2>1. PICK chain \in Latest(journal, E) :
          LET seen == [inp |-> inp, chain |-> chain] IN
          /\ st' = [st EXCEPT ![c] = Stage(journal, seen, E)]
          /\ view' = [view EXCEPT ![c] = [of |-> seen, at |-> clock', events |-> E, plan |-> None]]
    BY <2>0
  <2> DEFINE seen == [inp |-> inp, chain |-> chain]
  <2>2. seen \in Observation
    BY <1>1, <2>0, LatestContinues DEF Observation
  <2>3. /\ st' = [st EXCEPT ![c] = Stage(journal, seen, E)]
        /\ view'[c].events = E
        /\ \A e \in Cycle : e # c => view'[e] = view[e]
    BY <2>1 DEF TypeInv, TypeOK
  <2> HIDE DEF seen
  <2>4. Remembers(Stage(journal, seen, E)) /\ JustSeen(Stage(journal, seen, E), E)
    BY <1>1, <2>2, StageRemembers
  <2>5. journal' = journal /\ pc' = [pc EXCEPT ![c] = "staged"]
    BY <1>3 DEF ReadJournal, Goto
  <2> QED
    BY <2>3, <2>4, <2>5 DEF TypeInv, TypeOK, MemoryInv
<1>4. CASE SaveObserved(c)
  <2>1. PICK k \in Encoded(st[c]) : journal' = k /\ st' = [st EXCEPT ![c] = k]
    BY <1>4 DEF SaveObserved, Save
  <2>2. Remembers(k)
    BY <1>1, <2>1, SaveRemembers
  <2>3. view' = view /\ pc' = [pc EXCEPT ![c] = AfterSave(st[c])] /\ AfterSave(st[c]) # "staged"
    BY <1>4 DEF SaveObserved, Goto, AfterSave
  <2> QED
    BY <2>1, <2>2, <2>3 DEF TypeInv, TypeOK, MemoryInv
<1>5. CASE SaveInsideRound(c)
  <2>1. Remembers(journal')
    BY <1>5, StagedSaveRemembers DEF SaveInsideRound
  <2> QED
    BY <1>2, <1>5, <2>1 DEF SaveInsideRound, End, Goto, TypeInv, TypeOK, MemoryInv
<1>6. CASE SealCandidate(c)
  <2> DEFINE j == Derive(st[c], view[c].of, "files_changed")
             cand(e) == [plan |-> [of |-> view[c].of, trigger |-> e.trigger, at |-> view[c].at],
                         obs |-> view[c].of,
                         srcs |-> {f.src : f \in {g \in j.pending : g.trigger = e.trigger}}]
  <2>1. j \in JournalType /\ Remembers(j)
    <3>1. view[c].of \in Observation /\ "files_changed" \in TriggerName
      BY <1>6 DEF SealCandidate, TypeInv, Busy, TriggerName
    <3> QED
      BY <1>1, <3>1, DeriveGives, DeriveRemembers
  <2>2. PICK e \in Heads(j) : Save(c, [j EXCEPT !.cand = cand(e)])
    BY <1>6 DEF SealCandidate
  <2>3. PICK k \in Encoded([j EXCEPT !.cand = cand(e)]) :
          journal' = k /\ st' = [st EXCEPT ![c] = k]
    BY <2>2 DEF Save
  <2> HIDE DEF j, cand
  <2>4. PICK F \in Evictable([j EXCEPT !.cand = cand(e)]) : k = Forget([j EXCEPT !.cand = cand(e)], F)
    BY <2>3 DEF Encoded
  <2>5. /\ [j EXCEPT !.cand = cand(e)].pending = j.pending
        /\ [j EXCEPT !.cand = cand(e)].seen = j.seen /\ [j EXCEPT !.cand = cand(e)].seq = j.seq
    BY <2>1 DEF JournalType
  <2>6. F \cap Pinned(j) = {}
    BY <2>4, <2>5 DEF Evictable, Pinned
  <2>7. /\ k.pending = j.pending /\ k.seq = j.seq
        /\ k.seen = [s \in Source |-> IF s \in F THEN None ELSE j.seen[s]]
    BY <2>1, <2>4, <2>5 DEF Forget, JournalType
  <2>8. Remembers(k)
    <3>1. \A s \in Known(k) : s \in Known(j) /\ k.seen[s] = j.seen[s]
      BY <2>7 DEF Known
    <3>2. Pinned(k) = Pinned(j) /\ \A s \in Known(j) : s \notin F => s \in Known(k)
      BY <2>7 DEF Known, Pinned
    <3> QED
      BY <2>1, <2>6, <2>7, <3>1, <3>2 DEF Remembers
  <2>9. view' = view /\ pc' = [pc EXCEPT ![c] = "appending"]
    BY <1>6 DEF SealCandidate, Goto
  <2> QED
    BY <2>3, <2>8, <2>9 DEF TypeInv, TypeOK, MemoryInv
<1>7. CASE AppendCandidate(c)
  BY <1>7 DEF AppendCandidate, Goto, TypeInv, TypeOK, MemoryInv
<1>8. CASE AcknowledgeCandidate(c)
  <2>1. PICK S \in Covered(st[c]) :
          Save(c, [st[c] EXCEPT !.obs = st[c].cand.obs, !.cand = None,
                                !.pending = {e \in @ : e.src \notin S}])
    BY <1>8 DEF AcknowledgeCandidate
  <2> DEFINE j == [st[c] EXCEPT !.obs = st[c].cand.obs, !.cand = None,
                                !.pending = {e \in @ : e.src \notin S}]
  <2>2. j \in JournalType /\ j.pending \subseteq st[c].pending /\ j.seen = st[c].seen /\ j.seq = st[c].seq
    <3>1. st[c].cand.obs \in Observation \cup {None}
      BY <1>1, <1>8 DEF AcknowledgeCandidate, TypeInv, TypeOK, JournalType, Candidate
    <3> QED
      BY <1>1, <3>1 DEF JournalType
  <2>3. PICK k \in Encoded(j) : journal' = k /\ st' = [st EXCEPT ![c] = k]
    BY <2>1 DEF Save
  <2> HIDE DEF j
  <2>4. Remembers(j)
    <3>1. Pinned(j) \subseteq Pinned(st[c]) /\ Known(j) = Known(st[c])
      BY <2>2 DEF Pinned, Known
    <3> QED
      BY <1>1, <2>2, <3>1 DEF Remembers
  <2>5. Remembers(k)
    BY <2>2, <2>3, <2>4, SaveRemembers
  <2>6. view' = view /\ pc' = [pc EXCEPT ![c] = "planning"]
    BY <1>8 DEF AcknowledgeCandidate, Goto
  <2> QED
    BY <2>3, <2>5, <2>6 DEF TypeInv, TypeOK, MemoryInv
<1>9. CASE ReturnPlan(c)
  <2>1. /\ journal' = journal /\ st' = [st EXCEPT ![c] = EmptyJournal]
        /\ pc' = [pc EXCEPT ![c] = "returned"]
        /\ \A e \in Cycle : e # c => view'[e] = view[e]
    BY <1>9 DEF ReturnPlan, Goto, TypeInv, TypeOK
  <2> QED
    BY <1>2, <2>1 DEF TypeInv, TypeOK, MemoryInv
<1>10. CASE Crash(c)
  BY <1>2, <1>10 DEF Crash, End, Goto, TypeInv, TypeOK, MemoryInv
<1> QED
  BY <1>3, <1>4, <1>5, <1>6, <1>7, <1>8, <1>9, <1>10 DEF Step

\* So does pruning and standing still.
LEMMA MemoryStep == TypeInv /\ MemoryInv /\ [Next]_vars => MemoryInv'
<1> SUFFICES ASSUME TypeInv, MemoryInv, [Next]_vars PROVE MemoryInv'
  OBVIOUS
<1>1. ASSUME NEW c \in Cycle, Step(c) \/ Crash(c) PROVE MemoryInv'
  BY <1>1, StepRemembers
<1>2. CASE Prune
  <2>1. PICK G \in SUBSET (Known(journal) \ Pinned(journal)) : journal' = Forget(journal, G)
    BY <1>2 DEF Prune
  <2>2. Remembers(journal')
    BY <2>1, ForgetRemembers, JournalAssumption DEF TypeInv, TypeOK, MemoryInv
  <2> QED
    BY <1>2, <2>2 DEF Prune, MemoryInv
<1>3. CASE UNCHANGED vars
  BY <1>3 DEF vars, MemoryInv
<1> QED
  BY <1>1, <1>2, <1>3 DEF Next

\* A cycle leaves its staging with a changed journal only by saving it.
LEMMA StagedChange ==
  ASSUME TypeInv, [Next]_vars, NEW c \in Cycle,
         journal' # journal, pc[c] = "staged", pc'[c] # "staged"
  PROVE  journal' \in Encoded(st[c])
<1>1. PICK e \in Cycle : Step(e) \/ Crash(e)
  BY DEF Next, Prune, vars
<1>2. e = c
  BY <1>1 DEF Step, ReadJournal, SaveObserved, SaveInsideRound, SealCandidate, AppendCandidate,
     AcknowledgeCandidate, ReturnPlan, Crash, End, Goto, TypeInv, TypeOK
<1> QED
  BY <1>1, <1>2 DEF Step, ReadJournal, SaveObserved, SaveInsideRound, SealCandidate,
     AppendCandidate, AcknowledgeCandidate, ReturnPlan, Crash, Save

\* Saving forgets a reported event only if reported and pending events alone
\* exceed the retention, and never a pending one, for any number of cycles.
THEOREM ReportedIsRememberedHolds == Spec => ReportedIsRemembered
<1>1. Init => TypeInv /\ MemoryInv
  BY TypeInit, MemoryInit
<1>2. TypeInv /\ MemoryInv /\ [Next]_vars => (TypeInv /\ MemoryInv)'
  BY TypeStep, MemoryStep
<1>3. TypeInv /\ MemoryInv /\ [Next]_vars =>
        [\A c \in Cycle : journal' # journal /\ pc[c] = "staged" /\ pc'[c] # "staged" =>
           \A s \in view[c].events \cup (Pinned(journal') \cap Source) :
             \/ s \in Known(journal')
             \/ /\ s \notin Pinned(journal')
                /\ Cardinality(view[c].events \cup (Pinned(journal') \cap Source)) > Retain]_vars
  BY StagedChange, StagedSaveRemembers DEF Wanted
<1> QED
  BY <1>1, <1>2, <1>3, PTL DEF Spec, ReportedIsRemembered

=============================================================================
