-------------------------- MODULE PlanningJournal ---------------------------
(***************************************************************************)
(* The planning journal of the continuous controller                       *)
(* (plan_production_cycle): one JSON document in the controller database   *)
(* and the append-only plan history in the coordinator database.           *)
(*                                                                         *)
(* A cycle reads the journal into memory, stages the provider's events and *)
(* its own observation of the inputs, and saves.  At a round boundary it   *)
(* then finishes a candidate plan that an earlier cycle left behind, plans *)
(* what is pending, one trigger at a time, and returns the newest plan.    *)
(* Each save, each append and each read of the history is a transaction of *)
(* its own; the cycle may crash between any two.  The read of the journal  *)
(* is outside the transaction that saves it.                               *)
(*                                                                         *)
(* Data abstraction.  Everything the input fingerprint covers but the      *)
(* owner chain is one Input.  A queue of events is a set with positions;   *)
(* events staged by one cycle share a position, their batch order being    *)
(* the provider's choice.                                                  *)
(***************************************************************************)
EXTENDS Integers, FiniteSets, Sequences

CONSTANTS
  Cycle,       \* controller processes
  Input,       \* authenticated inputs: backlog, configuration, resources, ...
  Source,      \* source identities of provider events
  Trigger,     \* Trigger[s]: the trigger of event s
  Override,    \* Override[s]: the owner chain event s carries, << >> for none
  Window,      \* PRODUCTION_PLANNING_MAX_EVENTS
  Retain,      \* PRODUCTION_PLANNING_SEEN_RETENTION
  MinTick,     \* least advance of the host clock from one cycle to the next
  MaxClock,    \* bound on the host clock
  MaxCycles,   \* bound on the saved cycle sequence
  None         \* no candidate, no observation, no plan

\* RECOMPUTE_TRIGGERS
TriggerName == {"project_start", "intake", "pr_merged", "files_changed", "ticket_added",
                "ticket_closed", "override_changed", "round_ended"}

Chain == {<< >>} \cup {Override[s] : s \in Source}

\* What the input fingerprint identifies, and the event identity derived from it.
Observation == [inp : Input, chain : Chain]
Id == Source \cup Observation

Plan == [of : Observation, trigger : TriggerName, at : 0..MaxClock]

Event == [src : Id, trigger : TriggerName, pos : Nat]

\* Without an observation: a candidate of the earlier format.
Candidate == [plan : Plan, obs : Observation \cup {None}, srcs : SUBSET Id]

ASSUME JournalAssumption ==
  /\ Trigger \in [Source -> TriggerName]
  /\ \A s \in Source : Override[s] # << >> => Trigger[s] = "override_changed"
  /\ \A h \in Chain : h \in Seq(Nat)
  /\ Window \in Nat /\ Retain \in Nat /\ Window <= Retain
  /\ MinTick \in Nat /\ MaxClock \in Nat /\ MaxCycles \in Nat
  /\ None \notin Observation \cup Candidate \cup Nat
  /\ Source \cap Observation = {} /\ IsFiniteSet(Source)

VARIABLES
  journal,   \* controller_meta.production_planning
  history,   \* planning_history of the coordinator database
  clock,     \* the host clock
  pc,        \* control of each cycle
  st,        \* the journal as each cycle holds it in memory
  view       \* what each cycle observed, and the plan it returned

vars == <<journal, history, clock, pc, st, view>>

-----------------------------------------------------------------------------
(* The journal.                                                            *)

EmptyJournal == [seq |-> 0, pending |-> {}, seen |-> [s \in Source |-> None], chain |-> << >>,
                 cand |-> None, obs |-> None]

Pinned(j) == {e.src : e \in j.pending}

\* The sources the journal remembers; seen[s] is the age of the memory.
Known(j) == {s \in Source : j.seen[s] # None}

MEvictable(j) ==
  LET excess == Cardinality(Known(j)) - Retain
  IN {F \in SUBSET Known(j) :
        Cardinality(F) = IF excess <= 0 THEN 0 ELSE excess}

\* The oldest unpinned sources beyond the retention (sources of one age in any order).
Evictable(j) ==
  LET free == Known(j) \ Pinned(j)
      excess == Cardinality(Known(j)) - Retain
  IN {F \in SUBSET free :
        /\ IF excess <= 0 THEN F = {}
           ELSE IF excess <= Cardinality(free) THEN Cardinality(F) = excess ELSE F = free
        /\ \A s \in F, r \in free \ F : j.seen[s] <= j.seen[r]}

Forget(j, F) == [j EXCEPT !.seen = [s \in Source |-> IF s \in F THEN None ELSE j.seen[s]]]

\* What _encode_production_planning makes of j.  An encoding beyond the byte
\* ceiling is refused, which ends the cycle (Crash).
Encoded(j) == {Forget(j, F) : F \in Evictable(j)}

\* _save_production_planning replaces the document with the cycle's own.
Save(c, j) ==
  \E k \in Encoded(j) : journal' = k /\ st' = [st EXCEPT ![c] = k]

\* The chain new continues the chain old.
Extends(new, old) == Len(new) > Len(old) /\ \A k \in 1..Len(old) : new[k] = old[k]

Fresh(j, E) == E \ Known(j)
Owners(j, E) == {s \in Fresh(j, E) : Override[s] # << >>}

MContinues(j, E) ==
  \A s, r \in Owners(j, E) :
    s # r => Extends(Override[s], Override[r]) \/ Extends(Override[r], Override[s])

\* The batch carries owner chains in some order in which each continues the
\* chain before it, from the chain of the journal on.
Continues(j, E) ==
  /\ \A s \in Owners(j, E) : Extends(Override[s], j.chain)
  /\ \A s, r \in Owners(j, E) :
       s # r => Extends(Override[s], Override[r]) \/ Extends(Override[r], Override[s])

\* The chain after the batch: the last one it carries.
Latest(j, E) ==
  IF Owners(j, E) = {} THEN {j.chain}
  ELSE {h \in {Override[s] : s \in Owners(j, E)} :
          \A s \in Owners(j, E) : Len(Override[s]) <= Len(h)}

MDerive(j, seen, trigger) ==
  IF j.obs = None /\ j.pending = {}
  THEN [j EXCEPT !.pending = {[src |-> seen, trigger |-> trigger, pos |-> j.seq]}]
  ELSE j

MRederive(j, seen, trigger) ==
  IF j.pending = {}
  THEN [j EXCEPT !.pending = {[src |-> seen, trigger |-> trigger, pos |-> j.seq]}]
  ELSE j

\* A change of the inputs is an event only if nothing else is pending.
Derive(j, seen, trigger) ==
  IF j.obs # seen /\ j.pending = {}
  THEN [j EXCEPT !.pending = {[src |-> seen, trigger |-> trigger, pos |-> j.seq]}]
  ELSE j

Stage(j, seen, E) ==
  LET staged ==
        [seq |-> j.seq + 1, chain |-> seen.chain, cand |-> j.cand, obs |-> j.obs,
         seen |-> [s \in Source |-> IF s \in E THEN j.seq + 1 ELSE j.seen[s]],
         pending |-> j.pending \cup
           {[src |-> s, trigger |-> Trigger[s], pos |-> j.seq + 1] : s \in Fresh(j, E)}]
  IN Derive(staged, seen, IF j.obs = None THEN "project_start" ELSE "files_changed")

Heads(j) == {e \in j.pending : \A f \in j.pending : e.pos <= f.pos}

MCovered(j) == {{e.src} : e \in Heads(j)}

\* The sources a candidate covers; a legacy candidate, which has no
\* observation, covers the head of the queue.
Covered(j) ==
  IF j.cand.obs = None THEN {{e.src} : e \in Heads(j)} ELSE {j.cand.srcs}

Recorded == {history[k] : k \in DOMAIN history}

-----------------------------------------------------------------------------
(* One cycle.                                                              *)

NoView == [of |-> None, at |-> 0, events |-> {}, plan |-> None]

Goto(c, label) == pc' = [pc EXCEPT ![c] = label]

\* The cycle is over without a plan and forgets what it held.
End(c) ==
  /\ Goto(c, "idle")
  /\ st' = [st EXCEPT ![c] = EmptyJournal]
  /\ view' = [view EXCEPT ![c] = NoView]

\* production_planning_state, then staging in memory.  Changed bytes, too
\* many events and a chain that does not continue are refused before any save.
ReadJournal(c) ==
  /\ pc[c] \in {"idle", "returned"}
  /\ journal.seq < MaxCycles
  /\ clock' \in {t \in 0..MaxClock : clock + MinTick <= t /\ t <= clock + 1}
  /\ \E inp \in Input, E \in SUBSET Source :
       /\ Cardinality(E) <= Window
       /\ Continues(journal, E)
       /\ \E chain \in Latest(journal, E) :
            LET seen == [inp |-> inp, chain |-> chain] IN
            /\ st' = [st EXCEPT ![c] = Stage(journal, seen, E)]
            /\ view' = [view EXCEPT ![c] =
                          [of |-> seen, at |-> clock', events |-> E, plan |-> None]]
  /\ Goto(c, "staged")
  /\ UNCHANGED <<journal, history>>

\* Only a retained candidate is finished first.
MAfterSave(j) == "appending"
AfterSave(j) == IF j.cand # None THEN "appending" ELSE "planning"

SaveObserved(c) ==
  /\ pc[c] = "staged"
  /\ Save(c, st[c])
  /\ Goto(c, AfterSave(st[c]))
  /\ UNCHANGED <<history, clock, view>>

\* Away from a round boundary the cycle journals what it saw and returns no plan.
SaveInsideRound(c) ==
  /\ pc[c] = "staged"
  /\ journal' \in Encoded(st[c])
  /\ End(c)
  /\ UNCHANGED <<history, clock>>

\* recompute_plan for the trigger at the head of the queue covers every
\* pending event of that trigger, and the candidate is saved before it is used.
SealCandidate(c) ==
  LET j == Derive(st[c], view[c].of, "files_changed") IN
  /\ pc[c] = "planning"
  /\ \E e \in Heads(j) :
       Save(c, [j EXCEPT !.cand =
         [plan |-> [of |-> view[c].of, trigger |-> e.trigger, at |-> view[c].at],
          obs |-> view[c].of,
          srcs |-> {f.src : f \in {g \in j.pending : g.trigger = e.trigger}}]])
  /\ Goto(c, "appending")
  /\ UNCHANGED <<history, clock, view>>

\* append_plan_record, unless the history holds this very plan.  A history
\* that changed between the two is a refusal (Crash).
AppendCandidate(c) ==
  LET p == st[c].cand.plan IN
  /\ pc[c] = "appending"
  /\ history' = IF p \in Recorded THEN history ELSE Append(history, p)
  /\ Goto(c, "appended")
  /\ UNCHANGED <<journal, clock, st, view>>

AcknowledgeCandidate(c) ==
  /\ pc[c] = "appended"
  /\ \E S \in Covered(st[c]) :
       Save(c, [st[c] EXCEPT !.obs = st[c].cand.obs, !.cand = None,
                             !.pending = {e \in @ : e.src \notin S}])
  /\ Goto(c, "planning")
  /\ UNCHANGED <<history, clock, view>>

\* current_plan
ReturnPlan(c) ==
  /\ pc[c] = "planning"
  /\ Derive(st[c], view[c].of, "files_changed").pending = {}
  /\ history # << >>
  /\ view' = [view EXCEPT ![c].plan = history[Len(history)]]
  /\ st' = [st EXCEPT ![c] = EmptyJournal]
  /\ Goto(c, "returned")
  /\ UNCHANGED <<journal, history, clock>>

-----------------------------------------------------------------------------
(* The environment.                                                        *)

\* The process dies, or any refusal in the middle ends the cycle.
Crash(c) ==
  /\ pc[c] \notin {"idle", "returned"}
  /\ End(c)
  /\ UNCHANGED <<journal, history, clock>>

\* prune_production_planning_state, by an operator who stopped the cycles:
\* named sources, the excess, and whatever the byte ceiling asks for beyond it.
Prune ==
  /\ \A c \in Cycle : pc[c] \in {"idle", "returned"}
  /\ \E G \in SUBSET (Known(journal) \ Pinned(journal)) :
       journal' = Forget(journal, G)
  /\ UNCHANGED <<history, clock, pc, st, view>>

-----------------------------------------------------------------------------
(* A new store, or one whose earlier format holds a candidate without      *)
(* observation and sources, recorded or not yet.                           *)

LegacyJournal(s, p) ==
  [seq |-> 0, chain |-> << >>, obs |-> None,
   pending |-> {[src |-> s, trigger |-> Trigger[s], pos |-> 0]},
   seen |-> [r \in Source |-> IF r = s THEN 0 ELSE None],
   cand |-> [plan |-> p, obs |-> None, srcs |-> {}]]

Init ==
  /\ \/ journal = EmptyJournal /\ history = << >>
     \/ \E s \in {r \in Source : Override[r] = << >>}, inp \in Input :
          LET p == [of |-> [inp |-> inp, chain |-> << >>], trigger |-> Trigger[s], at |-> 0]
          IN journal = LegacyJournal(s, p) /\ history \in {<< >>, <<p>>}
  /\ clock = 0
  /\ pc = [c \in Cycle |-> "idle"]
  /\ st = [c \in Cycle |-> EmptyJournal]
  /\ view = [c \in Cycle |-> NoView]

Step(c) ==
  \/ ReadJournal(c)
  \/ SaveObserved(c)
  \/ SaveInsideRound(c)
  \/ SealCandidate(c)
  \/ AppendCandidate(c)
  \/ AcknowledgeCandidate(c)
  \/ ReturnPlan(c)

Next == (\E c \in Cycle : Step(c) \/ Crash(c)) \/ Prune

Spec == Init /\ [][Next]_vars

\* A cycle that does not crash goes on.
FairSpec == Spec /\ \A c \in Cycle : WF_vars(Step(c))

-----------------------------------------------------------------------------
(* Properties.                                                             *)

JournalType ==
  [seq : Nat, pending : SUBSET Event, seen : [Source -> Nat \cup {None}],
   chain : Chain, cand : Candidate \cup {None}, obs : Observation \cup {None}]

\* The stored document and each cycle's copy are well formed, the history
\* holds plan records, and a cycle with a candidate to append has one.
TypeOK ==
  /\ journal \in JournalType
  /\ history \in Seq(Plan)
  /\ clock \in 0..MaxClock
  /\ pc \in [Cycle -> {"idle", "staged", "planning", "appending", "appended", "returned"}]
  /\ st \in [Cycle -> JournalType]
  /\ \A c \in Cycle : pc[c] \in {"appending", "appended"} => st[c].cand # None
  /\ view \in [Cycle -> [of : Observation \cup {None}, at : 0..MaxClock,
                         events : SUBSET Source, plan : Plan \cup {None}]]

\* Accepted events no recorded plan covers: once its plan is in the history a
\* candidate has covered its sources, acknowledged or not.
Due == Pinned(journal) \
         (IF journal.cand # None /\ journal.cand.plan \in Recorded
          THEN UNION Covered(journal) ELSE {})

\* A cycle is given a plan made of exactly the inputs it has read and
\* authenticated, and only when every accepted event is planned ("Append
\* their plan before returning anything for admission").
PlanIsCurrent ==
  \A c \in Cycle : pc[c] = "returned" => view[c].plan.of = view[c].of /\ Due = {}

\* The owner's chain never rolls back from one recorded plan to a later one
\* (the refusal "Planning owner chain replay or rollback").
OwnerChainGrows ==
  \A k \in DOMAIN history, l \in DOMAIN history :
    k < l => LET old == history[k].of.chain  new == history[l].of.chain
             IN new = old \/ Extends(new, old)

\* Saving forgets a reported event, which would be planned again when it is
\* reported again, only if reported and pending events alone exceed the
\* retention; a pending event is never forgotten.
ReportedIsRemembered ==
  [][\A c \in Cycle : journal' # journal /\ pc[c] = "staged" /\ pc'[c] # "staged" =>
       \A s \in view[c].events \cup (Pinned(journal') \cap Source) :
         \/ s \in Known(journal')
         \/ /\ s \notin Pinned(journal')
            /\ Cardinality(view[c].events \cup (Pinned(journal') \cap Source)) > Retain]_vars

\* The planning loop of a cycle ends: every round of it takes events off the
\* queue and nothing puts any back.
PlanningEnds == \A c \in Cycle : pc[c] = "planning" ~> pc[c] \in {"returned", "idle"}

\* The journal implements the ledger: an accepted event stays due through
\* every crash until the one append of a plan that covers it.
Ledger == INSTANCE PlanLedger WITH due <- Due, log <- history
ImplementsPlanLedger == Ledger!Spec

=============================================================================
