--------------------------- MODULE MCCoordinator ---------------------------
EXTENDS CoordinatorStore, TicketLifecycle, OverlapSync, JiraLifecycle, TLC

CONSTANTS t1, t2, o1, o2, workers, tool, p1, p2, r1, r2, g1, g2, s1, s2, b1, b2, b3, k1, k2,
          c1, c2, h1, h2, m1, m2, w1, w2, begin, done, todo, doing, closed

VARIABLE table   \* the table this behaviour works on, next to the controls

MCTask == {t1, t2}
MCOwner == {o1, o2}
MCClass == {workers, tool}
MCDemand == (t1 :> {tool}) @@ (t2 :> {workers, tool})
MCLimit == (workers :> 1) @@ (tool :> 1)
MCOperation == {p1, p2}
MCRequest == {r1, r2}
MCGate == {g1, g2}
MCSourceEvent == {s1, s2}
MCRun == {b1, b2, b3}
MCTicket == {k1, k2}
MCCost == {0, 1, 2}
MCCaller == {c1, c2}
MCCommit == {h1, h2}
MCController == {m1, m2}
MCWriter == {w1, w2}
MCEvent == {begin, done}
MCJiraStatus == {todo, doing, closed}
MCTarget == (begin :> doing) @@ (done :> closed)

\* Revisions are bounded, so behaviours also start further on: with a candidate under
\* final review, or with its gate passed.
Further ==
  /\ revision = 0 /\ head \in Commit /\ known = head
  /\ \/ state = "FINAL_REVIEW" /\ gate = NoCommit
     \/ state = "READY_FOR_OWNER_AUTHORIZATION" /\ gate = head
  /\ granted = NoCommit /\ permit = "none" /\ merged = "no"
  /\ seen = [c \in Caller |-> {}]

\* An allowance has run out, with both lanes at work under it or with none.
AtExpiry(busy) ==
  /\ allowance = "ACTIVE" /\ lapsed = TRUE /\ syncGate = "none"
  /\ syncRecord = "none" /\ wire = 0 /\ sent = 0 /\ landed = 0 /\ branch = Approved
  /\ launch = [d \in Lane |-> IF d \in busy THEN "LAUNCHED" ELSE "none"]
  /\ session = [d \in Lane |-> IF d \in busy THEN "live" ELSE "none"]
  /\ shown = [s \in Side |-> IF busy = {} THEN NoRow ELSE [state |-> "WORKING", head |-> 0]]
  /\ waived = busy /\ bound = busy
  /\ at = [c \in Controller |-> "idle"] /\ local = [c \in Controller |-> Idle]
  /\ overlapped = FALSE

\* The tables of the store meet only where a generation ends, and the tickets, the overlap
\* gates and the Jira journal not even there, so each behaviour fills one of them, next to
\* the controls and one budget reservation.
MCTable == {"leases", "operations", "requests", "budgets", "claims"}

MCInit == /\ StoreInit /\ (TicketInit \/ Further)
          /\ JiraInit
          /\ table \in MCTable \cup {"tickets", "lanes", "writers", "jira"}
          /\ \/ table = "writers" /\ AtExpiry({})
             \/ table = "lanes" /\ AtExpiry(Side \X {0})
             \/ table # "writers" /\ SyncInit
          /\ table # "tickets" => state = "BACKLOG" /\ head = h1

MCStoreNext ==
  /\ StoreNext
  /\ table # "leases" => leases' = leases
  /\ table # "operations" => operation' = operation
  /\ table # "requests" => request' = request
  /\ table # "claims" => claim' = claim
  /\ table \in {"leases", "claims"} => reservation' = reservation
  /\ table # "budgets" => \A b \in Reserved' : b = b1 /\ reservation'[b].ticket = k1 /\ reservation'[b].cost = 1
                        /\ reservation'[b].day = 0
  /\ table = "operations" => clock' = clock

\* A gate with the lanes it holds back, under one controller, where only the
\* synchronisation moves a branch; or with two controllers and with pushes, where
\* no lane is started.
MCSyncNext ==
  /\ SyncNext
  /\ table = "lanes" => at'[m2] = at[m2] /\ (branch' = branch \/ landed' # landed)
  /\ table = "writers" => /\ \A s \in Side : shown'[s].state # "WORKING"
                          /\ \A c \in Controller : at[c] = "request" => ~local'[c].blocked

\* At the last revision nobody reads any more: nothing could be advanced from it.
MCTicketNext == TicketNext /\ (revision = MaxRevision => seen' = seen)

\* Work begins on a new or a reopened ticket and is done from there, and somebody else
\* moves the ticket once.
MCJiraNext ==
  /\ JiraNext
  /\ \A i, j \in DOMAIN moves' : moves'[i].by = {} /\ moves'[j].by = {} => i = j
  /\ \A w \in Writer : EventOf(job'[w]) = begin => FromOf(job'[w]) # doing
  /\ \A w \in Writer : EventOf(job'[w]) = done => FromOf(job'[w]) = doing

MCNext ==
  /\ \/ table \in MCTable /\ MCStoreNext /\ UNCHANGED <<ticketVars, syncVars, jiraVars>>
     \/ table = "tickets" /\ MCTicketNext /\ UNCHANGED <<storeVars, syncVars, jiraVars>>
     \/ table \in {"lanes", "writers"} /\ MCSyncNext /\ UNCHANGED <<storeVars, ticketVars, jiraVars>>
     \/ table = "jira" /\ MCJiraNext /\ UNCHANGED <<storeVars, ticketVars, syncVars>>
  /\ table' = table

MCSpec == MCInit /\ [][MCNext]_<<storeVars, ticketVars, syncVars, jiraVars, table>>

\* Every table keeps its shape, whichever of them a behaviour fills.
CoordinatorTypeOK == StoreTypeOK /\ TicketTypeOK /\ OverlapTypeOK /\ JiraTypeOK

\* Owners are interchangeable, and so are callers and Jira writers.
MCSymmetry == Permutations(MCOwner) \cup Permutations(MCCaller) \cup Permutations(MCWriter)
=============================================================================
