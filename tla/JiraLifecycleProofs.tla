------------------------- MODULE JiraLifecycleProofs -------------------------
(***************************************************************************)
(* Proofs about JiraLifecycle: what may be tried again was not sent, a     *)
(* write goes out over proved writes only, and a success is its own.       *)
(***************************************************************************)
EXTENDS JiraLifecycle, SequenceTheorems, TLAPS

-----------------------------------------------------------------------------
(* Types.                                                                  *)

Entry == [from : JiraStatus, to : JiraStatus, by : SUBSET JiraOperation]

LEMMA NowTyped == ASSUME JiraTypeOK PROVE JiraNow \in JiraStatus
<1>1. CASE moves = <<>> BY <1>1, JiraAssumption, Zenon DEF JiraNow
<1>2. CASE moves # <<>>
  <2>1. moves \in Seq(Entry) BY DEF JiraTypeOK, Entry
  <2>2. Len(moves) \in 1..Len(moves) BY <1>2, <2>1, EmptySeq
  <2>3. moves[Len(moves)] \in Entry BY <2>1, <2>2, ElementOfSeq
  <2> QED BY <1>2, <2>3 DEF JiraNow, Entry
<1> QED BY <1>1, <1>2

LEMMA AppendTyped ==
  ASSUME JiraTypeOK, NEW to \in JiraStatus, NEW by \in SUBSET JiraOperation, Moved(to, by)
  PROVE  /\ moves' \in Seq(Entry) /\ Len(moves') = Len(moves) + 1 /\ Len(moves) \in Nat
         /\ \A i \in 1..Len(moves) : moves'[i] = moves[i]
         /\ moves'[Len(moves) + 1].by = by
<1> DEFINE new == [from |-> JiraNow, to |-> to, by |-> by]
<1>1. moves \in Seq(Entry) BY DEF JiraTypeOK, Entry
<1>2. new \in Entry BY NowTyped DEF Entry
<1>3. moves' = Append(moves, new) BY DEF Moved
<1> QED BY <1>1, <1>2, <1>3, AppendProperties

\* Who is past the recovery works on an operation, not on BLOCK.
Busy == \A w \in Writer : step[w] \notin {"idle", "recover", "recovering"} => job[w] \in JiraOperation

LEMMA JobFacts ==
  /\ NoJob \in Job /\ JiraOperation \subseteq Job
  /\ \A j \in Job : EventOf(j) # "BLOCK" => j \in JiraOperation
  /\ \A o \in JiraOperation : ToOf(o) \in JiraStatus
  /\ NoAttempt \notin Nat
<1>1. (CHOOSE r \in WriteRun : TRUE) \in WriteRun BY JiraAssumption
<1> QED BY <1>1, JiraAssumption DEF NoJob, Job, JiraOperation, EventOf, ToOf, NoAttempt

LEMMA JiraTypeInit == JiraInit => JiraTypeOK /\ Busy
BY JobFacts, JiraAssumption DEF JiraInit, JiraTypeOK, Busy, Unproved, Claiming

LEMMA JiraTypeStep == ASSUME JiraTypeOK, Busy, [JiraNext]_jiraVars PROVE JiraTypeOK' /\ Busy'
<1> USE JobFacts DEF JiraTypeOK, Busy, books, provider, Claiming, Unproved, Leave, Go, Enter
<1>1. ASSUME NEW w \in Writer, NEW e \in Event \cup {"BLOCK"}, NEW r \in WriteRun, ReadCurrentStatus(w, e, r)
            PROVE  JiraTypeOK' /\ Busy'
  BY <1>1, NowTyped DEF ReadCurrentStatus, Job
<1>2. ASSUME NEW w \in Writer, Ends(w) PROVE JiraTypeOK' /\ Busy'
  BY <1>2 DEF Ends
<1>3. ASSUME NEW w \in Writer, NothingToRecover(w) PROVE JiraTypeOK' /\ Busy'
  BY <1>3 DEF NothingToRecover, Continue
<1>4. ASSUME NEW w \in Writer, BeginRecovery(w) PROVE JiraTypeOK' /\ Busy'
  <2>1. journal' \in [JiraOperation -> {"absent", "PENDING", "SUCCEEDED", "HELD"} \cup Unproved]
    BY <1>4 DEF BeginRecovery
  <2>2. Unsettled \subseteq JiraOperation BY DEF Unsettled
  <2> QED BY <1>4, <2>1, <2>2 DEF BeginRecovery
<1>5. ASSUME NEW w \in Writer, SettleRecovered(w) PROVE JiraTypeOK' /\ Busy'
  BY <1>5, ZenonT(60) DEF SettleRecovered, Continue
<1>6. ASSUME NEW w \in Writer, PrepareJiraOperation(w) PROVE JiraTypeOK' /\ Busy'
  BY <1>6 DEF PrepareJiraOperation
<1>7. ASSUME NEW w \in Writer, BeginJiraOperation(w) PROVE JiraTypeOK' /\ Busy'
  BY <1>7 DEF BeginJiraOperation
<1>8. ASSUME NEW w \in Writer, OwnIssue(w) PROVE JiraTypeOK' /\ Busy'
  BY <1>8 DEF OwnIssue
<1>9. ASSUME NEW w \in Writer, StopUnattempted(w) PROVE JiraTypeOK' /\ Busy'
  BY <1>9 DEF StopUnattempted
<1>10. ASSUME NEW w \in Writer, NotAttempted(w) PROVE JiraTypeOK' /\ Busy'
  BY <1>10 DEF NotAttempted
<1>11. ASSUME NEW w \in Writer, PrepareTransition(w) PROVE JiraTypeOK' /\ Busy'
  BY <1>11 DEF PrepareTransition
<1>12. ASSUME NEW w \in Writer, Post(w) PROVE JiraTypeOK' /\ Busy'
  BY <1>12 DEF Post
<1>13. ASSUME NEW w \in Writer, FinishWrite(w) PROVE JiraTypeOK' /\ Busy'
  BY <1>13 DEF FinishWrite
<1>14. ASSUME NEW w \in Writer, MarkUnknown(w) PROVE JiraTypeOK' /\ Busy'
  BY <1>14 DEF MarkUnknown
<1>15. ASSUME NEW o \in JiraOperation, ResolveJiraOperation(o) PROVE JiraTypeOK' /\ Busy'
  BY <1>15 DEF ResolveJiraOperation
<1>16. ASSUME NEW o \in JiraOperation, PostMergeConflict(o) PROVE JiraTypeOK' /\ Busy'
  BY <1>16 DEF PostMergeConflict
<1>17. ASSUME NEW o \in JiraOperation, Arrive(o) PROVE JiraTypeOK' /\ Busy'
  BY <1>17, AppendTyped DEF Arrive, Entry
<1>18. ASSUME NEW o \in JiraOperation, GetLost(o) PROVE JiraTypeOK' /\ Busy'
  BY <1>18 DEF GetLost
<1>19. ASSUME NEW s \in JiraStatus, SomeoneMoves(s) PROVE JiraTypeOK' /\ Busy'
  BY <1>19, AppendTyped DEF SomeoneMoves, Entry
<1>20. ASSUME UNCHANGED jiraVars PROVE JiraTypeOK' /\ Busy'
  BY <1>20 DEF jiraVars
<1> QED BY <1>1, <1>2, <1>3, <1>4, <1>5, <1>6, <1>7, <1>8, <1>9, <1>10, <1>11, <1>12, <1>13,
     <1>14, <1>15, <1>16, <1>17, <1>18, <1>19, <1>20 DEF JiraNext
-----------------------------------------------------------------------------
(* Who holds which lock, and which rows a recovery has read.               *)

JobPlaces ==
  /\ \A w \in Writer : step[w] \in Claiming => journal[job[w]] = "IN_FLIGHT"
  /\ \A w, v \in Writer : step[w] \in Claiming /\ step[v] \in Claiming /\ job[w] = job[v] => w = v
  /\ \A w, v \in Writer : step[w] \in Owning /\ step[v] \in Owning => w = v
  /\ \A w \in Writer : \A o \in rows[w] :
       step[w] = "recovering" /\ journal[o] \in Unproved /\ ClaimFree(o)

LEMMA PlacesInit == JiraInit => JobPlaces
BY DEF JiraInit, JobPlaces, Claiming, Owning

LEMMA PlacesStep == ASSUME JiraTypeOK, Busy, JobPlaces, [JiraNext]_jiraVars PROVE JobPlaces'
<1> USE JobFacts DEF JiraTypeOK, Busy, JobPlaces, books, provider, Claiming, Owning, Unproved, ClaimFree,
       IssueFree, Leave, Go, Enter
<1>1. ASSUME NEW w \in Writer, NEW e \in Event \cup {"BLOCK"}, NEW r \in WriteRun, ReadCurrentStatus(w, e, r)
            PROVE  JobPlaces'
  BY <1>1 DEF ReadCurrentStatus
<1>2. ASSUME NEW w \in Writer, Ends(w) PROVE JobPlaces'
  BY <1>2 DEF Ends
<1>3. ASSUME NEW w \in Writer, NothingToRecover(w) PROVE JobPlaces'
  <2>1. CASE Leave(w) BY <1>3, <2>1 DEF NothingToRecover
  <2>2. CASE /\ step' = [step EXCEPT ![w] = "prepare"] /\ rows' = [rows EXCEPT ![w] = {}]
             /\ job' = job
    BY <1>3, <2>2 DEF NothingToRecover
  <2> QED BY <1>3, <2>1, <2>2 DEF NothingToRecover, Continue
<1>4. ASSUME NEW w \in Writer, BeginRecovery(w) PROVE JobPlaces'
  <2>1. \A v \in Writer : step[v] \notin Claiming /\ step[v] \notin Owning
    BY <1>4 DEF BeginRecovery, Unsettled
  <2>2. \A o \in Unsettled : o \in JiraOperation /\ journal'[o] \in Unproved
    BY <1>4 DEF BeginRecovery, Unsettled
  <2>3. \A v \in Writer : step'[v] \notin Claiming /\ (step'[v] \in Owning => v = w)
    BY <1>4, <2>1 DEF BeginRecovery
  <2>4. \A v \in Writer : rows[v] = {}
    BY <2>1
  <2>5. rows' = [rows EXCEPT ![w] = Unsettled]
    BY <1>4 DEF BeginRecovery
  <2> QED BY <1>4, <2>2, <2>3, <2>4, <2>5 DEF BeginRecovery
<1>5. ASSUME NEW w \in Writer, SettleRecovered(w) PROVE JobPlaces'
  <2>1. \A o \in JiraOperation : o \notin rows[w] => journal'[o] = journal[o]
    BY <1>5 DEF SettleRecovered
  <2>2. /\ \A v \in Writer : step'[v] = IF v = w THEN step'[w] ELSE step[v]
        /\ \A v \in Writer : v # w => job'[v] = job[v]
        /\ step'[w] \in {"idle", "prepare"} /\ rows' = [rows EXCEPT ![w] = {}]
    BY <1>5 DEF SettleRecovered, Continue
  <2>3. \A v \in Writer : step'[v] \in Claiming => v # w /\ job[v] \notin rows[w]
    BY <1>5, <2>2 DEF SettleRecovered
  <2>4. \A v \in Writer : rows'[v] = {}
    BY <1>5, <2>2 DEF SettleRecovered
  <2> QED BY <1>5, <2>1, <2>2, <2>3, <2>4
<1>6. ASSUME NEW w \in Writer, PrepareJiraOperation(w) PROVE JobPlaces'
  BY <1>6 DEF PrepareJiraOperation
<1>7. ASSUME NEW w \in Writer, BeginJiraOperation(w) PROVE JobPlaces'
  BY <1>7 DEF BeginJiraOperation
<1>8. ASSUME NEW w \in Writer, OwnIssue(w) PROVE JobPlaces'
  BY <1>8 DEF OwnIssue
<1>9. ASSUME NEW w \in Writer, StopUnattempted(w) PROVE JobPlaces'
  BY <1>9 DEF StopUnattempted
<1>10. ASSUME NEW w \in Writer, NotAttempted(w) PROVE JobPlaces'
  BY <1>10 DEF NotAttempted
<1>11. ASSUME NEW w \in Writer, PrepareTransition(w) PROVE JobPlaces'
  BY <1>11 DEF PrepareTransition
<1>12. ASSUME NEW w \in Writer, Post(w) PROVE JobPlaces'
  BY <1>12 DEF Post
<1>13. ASSUME NEW w \in Writer, FinishWrite(w) PROVE JobPlaces'
  BY <1>13 DEF FinishWrite
<1>14. ASSUME NEW w \in Writer, MarkUnknown(w) PROVE JobPlaces'
  BY <1>14 DEF MarkUnknown
<1>15. ASSUME NEW o \in JiraOperation, ResolveJiraOperation(o) PROVE JobPlaces'
  BY <1>15 DEF ResolveJiraOperation
<1>16. ASSUME NEW o \in JiraOperation, PostMergeConflict(o) PROVE JobPlaces'
  BY <1>16 DEF PostMergeConflict
<1>17. ASSUME NEW o \in JiraOperation, Arrive(o) PROVE JobPlaces'
  BY <1>17 DEF Arrive
<1>18. ASSUME NEW o \in JiraOperation, GetLost(o) PROVE JobPlaces'
  BY <1>18 DEF GetLost
<1>19. ASSUME NEW s \in JiraStatus, SomeoneMoves(s) PROVE JobPlaces'
  BY <1>19 DEF SomeoneMoves
<1>20. ASSUME UNCHANGED jiraVars PROVE JobPlaces'
  BY <1>20 DEF jiraVars
<1> QED BY <1>1, <1>2, <1>3, <1>4, <1>5, <1>6, <1>7, <1>8, <1>9, <1>10, <1>11, <1>12, <1>13,
     <1>14, <1>15, <1>16, <1>17, <1>18, <1>19, <1>20 DEF JiraNext
-----------------------------------------------------------------------------
(* What may be tried again was never sent.                                 *)

Unsent ==
  /\ \A o \in posted : attempt[o] # NoAttempt
  /\ \A o \in JiraOperation : journal[o] \in {"absent", "PENDING"} => attempt[o] = NoAttempt
  /\ \A o \in unattempted : journal[o] \in {"FAILED", "HELD"} /\ attempt[o] = NoAttempt
  /\ \A w \in Writer : step[w] \in {"own", "write"} => attempt[job[w]] = NoAttempt
  /\ \A w \in Writer : step[w] = "post" => job[w] \notin posted /\ attempt[job[w]] # NoAttempt

LEMMA UnsentInit == JiraInit => Unsent
BY DEF JiraInit, Unsent

LEMMA UnsentStep == ASSUME JiraTypeOK, Busy, JobPlaces, Unsent, [JiraNext]_jiraVars PROVE Unsent'
<1> USE JobFacts DEF JiraTypeOK, Busy, JobPlaces, Unsent, books, provider, Claiming, Owning, Unproved,
       Leave, Go, Enter
<1>1. ASSUME NEW w \in Writer, NEW e \in Event \cup {"BLOCK"}, NEW r \in WriteRun, ReadCurrentStatus(w, e, r)
            PROVE  Unsent'
  BY <1>1 DEF ReadCurrentStatus
<1>2. ASSUME NEW w \in Writer, Ends(w) PROVE Unsent'
  BY <1>2 DEF Ends
<1>3. ASSUME NEW w \in Writer, NothingToRecover(w) PROVE Unsent'
  <2>1. UNCHANGED <<journal, unattempted, attempt, posted, underway>>
    BY <1>3 DEF NothingToRecover
  <2>2. \A v \in Writer : step'[v] \in {"own", "write", "post"} => step'[v] = step[v] /\ job'[v] = job[v]
    BY <1>3 DEF NothingToRecover, Continue
  <2> QED BY <2>1, <2>2
<1>4. ASSUME NEW w \in Writer, BeginRecovery(w) PROVE Unsent'
  BY <1>4 DEF BeginRecovery
<1>5. ASSUME NEW w \in Writer, SettleRecovered(w) PROVE Unsent'
  BY <1>5 DEF SettleRecovered, Continue
<1>6. ASSUME NEW w \in Writer, PrepareJiraOperation(w) PROVE Unsent'
  BY <1>6 DEF PrepareJiraOperation
<1>7. ASSUME NEW w \in Writer, BeginJiraOperation(w) PROVE Unsent'
  BY <1>7 DEF BeginJiraOperation
<1>8. ASSUME NEW w \in Writer, OwnIssue(w) PROVE Unsent'
  BY <1>8 DEF OwnIssue
<1>9. ASSUME NEW w \in Writer, StopUnattempted(w) PROVE Unsent'
  BY <1>9 DEF StopUnattempted
<1>10. ASSUME NEW w \in Writer, NotAttempted(w) PROVE Unsent'
  BY <1>10 DEF NotAttempted
<1>11. ASSUME NEW w \in Writer, PrepareTransition(w) PROVE Unsent'
  BY <1>11, LenProperties DEF PrepareTransition
<1>12. ASSUME NEW w \in Writer, Post(w) PROVE Unsent'
  BY <1>12 DEF Post
<1>13. ASSUME NEW w \in Writer, FinishWrite(w) PROVE Unsent'
  BY <1>13 DEF FinishWrite
<1>14. ASSUME NEW w \in Writer, MarkUnknown(w) PROVE Unsent'
  BY <1>14 DEF MarkUnknown
<1>15. ASSUME NEW o \in JiraOperation, ResolveJiraOperation(o) PROVE Unsent'
  BY <1>15 DEF ResolveJiraOperation
<1>16. ASSUME NEW o \in JiraOperation, PostMergeConflict(o) PROVE Unsent'
  BY <1>16 DEF PostMergeConflict
<1>17. ASSUME NEW o \in JiraOperation, Arrive(o) PROVE Unsent'
  BY <1>17 DEF Arrive
<1>18. ASSUME NEW o \in JiraOperation, GetLost(o) PROVE Unsent'
  BY <1>18 DEF GetLost
<1>19. ASSUME NEW s \in JiraStatus, SomeoneMoves(s) PROVE Unsent'
  BY <1>19 DEF SomeoneMoves
<1>20. ASSUME UNCHANGED jiraVars PROVE Unsent'
  BY <1>20 DEF jiraVars
<1> QED BY <1>1, <1>2, <1>3, <1>4, <1>5, <1>6, <1>7, <1>8, <1>9, <1>10, <1>11, <1>12, <1>13,
     <1>14, <1>15, <1>16, <1>17, <1>18, <1>19, <1>20 DEF JiraNext
-----------------------------------------------------------------------------
(* A write goes out when every other attempt is proved or abandoned.       *)

OneWrites ==
  \A w \in Writer : step[w] \in {"post", "answer"} =>
    \A o \in JiraOperation : o # job[w] /\ attempt[o] # NoAttempt => journal[o] \in {"SUCCEEDED", "HELD"}

LEMMA AloneInit == JiraInit => OneWrites
BY DEF JiraInit, OneWrites

LEMMA AloneStep == ASSUME JiraTypeOK, Busy, JobPlaces, Unsent, OneWrites, [JiraNext]_jiraVars PROVE OneWrites'
<1> USE JobFacts DEF JiraTypeOK, Busy, JobPlaces, Unsent, OneWrites, books, provider, Claiming, Owning,
       Unproved, IssueFree, Leave, Go, Enter
<1>1. ASSUME NEW w \in Writer, NEW e \in Event \cup {"BLOCK"}, NEW r \in WriteRun, ReadCurrentStatus(w, e, r)
            PROVE  OneWrites'
  BY <1>1 DEF ReadCurrentStatus
<1>2. ASSUME NEW w \in Writer, Ends(w) PROVE OneWrites'
  BY <1>2 DEF Ends
<1>3. ASSUME NEW w \in Writer, NothingToRecover(w) PROVE OneWrites'
  BY <1>3 DEF NothingToRecover, Continue
<1>4. ASSUME NEW w \in Writer, BeginRecovery(w) PROVE OneWrites'
  BY <1>4 DEF BeginRecovery
<1>5. ASSUME NEW w \in Writer, SettleRecovered(w) PROVE OneWrites'
  BY <1>5 DEF SettleRecovered, Continue
<1>6. ASSUME NEW w \in Writer, PrepareJiraOperation(w) PROVE OneWrites'
  BY <1>6 DEF PrepareJiraOperation
<1>7. ASSUME NEW w \in Writer, BeginJiraOperation(w) PROVE OneWrites'
  BY <1>7 DEF BeginJiraOperation
<1>8. ASSUME NEW w \in Writer, OwnIssue(w) PROVE OneWrites'
  BY <1>8 DEF OwnIssue
<1>9. ASSUME NEW w \in Writer, StopUnattempted(w) PROVE OneWrites'
  BY <1>9 DEF StopUnattempted
<1>10. ASSUME NEW w \in Writer, NotAttempted(w) PROVE OneWrites'
  BY <1>10 DEF NotAttempted
<1>11. ASSUME NEW w \in Writer, PrepareTransition(w) PROVE OneWrites'
  BY <1>11 DEF PrepareTransition, OthersUnsettled, Unsettled
<1>12. ASSUME NEW w \in Writer, Post(w) PROVE OneWrites'
  BY <1>12 DEF Post
<1>13. ASSUME NEW w \in Writer, FinishWrite(w) PROVE OneWrites'
  BY <1>13 DEF FinishWrite
<1>14. ASSUME NEW w \in Writer, MarkUnknown(w) PROVE OneWrites'
  BY <1>14 DEF MarkUnknown
<1>15. ASSUME NEW o \in JiraOperation, ResolveJiraOperation(o) PROVE OneWrites'
  BY <1>15 DEF ResolveJiraOperation
<1>16. ASSUME NEW o \in JiraOperation, PostMergeConflict(o) PROVE OneWrites'
  BY <1>16 DEF PostMergeConflict
<1>17. ASSUME NEW o \in JiraOperation, Arrive(o) PROVE OneWrites'
  BY <1>17 DEF Arrive
<1>18. ASSUME NEW o \in JiraOperation, GetLost(o) PROVE OneWrites'
  BY <1>18 DEF GetLost
<1>19. ASSUME NEW s \in JiraStatus, SomeoneMoves(s) PROVE OneWrites'
  BY <1>19 DEF SomeoneMoves
<1>20. ASSUME UNCHANGED jiraVars PROVE OneWrites'
  BY <1>20 DEF jiraVars
<1> QED BY <1>1, <1>2, <1>3, <1>4, <1>5, <1>6, <1>7, <1>8, <1>9, <1>10, <1>11, <1>12, <1>13,
     <1>14, <1>15, <1>16, <1>17, <1>18, <1>19, <1>20 DEF JiraNext
-----------------------------------------------------------------------------
(* What an attempt finds in the changelog after its boundary is its own.   *)

Landed(o) == \E i \in 1..Len(moves) : moves[i].by = {o}
Window(o) ==
  underway \subseteq {o} /\ \A i \in 1..Len(moves) : i > attempt[o] => moves[i].by \subseteq {o}
NoneHeld == \A o \in JiraOperation : journal[o] # "HELD"

Once ==
  /\ underway \subseteq posted
  /\ \A o \in JiraOperation : Landed(o) => o \in posted /\ o \notin underway

Earned ==
  NoneHeld => \A o \in JiraOperation : /\ journal[o] = "SUCCEEDED" => Landed(o)
                                       /\ attempt[o] # NoAttempt => Landed(o) \/ Window(o)

LEMMA OnceInit == JiraInit => Once /\ Earned
BY DEF JiraInit, Once, Earned, Landed, Window

LEMMA LandedKept == ASSUME UNCHANGED moves, NEW o PROVE Landed(o)' <=> Landed(o)
BY DEF Landed

LEMMA LandedMoved ==
  ASSUME JiraTypeOK, NEW to \in JiraStatus, NEW by \in SUBSET JiraOperation, Moved(to, by), NEW o
  PROVE  Landed(o)' <=> Landed(o) \/ by = {o}
BY AppendTyped DEF Landed

LEMMA OnceStep == ASSUME JiraTypeOK, Busy, Unsent, Once, [JiraNext]_jiraVars PROVE Once'
<1> USE DEF Once, provider
<1>1. ASSUME NEW w \in Writer, NEW e \in Event \cup {"BLOCK"}, NEW r \in WriteRun, ReadCurrentStatus(w, e, r)
            PROVE  Once'
  BY <1>1, LandedKept, Zenon DEF ReadCurrentStatus
<1>2. ASSUME NEW w \in Writer, Ends(w) PROVE Once'
  BY <1>2, LandedKept, Zenon DEF Ends
<1>3. ASSUME NEW w \in Writer, NothingToRecover(w) PROVE Once'
  BY <1>3, LandedKept, Zenon DEF NothingToRecover
<1>4. ASSUME NEW w \in Writer, BeginRecovery(w) PROVE Once'
  BY <1>4, LandedKept, Zenon DEF BeginRecovery
<1>5. ASSUME NEW w \in Writer, SettleRecovered(w) PROVE Once'
  BY <1>5, LandedKept, Zenon DEF SettleRecovered
<1>6. ASSUME NEW w \in Writer, PrepareJiraOperation(w) PROVE Once'
  BY <1>6, LandedKept, Zenon DEF PrepareJiraOperation
<1>7. ASSUME NEW w \in Writer, BeginJiraOperation(w) PROVE Once'
  BY <1>7, LandedKept, Zenon DEF BeginJiraOperation
<1>8. ASSUME NEW w \in Writer, OwnIssue(w) PROVE Once'
  BY <1>8, LandedKept, Zenon DEF OwnIssue
<1>9. ASSUME NEW w \in Writer, StopUnattempted(w) PROVE Once'
  BY <1>9, LandedKept, Zenon DEF StopUnattempted
<1>10. ASSUME NEW w \in Writer, NotAttempted(w) PROVE Once'
  BY <1>10, LandedKept, Zenon DEF NotAttempted
<1>11. ASSUME NEW w \in Writer, PrepareTransition(w) PROVE Once'
  BY <1>11, LandedKept, Zenon DEF PrepareTransition
<1>12. ASSUME NEW w \in Writer, Post(w) PROVE Once'
  BY <1>12, LandedKept DEF Post, Unsent
<1>13. ASSUME NEW w \in Writer, FinishWrite(w) PROVE Once'
  BY <1>13, LandedKept, Zenon DEF FinishWrite
<1>14. ASSUME NEW w \in Writer, MarkUnknown(w) PROVE Once'
  BY <1>14, LandedKept, Zenon DEF MarkUnknown
<1>15. ASSUME NEW o \in JiraOperation, ResolveJiraOperation(o) PROVE Once'
  BY <1>15, LandedKept, Zenon DEF ResolveJiraOperation
<1>16. ASSUME NEW o \in JiraOperation, PostMergeConflict(o) PROVE Once'
  BY <1>16, LandedKept, Zenon DEF PostMergeConflict
<1>17. ASSUME NEW o \in JiraOperation, Arrive(o) PROVE Once'
  BY <1>17, LandedMoved, JobFacts DEF Arrive
<1>18. ASSUME NEW o \in JiraOperation, GetLost(o) PROVE Once'
  BY <1>18, LandedKept, Zenon DEF GetLost
<1>19. ASSUME NEW s \in JiraStatus, SomeoneMoves(s) PROVE Once'
  <2>1. Moved(s, {}) /\ UNCHANGED <<underway, posted>> BY <1>19 DEF SomeoneMoves
  <2>2. ASSUME NEW o \in JiraOperation PROVE Landed(o)' <=> Landed(o)
    <3>1. {} # {o} OBVIOUS
    <3> QED BY <2>1, <3>1, LandedMoved
  <2> QED BY <2>1, <2>2
<1>20. ASSUME UNCHANGED jiraVars PROVE Once'
  BY <1>20, LandedKept, Zenon DEF jiraVars
<1> QED BY <1>1, <1>2, <1>3, <1>4, <1>5, <1>6, <1>7, <1>8, <1>9, <1>10, <1>11, <1>12, <1>13,
     <1>14, <1>15, <1>16, <1>17, <1>18, <1>19, <1>20 DEF JiraNext
\* A proved read-back is the operation's own entry, and no other step makes a success.
LEMMA ProvedIsLanded ==
  ASSUME JiraTypeOK, Earned, NoneHeld, NEW o \in JiraOperation, Proved(o)
  PROVE  Landed(o)
<1>1. /\ attempt[o] # NoAttempt /\ Len(moves) = attempt[o] + 1 /\ moves[Len(moves)].by # {}
      /\ attempt[o] \in Nat
  BY DEF Proved, JiraTypeOK
<1>2. CASE Window(o)
  <2>1. Len(moves) \in 1..Len(moves) /\ Len(moves) > attempt[o] BY <1>1
  <2>2. moves[Len(moves)].by \subseteq {o} BY <1>2, <2>1 DEF Window
  <2>3. moves[Len(moves)].by = {o} BY <1>1, <2>2
  <2> QED BY <2>1, <2>3 DEF Landed
<1> QED BY <1>1, <1>2 DEF Earned

LEMMA EarnedKept ==
  ASSUME JiraTypeOK, Earned, UNCHANGED provider,
         \A o \in JiraOperation : /\ journal[o] = "HELD" => journal'[o] = "HELD"
                                  /\ journal'[o] = "SUCCEEDED" => journal[o] = "SUCCEEDED" \/ Proved(o)
  PROVE  Earned'
<1> SUFFICES ASSUME NoneHeld', NEW o \in JiraOperation
             PROVE  /\ journal'[o] = "SUCCEEDED" => Landed(o)'
                    /\ attempt'[o] # NoAttempt => Landed(o)' \/ Window(o)'
  BY DEF Earned
<1>1. NoneHeld BY DEF NoneHeld
<1>2. (Landed(o)' <=> Landed(o)) /\ (Window(o)' <=> Window(o)) /\ attempt' = attempt
  BY DEF provider, Landed, Window
<1> QED BY <1>1, <1>2, ProvedIsLanded DEF Earned

LEMMA EarnedStep ==
  ASSUME JiraTypeOK, Busy, JobPlaces, Unsent, OneWrites, Once, Earned, [JiraNext]_jiraVars
  PROVE  Earned'
<1> USE JobFacts DEF JiraTypeOK, Busy, JobPlaces, books, Claiming, Owning, Unproved, Leave, Go, Enter
<1>1. ASSUME NEW w \in Writer, NEW e \in Event \cup {"BLOCK"}, NEW r \in WriteRun, ReadCurrentStatus(w, e, r)
            PROVE  Earned'
  BY <1>1, EarnedKept DEF ReadCurrentStatus
<1>2. ASSUME NEW w \in Writer, Ends(w) PROVE Earned'
  BY <1>2, EarnedKept DEF Ends
<1>3. ASSUME NEW w \in Writer, NothingToRecover(w) PROVE Earned'
  BY <1>3, EarnedKept DEF NothingToRecover
<1>4. ASSUME NEW w \in Writer, BeginRecovery(w) PROVE Earned'
  BY <1>4, EarnedKept DEF BeginRecovery
<1>5. ASSUME NEW w \in Writer, SettleRecovered(w) PROVE Earned'
  BY <1>5, EarnedKept DEF SettleRecovered
<1>6. ASSUME NEW w \in Writer, PrepareJiraOperation(w) PROVE Earned'
  BY <1>6, EarnedKept DEF PrepareJiraOperation
<1>7. ASSUME NEW w \in Writer, BeginJiraOperation(w) PROVE Earned'
  BY <1>7, EarnedKept DEF BeginJiraOperation
<1>8. ASSUME NEW w \in Writer, OwnIssue(w) PROVE Earned'
  BY <1>8, EarnedKept DEF OwnIssue
<1>9. ASSUME NEW w \in Writer, StopUnattempted(w) PROVE Earned'
  BY <1>9, EarnedKept DEF StopUnattempted
<1>10. ASSUME NEW w \in Writer, NotAttempted(w) PROVE Earned'
  BY <1>10, EarnedKept DEF NotAttempted
<1>11. ASSUME NEW w \in Writer, PrepareTransition(w) PROVE Earned'
  <2> SUFFICES ASSUME NoneHeld, NEW p \in JiraOperation
               PROVE  /\ journal[p] = "SUCCEEDED" => Landed(p)'
                      /\ attempt'[p] # NoAttempt => Landed(p)' \/ Window(p)'
    BY <1>11 DEF PrepareTransition, Earned, NoneHeld
  <2>1. Landed(p)' <=> Landed(p) BY <1>11, LandedKept DEF PrepareTransition
  <2>2. CASE p # job[w]
    BY <1>11, <2>1, <2>2 DEF PrepareTransition, Earned, Window
  <2>3. CASE p = job[w]
    <3>1. ASSUME NEW q \in underway, q # p PROVE FALSE
      <4>1. q \in JiraOperation /\ attempt[q] # NoAttempt BY <3>1 DEF Once, Unsent
      <4>2. journal[q] = "SUCCEEDED"
        BY <1>11, <2>3, <3>1, <4>1 DEF PrepareTransition, OthersUnsettled, Unsettled, Unsent, NoneHeld
      <4> QED BY <3>1, <4>1, <4>2 DEF Earned, Once
    <3>2. attempt'[p] = Len(moves) /\ moves' = moves /\ underway' = underway
      BY <1>11, <2>3 DEF PrepareTransition
    <3>3. Window(p)' BY <3>1, <3>2, LenProperties DEF Window
    <3> QED BY <2>1, <3>3 DEF Earned
  <2> QED BY <2>2, <2>3
<1>12. ASSUME NEW w \in Writer, Post(w) PROVE Earned'
  <2> SUFFICES ASSUME NoneHeld, NEW p \in JiraOperation
               PROVE  /\ journal[p] = "SUCCEEDED" => Landed(p)'
                      /\ attempt'[p] # NoAttempt => Landed(p)' \/ Window(p)'
    BY <1>12 DEF Post, Earned, NoneHeld
  <2>1. Landed(p)' <=> Landed(p) BY <1>12, LandedKept DEF Post
  <2>2. CASE p # job[w] BY <1>12, <2>1, <2>2 DEF Post, Earned, OneWrites, NoneHeld
  <2>3. CASE p = job[w] BY <1>12, <2>1, <2>3 DEF Post, Earned, Window
  <2> QED BY <2>2, <2>3
<1>13. ASSUME NEW w \in Writer, FinishWrite(w) PROVE Earned'
  BY <1>13, EarnedKept DEF FinishWrite
<1>14. ASSUME NEW w \in Writer, MarkUnknown(w) PROVE Earned'
  BY <1>14, EarnedKept DEF MarkUnknown
<1>15. ASSUME NEW o \in JiraOperation, ResolveJiraOperation(o) PROVE Earned'
  BY <1>15 DEF ResolveJiraOperation, Earned, NoneHeld
<1>16. ASSUME NEW o \in JiraOperation, PostMergeConflict(o) PROVE Earned'
  BY <1>16, EarnedKept DEF PostMergeConflict
<1>17. ASSUME NEW o \in JiraOperation, Arrive(o) PROVE Earned'
  <2> SUFFICES ASSUME NoneHeld, NEW p \in JiraOperation
               PROVE  /\ journal[p] = "SUCCEEDED" => Landed(p)'
                      /\ attempt'[p] # NoAttempt => Landed(p)' \/ Window(p)'
    BY <1>17 DEF Arrive, Earned, NoneHeld
  <2>1. Landed(p)' <=> Landed(p) \/ {o} = {p}
    <3>1. Moved(ToOf(o), {o}) BY <1>17 DEF Arrive
    <3>2. ToOf(o) \in JiraStatus /\ {o} \in SUBSET JiraOperation OBVIOUS
    <3> QED BY <3>1, <3>2, LandedMoved
  <2>2. attempt' = attempt /\ (Window(p) => o = p) BY <1>17 DEF Arrive, Window
  <2> QED BY <2>1, <2>2 DEF Earned
<1>18. ASSUME NEW o \in JiraOperation, GetLost(o) PROVE Earned'
  <2> SUFFICES ASSUME NoneHeld, NEW p \in JiraOperation
               PROVE  /\ journal[p] = "SUCCEEDED" => Landed(p)'
                      /\ attempt'[p] # NoAttempt => Landed(p)' \/ Window(p)'
    BY <1>18 DEF GetLost, Earned, NoneHeld
  <2>1. (Landed(p)' <=> Landed(p)) /\ attempt' = attempt BY <1>18, LandedKept DEF GetLost
  <2>2. Window(p) => Window(p)' BY <1>18 DEF GetLost, Window
  <2> QED BY <2>1, <2>2 DEF Earned
<1>19. ASSUME NEW s \in JiraStatus, SomeoneMoves(s) PROVE Earned'
  <2> SUFFICES ASSUME NoneHeld, NEW p \in JiraOperation
               PROVE  /\ journal[p] = "SUCCEEDED" => Landed(p)'
                      /\ attempt'[p] # NoAttempt => Landed(p)' \/ Window(p)'
    BY <1>19 DEF SomeoneMoves, Earned, NoneHeld
  <2>1. Moved(s, {}) /\ attempt' = attempt /\ underway' = underway BY <1>19 DEF SomeoneMoves
  <2>2. Landed(p)' <=> Landed(p)
    <3>1. {} # {p} OBVIOUS
    <3> QED BY <2>1, <3>1, LandedMoved
  <2>3. Window(p) => Window(p)' BY <2>1, AppendTyped DEF Window
  <2> QED BY <2>1, <2>2, <2>3 DEF Earned
<1>20. ASSUME UNCHANGED jiraVars PROVE Earned'
  BY <1>20, EarnedKept DEF jiraVars, provider
<1> QED BY <1>1, <1>2, <1>3, <1>4, <1>5, <1>6, <1>7, <1>8, <1>9, <1>10, <1>11, <1>12, <1>13,
     <1>14, <1>15, <1>16, <1>17, <1>18, <1>19, <1>20 DEF JiraNext
-----------------------------------------------------------------------------
(* The theorems.                                                           *)

JiraInv == JiraTypeOK /\ Busy /\ JobPlaces /\ Unsent /\ OneWrites /\ Once /\ Earned

LEMMA JiraInvHolds == JiraSpec => []JiraInv
<1>1. JiraInit => JiraInv
  BY JiraTypeInit, PlacesInit, UnsentInit, AloneInit, OnceInit DEF JiraInv
<1>2. JiraInv /\ [JiraNext]_jiraVars => JiraInv'
  BY JiraTypeStep, PlacesStep, UnsentStep, AloneStep, OnceStep, EarnedStep, Zenon DEF JiraInv
<1> QED BY <1>1, <1>2, PTL DEF JiraSpec

\* The journal, the locks and the changelog stay of their types, for any writers, events and
\* statuses (production_jira_lifecycle).
THEOREM JiraTypeCorrect == JiraSpec => []JiraTypeOK
<1>1. JiraInv => JiraTypeOK BY DEF JiraInv
<1> QED BY <1>1, JiraInvHolds, PTL

\* An intent that can be claimed again, or that BLOCK can resume, has neither a boundary
\* file nor a request (_stop_unattempted_jira, _recover_jira_ticket).
THEOREM ResumableIsUnsentHolds == JiraSpec => []ResumableIsUnsent
<1>1. JiraInv => ResumableIsUnsent BY DEF JiraInv, Unsent, ResumableIsUnsent
<1> QED BY <1>1, JiraInvHolds, PTL

\* Whichever process takes over from whichever other, a request goes out for a claimed
\* operation and only over proved or abandoned ones (the claim and issue locks).
THEOREM NoWriteOverUncertaintyHolds == JiraSpec => NoWriteOverUncertainty
<1> DEFINE Sent == \A o \in posted' \ posted :
                      /\ journal[o] = "IN_FLIGHT"
                      /\ \A p \in posted : journal[p] \in {"SUCCEEDED", "HELD"}
<1>1. ASSUME JiraInv, NEW w \in Writer, Post(w) PROVE Sent
  <2>1. posted' = posted \cup {job[w]} /\ step[w] = "post" BY <1>1 DEF Post
  <2>2. journal[job[w]] = "IN_FLIGHT" BY <1>1, <2>1 DEF JiraInv, JobPlaces, Claiming
  <2>3. ASSUME NEW p \in posted, p # job[w] PROVE journal[p] \in {"SUCCEEDED", "HELD"}
    BY <1>1, <2>1, <2>3 DEF JiraInv, JiraTypeOK, Unsent, OneWrites
  <2> QED BY <2>1, <2>2, <2>3
<1>2. JiraInv /\ [JiraNext]_jiraVars => [Sent]_jiraVars
  <2>1. ASSUME [JiraNext]_jiraVars PROVE posted' = posted \/ \E w \in Writer : Post(w)
    BY <2>1 DEF JiraNext, jiraVars, provider, books, ReadCurrentStatus, Ends, NothingToRecover,
         BeginRecovery,
         SettleRecovered, PrepareJiraOperation, BeginJiraOperation, OwnIssue, StopUnattempted, NotAttempted,
         PrepareTransition, FinishWrite, MarkUnknown, ResolveJiraOperation, PostMergeConflict, Arrive,
         GetLost, SomeoneMoves
  <2> QED BY <1>1, <2>1
<1> QED BY <1>2, JiraInvHolds, PTL DEF JiraSpec, NoWriteOverUncertainty

\* Without an abandoned operation every counted success is in the changelog because of its
\* own request (read_transition, jira_transition_actor).
THEOREM SuccessIsItsOwnHolds == JiraSpec => []SuccessIsItsOwn
<1>1. JiraInv => SuccessIsItsOwn BY DEF JiraInv, Earned, NoneHeld, Landed, SuccessIsItsOwn
<1> QED BY <1>1, JiraInvHolds, PTL
=============================================================================
