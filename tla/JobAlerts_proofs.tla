-------------------------- MODULE JobAlerts_proofs --------------------------
(***************************************************************************)
(* Theorems about JobAlerts: the limit of saved searches, and what a       *)
(* digest run reaches and tells.                                           *)
(***************************************************************************)
EXTENDS JobAlerts, FiniteSetTheorems, TLAPS

-----------------------------------------------------------------------------
(* The inductive invariants.                                               *)

(* Requests of a user that have counted and are still to insert.           *)
Counted(u) == {q \in Requests : request[q].pc = "counted" /\ request[q].user = u}

(* A user's rows and inserts on their way together stay under the limit,   *)
(* but for the requests that counted before.                               *)
LimitInv ==
  /\ \A s \in Ids : owner[s] # None => s \in spent
  /\ \A u \in Users :
       Cardinality(OwnedBy(u)) + Cardinality(Counted(u)) + 1
         <= Limit + Cardinality(Requests)

(* What has been tried lies behind the cursor or within the batch, what is *)
(* still to be tried within the batch or ahead of it.                      *)
WalkInv ==
  /\ whole \subseteq Saved
  /\ run.pc # "batch" => \A w \in Workers : worker[w] = Idle
  /\ run.pc = "fetch" =>
       IF run.cursor = None THEN tried = {}
       ELSE /\ \A s \in tried : s <= run.cursor
            /\ \A s \in whole : s \in tried \/ s > run.cursor
  /\ run.pc = "batch" =>
       /\ run.todo \cap tried = {}
       /\ \A s \in tried \cup run.todo : s <= run.last
       /\ \A s \in whole : s \in tried \/ s \in run.todo \/ s > run.last

(* A worker that will still tell its search of the job.                    *)
WillTell(w, s, j) ==
  /\ worker[w] # Idle /\ worker[w].search = s
  /\ worker[w].pc \in {"listed", "found"} => j \in worker[w].list
  /\ worker[w].pc \in {"counted", "found"} => worker[w].any

(* What is owed of jobs that are open, to searches that are there.         *)
OwedIsOpen ==
  /\ started <= now
  /\ \A j \in Jobs : jobs[j].at <= now /\ (jobs[j].open => jobs[j].at # 0)
  /\ \A s \in Ids : \A j \in owed[s] : s \in Saved /\ jobs[j].open

RunIsLatest == run # Off => run.at = started /\ run.since = run.at - Day

(* What is owed is recent enough for the run underway or the next one.     *)
OwedIsRecent ==
  \A s \in Ids : \A j \in owed[s] :
    jobs[j].at >= IF run = Off THEN started ELSE run.since

(* The run underway tells of all that was posted before it began.          *)
RunWillTell ==
  run # Off =>
    \A s \in Ids : \A j \in owed[s] : jobs[j].at < run.at =>
      /\ s \in whole
      /\ s \in tried => \E w \in Workers : WillTell(w, s, j)

OwedInv == OwedIsOpen /\ RunIsLatest /\ OwedIsRecent /\ RunWillTell

-----------------------------------------------------------------------------
(* Types                                                                   *)

LEMMA RequestByPc ==
  ASSUME JaTypeOK, NEW q \in Requests
  PROVE  /\ request[q].pc = "counted" =>
              request[q] \in [pc : {"counted"}, user : Users]
         /\ request[q].pc = "found" => request[q] \in [pc : {"found"}, id : Ids]
  BY DEF JaTypeOK, RequestState, Idle

LEMMA RunByPc ==
  ASSUME JaTypeOK
  PROVE  /\ run.pc = "fetch" <=> run \in FetchState
         /\ run.pc = "batch" <=> run \in BatchState
         /\ run.pc \in {"fetch", "batch"} <=> run # Off
  BY DEF JaTypeOK, FetchState, BatchState, Off

LEMMA WorkerByPc ==
  ASSUME JaTypeOK, NEW w \in Workers
  PROVE  /\ worker[w] # Idle <=>
              worker[w].pc \in {"asked", "listed", "counted", "found"}
         /\ worker[w] # Idle => worker[w].search \in Ids
         /\ worker[w].pc \in {"listed", "found"} => worker[w].list \in SUBSET Jobs
         /\ worker[w].pc \in {"counted", "found"} => worker[w].any \in BOOLEAN
  BY DEF JaTypeOK, WorkerState, Idle

LEMMA RequestsKeepTypes ==
  ASSUME JaTypeOK, NEW q \in Requests, RequestNext(q)
  PROVE  JaTypeOK'
<1>0. Idle \in RequestState
  BY DEF RequestState
<1>1. ASSUME NEW u \in Users, CreateCount(q, u) PROVE JaTypeOK'
  <2>1. [pc |-> "counted", user |-> u] \in RequestState
    BY DEF RequestState
  <2> QED BY <1>1, <2>1 DEF CreateCount, rows, JaTypeOK
<1>2. ASSUME NEW u \in Users, NEW s \in Ids, DeleteFind(q, u, s) PROVE JaTypeOK'
  <2>1. [pc |-> "found", id |-> s] \in RequestState
    BY DEF RequestState
  <2> QED BY <1>2, <2>1 DEF DeleteFind, rows, JaTypeOK
<1>3. ASSUME NEW s \in Ids, CreateInsert(q, s) PROVE JaTypeOK'
  <2>1. request[q].user \in Users
    BY <1>3, RequestByPc DEF CreateInsert
  <2> QED BY <1>0, <1>3, <2>1 DEF CreateInsert, JaTypeOK
<1>4. CASE DeleteRow(q)
  BY <1>0, <1>4 DEF DeleteRow, JaTypeOK
<1>5. CASE JaRequestFails(q)
  BY <1>0, <1>5 DEF JaRequestFails, rows, JaTypeOK
<1> QED BY <1>1, <1>2, <1>3, <1>4, <1>5 DEF RequestNext

LEMMA JobsKeepTypes ==
  ASSUME JaTypeOK, Tick \/ \E j \in Jobs : PostJob(j) \/ CloseJob(j)
  PROVE  JaTypeOK'
<1>1. ASSUME NEW j \in Jobs, PostJob(j) PROVE JaTypeOK'
  <2>1. [at |-> now, open |-> TRUE] \in [at : Nat, open : BOOLEAN]
    BY DEF JaTypeOK
  <2>2. \A s \in Ids : owed'[s] \in SUBSET Jobs
    BY <1>1 DEF PostJob, JaTypeOK
  <2>3. owed' \in [Ids -> SUBSET Jobs]
    BY <1>1, <2>2 DEF PostJob
  <2> QED BY <1>1, <2>1, <2>3 DEF PostJob, rows, JaTypeOK
<1>2. ASSUME NEW j \in Jobs, CloseJob(j) PROVE JaTypeOK'
  <2>1. [jobs[j] EXCEPT !.open = FALSE] \in [at : Nat, open : BOOLEAN]
    BY DEF JaTypeOK
  <2>2. jobs' = [jobs EXCEPT ![j] = [jobs[j] EXCEPT !.open = FALSE]]
    BY <1>2 DEF CloseJob
  <2>3. jobs' \in [Jobs -> [at : Nat, open : BOOLEAN]]
    BY <2>1, <2>2 DEF JaTypeOK
  <2>4. owed' \in [Ids -> SUBSET Jobs]
    BY <1>2 DEF CloseJob, JaTypeOK
  <2> QED BY <1>2, <2>3, <2>4 DEF CloseJob, rows, JaTypeOK
<1>3. CASE Tick
  <2>1. now' \in Nat \ {0}
    BY <1>3 DEF Tick, JaTypeOK
  <2> QED BY <1>3, <2>1 DEF Tick, rows, JaTypeOK
<1> QED BY <1>1, <1>2, <1>3

LEMMA RunKeepsTypes ==
  ASSUME JaTypeOK, RunStart \/ FetchBatch \/ RunEnd \/ RunFails \/ BatchDone
  PROVE  JaTypeOK'
<1>1. CASE RunStart
  <2>1. [pc |-> "fetch", at |-> now, since |-> now - Day, cursor |-> None]
          \in FetchState
    BY JobAlertsAssumption DEF FetchState, JaTypeOK
  <2>2. owed' \in [Ids -> SUBSET Jobs]
    BY <1>1 DEF RunStart, JaTypeOK
  <2> QED BY <1>1, <2>1, <2>2 DEF RunStart, rows, JaTypeOK, Saved
<1>2. CASE FetchBatch
  <2>1. run \in FetchState /\ Page(run.cursor) \subseteq Ids
    BY <1>2, RunByPc DEF FetchBatch, Page, Behind, Saved
  <2>2. run' \in BatchState
    BY <1>2, <2>1 DEF FetchBatch, FetchState, BatchState
  <2> QED BY <1>2, <2>2 DEF FetchBatch, rows, JaTypeOK
<1>3. CASE RunEnd \/ RunFails
  BY <1>3 DEF RunEnd, RunFails, rows, JaTypeOK, Nothing
<1>4. CASE BatchDone
  <2>1. run \in BatchState
    BY <1>4, RunByPc DEF BatchDone
  <2>2. run' \in FetchState
    BY <1>4, <2>1 DEF BatchDone, FetchState, BatchState
  <2> QED BY <1>4, <2>2 DEF BatchDone, rows, JaTypeOK
<1> QED BY <1>1, <1>2, <1>3, <1>4

LEMMA WorkersKeepTypes ==
  ASSUME JaTypeOK, NEW w \in Workers, WorkerNext(w)
  PROVE  JaTypeOK'
<1>0. Recent \in SUBSET Jobs /\ Idle \in WorkerState
  BY DEF Recent, WorkerState
<1>1. ASSUME NEW s \in Ids, Take(w, s) PROVE JaTypeOK'
  <2>1. run \in BatchState
    BY <1>1, RunByPc DEF Take
  <2>2. run' \in BatchState
    BY <1>1, <2>1 DEF Take, BatchState
  <2>3. [pc |-> "asked", search |-> s] \in WorkerState
    BY DEF WorkerState
  <2> QED BY <1>1, <2>2, <2>3 DEF Take, rows, JaTypeOK
<1>2. ASSUME ListJobs(w) \/ CountJobs(w) PROVE JaTypeOK'
  <2>1. worker[w].search \in Ids
    BY <1>2, WorkerByPc DEF ListJobs, CountJobs
  <2>2. /\ worker[w].pc = "counted" => worker[w].any \in BOOLEAN
        /\ worker[w].pc = "listed" => worker[w].list \in SUBSET Jobs
    BY WorkerByPc
  <2>3. (Recent # {}) \in BOOLEAN
    OBVIOUS
  <2>4. PICK s \in WorkerState : worker' = [worker EXCEPT ![w] = s]
    <3>1. CASE ListJobs(w)
      BY <1>0, <2>1, <2>2, <3>1 DEF ListJobs, WorkerState
    <3>2. CASE CountJobs(w)
      BY <1>0, <2>1, <2>2, <2>3, <3>2 DEF CountJobs, WorkerState
    <3> QED BY <1>2, <3>1, <3>2
  <2>5. worker' \in [Workers -> WorkerState]
    BY <2>4 DEF JaTypeOK
  <2> QED BY <1>2, <2>5 DEF ListJobs, CountJobs, rows, JaTypeOK
<1>3. CASE SendDigest(w)
  BY <1>0, <1>3 DEF SendDigest, rows, JaTypeOK
<1>4. CASE DigestFails(w)
  BY <1>0, <1>4 DEF DigestFails, rows, JaTypeOK
<1> QED BY <1>1, <1>2, <1>3, <1>4 DEF WorkerNext

LEMMA TypesInductive == JaTypeOK /\ [JaNext]_jaVars => JaTypeOK'
<1> SUFFICES ASSUME JaTypeOK, [JaNext]_jaVars PROVE JaTypeOK'
  OBVIOUS
<1>1. CASE JaRestart
  <2>1. Idle \in RequestState /\ Idle \in WorkerState
    BY DEF RequestState, WorkerState
  <2> QED BY <1>1, <2>1 DEF JaRestart, rows, JaTypeOK, Nothing
<1>2. CASE UNCHANGED jaVars
  BY <1>2 DEF jaVars, rows, JaTypeOK
<1> QED BY <1>1, <1>2, RequestsKeepTypes, JobsKeepTypes, RunKeepsTypes,
           WorkersKeepTypes DEF JaNext, RunNext

(* Handlers, the run and its workers hold what their stage says.           *)
THEOREM AlertTypes == JaSpec => []JaTypeOK
<1>1. JaInit => JaTypeOK
  <2> SUFFICES ASSUME JaInit PROVE JaTypeOK
    OBVIOUS
  <2>1. jobs \in [Jobs -> [at : Nat, open : BOOLEAN]]
    BY DEF JaInit
  <2>2. Idle \in RequestState /\ Idle \in WorkerState
    BY DEF RequestState, WorkerState
  <2>3. Nothing \in [Ids -> SUBSET Jobs]
    BY DEF Nothing
  <2>4. now \in Nat \ {0}
    BY DEF JaInit
  <2> QED BY <2>1, <2>2, <2>3, <2>4 DEF JaInit, JaTypeOK
<1> QED BY <1>1, TypesInductive, PTL DEF JaSpec

-----------------------------------------------------------------------------
(* The limit of saved searches                                             *)

LEMMA FiniteCounts ==
  ASSUME NEW u
  PROVE  /\ IsFiniteSet(OwnedBy(u)) /\ IsFiniteSet(Counted(u))
         /\ Cardinality(OwnedBy(u)) \in Nat /\ Cardinality(Counted(u)) \in Nat
         /\ Cardinality(Requests) \in Nat
         /\ Cardinality(Counted(u)) <= Cardinality(Requests)
<1>1. IsFiniteSet(Ids) /\ IsFiniteSet(Requests)
  BY JobAlertsAssumption, FS_Interval DEF Ids
<1>2. OwnedBy(u) \in SUBSET Ids /\ Counted(u) \in SUBSET Requests
  BY DEF OwnedBy, Counted
<1>3. /\ IsFiniteSet(OwnedBy(u)) /\ IsFiniteSet(Counted(u))
      /\ Cardinality(Counted(u)) <= Cardinality(Requests)
  BY <1>1, <1>2, FS_Subset
<1> QED BY <1>1, <1>3, FS_CardinalityType

(* A step after which no user has more rows nor more counted requests.     *)
LEMMA FewerKeepLimit ==
  ASSUME JaTypeOK, LimitInv,
         \A s \in Ids : owner'[s] # None => s \in spent',
         \A u \in Users : OwnedBy(u)' \subseteq OwnedBy(u),
         \A u \in Users : Counted(u)' \subseteq Counted(u)
  PROVE  LimitInv'
<1> SUFFICES ASSUME NEW u \in Users
             PROVE  Cardinality(OwnedBy(u)') + Cardinality(Counted(u)') + 1
                      <= Limit + Cardinality(Requests)
  BY DEF LimitInv
<1>1. /\ IsFiniteSet(OwnedBy(u)') /\ Cardinality(OwnedBy(u)') <= Cardinality(OwnedBy(u))
      /\ IsFiniteSet(Counted(u)') /\ Cardinality(Counted(u)') <= Cardinality(Counted(u))
  BY FiniteCounts, FS_Subset
<1>2. Cardinality(OwnedBy(u)') \in Nat /\ Cardinality(Counted(u)') \in Nat
  BY <1>1, FS_CardinalityType
<1>3. Cardinality(OwnedBy(u)) + Cardinality(Counted(u)) + 1
        <= Limit + Cardinality(Requests)
  BY DEF LimitInv
<1> QED BY <1>1, <1>2, <1>3, FiniteCounts, JobAlertsAssumption

LEMMA CreateCountKeepsLimit ==
  ASSUME JaTypeOK, LimitInv, NEW q \in Requests, NEW u \in Users,
         CreateCount(q, u)
  PROVE  LimitInv'
<1> SUFFICES ASSUME NEW v \in Users
             PROVE  Cardinality(OwnedBy(v)') + Cardinality(Counted(v)') + 1
                      <= Limit + Cardinality(Requests)
  BY DEF LimitInv, CreateCount, rows
<1>1. OwnedBy(v)' = OwnedBy(v)
  BY DEF OwnedBy, CreateCount, rows
<1>2. CASE v = u
  <2>1. IsFiniteSet(Requests) /\ Counted(v)' \in SUBSET Requests
    BY JobAlertsAssumption DEF Counted
  <2>2. Cardinality(Counted(v)') <= Cardinality(Requests)
        /\ Cardinality(Counted(v)') \in Nat
    BY <2>1, FS_Subset, FS_CardinalityType
  <2>3. Cardinality(OwnedBy(v)) < Limit
    BY <1>2 DEF CreateCount
  <2> QED BY <1>1, <2>2, <2>3, FiniteCounts, JobAlertsAssumption
<1>3. CASE v # u
  <2>1. Counted(v)' = Counted(v)
    BY <1>3 DEF Counted, CreateCount, JaTypeOK, Idle
  <2> QED BY <1>1, <2>1 DEF LimitInv
<1> QED BY <1>2, <1>3

LEMMA CreateInsertKeepsLimit ==
  ASSUME JaTypeOK, LimitInv, NEW q \in Requests, NEW s \in Ids,
         CreateInsert(q, s)
  PROVE  LimitInv'
<1>1. \A i \in Ids : owner'[i] # None => i \in spent'
  BY DEF LimitInv, CreateInsert, JaTypeOK
<1>2. ASSUME NEW v \in Users
      PROVE  Cardinality(OwnedBy(v)') + Cardinality(Counted(v)') + 1
               <= Limit + Cardinality(Requests)
  <2> DEFINE u == request[q].user
  <2>1. /\ u \in Users /\ request[q].pc = "counted" /\ owner[s] = None
        /\ owner' = [owner EXCEPT ![s] = u]
        /\ request' = [request EXCEPT ![q] = Idle]
    BY RequestByPc DEF CreateInsert, LimitInv
  <2>2. Counted(v)' = Counted(v) \ {q}
    BY <2>1 DEF Counted, JaTypeOK, Idle
  <2>3. CASE v = u
    <3>1. OwnedBy(v)' = OwnedBy(v) \cup {s} /\ s \notin OwnedBy(v)
      BY <2>1, <2>3, JobAlertsAssumption DEF OwnedBy, JaTypeOK
    <3>2. q \in Counted(v)
      BY <2>1, <2>3 DEF Counted
    <3>3. Cardinality(OwnedBy(v)') = Cardinality(OwnedBy(v)) + 1
          /\ Cardinality(Counted(v)') = Cardinality(Counted(v)) - 1
      <4>1. IsFiniteSet(OwnedBy(v)) /\ IsFiniteSet(Counted(v))
        BY FiniteCounts
      <4>2. Cardinality(OwnedBy(v) \cup {s}) = Cardinality(OwnedBy(v)) + 1
        BY <3>1, <4>1, FS_AddElement
      <4>3. Cardinality(Counted(v) \ {q}) = Cardinality(Counted(v)) - 1
        BY <3>2, <4>1, FS_RemoveElement
      <4> QED BY <2>2, <3>1, <4>2, <4>3
    <3>4. Cardinality(OwnedBy(v)) + Cardinality(Counted(v)) + 1
            <= Limit + Cardinality(Requests)
      BY DEF LimitInv
    <3> QED BY <3>3, <3>4, FiniteCounts, JobAlertsAssumption
  <2>4. CASE v # u
    <3>1. OwnedBy(v)' = OwnedBy(v)
      BY <2>1, <2>4, JobAlertsAssumption DEF OwnedBy, JaTypeOK
    <3>2. Counted(v)' = Counted(v)
      BY <2>2, <2>4 DEF Counted
    <3> QED BY <3>1, <3>2 DEF LimitInv
  <2> QED BY <2>3, <2>4
<1> QED BY <1>1, <1>2 DEF LimitInv

LEMMA LimitInductive == JaTypeOK /\ LimitInv /\ [JaNext]_jaVars => LimitInv'
<1> SUFFICES ASSUME JaTypeOK, LimitInv, [JaNext]_jaVars PROVE LimitInv'
  OBVIOUS
<1>1. ASSUME NEW q \in Requests, DeleteRow(q) PROVE LimitInv'
  <2>1. \A i \in Ids : owner'[i] # None => owner'[i] = owner[i]
    BY <1>1, RequestByPc DEF DeleteRow, JaTypeOK
  <2>2. \A r \in Requests : request'[r] = request[r] \/ request'[r] = Idle
    BY <1>1 DEF DeleteRow, JaTypeOK
  <2>3. \A u \in Users : OwnedBy(u)' \subseteq OwnedBy(u)
    BY <2>1, JobAlertsAssumption DEF OwnedBy
  <2>4. \A u \in Users : Counted(u)' \subseteq Counted(u)
    BY <2>2 DEF Counted, Idle
  <2>5. \A i \in Ids : owner'[i] # None => i \in spent'
    BY <1>1, <2>1 DEF DeleteRow, LimitInv
  <2> QED BY <2>3, <2>4, <2>5, FewerKeepLimit
<1>2. ASSUME UNCHANGED rows,
             \A r \in Requests : \/ request'[r] = request[r]
                                 \/ request'[r].pc \in {"idle", "found"}
      PROVE  LimitInv'
  <2>1. \A u \in Users : OwnedBy(u)' = OwnedBy(u) /\ Counted(u)' \subseteq Counted(u)
    BY <1>2 DEF OwnedBy, Counted, rows
  <2>2. \A i \in Ids : owner'[i] # None => i \in spent'
    BY <1>2 DEF LimitInv, rows
  <2> QED BY <2>1, <2>2, FewerKeepLimit
<1>3. ASSUME NEW q \in Requests, \/ JaRequestFails(q)
                                 \/ \E u \in Users, s \in Ids : DeleteFind(q, u, s)
      PROVE  LimitInv'
  BY <1>2, <1>3 DEF JaRequestFails, DeleteFind, JaTypeOK, Idle
<1>4. ASSUME NEW q \in Requests, RequestNext(q) PROVE LimitInv'
  BY <1>1, <1>3, <1>4, CreateCountKeepsLimit, CreateInsertKeepsLimit DEF RequestNext
<1>5. CASE JaRestart
  BY <1>2, <1>5 DEF JaRestart, Idle
<1>6. CASE RunStart \/ RunNext \/ Tick \/ \E j \in Jobs : PostJob(j) \/ CloseJob(j)
  <2>1. UNCHANGED <<rows, request>>
    BY <1>6 DEF RunStart, RunNext, Tick, PostJob, CloseJob, FetchBatch, RunEnd,
       RunFails, BatchDone, WorkerNext, Take, ListJobs, CountJobs, SendDigest,
       DigestFails
  <2> QED BY <1>2, <2>1
<1>7. CASE UNCHANGED jaVars
  BY <1>2, <1>7 DEF jaVars
<1> QED BY <1>4, <1>5, <1>6, <1>7 DEF JaNext

(* However many requests count before any of them inserts, a user's saved  *)
(* searches pass the limit by fewer than there are requests in flight.     *)
THEOREM LimitGivesWayByRequests == JaSpec => []LimitHolds
<1>1. JaInit => LimitInv
  <2> SUFFICES ASSUME JaInit PROVE LimitInv
    OBVIOUS
  <2>1. ASSUME NEW u \in Users PROVE OwnedBy(u) = {} /\ Counted(u) = {}
    BY JobAlertsAssumption DEF JaInit, OwnedBy, Counted, Idle
  <2> QED BY <2>1, FS_EmptySet, FiniteCounts, JobAlertsAssumption
          DEF JaInit, LimitInv
<1>2. LimitInv => LimitHolds
  BY FiniteCounts, JobAlertsAssumption DEF LimitInv, LimitHolds
<1> QED BY <1>1, <1>2, LimitInductive, AlertTypes, PTL DEF JaSpec

-----------------------------------------------------------------------------
(* The walk over saved_searches                                            *)

(* A row behind the cursor that is not on the page comes after the page.   *)
LEMMA PageIsFirst ==
  ASSUME NEW cursor, NEW last \in Page(cursor),
         NEW s \in Behind(cursor), s \notin Page(cursor)
  PROVE  s > last
<1> DEFINE Before(i) == {t \in Behind(cursor) : t < i}
<1>1. Behind(cursor) \subseteq Ids /\ IsFiniteSet(Ids) /\ Ids \subseteq Int
  BY FS_Interval, JobAlertsAssumption DEF Behind, Saved, Ids
<1>2. s \in Int /\ last \in Int /\ last \in Behind(cursor)
  BY <1>1 DEF Page
<1>3. IsFiniteSet(Before(s)) /\ IsFiniteSet(Before(last))
  <2>1. Before(s) \in SUBSET Ids /\ Before(last) \in SUBSET Ids
    BY <1>1
  <2> QED BY <1>1, <2>1, FS_Subset
<1>4. Cardinality(Before(last)) < Batch /\ ~ Cardinality(Before(s)) < Batch
  BY DEF Page
<1>5. SUFFICES ASSUME s < last \/ s = last PROVE FALSE
  BY <1>2
<1>6. CASE s = last
  BY <1>4, <1>6
<1>7. CASE s < last
  <2>1. Before(s) \in SUBSET Before(last)
    <3>1. \A t \in Behind(cursor) : t < s => t < last
      BY <1>1, <1>2, <1>7
    <3> QED BY <3>1
  <2>2. Cardinality(Before(s)) <= Cardinality(Before(last))
    BY <1>3, <2>1, FS_Subset
  <2>3. Cardinality(Before(s)) \in Nat /\ Cardinality(Before(last)) \in Nat
    BY <1>3, FS_CardinalityType
  <2> HIDE DEF Before
  <2> QED BY <1>4, <2>2, <2>3, JobAlertsAssumption
<1> QED BY <1>5, <1>6, <1>7

(* Steps that leave the run alone and forget no search but a deleted one.  *)
LEMMA WalkUndisturbed ==
  ASSUME JaTypeOK, WalkInv, UNCHANGED <<run, tried>>,
         whole' \subseteq whole, whole' \subseteq Saved',
         run.pc # "batch" => worker' = worker
  PROVE  WalkInv'
  BY DEF WalkInv

LEMMA RequestsKeepWalk ==
  ASSUME JaTypeOK, WalkInv, NEW q \in Requests, RequestNext(q)
  PROVE  WalkInv'
<1>0. whole \subseteq Saved
  BY DEF WalkInv
<1>1. ASSUME NEW s \in Ids, CreateInsert(q, s) PROVE WalkInv'
  <2>1. request[q].user \in Users
    BY <1>1, RequestByPc DEF CreateInsert
  <2>2. Saved \subseteq Saved'
    BY <1>1, <2>1, JobAlertsAssumption DEF CreateInsert, Saved, JaTypeOK
  <2> QED BY <1>0, <1>1, <2>2, WalkUndisturbed DEF CreateInsert
<1>2. CASE DeleteRow(q)
  <2>1. whole' \subseteq Saved'
    BY <1>0, <1>2 DEF DeleteRow, Saved, JaTypeOK
  <2> QED BY <1>2, <2>1, WalkUndisturbed DEF DeleteRow
<1>3. ASSUME \/ JaRequestFails(q)
             \/ \E u \in Users : CreateCount(q, u) \/ \E s \in Ids : DeleteFind(q, u, s)
      PROVE  WalkInv'
  <2>1. Saved' = Saved
    BY <1>3 DEF JaRequestFails, CreateCount, DeleteFind, Saved, rows
  <2> QED BY <1>0, <1>3, <2>1, WalkUndisturbed DEF JaRequestFails, CreateCount, DeleteFind
<1> QED BY <1>1, <1>2, <1>3 DEF RequestNext

LEMMA RunKeepsWalk ==
  ASSUME JaTypeOK, WalkInv,
         RunStart \/ FetchBatch \/ RunEnd \/ RunFails \/ BatchDone
  PROVE  WalkInv'
<1> USE DEF Off, Idle
<1>0. Ids \subseteq Int /\ None \notin Ids
  BY JobAlertsAssumption DEF Ids
<1>1. CASE RunStart
  BY <1>1 DEF RunStart, WalkInv, rows, Saved
<1>2. CASE FetchBatch
  <2>1. PICK last \in Page(run.cursor) :
          /\ \A s \in Page(run.cursor) : s <= last
          /\ run' = [pc |-> "batch", at |-> run.at, since |-> run.since,
                     todo |-> Page(run.cursor), last |-> last]
    BY <1>2 DEF FetchBatch
  <2>2. /\ run \in FetchState /\ run.pc = "fetch"
        /\ UNCHANGED <<rows, worker, whole, tried>>
    BY <1>2, RunByPc DEF FetchBatch
  <2>3. /\ run'.pc = "batch" /\ run'.todo = Page(run.cursor) /\ run'.last = last
    BY <2>1
  <2>4. Page(run.cursor) \subseteq Behind(run.cursor)
        /\ Behind(run.cursor) \subseteq Saved /\ Saved \subseteq Ids
    BY DEF Page, Behind, Saved
  <2>5. whole \subseteq Saved /\ Saved' = Saved
    BY <2>2 DEF WalkInv, Saved, rows
  <2>6. CASE run.cursor = None
    <3>1. tried = {} /\ Behind(run.cursor) = Saved
      BY <2>2, <2>6 DEF WalkInv, Behind
    <3>2. \A s \in whole : s \in Page(run.cursor) \/ s > last
      BY <2>5, <3>1, PageIsFirst
    <3>3. (run.todo \cap tried = {})'
      BY <2>2, <3>1
    <3>4. \A s \in (tried \cup run.todo)' : s <= last
      BY <2>1, <2>2, <2>3, <3>1
    <3> QED BY <2>2, <2>3, <2>5, <3>2, <3>3, <3>4 DEF WalkInv
  <2>7. CASE run.cursor # None
    <3>1. /\ run.cursor \in Saved /\ run.cursor \in Int
          /\ \A s \in Behind(run.cursor) : s > run.cursor
          /\ \A s \in Saved : s > run.cursor => s \in Behind(run.cursor)
      BY <1>0, <2>1, <2>2, <2>4, <2>7 DEF Behind, Page, FetchState
    <3>2. /\ \A s \in tried : s <= run.cursor
          /\ \A s \in whole : s \in tried \/ s > run.cursor
      BY <2>2, <2>7 DEF WalkInv
    <3>3. tried \subseteq Int /\ Page(run.cursor) \subseteq Int /\ last > run.cursor
          /\ last \in Int
      BY <1>0, <2>1, <2>4, <3>1 DEF JaTypeOK
    <3>4. Page(run.cursor) \cap tried = {}
      BY <2>4, <3>1, <3>2, <3>3
    <3>5. \A s \in tried \cup Page(run.cursor) : s <= last
      BY <2>1, <3>1, <3>2, <3>3
    <3>6. \A s \in whole : s \in tried \/ s \in Page(run.cursor) \/ s > last
      BY <2>5, <3>1, <3>2, PageIsFirst
    <3> QED BY <2>2, <2>3, <2>5, <3>4, <3>5, <3>6 DEF WalkInv
  <2> QED BY <2>6, <2>7
<1>3. CASE RunEnd \/ RunFails
  <2>1. run' = Off /\ UNCHANGED <<rows, worker, whole, tried>> /\ run.pc = "fetch"
    BY <1>3 DEF RunEnd, RunFails
  <2> QED BY <2>1 DEF WalkInv, Saved, rows
<1>4. CASE BatchDone
  <2>1. /\ run \in BatchState /\ run.pc = "batch" /\ run.todo = {}
        /\ run'.pc = "fetch" /\ run'.cursor = run.last
        /\ UNCHANGED <<rows, worker, whole, tried>>
        /\ \A w \in Workers : worker[w] = Idle
    BY <1>4, RunByPc DEF BatchDone
  <2>2. run'.cursor # None
    BY <1>0, <2>1 DEF BatchState
  <2> QED BY <2>1, <2>2 DEF WalkInv, Saved, rows
<1> QED BY <1>1, <1>2, <1>3, <1>4

LEMMA WorkersKeepWalk ==
  ASSUME JaTypeOK, WalkInv, NEW w \in Workers, WorkerNext(w)
  PROVE  WalkInv'
<1>0. ~ (\A v \in Workers : worker[v] = Idle) => run.pc = "batch"
  BY DEF WalkInv
<1>1. ASSUME NEW s \in Ids, Take(w, s) PROVE WalkInv'
  <2>1. /\ run \in BatchState /\ run.pc = "batch" /\ s \in run.todo
        /\ run'.pc = "batch" /\ run'.todo = run.todo \ {s}
        /\ run'.last = run.last /\ tried' = tried \cup {s}
        /\ UNCHANGED <<rows, whole>>
    BY <1>1, RunByPc DEF Take, BatchState
  <2> QED BY <2>1 DEF WalkInv, Saved, rows
<1>2. ASSUME ListJobs(w) \/ CountJobs(w) \/ SendDigest(w) \/ DigestFails(w)
      PROVE  WalkInv'
  <2>1. run.pc = "batch"
    BY <1>0, <1>2 DEF ListJobs, CountJobs, SendDigest, DigestFails, Idle
  <2>2. UNCHANGED <<run, rows, whole, tried>>
    BY <1>2 DEF ListJobs, CountJobs, SendDigest, DigestFails
  <2> QED BY <2>1, <2>2 DEF WalkInv, Saved, rows
<1> QED BY <1>1, <1>2 DEF WorkerNext

LEMMA WalkInductive == JaTypeOK /\ WalkInv /\ [JaNext]_jaVars => WalkInv'
<1> SUFFICES ASSUME JaTypeOK, WalkInv, [JaNext]_jaVars PROVE WalkInv'
  OBVIOUS
<1>1. CASE Tick \/ \E j \in Jobs : PostJob(j) \/ CloseJob(j)
  BY <1>1 DEF Tick, PostJob, CloseJob, WalkInv, Saved, rows
<1>2. CASE JaRestart
  BY <1>2 DEF JaRestart, WalkInv, Saved, rows, Off
<1>3. CASE UNCHANGED jaVars
  BY <1>3 DEF jaVars, WalkInv, Saved, rows
<1> QED BY <1>1, <1>2, <1>3, RequestsKeepWalk, RunKeepsWalk, WorkersKeepWalk
        DEF JaNext, RunNext

LEMMA WalkHolds == JaSpec => [](JaTypeOK /\ WalkInv)
<1>1. JaInit => WalkInv
  BY DEF JaInit, WalkInv, Off
<1> QED BY <1>1, WalkInductive, AlertTypes, PTL DEF JaSpec

(* Whatever is saved, deleted and numbered around the cursor, and however  *)
(* the workers take turns, no search is taken twice in a run.              *)
THEOREM TakenOncePerRun == JaSpec => OncePerRun
<1> DEFINE A == \A w \in Workers, s \in Ids : Take(w, s) => s \notin tried
<1>1. JaTypeOK /\ WalkInv /\ [JaNext]_jaVars => [A]_jaVars
  BY DEF WalkInv, Take
<1> QED BY <1>1, WalkHolds, PTL DEF JaSpec, OncePerRun

LEMMA EndedRunTriedAll ==
  ASSUME JaTypeOK, WalkInv, RunEnd, ~ CursorIsGone
  PROVE  whole \subseteq tried
<1>1. run.pc = "fetch" /\ Behind(run.cursor) = {} /\ whole \subseteq Saved
  BY DEF RunEnd, WalkInv
<1>2. CASE run.cursor = None
  BY <1>1, <1>2 DEF Behind
<1>3. CASE run.cursor # None
  <2>1. \A s \in Saved : ~ (s > run.cursor)
    BY <1>1, <1>3 DEF Behind, CursorIsGone
  <2> QED BY <1>1, <1>3, <2>1 DEF WalkInv
<1> QED BY <1>2, <1>3

(* A run that reaches the end of the table has tried every search that was *)
(* there from its start to its end, unless its cursor row was deleted.     *)
THEOREM NobodyIsPassedOver == JaSpec => NobodyIsForgotten
<1> DEFINE A == RunEnd => CursorIsGone \/ whole \subseteq tried
<1>1. JaTypeOK /\ WalkInv /\ [JaNext]_jaVars => [A]_jaVars
  BY EndedRunTriedAll
<1> QED BY <1>1, WalkHolds, PTL DEF JaSpec, NobodyIsForgotten

-----------------------------------------------------------------------------
(* What is owed                                                            *)

(* Steps of which the run sees nothing: they owe no search more than       *)
(* before, and may let searches go to which nothing is owed.               *)
LEMMA OwedUndisturbed ==
  ASSUME JaTypeOK, OwedInv, UNCHANGED <<now, started, run, worker, tried>>,
         \A j \in Jobs : jobs'[j].at = jobs[j].at,
         \A j \in Jobs : jobs'[j].open => jobs[j].open,
         \A s \in Ids : \A j \in owed'[s] :
           /\ j \in Jobs /\ j \in owed[s] /\ jobs'[j].open
           /\ s \in Saved => s \in Saved'
           /\ s \in whole => s \in whole'
  PROVE  OwedInv'
<1>1. OwedIsOpen'
  BY DEF OwedInv, OwedIsOpen
<1>3. RunIsLatest' /\ OwedIsRecent'
  BY DEF OwedInv, RunIsLatest, OwedIsRecent
<1>4. RunWillTell'
  BY DEF OwedInv, RunWillTell, WillTell
<1> QED BY <1>1, <1>3, <1>4 DEF OwedInv

LEMMA RequestsKeepOwed ==
  ASSUME JaTypeOK, OwedInv, NEW q \in Requests, RequestNext(q)
  PROVE  OwedInv'
<1>0. \A s \in Ids : \A j \in owed[s] : j \in Jobs /\ jobs[j].open
  BY DEF OwedInv, OwedIsOpen, JaTypeOK
<1>1. ASSUME NEW s \in Ids, CreateInsert(q, s) PROVE OwedInv'
  <2>1. request[q].user \in Users
    BY <1>1, RequestByPc DEF CreateInsert
  <2>2. Saved \subseteq Saved'
    BY <1>1, <2>1, JobAlertsAssumption DEF CreateInsert, Saved, JaTypeOK
  <2> QED BY <1>0, <1>1, <2>2, OwedUndisturbed DEF CreateInsert
<1>2. CASE DeleteRow(q)
  <2> DEFINE s == request[q].id
  <2>1. s \in Ids
    BY <1>2, RequestByPc DEF DeleteRow
  <2>2. \A i \in Ids : /\ owed'[i] = IF i = s THEN {} ELSE owed[i]
                       /\ i # s => (i \in Saved => i \in Saved')
                       /\ i # s => (i \in whole => i \in whole')
    BY <1>2 DEF DeleteRow, JaTypeOK, Saved
  <2> QED BY <1>0, <1>2, <2>2, OwedUndisturbed DEF DeleteRow
<1>3. ASSUME \/ JaRequestFails(q)
             \/ \E u \in Users : CreateCount(q, u) \/ \E s \in Ids : DeleteFind(q, u, s)
      PROVE  OwedInv'
  <2>1. Saved' = Saved
    BY <1>3 DEF JaRequestFails, CreateCount, DeleteFind, Saved, rows
  <2> QED BY <1>0, <1>3, <2>1, OwedUndisturbed DEF JaRequestFails, CreateCount, DeleteFind
<1> QED BY <1>1, <1>2, <1>3 DEF RequestNext

LEMMA PostKeepsOwed ==
  ASSUME JaTypeOK, OwedInv, NEW j \in Jobs, PostJob(j)
  PROVE  OwedInv'
<1>1. /\ \A i \in Jobs : jobs'[i] = IF i = j THEN [at |-> now, open |-> TRUE]
                                    ELSE jobs[i]
      /\ \A s \in Ids : owed'[s] = IF s \in Saved THEN owed[s] \cup {j} ELSE {}
      /\ UNCHANGED <<now, rows, run, worker, started, whole, tried>>
  BY DEF PostJob, JaTypeOK
<1>2. Saved' = Saved
  BY <1>1 DEF Saved, rows
<1>3. now \in Int /\ now <= now /\ now # 0
  BY DEF JaTypeOK
<1>9. /\ jobs'[j].at = now /\ jobs'[j].open
      /\ \A i \in Jobs : i # j => jobs'[i] = jobs[i]
  BY <1>1
<1>10. ASSUME NEW s \in Ids, NEW i \in owed'[s]
      PROVE  i \in Jobs /\ s \in Saved /\ (i # j => i \in owed[s])
  BY <1>1, <1>10 DEF JaTypeOK
<1>4. OwedIsOpen'
  <2>1. \A i \in Jobs : jobs'[i].at <= now' /\ (jobs'[i].open => jobs'[i].at # 0)
    BY <1>1, <1>3, <1>9 DEF OwedInv, OwedIsOpen
  <2>2. \A s \in Ids : \A i \in owed'[s] : s \in Saved' /\ jobs'[i].open
    BY <1>2, <1>9, <1>10 DEF OwedInv, OwedIsOpen
  <2>3. started' <= now'
    BY <1>1 DEF OwedInv, OwedIsOpen
  <2> QED BY <2>1, <2>2, <2>3 DEF OwedIsOpen
<1>5. RunIsLatest'
  BY <1>1, <1>2 DEF OwedInv, RunIsLatest
<1>6. run # Off => run.since <= now /\ run.at <= now /\ run.at \in Int
  BY JobAlertsAssumption, <1>3 DEF OwedInv, OwedIsOpen, RunIsLatest, JaTypeOK
<1>7. OwedIsRecent'
  <2>1. now >= IF run = Off THEN started ELSE run.since
    <3>1. started <= now /\ started \in Int
      BY DEF OwedInv, OwedIsOpen, JaTypeOK
    <3> QED BY <1>3, <1>6, <3>1, JobAlertsAssumption DEF OwedInv, RunIsLatest
  <2>2. \A s \in Ids : \A i \in owed'[s] :
          jobs'[i].at >= IF run = Off THEN started ELSE run.since
    BY <2>1, <1>9, <1>10 DEF OwedInv, OwedIsRecent
  <2> QED BY <1>1, <1>2, <2>2 DEF OwedIsRecent
<1>8. RunWillTell'
  <2> SUFFICES ASSUME run # Off, NEW s \in Ids, NEW i \in owed'[s],
                      jobs'[i].at < run.at
               PROVE  /\ s \in whole
                      /\ s \in tried => \E w \in Workers : WillTell(w, s, i)'
    BY <1>1 DEF RunWillTell
  <2>1. i # j
    BY <1>3, <1>6, <1>9
  <2>2. i \in owed[s] /\ jobs'[i] = jobs[i]
    BY <1>9, <1>10, <2>1
  <2>3. \A w \in Workers : WillTell(w, s, i) => WillTell(w, s, i)'
    BY <1>1 DEF WillTell
  <2> QED BY <2>2, <2>3 DEF OwedInv, RunWillTell
<1> QED BY <1>4, <1>5, <1>7, <1>8 DEF OwedInv

LEMMA CloseKeepsOwed ==
  ASSUME JaTypeOK, OwedInv, NEW j \in Jobs, CloseJob(j)
  PROVE  OwedInv'
<1>1. /\ \A i \in Jobs : /\ jobs'[i].at = jobs[i].at
                         /\ jobs'[i].open => jobs[i].open
                         /\ i # j => jobs'[i] = jobs[i]
      /\ \A s \in Ids : owed'[s] = owed[s] \ {j}
      /\ UNCHANGED <<now, rows, run, worker, started, whole, tried>>
  BY DEF CloseJob, JaTypeOK
<1>2. Saved' = Saved
  BY <1>1 DEF Saved, rows
<1>3. \A s \in Ids : \A i \in owed'[s] : i \in Jobs /\ jobs'[i].open
  BY <1>1 DEF OwedInv, OwedIsOpen, JaTypeOK
<1> QED BY <1>1, <1>2, <1>3, OwedUndisturbed

LEMMA TickKeepsOwed ==
  ASSUME JaTypeOK, OwedInv, Tick
  PROVE  OwedInv'
<1>1. now' = now + 1 /\ UNCHANGED <<jobs, rows, run, worker, started, whole, tried, owed>>
  BY DEF Tick
<1>2. /\ \A j \in Jobs : jobs[j].at <= now' /\ jobs[j].at \in Nat
      /\ started <= now'
  BY <1>1 DEF OwedInv, OwedIsOpen, JaTypeOK
<1>3. Saved' = Saved
  BY <1>1 DEF Saved, rows
<1> QED BY <1>1, <1>2, <1>3 DEF OwedInv, OwedIsOpen, OwedIsRecent, RunIsLatest,
                                RunWillTell, WillTell

(* A run or its batch begins or ends; workers and jobs are left alone.     *)
LEMMA RunKeepsOwed ==
  ASSUME JaTypeOK, WalkInv, OwedInv,
         RunStart \/ FetchBatch \/ RunEnd \/ RunFails \/ BatchDone
  PROVE  OwedInv'
<1>1. UNCHANGED <<now, jobs, rows, request, worker>>
  BY DEF RunStart, FetchBatch, RunEnd, RunFails, BatchDone
<1>2. Saved' = Saved
  BY <1>1 DEF Saved, rows
<1>3. \A s \in Ids : owed'[s] \subseteq owed[s]
  BY DEF RunStart, FetchBatch, RunEnd, RunFails, BatchDone, Nothing
<1>0. started' <= now' /\ started \in Nat /\ now \in Nat
  <2>1. started' \in {started, now} /\ started <= now /\ started \in Nat /\ now \in Nat
    BY DEF RunStart, FetchBatch, RunEnd, RunFails, BatchDone, OwedInv, OwedIsOpen, JaTypeOK
  <2> QED BY <1>1, <2>1
<1>4. OwedIsOpen'
  BY <1>0, <1>1, <1>2, <1>3 DEF OwedInv, OwedIsOpen
<1>5. CASE RunStart
  <2>1. /\ run = Off /\ started' = now
        /\ run'.at = now /\ run'.since = now - Day /\ run' # Off
        /\ whole' = Saved /\ tried' = {}
    BY <1>5 DEF RunStart, Off
  <2>2. RunIsLatest'
    BY <2>1 DEF RunIsLatest
  <2>3. ASSUME NEW s \in Ids, NEW j \in owed'[s] PROVE jobs[j].at >= now - Day
    <3>1. j \in owed[s] /\ ~ Slips(j)
      BY <1>5, <2>3 DEF RunStart
    <3>2. jobs[j].at >= started /\ jobs[j].at \in Int
      BY <2>1, <3>1 DEF OwedInv, OwedIsRecent, JaTypeOK
    <3> QED BY <1>0, <3>1, <3>2, JobAlertsAssumption DEF Slips
  <2>4. OwedIsRecent'
    BY <1>1, <2>1, <2>3 DEF OwedIsRecent
  <2>5. RunWillTell'
    BY <1>3, <2>1 DEF OwedInv, OwedIsOpen, RunWillTell
  <2> QED BY <1>4, <2>2, <2>4, <2>5 DEF OwedInv
<1>6. CASE FetchBatch \/ BatchDone
  <2>1. run.pc \in {"fetch", "batch"} /\ run # Off
    BY <1>6, RunByPc DEF FetchBatch, BatchDone
  <2>2. /\ run'.at = run.at /\ run'.since = run.since /\ run' # Off
        /\ UNCHANGED <<started, whole, tried, owed>>
    BY <1>6 DEF FetchBatch, BatchDone, Off
  <2>4. RunIsLatest' /\ OwedIsRecent'
    BY <1>1, <1>2, <2>1, <2>2 DEF OwedInv, RunIsLatest, OwedIsRecent
  <2>5. RunWillTell'
    BY <1>1, <2>1, <2>2 DEF OwedInv, RunWillTell, WillTell
  <2> QED BY <1>4, <2>4, <2>5 DEF OwedInv
<1>7. CASE RunEnd \/ RunFails
  <2>1. /\ run' = Off /\ started' = started /\ run.pc = "fetch" /\ run # Off
    BY <1>7, RunByPc DEF RunEnd, RunFails
  <2>2. run.at = started
    BY <2>1 DEF OwedInv, RunIsLatest
  <2>3. RunIsLatest' /\ RunWillTell'
    BY <2>1 DEF RunIsLatest, RunWillTell
  <2>4. OwedIsRecent'
    <3>1. CASE owed' = Nothing
      BY <3>1 DEF OwedIsRecent, Nothing
    <3>2. CASE owed' # Nothing
      <4>1. owed' = owed /\ RunEnd /\ ~ CursorIsGone
        BY <1>7, <3>2 DEF RunEnd, RunFails
      <4>2. whole \subseteq tried /\ \A w \in Workers : worker[w] = Idle
        BY <2>1, <4>1, EndedRunTriedAll DEF WalkInv
      <4>3. \A s \in Ids : \A j \in owed[s] : ~ (jobs[j].at < run.at)
        BY <2>1, <4>2 DEF OwedInv, RunWillTell, WillTell
      <4>4. \A s \in Ids : \A j \in owed[s] : jobs[j].at \in Int
        BY DEF JaTypeOK
      <4>5. \A s \in Ids : \A j \in owed[s] : jobs[j].at >= started
        BY <1>0, <2>2, <4>3, <4>4
      <4> QED BY <1>1, <2>1, <2>2, <4>1, <4>5 DEF OwedIsRecent
    <3> QED BY <3>1, <3>2
  <2> QED BY <1>4, <2>3, <2>4 DEF OwedInv
<1> QED BY <1>5, <1>6, <1>7

(* A worker's step during a batch: what is still owed of the jobs posted   *)
(* before the run is still to be told by some worker.                      *)
LEMMA WorkerStepKeepsOwed ==
  ASSUME JaTypeOK, OwedInv, UNCHANGED <<now, jobs, rows, started, whole>>,
         run # Off, run' # Off, run'.at = run.at, run'.since = run.since,
         \A s \in Ids : owed'[s] \subseteq owed[s],
         \A s \in Ids : \A j \in owed'[s] :
           s \in tried' /\ (s \in tried => \E w \in Workers : WillTell(w, s, j))
             => \E w \in Workers : WillTell(w, s, j)'
  PROVE  OwedInv'
<1>1. Saved' = Saved
  BY DEF Saved, rows
<1>2. OwedIsOpen' /\ RunIsLatest' /\ OwedIsRecent'
  BY <1>1 DEF OwedInv, OwedIsOpen, RunIsLatest, OwedIsRecent
<1>3. RunWillTell'
  BY DEF OwedInv, RunWillTell
<1> QED BY <1>2, <1>3 DEF OwedInv

LEMMA WorkersKeepOwed ==
  ASSUME JaTypeOK, WalkInv, OwedInv, NEW w \in Workers, WorkerNext(w)
  PROVE  OwedInv'
<1>0. \A v \in Workers : v # w => worker'[v] = worker[v]
  BY DEF WorkerNext, Take, ListJobs, CountJobs, SendDigest, DigestFails, JaTypeOK
<1>1. run.pc = "batch" /\ run # Off /\ run \in BatchState
  <2>1. worker[w] # Idle \/ run.pc = "batch"
    BY DEF WorkerNext, Take, ListJobs, CountJobs, SendDigest, DigestFails, Idle
  <2> QED BY <2>1, RunByPc DEF WalkInv
<1>2. ASSUME NEW i \in Ids, Take(w, i) PROVE OwedInv'
  <2>1. /\ run' # Off /\ run'.at = run.at /\ run'.since = run.since
        /\ worker[w] = Idle /\ worker'[w] = [pc |-> "asked", search |-> i]
        /\ tried' = tried \cup {i}
        /\ UNCHANGED <<now, jobs, rows, started, whole, owed>>
    BY <1>1, <1>2 DEF Take, BatchState, Off, JaTypeOK
  <2>2. \A j : WillTell(w, i, j)'
    BY <2>1 DEF WillTell, Idle
  <2>3. ASSUME NEW s, NEW j, NEW v \in Workers, WillTell(v, s, j)
        PROVE  WillTell(v, s, j)'
    BY <1>0, <2>1, <2>3 DEF WillTell
  <2> QED BY <1>1, <2>1, <2>2, <2>3, WorkerStepKeepsOwed
<1>3. ASSUME ListJobs(w) \/ CountJobs(w) PROVE OwedInv'
  <2>1. UNCHANGED <<now, jobs, rows, run, started, whole, tried, owed>>
    BY <1>3 DEF ListJobs, CountJobs
  <2>2. ASSUME NEW s \in Ids, NEW j \in owed[s] PROVE j \in Recent
    <3>1. j \in Jobs /\ jobs[j].open /\ jobs[j].at >= run.since
      BY <1>1 DEF OwedInv, OwedIsOpen, OwedIsRecent, JaTypeOK
    <3> QED BY <3>1 DEF Recent
  <2>3. ASSUME NEW s \in Ids, NEW j \in owed[s], WillTell(w, s, j)
        PROVE  WillTell(w, s, j)'
    <3>1. j \in Recent
      BY <2>2
    <3>2. (Recent # {}) = TRUE
      BY <3>1
    <3>3. CASE ListJobs(w)
      <4>1. worker'[w] = IF worker[w].pc = "asked"
                         THEN [pc |-> "listed", search |-> worker[w].search,
                               list |-> Recent]
                         ELSE [pc |-> "found", search |-> worker[w].search,
                               list |-> Recent, any |-> worker[w].any]
        BY <3>3 DEF ListJobs, JaTypeOK
      <4>2. worker[w].pc \in {"asked", "counted"}
        BY <3>3 DEF ListJobs
      <4> QED BY <2>3, <3>1, <4>1, <4>2 DEF WillTell, Idle
    <3>4. CASE CountJobs(w)
      <4>1. worker[w].pc \in {"asked", "listed"}
        BY <3>4 DEF CountJobs
      <4>2. worker[w] # Idle /\ worker[w].search = s
        BY <4>1, <2>3 DEF WillTell, Idle
      <4>3. CASE worker[w].pc = "asked"
        <5>1. worker'[w] = [pc |-> "counted", search |-> s, any |-> Recent # {}]
          BY <3>4, <4>2, <4>3 DEF CountJobs, JaTypeOK
        <5>2. worker'[w] = [pc |-> "counted", search |-> s, any |-> TRUE]
          BY <3>2, <5>1
        <5> QED BY <5>2 DEF WillTell, Idle
      <4>4. CASE worker[w].pc = "listed"
        <5>1. worker'[w] = [pc |-> "found", search |-> s,
                            list |-> worker[w].list, any |-> Recent # {}]
          BY <3>4, <4>2, <4>4 DEF CountJobs, JaTypeOK
        <5>2. worker'[w] = [pc |-> "found", search |-> s,
                            list |-> worker[w].list, any |-> TRUE]
          BY <3>2, <5>1
        <5> QED BY <2>3, <4>4, <5>2 DEF WillTell, Idle
      <4> QED BY <4>1, <4>3, <4>4
    <3> QED BY <1>3, <3>3, <3>4
  <2>4. ASSUME NEW s \in Ids, NEW j \in owed[s], NEW v \in Workers, WillTell(v, s, j)
        PROVE  WillTell(v, s, j)'
    BY <1>0, <2>3, <2>4 DEF WillTell
  <2> QED BY <1>1, <2>1, <2>4, WorkerStepKeepsOwed
<1>4. ASSUME SendDigest(w) \/ DigestFails(w) PROVE OwedInv'
  <2> DEFINE i == worker[w].search
  <2>1. /\ UNCHANGED <<now, jobs, rows, run, started, whole, tried>>
        /\ i \in Ids
    BY <1>4, WorkerByPc DEF SendDigest, DigestFails
  <2>2. \A s \in Ids : /\ owed'[s] \subseteq owed[s]
                       /\ s # i => owed'[s] = owed[s]
    BY <1>4, <2>1 DEF SendDigest, DigestFails, JaTypeOK
  <2>3. ASSUME NEW j \in owed'[i] PROVE ~ WillTell(w, i, j)
    <3>1. CASE SendDigest(w)
      BY <2>1, <2>3, <3>1 DEF SendDigest, WillTell, JaTypeOK
    <3>2. CASE DigestFails(w)
      BY <2>1, <2>3, <3>2 DEF DigestFails, JaTypeOK
    <3> QED BY <1>4, <3>1, <3>2
  <2>4. ASSUME NEW s \in Ids, NEW j \in owed'[s], NEW v \in Workers,
               WillTell(v, s, j)
        PROVE  WillTell(v, s, j)'
    <3>1. v # w
      BY <2>3, <2>4 DEF WillTell
    <3> QED BY <1>0, <2>4, <3>1 DEF WillTell
  <2> QED BY <1>1, <2>1, <2>2, <2>4, WorkerStepKeepsOwed
<1> QED BY <1>2, <1>3, <1>4 DEF WorkerNext

LEMMA OwedInductive ==
  JaTypeOK /\ WalkInv /\ OwedInv /\ [JaNext]_jaVars => OwedInv'
<1> SUFFICES ASSUME JaTypeOK, WalkInv, OwedInv, [JaNext]_jaVars PROVE OwedInv'
  OBVIOUS
<1>1. CASE JaRestart
  <2>1. /\ UNCHANGED <<now, jobs, rows, started, whole, tried>> /\ run' = Off
        /\ owed' = IF run = Off THEN owed ELSE Nothing
    BY <1>1 DEF JaRestart
  <2>2. Saved' = Saved
    BY <2>1 DEF Saved, rows
  <2> QED BY <2>1, <2>2 DEF OwedInv, OwedIsOpen, RunIsLatest, OwedIsRecent,
                            RunWillTell, Nothing
<1>2. CASE UNCHANGED jaVars
  <2>1. Saved' = Saved
    BY <1>2 DEF jaVars, rows, Saved
  <2> QED BY <1>2, <2>1 DEF jaVars, rows, OwedInv, OwedIsOpen, RunIsLatest,
                            OwedIsRecent, RunWillTell, WillTell
<1> QED BY <1>1, <1>2, RequestsKeepOwed, PostKeepsOwed, CloseKeepsOwed,
           TickKeepsOwed, RunKeepsOwed, WorkersKeepOwed DEF JaNext, RunNext

(* At whatever time of its day each run begins: one that ends leaves no    *)
(* search owing a job that was posted before it began, but for what is let *)
(* off, a job that slipped between the windows of two runs among it.       *)
THEOREM JobsAreTold == JaSpec => EveryJobIsTold
<1> DEFINE A == RunEnd => \A s \in Ids : \A j \in owed'[s] : jobs[j].at >= run.at
<1>1. JaInit => OwedInv
  <2> SUFFICES ASSUME JaInit PROVE OwedInv
    OBVIOUS
  <2>1. \A s \in Ids : owed[s] = {}
    BY DEF JaInit, Nothing
  <2>2. \A j \in Jobs : jobs[j].at = 0 /\ ~ jobs[j].open
    BY DEF JaInit
  <2> QED BY <2>1, <2>2 DEF JaInit, OwedInv, OwedIsOpen, RunIsLatest, OwedIsRecent,
                            RunWillTell
<1>2. JaTypeOK /\ WalkInv /\ OwedInv /\ [JaNext]_jaVars => [A]_jaVars
  <2> SUFFICES ASSUME JaTypeOK, WalkInv, OwedInv, [JaNext]_jaVars, RunEnd
               PROVE  \A s \in Ids : \A j \in owed'[s] : jobs[j].at >= run.at
    OBVIOUS
  <2>1. OwedInv' /\ run' = Off /\ run # Off
    BY OwedInductive, RunByPc DEF RunEnd
  <2>2. started' = started /\ run.at = started /\ jobs' = jobs
    BY <2>1 DEF RunEnd, OwedInv, RunIsLatest
  <2> QED BY <2>1, <2>2 DEF OwedInv, OwedIsRecent
<1> QED BY <1>1, <1>2, OwedInductive, WalkHolds, PTL DEF JaSpec, EveryJobIsTold
=============================================================================
