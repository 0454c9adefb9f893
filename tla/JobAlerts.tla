----------------------------- MODULE JobAlerts -----------------------------
(***************************************************************************)
(* Saved searches and the digest that the cron mails at 7:00 each day: a   *)
(* keyset walk over saved_searches in batches, each batch shared by a few  *)
(* workers, while searches are saved and deleted and jobs come and go.     *)
(*                                                                         *)
(* Row ids are random, so a new row may land before or behind the cursor.  *)
(* Every job here matches every search: the filters are data.  The mail's  *)
(* wording and its limit of listed jobs are left out, and so is reopening, *)
(* which makes no job new.  A run begins at its 7:00 or later in the day,  *)
(* when the process gets to it, and is over before the next one is due.    *)
(***************************************************************************)
EXTENDS Integers, FiniteSets

CONSTANTS
  Users, Jobs, LastId,          \* LastId: the ids of searches are 1..LastId
  Requests, Workers,            \* slots; SEND_CONCURRENCY = |Workers|
  Limit,                        \* MAX_SAVED_SEARCHES_PER_USER
  Batch,                        \* BATCH_SIZE
  Day, MaxTime,                 \* ticks in a day, and a bound on the clock
  None

Ids == 1..LastId

ASSUME JobAlertsAssumption ==
  /\ Limit \in Nat \ {0} /\ Batch \in Nat \ {0}
  /\ Day \in Nat \ {0} /\ MaxTime \in Nat
  /\ LastId \in Nat /\ None \notin Users \cup Ids
  /\ IsFiniteSet(Requests)

VARIABLES
  now,                          \* the clock; it is 7:00 when Day divides it
  jobs,                         \* [Jobs -> [at, open]]: at 0 before it exists
  owner,                        \* saved_searches: id -> userId
  spent,                        \* ids that have been given out
  request,                      \* [Requests -> what a handler holds]
  run,                          \* the digest run
  worker,                       \* [Workers -> what it holds]
  started,                      \* when the latest run began, 0 when none has
  whole, tried,                 \* ghosts: searches here for the whole run, tried
  owed                          \* ghost: jobs a search is still to hear of

rows == <<owner, spent>>
jaVars == <<now, jobs, rows, request, run, worker, started, whole, tried, owed>>

Idle == [pc |-> "idle"]
Off == [pc |-> "off"]
Saved == {s \in Ids : owner[s] # None}
OwnedBy(u) == {s \in Ids : owner[s] = u}
(* The latest 7:00, and whether its run is still to begin.                 *)
LastSeven == now - (now % Day)
Due == started < LastSeven
Nothing == [s \in Ids |-> {}]

JaInit ==
  /\ now = 1
  /\ jobs = [j \in Jobs |-> [at |-> 0, open |-> FALSE]]
  /\ owner = [s \in Ids |-> None] /\ spent = {}
  /\ request = [q \in Requests |-> Idle]
  /\ run = Off /\ worker = [w \in Workers |-> Idle] /\ started = 0
  /\ whole = {} /\ tried = {} /\ owed = Nothing

-----------------------------------------------------------------------------
(* CreateSavedSearchHandler and DeleteSavedSearchHandler.                  *)

(* Mutant: the limit is checked one too late.                              *)
CreateCount_Late(q, u) ==
  /\ request[q] = Idle
  /\ Cardinality(OwnedBy(u)) <= Limit
  /\ request' = [request EXCEPT ![q] = [pc |-> "counted", user |-> u]]
  /\ UNCHANGED <<now, jobs, rows, run, worker, started, whole, tried, owed>>

(* countByUserId; the category is looked up after it.                      *)
CreateCount(q, u) ==
  /\ request[q] = Idle
  /\ Cardinality(OwnedBy(u)) < Limit
  /\ request' = [request EXCEPT ![q] = [pc |-> "counted", user |-> u]]
  /\ UNCHANGED <<now, jobs, rows, run, worker, started, whole, tried, owed>>

CreateInsert(q, s) ==
  /\ request[q].pc = "counted" /\ s \notin spent
  /\ owner' = [owner EXCEPT ![s] = request[q].user]
  /\ spent' = spent \cup {s}
  /\ request' = [request EXCEPT ![q] = Idle]
  /\ UNCHANGED <<now, jobs, run, worker, started, whole, tried, owed>>

DeleteFind(q, u, s) ==
  /\ request[q] = Idle /\ owner[s] = u
  /\ request' = [request EXCEPT ![q] = [pc |-> "found", id |-> s]]
  /\ UNCHANGED <<now, jobs, rows, run, worker, started, whole, tried, owed>>

(* A row that is gone already makes the second delete fail (P2025).        *)
DeleteRow(q) ==
  /\ request[q].pc = "found"
  /\ LET s == request[q].id
     IN  /\ owner' = [owner EXCEPT ![s] = None]
         /\ whole' = whole \ {s}
         /\ owed' = [owed EXCEPT ![s] = {}]
  /\ request' = [request EXCEPT ![q] = Idle]
  /\ UNCHANGED <<now, jobs, spent, run, worker, started, tried>>

(* The category does not exist, or a query of either handler is rejected.  *)
JaRequestFails(q) ==
  /\ request[q] # Idle
  /\ request' = [request EXCEPT ![q] = Idle]
  /\ UNCHANGED <<now, jobs, rows, run, worker, started, whole, tried, owed>>

-----------------------------------------------------------------------------
(* Jobs and the clock.                                                     *)

PostJob(j) ==
  /\ jobs[j].at = 0
  /\ jobs' = [jobs EXCEPT ![j] = [at |-> now, open |-> TRUE]]
  /\ owed' = [s \in Ids |-> IF s \in Saved THEN owed[s] \cup {j} ELSE {}]
  /\ UNCHANGED <<now, rows, request, run, worker, started, whole, tried>>

(* Closed, expired or deleted: no search returns it any more.              *)
CloseJob(j) ==
  /\ jobs[j].open
  /\ jobs' = [jobs EXCEPT ![j].open = FALSE]
  /\ owed' = [s \in Ids |-> owed[s] \ {j}]
  /\ UNCHANGED <<now, rows, request, run, worker, started, whole, tried>>

(* A digest not begun by the next 7:00 is never made up for.               *)
Tick ==
  /\ now < MaxTime
  /\ run = Off \/ (now + 1) % Day # 0
  /\ now' = now + 1
  /\ UNCHANGED <<jobs, rows, request, run, worker, started, whole, tried, owed>>

-----------------------------------------------------------------------------
(* SendJobAlertDigestsHandler.                                             *)

(* The job falls between the latest run, which it came too late for, and   *)
(* the window of one that begins now: that run begins later in its day, or *)
(* a day had none.                                                         *)
Slips(j) == started <= jobs[j].at /\ jobs[j].at < now - Day

(* since is reckoned from the moment the handler is executed.              *)
RunStart ==
  /\ Due /\ run = Off
  /\ run' = [pc |-> "fetch", at |-> now, since |-> now - Day, cursor |-> None]
  /\ started' = now
  /\ whole' = Saved /\ tried' = {}
  /\ owed' = [s \in Ids |-> {j \in owed[s] : ~ Slips(j)}]
  /\ UNCHANGED <<now, jobs, rows, request, worker>>

(* Mutant: the cursor row itself is not skipped.                           *)
Behind_Unskipped(cursor) ==
  {s \in Saved : cursor # None => cursor \in Saved /\ s >= cursor}

(* findBatch: the rows behind the cursor row, none when that row is gone,  *)
Behind(cursor) ==
  {s \in Saved : cursor # None => cursor \in Saved /\ s > cursor}

(* of which it takes the first Batch in the order of their ids.            *)
Page(cursor) ==
  {s \in Behind(cursor) : Cardinality({t \in Behind(cursor) : t < s}) < Batch}

CursorIsGone == run.cursor # None /\ run.cursor \notin Saved

FetchBatch ==
  /\ run.pc = "fetch"
  /\ \E last \in Page(run.cursor) :
       /\ \A s \in Page(run.cursor) : s <= last
       /\ run' = [pc |-> "batch", at |-> run.at, since |-> run.since,
                  todo |-> Page(run.cursor), last |-> last]
  /\ UNCHANGED <<now, jobs, rows, request, worker, started, whole, tried, owed>>

RunEnd ==
  /\ run.pc = "fetch" /\ Behind(run.cursor) = {}
  /\ run' = Off
  /\ owed' = IF CursorIsGone THEN Nothing ELSE owed
  /\ UNCHANGED <<now, jobs, rows, request, worker, started, whole, tried>>

(* findBatch is rejected: the run is given up.                             *)
RunFails ==
  /\ run.pc = "fetch"
  /\ run' = Off /\ owed' = Nothing
  /\ UNCHANGED <<now, jobs, rows, request, worker, started, whole, tried>>

(* nextIndex++: the next search of the batch.                              *)
Take(w, s) ==
  /\ run.pc = "batch" /\ worker[w] = Idle
  /\ s \in run.todo /\ \A t \in run.todo : s <= t
  /\ worker' = [worker EXCEPT ![w] = [pc |-> "asked", search |-> s]]
  /\ tried' = tried \cup {s}
  /\ run' = [run EXCEPT !.todo = @ \ {s}]
  /\ UNCHANGED <<now, jobs, rows, request, started, whole, owed>>

(* Mutant: createdAt is compared with gt.                                  *)
Recent_After == {j \in Jobs : jobs[j].open /\ jobs[j].at > run.since}

Recent == {j \in Jobs : jobs[j].open /\ jobs[j].at >= run.since}

(* findMany and count run side by side and see two moments of the table.   *)
ListJobs(w) ==
  /\ worker[w].pc \in {"asked", "counted"}
  /\ LET s == worker[w].search
     IN  worker' = [worker EXCEPT ![w] =
           IF worker[w].pc = "asked"
           THEN [pc |-> "listed", search |-> s, list |-> Recent]
           ELSE [pc |-> "found", search |-> s, list |-> Recent,
                 any |-> worker[w].any]]
  /\ UNCHANGED <<now, jobs, rows, request, run, started, whole, tried, owed>>

CountJobs(w) ==
  /\ worker[w].pc \in {"asked", "listed"}
  /\ LET s == worker[w].search
     IN  worker' = [worker EXCEPT ![w] =
           IF worker[w].pc = "asked"
           THEN [pc |-> "counted", search |-> s, any |-> Recent # {}]
           ELSE [pc |-> "found", search |-> s, list |-> worker[w].list,
                 any |-> Recent # {}]]
  /\ UNCHANGED <<now, jobs, rows, request, run, started, whole, tried, owed>>

(* Nothing counted, nothing mailed.                                        *)
SendDigest(w) ==
  /\ worker[w].pc = "found"
  /\ owed' = IF worker[w].any
             THEN [owed EXCEPT ![worker[w].search] = @ \ worker[w].list]
             ELSE owed
  /\ worker' = [worker EXCEPT ![w] = Idle]
  /\ UNCHANGED <<now, jobs, rows, request, run, started, whole, tried>>

(* Mutant: one try around the whole batch, so a failure gives it up.       *)
DigestFails_Batch(w) ==
  /\ worker[w] # Idle
  /\ run' = [run EXCEPT !.todo = {}]
  /\ worker' = [v \in Workers |-> Idle]
  /\ owed' = [owed EXCEPT ![worker[w].search] = {}]
  /\ UNCHANGED <<now, jobs, rows, request, started, whole, tried>>

(* Logged and counted; that search waits for tomorrow's jobs.              *)
DigestFails(w) ==
  /\ worker[w] # Idle
  /\ owed' = [owed EXCEPT ![worker[w].search] = {}]
  /\ worker' = [worker EXCEPT ![w] = Idle]
  /\ UNCHANGED <<now, jobs, rows, request, run, started, whole, tried>>

BatchDone ==
  /\ run.pc = "batch" /\ run.todo = {}
  /\ \A w \in Workers : worker[w] = Idle
  /\ run' = [pc |-> "fetch", at |-> run.at, since |-> run.since,
             cursor |-> run.last]
  /\ UNCHANGED <<now, jobs, rows, request, worker, started, whole, tried, owed>>

(* A restart: the run is lost with the process and nothing resumes it.     *)
JaRestart ==
  /\ request' = [q \in Requests |-> Idle]
  /\ run' = Off /\ worker' = [w \in Workers |-> Idle]
  /\ owed' = IF run = Off THEN owed ELSE Nothing
  /\ UNCHANGED <<now, jobs, rows, started, whole, tried>>

-----------------------------------------------------------------------------
RequestNext(q) ==
  \/ \E u \in Users : CreateCount(q, u) \/ \E s \in Ids : DeleteFind(q, u, s)
  \/ \E s \in Ids : CreateInsert(q, s)
  \/ DeleteRow(q) \/ JaRequestFails(q)

WorkerNext(w) ==
  \/ \E s \in Ids : Take(w, s)
  \/ ListJobs(w) \/ CountJobs(w) \/ SendDigest(w) \/ DigestFails(w)

RunNext ==
  \/ FetchBatch \/ RunEnd \/ RunFails \/ BatchDone
  \/ \E w \in Workers : WorkerNext(w)

JaNext ==
  \/ \E q \in Requests : RequestNext(q)
  \/ \E j \in Jobs : PostJob(j) \/ CloseJob(j)
  \/ Tick \/ RunStart \/ RunNext \/ JaRestart

JaSpec == JaInit /\ [][JaNext]_jaVars

-----------------------------------------------------------------------------
RequestState ==
  {Idle} \cup [pc : {"counted"}, user : Users] \cup [pc : {"found"}, id : Ids]
FetchState ==
  [pc : {"fetch"}, at : Int, since : Int, cursor : Ids \cup {None}]
BatchState ==
  [pc : {"batch"}, at : Int, since : Int, todo : SUBSET Ids, last : Ids]
WorkerState ==
  {Idle}
  \cup [pc : {"asked"}, search : Ids]
  \cup [pc : {"listed"}, search : Ids, list : SUBSET Jobs]
  \cup [pc : {"counted"}, search : Ids, any : BOOLEAN]
  \cup [pc : {"found"}, search : Ids, list : SUBSET Jobs, any : BOOLEAN]

JaTypeOK ==
  /\ now \in Nat \ {0}
  /\ jobs \in [Jobs -> [at : Nat, open : BOOLEAN]]
  /\ owner \in [Ids -> Users \cup {None}] /\ spent \subseteq Ids
  /\ request \in [Requests -> RequestState]
  /\ run \in {Off} \cup FetchState \cup BatchState
  /\ worker \in [Workers -> WorkerState]
  /\ started \in Nat
  /\ whole \subseteq Ids /\ tried \subseteq Ids
  /\ owed \in [Ids -> SUBSET Jobs]

(* "Nothing stopped a single account from creating an unbounded number of  *)
(* them" (create-saved-search.command.ts): count and insert are two steps, *)
(* so the limit gives way, but by no more than the requests in flight.     *)
LimitHolds ==
  \A u \in Users :
    Cardinality(OwnedBy(u)) + 1 <= Limit + Cardinality(Requests)

(* A run mails a search once at most, whatever is saved, deleted and       *)
(* renumbered around its cursor and however its workers take turns.        *)
OncePerRun ==
  [][\A w \in Workers, s \in Ids : Take(w, s) => s \notin tried]_jaVars

(* "One recipient's bad address / a transient SMTP error must not cancel   *)
(* the digest for everyone processed after them": a run that reaches the   *)
(* end of the table has tried every search that was there from its start   *)
(* to its end, unless the row its cursor named was deleted.                *)
NobodyIsForgotten ==
  [][RunEnd => CursorIsGone \/ whole \subseteq tried]_jaVars

(* A job is told to every search that is there when it is posted, at       *)
(* whatever time of its day each run begins: one that ends leaves no       *)
(* search owing a job posted before it began.  Let off: a failed digest, a *)
(* lost run, a job that closed, and one that slipped between the windows   *)
(* of two runs that began more than a day apart.                           *)
EveryJobIsTold ==
  [][RunEnd => \A s \in Ids : \A j \in owed'[s] : jobs[j].at >= run.at]_jaVars
=============================================================================
