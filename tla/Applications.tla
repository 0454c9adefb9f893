----------------------------- MODULE Applications -----------------------------
(***************************************************************************)
(* The application component: apply, recruiter status updates and          *)
(* candidate withdrawal, over the tables job_applications and              *)
(* application_status_histories.                                           *)
(*                                                                         *)
(* A handler's execute() is a chain of awaits.  Between two of them any    *)
(* other request may run, so each request slot holds what its handler has  *)
(* read so far and one action stands for the code between two awaits.  The *)
(* repository writes the whole row from the entity read earlier            *)
(* (toPersistence), in READ COMMITTED and with no row version.             *)
(*                                                                         *)
(* jobs and cvs are owned by other components; here they change as those   *)
(* components may change them.                                             *)
(***************************************************************************)
EXTENDS ApplicationStatus, Naturals, Sequences

CONSTANTS
  Candidates, Recruiters,
  Jobs, Cvs,
  PostedBy,                     \* [Jobs -> Recruiters], Job.postedById
  CvOwner,                      \* [Cvs -> Candidates], Cv.userId
  Ids,                          \* application ids
  Requests,                     \* slots for requests in flight
  NoCv, NoRow,                  \* cvId = null; no row under this id
  Targets,                      \* statuses recruiters ask for
  MaxHistory                    \* bound on the history rows of one application

ASSUME ReferencesAssumption ==
  /\ PostedBy \in [Jobs -> Recruiters]
  /\ CvOwner \in [Cvs -> Candidates]
ASSUME NoCvAssumption == NoCv \notin Cvs
ASSUME TargetsAssumption == Targets \subseteq ApplicationStatuses
ASSUME MaxHistoryAssumption == MaxHistory \in Nat

VARIABLES
  jobs,                         \* [Jobs -> JobStates]
  cvs,                          \* [Cvs -> CvStates]
  applications,                 \* [Ids -> row of job_applications, or NoRow]
  statusHistory,                \* [Ids -> rows of application_status_histories]
  told,                         \* [Ids -> statuses announced by an event]
  req                           \* [Requests -> what the handler holds]

tables == <<jobs, cvs>>
appVars == <<applications, statusHistory, told, req>>
vars == <<jobs, cvs, applications, statusHistory, told, req>>

(* "open" is Job.isOpen: OPEN, not expired, not deleted; "closed" is any   *)
(* other job that JobRepository.findById still returns.                    *)
JobStates == {"open", "closed", "deleted"}
(* "live" is what CvRepository.findById returns; "deleted" is a row with   *)
(* deletedAt set; "purged" has no row any more.                            *)
CvStates == {"absent", "live", "deleted", "purged"}

ApplicationRow == [userId : Candidates, jobId : Jobs,
                   cvId : Cvs \cup {NoCv}, status : ApplicationStatuses]
HistoryRow == [from : ApplicationStatuses, to : ApplicationStatuses,
               changedById : Candidates \cup Recruiters]

ASSUME NoRowAssumption == NoRow \notin ApplicationRow

Idle == [pc |-> "idle"]
ApplyReq == [pc : {"applyLookedUp", "applyChecked"},
             user : Candidates, job : Jobs, cv : Cvs, cvSeen : CvStates]
MoveReq == [pc : {"moveRead"}, app : Ids, seen : ApplicationRow,
            to : ApplicationStatuses, by : Recruiters]
WriteReq == [pc : {"moveWrite", "withdrawWrite"}, app : Ids,
             seen : ApplicationRow, to : ApplicationStatuses,
             by : Candidates \cup Recruiters]
EmitReq == [pc : {"emit"}, app : Ids, status : ApplicationStatuses]
RequestStates == {Idle} \cup ApplyReq \cup MoveReq \cup WriteReq \cup EmitReq

Exists(a) == applications[a] # NoRow

Init ==
  /\ jobs \in [Jobs -> {"open", "closed"}]
  /\ cvs = [c \in Cvs |-> "absent"]
  /\ applications = [a \in Ids |-> NoRow]
  /\ statusHistory = [a \in Ids |-> << >>]
  /\ told = [a \in Ids |-> {}]
  /\ req = [r \in Requests |-> Idle]

-----------------------------------------------------------------------------
(* ApplyJobHandler.execute                                                 *)

(* findByUserIdAndJobId                                                    *)
Applied(u, j) ==
  \E a \in Ids : Exists(a) /\ applications[a].userId = u
                           /\ applications[a].jobId = j

(* The job and CV lookups and the checks on what they return.              *)
ApplyLookups(r, u, j, c) ==
  /\ req[r] = Idle
  /\ jobs[j] = "open"
  /\ cvs[c] = "live"
  /\ CvOwner[c] = u
  /\ req' = [req EXCEPT ![r] = [pc |-> "applyLookedUp",
                                user |-> u, job |-> j, cv |-> c,
                                cvSeen |-> cvs[c]]]
  /\ UNCHANGED <<jobs, cvs, applications, statusHistory, told>>

ApplyCheckExisting(r) ==
  /\ req[r].pc = "applyLookedUp"
  /\ req' = [req EXCEPT ![r] = IF Applied(req[r].user, req[r].job)
                               THEN Idle
                               ELSE [req[r] EXCEPT !.pc = "applyChecked"]]
  /\ UNCHANGED <<jobs, cvs, applications, statusHistory, told>>

(* Mutant: the table without @@unique([userId, jobId]).                    *)
InsertAllowed_NoUnique(u, j, c) == cvs[c] \in {"live", "deleted"}

(* What PostgreSQL checks of an insert: @@unique([userId, jobId]) and the  *)
(* foreign key on the CV row.                                              *)
InsertAllowed(u, j, c) ==
  /\ ~ Applied(u, j)
  /\ cvs[c] \in {"live", "deleted"}

ApplySave(r) ==
  /\ req[r].pc = "applyChecked"
  /\ InsertAllowed(req[r].user, req[r].job, req[r].cv)
  /\ \E a \in Ids :
       /\ ~ Exists(a)
       /\ applications' = [applications EXCEPT ![a] =
            [userId |-> req[r].user, jobId |-> req[r].job,
             cvId |-> req[r].cv, status |-> "APPLIED"]]
       /\ req' = [req EXCEPT ![r] = [pc |-> "emit", app |-> a,
                                     status |-> "APPLIED"]]
  /\ UNCHANGED <<jobs, cvs, statusHistory, told>>

(* P2002 becomes AlreadyAppliedException; any other error is rethrown.     *)
ApplySaveRefused(r) ==
  /\ req[r].pc = "applyChecked"
  /\ ~ InsertAllowed(req[r].user, req[r].job, req[r].cv)
  /\ req' = [req EXCEPT ![r] = Idle]
  /\ UNCHANGED <<jobs, cvs, applications, statusHistory, told>>

-----------------------------------------------------------------------------
(* UpdateApplicationStatusHandler.execute                                  *)

MoveRead(r, by, a, to) ==
  /\ req[r] = Idle
  /\ Exists(a)
  /\ req' = [req EXCEPT ![r] = [pc |-> "moveRead", app |-> a,
                                seen |-> applications[a],
                                to |-> to, by |-> by]]
  /\ UNCHANGED <<jobs, cvs, applications, statusHistory, told>>

(* Mutant: any move out of a status that is not terminal.                  *)
TransitionTo_AnyMove(row, to) == ~ IsTerminal(row.status)

(* JobApplication.transitionTo on the entity read at the start.            *)
TransitionTo(row, to) == CanTransition(row.status, to)

(* jobLookup, ensureOwner and transitionTo; any refusal ends the request.  *)
MoveCheck(r) ==
  /\ req[r].pc = "moveRead"
  /\ LET m == req[r]
         allowed == /\ jobs[m.seen.jobId] # "deleted"
                    /\ PostedBy[m.seen.jobId] = m.by
                    /\ TransitionTo(m.seen, m.to)
     IN req' = [req EXCEPT ![r] = IF allowed
                                  THEN [m EXCEPT !.pc = "moveWrite"]
                                  ELSE Idle]
  /\ UNCHANGED <<jobs, cvs, applications, statusHistory, told>>

-----------------------------------------------------------------------------
(* WithdrawApplicationHandler.execute                                      *)

WithdrawRead(r, a) ==
  /\ req[r] = Idle
  /\ Exists(a)
  /\ CanWithdraw(applications[a].status)
  /\ req' = [req EXCEPT ![r] = [pc |-> "withdrawWrite", app |-> a,
                                seen |-> applications[a], to |-> "WITHDRAWN",
                                by |-> applications[a].userId]]
  /\ UNCHANGED <<jobs, cvs, applications, statusHistory, told>>

-----------------------------------------------------------------------------
(* The write both handlers end with                                        *)

(* JobApplicationMapper.toPersistence: every column of the entity as it    *)
(* was read, with the new status.                                          *)
ToPersistence(seen, to) == [seen EXCEPT !.status = to]

(* Mutant: no foreign key on the write.                                    *)
CvStillReferable_NoForeignKey(row) == TRUE

(* The foreign key on cvId, checked when the whole row is written back.    *)
CvStillReferable(row) ==
  row.cvId # NoCv => cvs[row.cvId] \in {"live", "deleted"}

(* Mutant: a history of one row.                                           *)
UpdateWithHistory_LastOnly(a, row, entry) ==
  /\ applications' = [applications EXCEPT ![a] = row]
  /\ statusHistory' = [statusHistory EXCEPT ![a] = <<entry>>]

(* updateWithStatusHistory: one transaction.                               *)
UpdateWithHistory(a, row, entry) ==
  /\ applications' = [applications EXCEPT ![a] = row]
  /\ statusHistory' = [statusHistory EXCEPT ![a] = Append(@, entry)]

StatusWrite(r) ==
  /\ req[r].pc \in {"moveWrite", "withdrawWrite"}
  /\ LET w == req[r] IN
       /\ CvStillReferable(w.seen)
       /\ Len(statusHistory[w.app]) < MaxHistory
       /\ UpdateWithHistory(w.app, ToPersistence(w.seen, w.to),
                            [from |-> w.seen.status, to |-> w.to,
                             changedById |-> w.by])
       /\ req' = [req EXCEPT ![r] =
            IF w.pc = "moveWrite"
            THEN [pc |-> "emit", app |-> w.app, status |-> w.to]
            ELSE Idle]
  /\ UNCHANGED <<jobs, cvs, told>>

(* JOB_APPLIED or APPLICATION_STATUS_CHANGED, after the commit.            *)
EmitEvent(r) ==
  /\ req[r].pc = "emit"
  /\ told' = [told EXCEPT ![req[r].app] = @ \cup {req[r].status}]
  /\ req' = [req EXCEPT ![r] = Idle]
  /\ UNCHANGED <<jobs, cvs, applications, statusHistory>>

(* A query rejects, the transaction rolls back, or the process dies.       *)
RequestFails(r) ==
  /\ req[r] # Idle
  /\ req' = [req EXCEPT ![r] = Idle]
  /\ UNCHANGED <<jobs, cvs, applications, statusHistory, told>>

AppStep(r) ==
  \/ \E u \in Candidates, j \in Jobs, c \in Cvs : ApplyLookups(r, u, j, c)
  \/ ApplyCheckExisting(r)
  \/ ApplySave(r)
  \/ ApplySaveRefused(r)
  \/ \E by \in Recruiters, a \in Ids, to \in Targets :
       MoveRead(r, by, a, to)
  \/ MoveCheck(r)
  \/ \E a \in Ids : WithdrawRead(r, a)
  \/ StatusWrite(r)
  \/ EmitEvent(r)
  \/ RequestFails(r)

-----------------------------------------------------------------------------
(* The other components' writes to the rows this one reads                 *)

JobChanges(j) ==
  /\ \E s \in JobStates : jobs' = [jobs EXCEPT ![j] = s]
  /\ UNCHANGED <<cvs, appVars>>

CvMoves == {<<"absent", "live">>, <<"live", "deleted">>,
            <<"deleted", "live">>, <<"deleted", "purged">>}

(* Purging a CV row sets cvId to null in every application (SetNull).      *)
SetNull(c) ==
  [a \in Ids |-> IF Exists(a) /\ applications[a].cvId = c
                 THEN [applications[a] EXCEPT !.cvId = NoCv]
                 ELSE applications[a]]

CvChanges(c, s) ==
  /\ <<cvs[c], s>> \in CvMoves
  /\ cvs' = [cvs EXCEPT ![c] = s]
  /\ applications' = IF s = "purged" THEN SetNull(c) ELSE applications
  /\ UNCHANGED <<jobs, statusHistory, told, req>>

Next ==
  \/ \E r \in Requests : AppStep(r)
  \/ \E j \in Jobs : JobChanges(j)
  \/ \E c \in Cvs, s \in CvStates : CvChanges(c, s)

Spec == Init /\ [][Next]_vars

-----------------------------------------------------------------------------
(* Properties                                                              *)

TypeOK ==
  /\ jobs \in [Jobs -> JobStates]
  /\ cvs \in [Cvs -> CvStates]
  /\ applications \in [Ids -> ApplicationRow \cup {NoRow}]
  /\ statusHistory \in [Ids -> Seq(HistoryRow)]
  /\ told \in [Ids -> SUBSET ApplicationStatuses]
  /\ req \in [Requests -> RequestStates]

(* A candidate has at most one application to a job, although the handler  *)
(* checks for one and inserts in two separate queries.                     *)
OneApplicationPerJob ==
  \A a, b \in Ids :
    /\ Exists(a) /\ Exists(b)
    /\ applications[a].userId = applications[b].userId
    /\ applications[a].jobId = applications[b].jobId
    => a = b

RecordedStatus(a) ==
  IF statusHistory[a] = << >> THEN "APPLIED"
  ELSE statusHistory[a][Len(statusHistory[a])].to

(* The status of an application is the one its last history row records:   *)
(* no interleaving or failure separates the two writes.                    *)
StatusIsRecorded ==
  \A a \in Ids : IF Exists(a) THEN applications[a].status = RecordedStatus(a)
                              ELSE statusHistory[a] = << >>

(* An application points at a CV row that exists: neither an insert nor a  *)
(* whole-row write of a stale cvId brings a purged CV back.                *)
NoDanglingCv ==
  \A a \in Ids : Exists(a) /\ applications[a].cvId # NoCv
                 => cvs[applications[a].cvId] \in {"live", "deleted"}

HeldStatuses(a) ==
  {"APPLIED"} \cup {statusHistory[a][i].to : i \in 1..Len(statusHistory[a])}

(* Events are emitted after the commit: a status is announced only of an   *)
(* application that exists and has held that status.                       *)
ToldOnlyCommitted ==
  \A a \in Ids : told[a] # {} => Exists(a) /\ told[a] \subseteq HeldStatuses(a)

(* What a request read of an application is in that application's past:   *)
(* the status it saw was held at some time, and the move it is about to    *)
(* write is legal from there.  (The inductive core of the proofs.)         *)
SeenInPast(q) ==
  /\ Exists(q.app)
  /\ q.seen.status \in HeldStatuses(q.app)
  /\ q.seen.userId = applications[q.app].userId
  /\ q.seen.jobId = applications[q.app].jobId

HoldsThePast(q) ==
  /\ q.pc \in {"moveRead", "moveWrite", "withdrawWrite"} => SeenInPast(q)
  /\ q.pc \in {"moveWrite", "withdrawWrite"} => LegalMove(q.seen.status, q.to)
  /\ q.pc = "emit" => Exists(q.app) /\ q.status \in HeldStatuses(q.app)

RequestsHoldThePast == \A r \in Requests : HoldsThePast(req[r])

(* The refinement mapping: the rows as the abstract specifications see     *)
(* them.                                                                   *)
StageOf(a) == IF Exists(a) THEN applications[a].status ELSE "NONE"

Trail == INSTANCE AuditTrail WITH
  People <- Candidates \cup Recruiters,
  stage <- [a \in Ids |-> StageOf(a)],
  trail <- statusHistory

(* However requests interleave, the component implements AuditTrail: each  *)
(* change of status appends its history row, and that row is a legal move  *)
(* out of a status the application held.                                   *)
ImplementsAuditTrail == Trail!Spec

Pipeline == INSTANCE HiringPipeline WITH stage <- [a \in Ids |-> StageOf(a)]

(* r writes a status, and the stored one is not the one it read: another   *)
(* request moved the application in between.                               *)
Overtaken(r) ==
  /\ req[r].pc \in {"moveWrite", "withdrawWrite"}
  /\ req'[r] # req[r]
  /\ req[r].seen.status # applications[req[r].app].status

OvertakenWrite == \E r \in Requests : Overtaken(r)

(* The component implements the pipeline of the domain model: every move   *)
(* leaves the status the application holds, unless the request that makes  *)
(* it was overtaken between its read and its write, for the row has no     *)
(* version.                                                                *)
ImplementsPipeline ==
  /\ Pipeline!Init
  /\ [][Pipeline!Next \/ OvertakenWrite]_([a \in Ids |-> StageOf(a)])

(* "rejects moving out of a terminal status" (job-application.entity.spec  *)
(* 48), of the stored row: only a request that read the application before *)
(* it reached the terminal status takes it out of it.                      *)
TerminalIsFinal ==
  [][\A a \in Ids : Exists(a) /\ IsTerminal(applications[a].status) =>
       applications'[a].status = applications[a].status \/ OvertakenWrite]_vars
=============================================================================
