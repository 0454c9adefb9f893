----------------------------- MODULE JobPostings -----------------------------
(***************************************************************************)
(* The job component with the taxonomy it refers to, composed with         *)
(* Companies: create, update, close, reopen, delete and view a posting,    *)
(* the hourly cron that closes expired ones, and the administrators'       *)
(* handlers that add and delete categories and skills.                     *)
(*                                                                         *)
(* A posting is written whole, from the entity read at the start of the    *)
(* handler.  viewCount alone is left out of toPersistence and incremented  *)
(* in the database, and the tags live in the join table job_skills.        *)
(*                                                                         *)
(* A cron run takes a slot of Requests like any request.  Wording, salary, *)
(* place and slugs of terms are left out: no decision modelled here needs  *)
(* them.                                                                   *)
(***************************************************************************)
EXTENDS Companies, Naturals

CONSTANTS
  Jobs,
  Categories, Skills,           \* ids of the taxonomy's terms
  NoCategory,                   \* Job.categoryId = null
  Deadlines, NoDeadline,        \* values of Job.expiresAt
  Keep,                         \* a field the update leaves out
  NoJob,                        \* the request creates its posting
  MaxNow, MaxViews              \* bounds on the clock and on viewCount

ASSUME TaxonomyAssumption ==
  Categories \cap Skills = {} /\ NoCategory \notin Categories
ASSUME AbsenceAssumption == NoJob \notin Jobs /\ \A ts \in SUBSET Skills : Keep # ts
ASSUME ClockAssumption == Deadlines \subseteq Nat /\ MaxNow \in Nat /\ MaxViews \in Nat

VARIABLES
  postings,                     \* [Jobs -> row of jobs, or NoRow]
  tags,                         \* [Jobs -> skills of job_skills]
  taxonomy,                     \* [Terms -> TermStates]
  now,                          \* the clock
  jobReq                        \* [Requests -> what a handler or a cron run holds]

jobVars == <<postings, tags, taxonomy, now, jobReq>>
postVars == <<coVars, jobVars>>

Terms == Categories \cup Skills
TermStates == {"unborn", "live", "gone"}

PostingRow ==
  [by : Recruiters, company : Companies, status : {"OPEN", "CLOSED"},
   deleted : BOOLEAN, expires : Deadlines \cup {NoDeadline},
   category : Categories \cup {NoCategory}, views : 0 .. MaxViews]

ASSUME NoPostingAssumption == NoRow \notin PostingRow

Stages == {"none", "open", "closed", "removed"}
(* seen is the stage of the posting when it was read.                      *)
WriteReq == [pc : {"category", "skills", "write"}, job : Jobs \cup {NoJob},
             row : PostingRow, tags : (SUBSET Skills) \cup {Keep}, seen : Stages]
ViewReq == [pc : {"view"}, job : Jobs]
TermReq == [pc : {"count", "remove"}, term : Terms]
CronReq == [pc : {"cron"}, todo : SUBSET [job : Jobs, row : PostingRow]]

JobInit ==
  /\ CoInit
  /\ postings = [j \in Jobs |-> NoRow]
  /\ tags = [j \in Jobs |-> {}]
  /\ taxonomy = [t \in Terms |-> "unborn"]
  /\ now = 0
  /\ jobReq = [r \in Requests |-> Idle]

Free(r) == coReq[r] = Idle /\ jobReq[r] = Idle
Live(t) == taxonomy[t] = "live"
Posted(j) == postings[j] # NoRow
(* JobPrismaRepository.findById                                            *)
Listed(j) == Posted(j) /\ ~ postings[j].deleted
Stage(row) ==
  IF row = NoRow THEN "none"
  ELSE IF row.deleted THEN "removed"
  ELSE IF row.status = "OPEN" THEN "open" ELSE "closed"
Expired(row) == row.expires # NoDeadline /\ row.expires < now

-----------------------------------------------------------------------------
(* CreateJobHandler and UpdateJobHandler: the checks                       *)

(* The first check of a handler, by what the input gives.                  *)
SkillCheck(ts) == IF ts \in {Keep, {}} THEN "write" ELSE "skills"
FirstCheck(category, ts) ==
  IF category \in {Keep, NoCategory} THEN SkillCheck(ts) ELSE "category"

(* The company from User.companyId; job.open() before the insert.          *)
CreateJob(r, by, category, ts, expires) ==
  /\ Free(r)
  /\ linkedTo[by] # NoCompany
  /\ jobReq' = [jobReq EXCEPT ![r] =
       [pc |-> FirstCheck(category, ts), job |-> NoJob, tags |-> ts, seen |-> "none",
        row |-> [by |-> by, company |-> linkedTo[by], status |-> "OPEN",
                 deleted |-> FALSE, expires |-> expires,
                 category |-> category, views |-> 0]]]
  /\ UNCHANGED <<coVars, postings, tags, taxonomy, now>>

(* findById and ensureOwner, then the entity after `changed`.              *)
ReadPosting(r, j, by, pc, ts, changed) ==
  /\ Free(r)
  /\ Listed(j)
  /\ postings[j].by = by
  /\ jobReq' = [jobReq EXCEPT ![r] =
       [pc |-> pc, job |-> j, tags |-> ts, row |-> changed, seen |-> Stage(postings[j])]]
  /\ UNCHANGED <<coVars, postings, tags, taxonomy, now>>

(* A field left out keeps the value that was read.                         *)
UpdateDetails(row, category, expires) ==
  [row EXCEPT !.category = IF category = Keep THEN @ ELSE category,
              !.expires = IF expires = Keep THEN @ ELSE expires]

UpdateJob(r, j, by, category, ts, expires) ==
  ReadPosting(r, j, by, FirstCheck(category, ts), ts,
              UpdateDetails(postings[j], category, expires))

CheckCategory(r) ==
  /\ jobReq[r].pc = "category"
  /\ jobReq' = [jobReq EXCEPT ![r] =
       IF Live(jobReq[r].row.category)
       THEN [@ EXCEPT !.pc = SkillCheck(jobReq[r].tags)] ELSE Idle]
  /\ UNCHANGED <<coVars, postings, tags, taxonomy, now>>

CheckSkills(r) ==
  /\ jobReq[r].pc = "skills"
  /\ jobReq' = [jobReq EXCEPT ![r] =
       IF \A s \in jobReq[r].tags : Live(s) THEN [@ EXCEPT !.pc = "write"] ELSE Idle]
  /\ UNCHANGED <<coVars, postings, tags, taxonomy, now>>

-----------------------------------------------------------------------------
(* CloseJobHandler, ReopenJobHandler, DeleteJobHandler                     *)

CloseJob(r, j, by) ==
  /\ Posted(j) /\ postings[j].status # "CLOSED"
  /\ ReadPosting(r, j, by, "write", Keep, [postings[j] EXCEPT !.status = "CLOSED"])

(* Mutant: reopening undoes a deletion as well.                            *)
ReopenJob_Restores(r, j, by) ==
  /\ Free(r)
  /\ Posted(j) /\ postings[j].by = by /\ postings[j].status = "CLOSED"
  /\ jobReq' = [jobReq EXCEPT ![r] =
       [pc |-> "write", job |-> j, tags |-> Keep, seen |-> Stage(postings[j]),
        row |-> [postings[j] EXCEPT !.deleted = FALSE, !.status = "OPEN"]]]
  /\ UNCHANGED <<coVars, postings, tags, taxonomy, now>>

ReopenJob(r, j, by) ==
  /\ Posted(j) /\ postings[j].status = "CLOSED"
  /\ ReadPosting(r, j, by, "write", Keep, [postings[j] EXCEPT !.status = "OPEN"])

DeleteJob(r, j, by) ==
  ReadPosting(r, j, by, "write", Keep,
              [postings[j] EXCEPT !.deleted = TRUE, !.status = "CLOSED"])

-----------------------------------------------------------------------------
(* The writes                                                              *)

(* Mutant: the columns carry no foreign key.                               *)
ReferencesExist_NoForeignKey(row, ts) == TRUE

(* The foreign keys of jobs.categoryId and job_skills.skillId.             *)
ReferencesExist(row, ts) ==
  /\ row.category # NoCategory => Live(row.category)
  /\ ts # Keep => \A s \in ts : Live(s)

(* Mutant: viewCount is written with the rest of the entity.               *)
Persisted_WithViews(j, row) == row

(* toPersistence: every column but viewCount.                              *)
Persisted(j, row) == [row EXCEPT !.views = postings[j].views]

InsertJob(r, j) ==
  /\ jobReq[r].pc = "write"
  /\ jobReq[r].job = NoJob
  /\ ~ Posted(j)
  /\ ReferencesExist(jobReq[r].row, jobReq[r].tags)
  /\ postings' = [postings EXCEPT ![j] = jobReq[r].row]
  /\ tags' = [tags EXCEPT ![j] = jobReq[r].tags]
  /\ jobReq' = [jobReq EXCEPT ![r] = Idle]
  /\ UNCHANGED <<coVars, taxonomy, now>>

(* The row and its tags in one transaction; no tags given, none touched.   *)
WriteJob(r) ==
  /\ jobReq[r].pc = "write"
  /\ jobReq[r].job # NoJob
  /\ LET w == jobReq[r] IN
       /\ ReferencesExist(w.row, w.tags)
       /\ postings' = [postings EXCEPT ![w.job] = Persisted(w.job, w.row)]
       /\ tags' = [tags EXCEPT ![w.job] = IF w.tags = Keep THEN @ ELSE w.tags]
  /\ jobReq' = [jobReq EXCEPT ![r] = Idle]
  /\ UNCHANGED <<coVars, taxonomy, now>>

-----------------------------------------------------------------------------
(* GetJobHandler: the row is read, and the increment follows on its own.   *)

ViewJob(r, j) ==
  /\ Free(r)
  /\ Listed(j)
  /\ postings[j].views < MaxViews
  /\ jobReq' = [jobReq EXCEPT ![r] = [pc |-> "view", job |-> j]]
  /\ UNCHANGED <<coVars, postings, tags, taxonomy, now>>

IncrementViewCount(r) ==
  /\ jobReq[r].pc = "view"
  /\ postings[jobReq[r].job].views < MaxViews
  /\ postings' = [postings EXCEPT ![jobReq[r].job].views = @ + 1]
  /\ jobReq' = [jobReq EXCEPT ![r] = Idle]
  /\ UNCHANGED <<coVars, tags, taxonomy, now>>

-----------------------------------------------------------------------------
(* CloseExpiredJobsHandler.execute                                         *)

(* Mutant: a deadline that is this very moment counts as passed.           *)
ExpiredOpen_Now ==
  {j \in Jobs : /\ Listed(j) /\ postings[j].status = "OPEN"
                /\ postings[j].expires # NoDeadline
                /\ postings[j].expires <= now}

(* Mutant: only what expired since the run before.                         *)
ExpiredOpen_SinceLastRun ==
  {j \in Jobs : /\ Listed(j) /\ postings[j].status = "OPEN"
                /\ Expired(postings[j])
                /\ postings[j].expires = now - 1}

(* findExpiredOpen                                                         *)
ExpiredOpen ==
  {j \in Jobs : /\ Listed(j) /\ postings[j].status = "OPEN"
                /\ Expired(postings[j])}

CronStart(r) ==
  /\ Free(r)
  /\ ExpiredOpen # {}
  /\ jobReq' = [jobReq EXCEPT ![r] =
       [pc |-> "cron",
        todo |-> {[job |-> j, row |-> postings[j]] : j \in ExpiredOpen}]]
  /\ UNCHANGED <<coVars, postings, tags, taxonomy, now>>

(* One turn of the loop, from the row the query returned.                  *)
CronClose(r, j) ==
  /\ jobReq[r].pc = "cron"
  /\ \E w \in jobReq[r].todo :
       /\ w.job = j
       /\ ReferencesExist(w.row, Keep)
       /\ postings' = [postings EXCEPT ![j] =
                         Persisted(j, [w.row EXCEPT !.status = "CLOSED"])]
       /\ LET rest == jobReq[r].todo \ {w} IN
            jobReq' = [jobReq EXCEPT ![r] =
              IF rest = {} THEN Idle ELSE [pc |-> "cron", todo |-> rest]]
  /\ UNCHANGED <<coVars, tags, taxonomy, now>>

-----------------------------------------------------------------------------
(* The taxonomy: CreateCategory, CreateSkill, DeleteCategory, DeleteSkill  *)

CreateTerm(r, t) ==
  /\ Free(r)
  /\ taxonomy[t] = "unborn"
  /\ taxonomy' = [taxonomy EXCEPT ![t] = "live"]
  /\ UNCHANGED <<coVars, postings, tags, now, jobReq>>

DeleteTerm(r, t) ==
  /\ Free(r)
  /\ Live(t)
  /\ jobReq' = [jobReq EXCEPT ![r] = [pc |-> "count", term |-> t]]
  /\ UNCHANGED <<coVars, postings, tags, taxonomy, now>>

(* countReferencingJobs                                                    *)
Referencing(t) ==
  {j \in Jobs : Listed(j) /\ (postings[j].category = t \/ t \in tags[j])}

CountReferences(r) ==
  /\ jobReq[r].pc = "count"
  /\ jobReq' = [jobReq EXCEPT ![r] =
       IF Referencing(jobReq[r].term) = {} THEN [@ EXCEPT !.pc = "remove"] ELSE Idle]
  /\ UNCHANGED <<coVars, postings, tags, taxonomy, now>>

(* The hard delete: categoryId ON DELETE SET NULL, job_skills cascades.    *)
RemoveTerm(r) ==
  /\ jobReq[r].pc = "remove"
  /\ Live(jobReq[r].term)
  /\ LET t == jobReq[r].term IN
       /\ taxonomy' = [taxonomy EXCEPT ![t] = "gone"]
       /\ postings' = [j \in Jobs |->
            IF Posted(j) /\ postings[j].category = t
            THEN [postings[j] EXCEPT !.category = NoCategory] ELSE postings[j]]
       /\ tags' = [j \in Jobs |-> tags[j] \ {t}]
  /\ jobReq' = [jobReq EXCEPT ![r] = Idle]
  /\ UNCHANGED <<coVars, now>>

-----------------------------------------------------------------------------
(* A query rejects, a foreign key refuses, or the process dies; a cron run *)
(* gives up the rest of its list.                                          *)
JobRequestFails(r) ==
  /\ jobReq[r] # Idle
  /\ jobReq' = [jobReq EXCEPT ![r] = Idle]
  /\ UNCHANGED <<coVars, postings, tags, taxonomy, now>>

Tick ==
  /\ now < MaxNow
  /\ now' = now + 1
  /\ UNCHANGED <<coVars, postings, tags, taxonomy, jobReq>>

JobStart(r) ==
  \/ \E by \in Recruiters :
       \/ \E category \in Categories \cup {NoCategory}, ts \in SUBSET Skills,
             expires \in Deadlines \cup {NoDeadline} :
            CreateJob(r, by, category, ts, expires)
       \/ \E j \in Jobs :
            \/ \E category \in Categories \cup {NoCategory, Keep},
                  ts \in (SUBSET Skills) \cup {Keep},
                  expires \in Deadlines \cup {Keep} :
                 UpdateJob(r, j, by, category, ts, expires)
            \/ CloseJob(r, j, by) \/ ReopenJob(r, j, by) \/ DeleteJob(r, j, by)
  \/ \E j \in Jobs : ViewJob(r, j)
  \/ \E t \in Terms : CreateTerm(r, t) \/ DeleteTerm(r, t)

JobContinue(r) ==
  \/ CheckCategory(r) \/ CheckSkills(r)
  \/ \E j \in Jobs : InsertJob(r, j)
  \/ WriteJob(r)
  \/ IncrementViewCount(r)
  \/ \E j \in Jobs : CronClose(r, j)
  \/ CountReferences(r) \/ RemoveTerm(r)
  \/ JobRequestFails(r)

JobNext ==
  \/ \E r \in Requests : Free(r) /\ CoStart(r) /\ UNCHANGED jobVars
  \/ \E r \in Requests : CoContinue(r) /\ UNCHANGED jobVars
  \/ \E r \in Requests : JobStart(r) \/ CronStart(r) \/ JobContinue(r)
  \/ Tick

JobSpec == JobInit /\ [][JobNext]_postVars

(* Every await ends, one way or the other; the cron fires every hour; and  *)
(* the loop does not fail on its way to the same posting for ever.         *)
JobFairness ==
  /\ \A r \in Requests : /\ WF_postVars(JobContinue(r))
                         /\ WF_postVars(CoContinue(r) /\ UNCHANGED jobVars)
  /\ SF_postVars(\E r \in Requests : CronStart(r))
  /\ \A j \in Jobs : SF_postVars(\E r \in Requests : CronClose(r, j))

JobFairSpec == JobSpec /\ JobFairness

-----------------------------------------------------------------------------
(* Properties                                                              *)

JobTypeOK ==
  /\ CoTypeOK
  /\ postings \in [Jobs -> PostingRow \cup {NoRow}]
  /\ tags \in [Jobs -> SUBSET Skills]
  /\ taxonomy \in [Terms -> TermStates]
  /\ now \in 0 .. MaxNow
  /\ jobReq \in [Requests -> {Idle} \cup WriteReq \cup ViewReq \cup TermReq \cup CronReq]

(* No posting names a category or a skill that is gone, however late a     *)
(* write comes that was prepared before the term was deleted.              *)
NoDanglingTaxonomy ==
  \A j \in Jobs :
    /\ Posted(j) /\ postings[j].category # NoCategory => Live(postings[j].category)
    /\ \A s \in tags[j] : Live(s)

(* No view is lost to a write that read the posting before it: "atomic, no *)
(* drift however many requests" (API_GUIDE.md 214).                        *)
ViewsNeverDrop ==
  [][\A j \in Jobs : Posted(j) => postings'[j].views >= postings[j].views]_postVars

(* A posting that is deleted is never open, whatever stale write comes.    *)
DeletedIsClosed ==
  \A j \in Jobs : Posted(j) /\ postings[j].deleted => postings[j].status = "CLOSED"

(* The posting as the list query of a cron run returned it, views aside,   *)
(* has been edited by the time the run comes to it.                        *)
EditedSinceListed(r, j) ==
  \E w \in jobReq[r].todo : w.job = j /\ Persisted(j, w.row) # postings[j]

(* The cron closes postings past their deadline and no others, and moves   *)
(* no deadline, except of a posting edited between the query of the run    *)
(* and its turn in the loop.                                               *)
CronClosesOnlyExpired ==
  [][\A j \in Jobs, r \in Requests :
       /\ jobReq[r].pc = "cron" /\ jobReq'[r] # jobReq[r]
       /\ postings'[j] # postings[j]
       => \/ postings'[j].expires = postings[j].expires /\ Expired(postings[j])
          \/ EditedSinceListed(r, j)]_postVars

Overdue(j) == Listed(j) /\ postings[j].status = "OPEN" /\ Expired(postings[j])

(* An open posting past its deadline is closed, or is no longer such, in   *)
(* the end, although runs fail and a failing posting stops the ones after. *)
EventuallyClosed == \A j \in Jobs : Overdue(j) ~> ~ Overdue(j)

(* The refinement mapping: the stage of a posting.                         *)
StageOf(j) == Stage(postings[j])

Lifecycle == INSTANCE PostingLifecycle WITH stage <- [j \in Jobs |-> StageOf(j)]

(* r writes a posting back that has changed its stage since r read it.     *)
WritesOutdated(r) ==
  /\ jobReq'[r] # jobReq[r]
  /\ \/ /\ jobReq[r].pc = "write" /\ jobReq[r].job # NoJob
        /\ jobReq[r].seen # StageOf(jobReq[r].job)
     \/ /\ jobReq[r].pc = "cron"
        /\ \E w \in jobReq[r].todo \ (IF jobReq'[r] = Idle THEN {} ELSE jobReq'[r].todo) :
             Stage(w.row) # StageOf(w.job)

OutdatedWrite == \E r \in Requests : WritesOutdated(r)

(* A posting goes through its lifecycle as promised, except when a write   *)
(* from an entity read before another request moved the posting undoes     *)
(* that move.                                                              *)
ImplementsPostingLifecycle ==
  /\ Lifecycle!Init
  /\ [][Lifecycle!Next \/ OutdatedWrite]_([j \in Jobs |-> StageOf(j)])
=============================================================================
