# Recruitment platform: TLA+ models, checks and proofs

This directory holds the formal models of the recruitment backend: TLA+ modules
translated from the TypeScript source, the TLC configurations that check them on
small instances, and the theorems about them that TLAPS checks for every
instance. `PROJECT.json` maps each definition to the lines it models.

## 1. The system

The backend is one NestJS process over PostgreSQL (Prisma), an object store, an
optional Redis, a mail server and a language model. Each feature is a module of
its own with the same layers: a controller, command and query handlers, domain
entities, ports, and Prisma repositories.

Three facts about this design cause nearly every hard behaviour:

* **A handler is a chain of awaits.** `execute()` reads rows, decides, and
  writes, each in a query of its own. Between two awaits any other request or
  cron job of the process may run.
* **A write is the whole row as it was read.** Every entity repository's
  `update` sends `toPersistence(entity)`, keyed by id alone. The database runs
  in READ COMMITTED, nothing takes a row lock, and no table has a version
  column. A write prepared from a stale read replaces what was written since.
* **What the database enforces is a short list**: unique keys, foreign keys
  with their `onDelete` rule, and the transactions of the few repository methods
  that open one.

Events go through an in-process `EventEmitter2`, fire and forget: they are lost
when the process stops and are never retried. Cron jobs run in the same process.

### 1.1 Inventory

For each component: the state it keeps, its operations, who it meets, and what
makes it correct. "Module" is the TLA+ module that holds it (section 2), or the
reason there is none.

**Job applications** (`src/src/modules/application`). *State*: `job_applications`
(unique by job and user, one status, a nullable CV) and
`application_status_histories`. *Operations*: apply (five awaits), a recruiter's
status update, the candidate's withdrawal; both writes store the row and the
history row in one transaction and announce `application.*` events afterwards.
*Meets*: reads jobs and CVs through ports; interviews and chat read its status;
notifications hear its events; a purged CV sets its `cv_id` to null.
*Correct when*: one application per job and candidate; the stored status is the
one last recorded; no reference to a CV that is gone; nothing is announced that
was not committed; a status moves along the pipeline and a terminal one is
final. Module `Applications`.

**CV lifecycle** (`cv`, and `file-upload` as the object store). *State*: `cvs`
with a soft delete, one object per CV. *Operations*: upload and insert with
clean-up of a failed insert, rename and publish, delete (refused while an active
application refers to the CV), and a nightly purge of what has been deleted for
30 days. *Meets*: applications (foreign key `SetNull`), CV analysis
(`cv.uploaded`). *Correct when*: a CV that can be found has its file; an active
application keeps its CV; what is past retention is purged in the end. Module
`CvLifecycle`.

**Interview scheduling** (`interview`). *State*: `interview_schedules`.
*Operations*: schedule, reschedule, cancel, complete, no-show; mails.
*Meets*: reads applications and jobs. *Correct when*: one active interview per
application, outcomes are final, a final application has no interview booked or
changed, mails follow commits. Module `InterviewScheduling`.

**Companies** (`company`). *State*: `companies`, `User.companyId`; a unique slug
and a partial unique index over the owners of active companies. *Operations*:
create, update, soft delete. *Correct when*: one active company per owner, the
owner linked to it, a refusal that says why. Module `Companies`.

**Job postings with categories and skills** (`job`, `category`, `skill`).
*State*: `jobs`, `job_skills`, `categories`, `skills`. *Operations*: create,
update, close, reopen, delete, view, the hourly cron that closes expired
postings, creating and deleting terms. *Meets*: companies (who may post),
applications and chat (status, owner). *Correct when*: no posting names a term
that is gone, a deleted one stays closed, no view is lost, the cron closes what
has expired and nothing else. Module `JobPostings`.

**CV analysis** (`ai`, the analysis part). *State*: `cv_analyses` with status
and claim (`processingStartedAt`). *Operations*: the `cv.uploaded` listener, the
cron that claims a batch of what was left, the analysis of one CV. *Correct
when*: a fresh claim is respected, nothing that has a result becomes pending
again, every readable CV is analysed in the end. Module `CvAnalysis`.

**Chat** (`chat`). *State*: `conversations`, `conversation_members`, `messages`,
and in memory the map of online users. *Operations*: open a conversation of a
hired application, send (idempotent by `clientMessageId`, over REST and
WebSocket), edit, delete, mark read; socket handshake, disconnection, revoked
session. *Correct when*: repetitions agree, `lastMessageAt` matches a message,
nobody online gets a notification instead of a message, what was acknowledged
was broadcast. Modules `ChatPresence`, `ChatMessaging`.

**Accounts and sessions** (`auth`, `user`). *State*: `users`, `refresh_tokens`,
`verification_tokens`, `oauth_login_codes`. *Operations*: registration,
verification, password reset and change, social login, login, refresh with
rotation, logout, blocking and role changes by an admin, nightly clean-up.
*Correct when*: a session that was ended stays ended, a session has one live
token, a code works once, an active admin is left. Module `Accounts`.

**Roles and permissions** (`permission`, the role part of `prisma/seed.ts`, the
guards of the controllers). *State*: `roles`, `permissions`, `role_permissions`,
and in memory a cache per role with a time to live. *Operations*: a guarded
route looks its role's permissions up; an administrator replaces a role's set (a
check that some other role still administers permissions, then one transaction,
then `invalidate()`); each deployment seeds roles, permissions and, for a role
that has none, the defaults. *Correct when*: what an administrator stored
survives a seed, some role can always administer permissions, a revoked
permission stops being honoured. Modules `RouteTable`, `RoleAdministration`.

**Job alerts** (`job-alert`). *State*: `saved_searches`; in memory one run of the
digest. *Operations*: save a search (at most twenty, counted before the insert),
delete one; at 7:00 a keyset walk in batches, each shared by a few workers, each
failure caught per search. *Meets*: jobs being posted and closed. *Correct
when*: the limit gives way only to requests in flight, one digest per search and
run, nobody is passed over, every job is told to a search that was there. Module
`JobAlerts`.

**Notifications** (`notification`). *State*: `notifications` with a read mark.
*Operations*: a listener per application event that inserts one row, marking one
or all as read. *Meets*: the events of applications; chat inserts by the same
repository. *Correct when*: nobody is told of more than has happened. Module
`Notifications`.

**AI matching, screening, suggestions, drafts** (`ai`). *State*: none stored; the
agent's messages, its step count and the candidate ids seen so far. *Operations*:
a loop of model turns and read-only tools for matching and screening, one forced
call for suggestions and drafts. *Meets*: the tables the tools read, which change
meanwhile. *Correct when*: a match names a row that a look-up returned, no tool
tells of anybody who has not applied for the job, every request ends. Module
`CandidateMatching`.

**Bookmarks** (`bookmark`). One row per user and job under a unique key, inserted
or deleted after one look-up; nothing decides by it. Not modelled.

**File checks, mail, database client, filters, throttler, configuration.**
Stateless, or one external call; what a failure of that call does is in the
module of the caller. Not modelled.

### 1.2 Behaviours that are hard to test

`PROJECT.json` lists them one by one, each at its line, with the properties that
would notice it going wrong. They are of six kinds:

* two handlers that both check, then both write (apply, schedule, create a
  company, send a message, delete a term, save a search, replace a role);
* a whole row written from an old read (status against withdrawal, rename
  against delete, the job cron against an edit, a save of an account against a
  block);
* two systems, or two transactions, that a failure may part (upload and insert,
  insert and event, object and row, code and effect);
* background work that must get there in the end, or must not skip anybody while
  its table changes under it (purge, analysis, closing, digests);
* what is remembered in memory and no longer true (the permission cache, the map
  of sockets, the ids an agent has seen);
* long sequences of legal calls (the pipeline, the last admin, sessions).

## 2. The modules

| module | extends | stands for |
|---|---|---|
| `ApplicationStatus` | | `application-status.vo.ts`: the legal moves |
| `HiringPipeline` | `ApplicationStatus` | abstract: one legal step at a time, terminal is final |
| `AuditTrail` | `ApplicationStatus` | abstract: what the application component keeps whatever overlaps |
| `Applications` | `ApplicationStatus` | the application component |
| `CvLifecycle` | `Applications` | CVs, the object store and the purge, composed with applications |
| `InterviewBook` | | abstract: the interviews of an application |
| `InterviewScheduling` | `Applications` | interviews and their mails, composed with applications |
| `Companies` | | companies and their owners |
| `PostingLifecycle` | | abstract: open, closed, removed |
| `JobPostings` | `Companies` | postings, categories, skills and the cron, composed with companies |
| `CvAnalysis` | | listener, cron, claims, restarts |
| `ChatPresence` | | sockets and who is online |
| `ChatMessaging` | `ChatPresence` | conversations and messages, composed with presence |
| `Accounts` | | accounts, sessions, tokens, codes |
| `RouteTable` | | the routes with their guards; roles and permissions of the seed |
| `RoleAdministration` | `RouteTable` | roles, the permission cache, the seed, restarts |
| `JobAlerts` | | saved searches and the daily digest |
| `Notifications` | `Applications` | listeners of application events and read marks, composed with applications |
| `CandidateMatching` | | agent loops over tools, and the single calls |
| `MC*` | the module they are named after | constants that are functions, symmetry, and the part of the state space a run looks at (`Focus`, 3.1) |
| `Applications_proofs`, `ChatMessaging_proofs`, `Accounts_proofs`, `RoleAdministration_proofs`, `JobAlerts_proofs` | the module they are named after | theorems |
| `JobPostings_proofs` | `JobPostings` | theorems about companies and postings |
| `Hiring_proofs` | `Applications_proofs`, `CvLifecycle`, `InterviewScheduling`, `Notifications` | theorems about the components composed with applications |
| `Ai_proofs` | `CvAnalysis`, `CandidateMatching` | theorems about the analysis and the agents |

### 2.1 How code becomes actions

A handler in flight is a record in a slot of `Requests`: `pc` names the await it
stands at, and the other fields are what the handler has read and still uses.
The code from one await to the next is one action, because nothing else of the
process runs in between; an action named after a handler (`ApplyLookups`,
`DeleteRead`, `CreateCheckOwner`) is its first part. Reads that another request
could make disagree are actions of their own; a read of columns that never
change is taken together with its neighbour, and the comment of the action says
so.

Every request may stop at every await (`RequestFails`, `CvRequestFails`,
`IvRequestFails`, `CoRequestFails`, `JobRequestFails`, `ChatRequestFails`,
`AcRequestFails`, `NoteRequestFails`, `JaRequestFails`, `UpdateFails`,
`ProviderFails`): a refusal, a database error and a crash of the process leave
the same state, a slot that is free and what was committed. Where a crash also
takes memory with it, it is an action of its own (`Restart`, `PurgeDies`,
`JaRestart`,
`SeedDies`).

A write is what the repository sends: the row as the handler holds it. The
fields a repository leaves out of `toPersistence` (a posting's `viewCount`), or
that the database checks (unique keys, foreign keys, `onDelete`), are in the
action that writes. A refused insert is an action of its own.

`Applications` lets `jobs` and `cvs` change by `JobChanges` and `CvChanges`, the
steps other components may take. `CvLifecycle` replaces `CvChanges` by its own
actions and is shown to take no other steps (`ImplementsApplications`, theorem
`CvRefinement`), so what holds of `Applications` holds of the composition.
`JobPostings` in the same way takes only steps of `Companies` on its variables
(theorem `PostingsRespectCompanies`). `Notifications` turns `EmitEvent` into
`EmitToListener`, which adds a listener to those `underway` (a count for each
application and status, since nothing else tells listeners apart), and leaves
every other step of `Applications` as it is.

A page of `JobAlerts` is a set, the `Batch` least ids behind the cursor; the
workers of a batch share what is still to be done of it (`todo`), and its `last`
id becomes the next cursor.

A seed is another process: its steps interleave with the server's, and `Restart`
does not end it. A replacement of a role is two steps, because under READ
COMMITTED its `deleteMany` does not see what other transactions add afterwards.
A model turn is any set of tool calls and any submission: nothing is assumed of
the language model.

A listener of `Notifications` and a worker of `JobAlerts` run beside the slots.

Components that are composed share the slots. `CvLifecycle`'s purge runs beside
the slots, a cron run of `JobPostings` or `CvAnalysis` takes one.

**Overtaken requests.** Much of what the code promises is lost when the row a
handler has read is written by somebody else before the handler writes it. The
properties say so and no more: they hold of every step, except of the step that
writes what was read before another request changed it. For this the record of a
request keeps what it read (`seen`, `refs`, `cvSeen`, `existing`, `counted`,
`stage`), and an operator compares it with the tables at the moment of the write:
`Overtaken` (a status), `CvOvertaken` (a deletion or an application), `Outrun` (an
interview), `WritesOutdated` and `EditedSinceListed` (a posting), `Outdated` (an
account). A step that loses the property although nothing had changed since the
reads, or by a request that is not writing, violates it. In `Accounts` the same is
said of sessions and codes that two requests held at once (`forked`, `shared`), of a
session that was carried on when it ended (left out of `ended`), and in
`JobAlerts` of a job between two windows (`Slips`). What those exceptions stand
for happens in the code: 3.3 lists it.

### 2.2 Ghost variables

`told`, `mailed`, `opened`, `answered`, `announced`, `notified`, `begun`,
`ended`, `redeemed` record what went out to a client, a mailbox or a listener;
`forked`, `shared` which sessions were refreshed and which codes were redeemed by
two requests at once.
`chosen`, `blurred`, `overlapped`, `cut` say of a role what was last stored,
whether the last writes overlapped and whether a seed died in it; `whole`,
`tried`, `owed` say of a digest run which searches were there all along, which
were tried, and which jobs a search is still to hear of, and `started` when the
latest run
began; `real`, `asked`, `read` say of an agent which ids a look-up returned, which
the model asked about, and whom the tools have told of. No guard reads
them, except that a session id is chosen fresh (`begun`), as `randomUUID` chooses
it.

## 3. The runs

Distinct states are those of a complete run.

| run | instance | what it shows |
|---|---|---|
| `applications_concurrent` | 1 candidate, 1 posting, 1 CV, 2 ids, 2 requests, 2 notifications, 2 history rows (337 323 states up to symmetry) | with two requests in flight and any number of listeners underway: one application per job (`OneApplicationPerJob`), no dangling CV (`NoDanglingCv`), at most one notification of each committed move (`NotifiedOncePerMove`), and the component implements `AuditTrail` |
| `cv_concurrent` | 1 of each, 2 requests beside the purge, 2 history rows (104 214) | `FileOfEveryAnsweredCv` and `EventuallyPurged` whatever overlaps; `ActiveApplicationKeepsCv` and the applications' `ImplementsPipeline` but for overtaken requests |
| `interviews_concurrent` | 1 application, 2 interviews, 2 requests (376 466 up to symmetry) | `MailedOnlyCommitted` whatever overlaps; `OneActiveInterview`, `ImplementsInterviewBook` but for writes that were outrun; with every failure |
| `companies_concurrent` | 2 recruiters, 3 companies, 3 slugs, 3 requests (9 106 up to symmetry) | `OneActiveCompanyPerOwner`, `AlreadyExistsIsTrue` over all overlaps |
| `postings_concurrent` | 1 company, posting, category and skill, a deadline or none, clock to 2, 1 view, 2 requests or cron runs (399 742) | `NoDanglingTaxonomy`, `ViewsNeverDrop`, `EventuallyClosed` whatever overlaps; `CronClosesOnlyExpired`, `ImplementsPostingLifecycle` but for edited postings and outdated writes |
| `cv_analysis` | 2 CVs, 1 of them unreadable, 2 workers, batches of 2, a claim stale within a period, 1 restart (122 134) | `FreshClaimIsRespected`, `NeverPendingAgain`, `EventuallyAnalyzed` |
| `chat_concurrent` | 2 members, 2 devices, 2 ids of each row, 1 client message id, 2 requests, clock to 2 (404 880) | `AnswersAgree`, `LastMessageInSync`, `NobodyOnlineIsNotified` |
| `accounts_concurrent` | 2 accounts, 1 an admin at first, 1 session, 2 tokens, 1 code, 2 requests (904 309 up to symmetry) | `AnAdminStays` but for outdated saves, `EndedSessionsStayEnded`, `OneTokenPerSession` and `CodesWorkOnce` but for what two requests held at once, wherever requests break off |
| `roles_concurrent` | 2 roles that both administer by default, 2 permissions, 2 replacements in flight, 1 look-up, 3 seeds and replacements in all (71 485) | `ChosenIsKept`, `AdministrationSurvives`, `SeedCompletes`, `RevocationsLand`, whatever overlaps, dies or restarts |
| `job_alerts_daily` | 1 user, 1 job, 3 searches in batches of 2, 2 workers, 2 requests, two days whose runs begin at 7:00 or later (1 936 470 up to symmetry) | `LimitHolds`, `OncePerRun`, `NobodyIsForgotten`, `EveryJobIsTold`, while searches are saved and deleted under the cursor |
| `matching_loop` | 2 candidates, an id of nobody, 1 skill, 2 rounds of tools (71 136) | `ResultsAreSeen`, `OnlyApplicantsAreRead`, `EveryRequestEnds`, whatever the model answers |
| `matching_invented` | the same with a round more | a finding: a match of an id no look-up returned (`ResultsAreReal`) |

No run checks deadlock: every bound (ids, history rows, clock, restarts) ends
some behaviour, and a server without requests is at rest.

The type invariants (`TypeOK`, `CvTypeOK`, `IvTypeOK`, `CoTypeOK`, `JobTypeOK`,
`AnTypeOK`, `CmTypeOK`, `ChatTypeOK`, `AcTypeOK`, `RaTypeOK`, `JaTypeOK`,
`NtTypeOK`) are proved (section 5) and the runs leave them out; so are
`StatusIsRecorded`, `ToldOnlyCommitted`, `OwnerIsLinked`, `DeletedIsClosed`,
`NeverFreshAgain`, `TerminalIsFinal` and, of `CvLifecycle`,
`ImplementsApplications`. They hold on the instances of the runs too: name them
under `INVARIANTS` or `PROPERTIES` to see it.

### 3.1 Bounds, and why they are enough

* **Two requests.** Every race of these handlers is between a reader that decides
  and one writer that overtakes it, or between two that both decide. Three slots
  run where two recruiters compete with a third creation (companies). The agents
  run in one slot: a request of theirs shares nothing with another one but tables
  neither writes. For the properties listed in section 5 the proofs hold for any
  number of requests. `cv_concurrent` has one candidate: a CV of another one is
  refused by a guard on an immutable column.
* **`Focus`.** Where two slots of a composition make too many states, a CONSTRAINT
  leaves out what the run is not about; the `MC` module says what.
  `MCCvLifecycle`: announcements, and postings that are closed (removed ones stay).
  `MCInterviewScheduling`: two application requests at once (their overlap is
  `applications_concurrent`), a second mail, announcements and the CV's fate.
  `MCJobPostings`: a second term of the taxonomy, a company's deletion and two
  creations of companies at once (their overlap is `companies_concurrent`), a view
  after the clock has moved. `MCAccounts`: requests are of three families, those
  that write accounts, carry a session or hold a code; two that overlap are of one
  family, and each family finds in the tables what it is about. A single request
  of any family follows every other. The theorems of section 5 are without any of
  these restrictions. Two of the runs under a CONSTRAINT check liveness, where one
  might hide a behaviour that never gets there. It does not: no step of the purge
  (`cv_concurrent`) changes what the constraint looks at, and in
  `postings_concurrent` a step that leaves the constraint has beside it one that
  stays (a request may fail instead, a term is not needed), so no fair behaviour
  is stopped at its border.
* **The number of ids bounds the rows a run creates.** Only in `Accounts` is the
  id of a token or code that the clean-up deleted taken again, as a fresh one;
  `redeemed` then starts at zero. Two
  interviews, two applications, two messages and two conversations are what a
  duplicate takes; two tokens are the old and the new one of a rotation, or those of
  a session that forked.
* **`MaxHistory`** bounds the moves of an application: two in the concurrent runs,
  so that one request can move what another has read and a third follow. The
  whole pipeline, APPLIED to HIRED, takes five; `PipelineFollowed` is proved for
  any number of moves.
* **Time.** A posting's deadline, a retention, a claim and a message's stamp are
  compared and never computed with: a clock of two or three values gives both
  outcomes of every comparison. `Deadlines = {0}` is over when the clock first
  moves; postings without one, and an edit from one to the other, are the rest. A
  claim's age is counted up to the first value
  that is stale.
* **`Targets`** of `applications_concurrent` are one step of the pipeline and the
  final refusal: two requests can make the same move, and a stale one can leave a
  status that was final. `Notes` holds a duplicate beside the first.
* **`MaxStarts`** counts seeds and replacements together: three are two
  replacements after the first deployment, or one between two deployments, or
  three deployments of which two die. Two roles and two permissions, one of them
  the one that administers, are the smallest instance in which the last holder is
  a matter of the other role, and in which a role is half configured. Both roles
  administer by default (in the code's seed only one does, and a replacement makes
  the other): so two starts are left for two roles to give it up. Four starts hold
  as well (692 606 states), in two and a half minutes.
* **`LastId` and `Batch`.** Three searches in batches of two end one batch before
  the table ends and put a new row before, at or behind the cursor.
* **`Day` and `MaxTime`.** A day of two units has a 7:00 and a later hour, and a run
  of a day may begin at either: `since` is the moment it begins less a day, as the
  code computes it. With `MaxTime` 5 there are two days: a second run one day after
  the
  first, sooner or later in its day. The gap between the windows of an early run
  and a late one is one unit, and a job is posted in it (`Slips`).
* **`Rounds`, `MaxCalls`.** The graph makes `Rounds * 2 + 2` steps, as the code
  computes it: with `Rounds` 1, two turns with tools, enough to name an id in one
  and to combine it with another tool's result in the next. A turn of two calls
  finds what two turns of one call find between which no table changes.
* **`MaxRestarts`, `MaxViews`** bound what else would grow; one restart at any
  moment, and one view, suffice to lose work or to be lost.
* **Symmetry** is used for ids that no constant function tells apart, and only
  in runs without liveness.

### 3.2 Fairness

Safety needs none. The five liveness properties assume:

* `CvFairness`: the nightly purge starts again (weak: `@Cron` fires), and each of
  its deletes of one object or one row, attempted infinitely often, succeeds in
  the end (strong, per CV: every failure is caught per CV and the run goes on to
  the next, `purge-deleted-cvs.command.ts`). Nothing is assumed of requests.
* `JobFairness`: what a request or a run is awaiting ends (weak); the hourly cron
  starts again and again although requests keep the slots busy (strong); closing
  one posting does not fail every time it is tried (strong, per posting: the loop
  stops at the first failure, so without this one bad posting would hold up the
  ones after it).
* `AnFairness`: awaits end (for the model's provider, as under `CmSpec` below), time
  passes and the cron fires (weak); the claim, the
  read of one CV's analysis, and for a readable CV its extraction and the save of
  the result do not fail every time (strong). Of an unreadable CV nothing is
  assumed: its analysis may fail for ever.

* `RaFairness`: time passes, and a look-up that was asked is answered, with a
  result or an error (weak). `RevocationsLand` needs no more: an entry that was
  stored late expires like any other.
* `CmSpec`: a request of the agents goes on (weak, per request). It rests on every
  call of the provider ending. Two of the clients of `chat-model.provider.ts` get
  `AI_REQUEST_TIMEOUT_MS`; the one of google, the default, gets none (101-107), and
  there only the limits of the runtime's fetch end a call that nobody answers.
  That the loop ends is not assumed, it follows from the count of steps.

A fairness of this kind says that a service that is asked again and again answers
in the end. It does not say that a request is retried by its client.

### 3.3 Where the code and its documents disagree

`matching_invented` refutes a comment. `recruitment.agent.ts` says "never trust a
candidateId the model didn't actually receive from search_candidates/get_candidate
in this same run", and checks the submitted ids against those found in tool
results. `get_candidate` answers an id it does not find with `{found: false,
candidateId}`, so the id the model made up is among them and passes.
`ResultsAreSeen` states what does hold.

Five more were met while modelling; each shows in a run whose configuration is
changed as said, with the shortest counterexample TLC finds.

1. `updateWithHistory` writes by id a row read before another writer committed. A
   withdrawal is overwritten by a recruiter's move, or a refusal by a withdrawal:
   terminal statuses are not terminal. (`TerminalIsFinal` as a PROPERTY of
   `Applications_concurrent.cfg`.)
2. The check for an active interview and the insert are two queries, no unique key
   backs them. (`OneActiveInterview` without `\/ OutrunWrite` in
   `Interviews_concurrent.cfg`.)
3. With at least `AI_ANALYSIS_BATCH_SIZE` unreadable CVs the oldest-first batch
   never reaches a newer one. (`EventuallyAnalyzed` with `BatchSize = 1` in
   `CvAnalysis_net.cfg`.)
4. A send that stored its message and failed before the event is answered on its
   repetition and never broadcast. (`AnsweredIsAnnounced` as an INVARIANT of
   `Chat_concurrent.cfg`.)
5. The guard against locking everybody out counts the other holders before the
   write: two roles that give the permission up at once each count the other.
   (`AdministrationSurvives` excepts a write between another's check and its write;
   without `~ overlapped'` it fails in `Roles_concurrent.cfg`.) Likewise a role
  whose
   replacements overlap may keep rows of both.

The same design makes more of them. The models contain them, the runs reach
them, and each is an exception some property names (2.1): dropped from the
property, TLC shows the case.

* CVs: a rename in flight undoes a delete; an application inserted after a
  delete has looked keeps a deleted CV (`CvOvertaken` in
  `ActiveApplicationKeepsCv`).
* CVs: the `try` of an upload covers the insert, the event and the answer. When
  the reply of a committed insert is lost, or the code after it throws, the clean-up
  deletes the object of a row that is there: the CV is listed and has no file.
  (`CreateSaveFails`; `FileOfEveryAnsweredCv` says that a CV whose upload was
  answered never loses its file.)
* Interviews: the outcome of an interview is overwritten by a second change, and
  an interview is booked or changed although the application was withdrawn in
  between (`OutrunWrite` in `ImplementsInterviewBook`).
* Postings: an edit that read a posting before it was deleted brings it back, a
  reopening undoes a closing (`OutdatedWrite` in `ImplementsPostingLifecycle`); the
  cron closes a posting whose deadline was extended after its list was read, and
  writes the old deadline (`EditedSinceListed` in `CronClosesOnlyExpired`).
  A posting that takes a term between the count and the deletion loses it: no
  reference dangles (`NoDanglingTaxonomy`), but the posting is un-categorized,
  which the count is there to prevent (`delete-category.command.ts` 29-32). A
  posting may be inserted under a company that was deleted since the handler
  looked.
* Companies: an update in flight brings a deleted company back, if its owner has
  not founded another one since (the partial index refuses that).
* Analysis: a run takes over a claim that went stale while its holder is still at
  work, and a late FAILED replaces a COMPLETED.
* Chat: an edit in flight brings a deleted message back; a socket that closes
  during its handshake is registered afterwards and stays, so that its user, who
  is offline, gets no notification (`ChatPresence`: state `lost`); marking a
  conversation read at a time covers a message stamped before and committed after;
  `lastMessageAt` is the stamp of the message that committed last, which may be the
  older one.
* Accounts: two refreshes with one token fork a session (`forked`), and two uses of
  one code both take effect (`shared`); the last two admins may remove each other,
  and a stale save undoes a block, a role or a new password (`Outdated` in
  `AnAdminStays`); verifying an address activates an account that was blocked
  meanwhile; a login or refresh that looked before all sessions were revoked
  stores its token afterwards (such a session is not in `ended`).
* Job alerts: the limit of saved searches gives way to requests that count at the
  same time; `LimitHolds` says by how much.

Without any overlap:

* A logout is answered 200 whatever it finds. With a token that was rotated already
  (the client lost the answer of its refresh) it revokes nothing, and the newer
  token of the session lives on. `ended` holds the sessions whose live token a
  logout revoked.
* `since` of a digest run is the moment the run begins less a day. A run that begins
  later in its day than the one before leaves a gap: a job posted after a search
  was served and before that window is told to nobody (`Slips` in
  `EveryJobIsTold`). Likewise a job stamped (`createdAt`) before a run lists and
  committed after: the model posts a job in one step and does not have this one.
* A registration that fails between the account and its code leaves an account in
  PENDING, and no operation sends it another code (an admin may activate it); a
  social login that fails after its code is marked used must begin again.
* When the row the cursor of a digest run names is deleted while its batch is
  mailed, the next page is empty and the run ends early (`CursorIsGone`).
* A seed that dies between two links of a role leaves that role half configured:
  the next seed sees that it has some and passes it by (`cut`).
* `get_cv_analysis` reads by the id of a CV and looks at its owner's applications,
  not at the CV: of an applicant it also tells what is in a CV that is private or
  deleted (`summarised`), which the searches do not.

## 4. Assumptions of the models

* A request lasts less than the retention of 30 days: `RetentionElapses` does not
  happen to a CV some request holds, nor to one whose live row was read before
  the delete. `RetentionOutlivesRequests` states what follows.
* A turn of the analysis loop lasts less than one unit of the model's time, and
  a claim goes stale sooner than the next run (5 minutes against 10).
  `EventuallyAnalyzed` needs fewer unreadable CVs than a batch holds (3.3).
* Chat messages get `lastMessageAt` in the order their transactions commit, not
  in the order their stamps were taken.
* An insert refused by a unique key and the look-up that follows it are one step
  in chat: the row that was in the way stays, so that the look-up cannot miss it.
* Any registered account may call an administrator's operation in `Accounts`: an
  access token says what its owner was when it was issued. The first admins are made
  by hand (`FirstAdmins`);
  no operation makes the first one.
* A run of the digest is over before the next one begins, and every job matches
  every search. A run begins at any time of its day. Ids of saved searches are given
  out in any order, as random ones are.
* A look-up of permissions meets the cache when it asks; a guard passes on what the
  cache holds at that moment. Administrators send one of a few sets (`Payloads`).
  Roles and permissions are never deleted: no operation of the server does.
* The language model may call any tool, with any id, and answer anything. A turn
  holds at most `MaxCalls` calls. A CV is named by its owner. Users keep their role
  while a request of the agents lasts.
* Immutable columns (owner of a job, a CV, an application) are constants or are
  read once.
* In PostgreSQL a single statement is atomic, a transaction commits whole or not
  at all, and a write by id that finds no row fails (`P2025`).

## 5. What is proved

TLAPS checks the theorems of the `_proofs` modules for every value of the
constants: any number of people, rows, request slots. The assumptions are the
named `ASSUME`s of the modules (a constant that stands for "none" is not a
member, a function has its type). No theorem assumes that requests do not
overlap: where a property has an exception for overtaken requests, so has the
theorem, and it is the same formula the run checks. Each argument is an inductive
invariant stronger than the property:

* **Applications**. `Safety` is the conjunction of
  `OneApplicationPerJob`, `StatusIsRecorded`, `NoDanglingCv` (theorem
  `NoCvDangles`), `ToldOnlyCommitted` (`EventsFollowCommits`) and
  `RequestsHoldThePast`: what a handler holds of an application was its row
  at some time, so its target is a legal move out of a status that was held.
  That last part is what makes a stale write harmless to the first four and makes
  each step a step of `AuditTrail` (`Implementation`): `UpdateWithHistory` records
  a move out of a status held before, even when it is no longer the current one.
  Uniqueness rests on the unique key; without it the conjunct fails at
  `ApplySave`. A move that was not overtaken leaves the status the row holds, so it
  is a step of `HiringPipeline` (`PipelineFollowed`), and a terminal status ends
  only
  by an overtaken one (`TerminalStays`).
* **CvLifecycle**. `CvRefinement`: each step
  on the shared tables is one `Applications` allows, so `ComposedSafety` follows
  without a second proof.
  `FilesHold` by `Files`: the purge's list still is deleted and past retention
  when it acts (`PurgeListIsCurrent`), no request holds such a CV
  (`RetentionOutlivesRequests`), and an upload owns its key and was not answered
  while it may be cleaned up (`UploadsOwnTheirKey`); so the clean-up that deletes
  the
  object of a stored row never meets an answered one.
  `ActiveCvsStay`: an application about to be inserted has seen its CV live
  (`AppReads`) and a deletion past its check has seen no active application
  (`DeletesChecked`); unless the request was overtaken that still holds when it
  writes.
* **Notifications**. `NtRefinement` as above. The invariant counts: the
  notifications stored, the listeners underway and the requests about to emit are
  together at most the moves in the history (`AnnouncedOncePerMove`). A move enters
  on the right and as an emitting request on the left in one transaction, and
  from there an announcement only passes from one place to the next or is lost;
  hence `OneNotificationPerMove`.
* **InterviewScheduling**. `RequestsKnowTheRow`: the interview a
  change holds is there and belongs to the application the change has read, and a
  mail in flight is of a change that was committed; hence `MailsFollowCommits`,
  and `FreshOnce` as an action property.
  A request past its reads has read an application that was open and no other
  interview (`ReadsOpen`), so `OneActiveUnlessOutrun` and, step by step,
  `BookFollowed` (`ImplementsInterviewBook`) follow for the writes that were
  not outrun.
* **Companies**. `WritesKnowTheOwner`: a prepared write keeps owner
  and slug of the row; the partial index does the rest. `RefusalsAreTrue` is an
  action property from the same invariant.
* **JobPostings**. `SoundRequests`: no handler holds a row that is
  both deleted and open, or a posting that is not there. With the foreign keys
  this gives `TaxonomyHolds`, `DeletedClosed` and `ViewsHold`.
  `CronClosesTheExpired` needs that what a run has listed was open and past its
  deadline, and that a deadline once passed stays passed; `LifecycleFollowed` takes
  the writes one by one: of a posting whose stage is the one that was read, each is
  a step of `PostingLifecycle`.
* **CvAnalysis** (restarts included). `ResultsAreNotTakenBack` needs
  that a run about to claim never took a CV that has a record for one that has
  none (`ClaimsHaveRows`). `ClaimsAreRespected` is the harder one, for the claims
  are read in
  one query and written in another: `OneRunClaims` says that one run at most
  stands between the two and ends there before the cron is due again,
  `ClaimsAreCurrent` that therefore no claim it read as free has become fresh.
  It assumes `Period > 1`: between two runs of the cron more than one turn of the
  loop goes by. The code leaves ten minutes for one query. With `Period = 1`, TLC
  shows two runs take the same CV.
* **CandidateMatching** (whatever the model answers). `KnownIsSeen`: the ids a
  submission may name came back from a look-up of this request or were asked
  about in it (`AnswersAreSeen`), and whomever a tool has told of, a search, the id
  of a candidate or of a CV, or the list of applications, has applied for the job
  (`ReadsStayInTheJob`, by `ToolsTellOfApplicants`).
* **JobAlerts** (restarts included).
  `LimitInv` counts a user's searches and the requests that have counted and not
  yet inserted: together they exceed the limit by less than there are slots
  (`LimitGivesWayByRequests`). `WalkInv` is the argument of keyset pagination:
  what has been tried lies behind the cursor or in the batch, and what has been
  there throughout and is not yet tried lies in the batch or ahead
  (`TakenOncePerRun`, `NobodyIsPassedOver`). `OwedInv` says that what a search is
  still to hear of is recent enough for the run underway or else the next one,
  and that a worker past the search will tell it: no job is missed but one that
  slipped between two windows (`JobsAreTold`).
* **Accounts**. Types with `AcLinked` (every code and every session has its
  account). `SessionsSound`: a session has one owner, and unless it is `forked`, a
  request carries it on alone (`CarriedOnce`) and its one live token, if any, is the
  one that request will revoke (`CarrierReplaces`); hence `OneLiveToken`, and
  `SessionsEnd`, for nobody carries on a session that `ended`. `CodesSound`: unless
  two
  requests held it at once, a code that is valid or in hand has had no effect yet
  (`CodesOnce`). `AdminsStay` is an action property over `AdminsSound`: a save that
  takes an admin away has counted another (`SavesLeaveAdmin`), who is still there
  unless the save is outdated.

* **ChatMessaging** (restarts included). `ChatSafety`: unique
  conversations and keys, messages only in conversations that are there, what was
  answered is there (`AnswersExist`), what a request holds is there
  (`SoundRequests`), and two inserts in flight have ids and keys of their own
  (`InsertsApart`), because an insert waits for another of its key. For presence,
  `LiveIsRegistered`: a live socket is in its user's entry of the map.

* **RoleAdministration** (restarts and dying seeds included).
  `AdministrationSafe`: unless a write came between another's check and its write,
  whoever the server remembers as an administrator (in the cache, a look-up or a
  request past the guard) means that some role administers still (`Remembered`),
  and a replacement past its checks leaves a holder (`LeavesHolder`). That the
  permission has a row whenever somebody holds it (`GrantsHaveRows`) makes the
  check meet it. `ChosenSafe`: the seed wires no role for which something was
  stored (`WiresOnlyUnset`). `SeedingSafe`: a role that nobody touched has no
  grants, all its defaults or, while the seed is at it, the ones it has come to,
  and roles before that one are complete.

Every invariant, action property and refinement of a passing run is a theorem.
Only model-checked: liveness (`EventuallyPurged`, `EventuallyClosed`,
`EventuallyAnalyzed`, `RevocationsLand`, `EveryRequestEnds`), which TLAPS does not
do under fairness.

## 6. What is not modelled

* **Queries**: lists, counts, filters, pagination, full-text search, statistics
  change no state. Their rules (visibility, ordering) are candidates for operator
  modules.
* **What is said**: texts, mails' wording, names, salaries, places, files'
  contents, passwords and hashes. A refusal over one of them is a request that
  fails.
* **What the model's answers say**: scores, reasons, drafts and questions.
* **Redis**: the login throttle and the chat rate limiter keep counters there; it
  is optional and the service runs without it.
* **Rooms, typing and presence broadcasts** of the gateway carry no state that is
  read again.
* **Bookmarks**: the unique key refuses the second of two toggles that both look
  first, and no other part reads the row to decide something.
* **Filters of a saved search**, the mail's text and its limit of listed jobs.
* **Request shapes of controllers, mail server, object store, Prisma**: what they
  refuse or
  fail at is a step of the caller.

## 7. Plan

Written, in this order: `Applications` with its abstract specifications;
`CvLifecycle`, `InterviewScheduling` composed with it; `Companies`,
`JobPostings`; `CvAnalysis`; `ChatPresence`, `ChatMessaging`; `Accounts`;
`RouteTable`, `RoleAdministration`; `JobAlerts`; `CandidateMatching`;
`Notifications`; the proofs of all of them.

Next, by weight:

1. A second version of the writes that carries a version column, and the properties
   of 2.1 without their exceptions: what it would take to keep the promises.
2. Chat: `SessionRevoked` composed with `Accounts`; the rate
   limiter (`chat-rate-limiter.service.ts` 134 counts refused calls although its
   comments say otherwise); presence broadcasts.
3. Routes composed with roles: which operation which role can reach.
4. Operator modules for pagination, job visibility and alert matching, checked
   against reference definitions.

## 8. Running it

In this directory, `tlc -config Applications_concurrent.cfg MCNotifications`
checks one run (`PROJECT.json` pairs configurations with modules), and
`tlapm Applications_proofs.tla` the proofs of one module. The longest runs,
`postings_concurrent`, `applications_concurrent` and `job_alerts_daily`, take
between two and three minutes. Every property of a passing run has a
mutant: an operator named `<definition>_<what is wrong>` beside the definition it
would replace, with which TLC finds the property violated.
