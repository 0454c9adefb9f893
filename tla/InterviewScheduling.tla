------------------------- MODULE InterviewScheduling -------------------------
(***************************************************************************)
(* The interview component composed with Applications: schedule,           *)
(* reschedule, cancel, complete and no-show, over interview_schedules.     *)
(* Every handler reads the application and the job through ports, decides  *)
(* from what it read, and writes the whole interview row by id; the table  *)
(* has no unique key beside the id.                                        *)
(*                                                                         *)
(* Time, place and note of an interview are left out: no decision but the  *)
(* refusal of a time in the past depends on them, and a refusal is what    *)
(* IvRequestFails does.                                                    *)
(***************************************************************************)
EXTENDS Applications

CONSTANT Interviews             \* interview ids

VARIABLES
  interviews,                   \* [Interviews -> row of interview_schedules, or NoRow]
  mailed,                       \* [Interviews -> statuses the candidate was mailed]
  ivReq                         \* [Requests -> what an interview handler holds]

ivVars == <<interviews, mailed, ivReq>>
ivAllVars == <<vars, ivVars>>

InterviewStatuses ==
  {"SCHEDULED", "RESCHEDULED", "CANCELLED", "COMPLETED", "NO_SHOW"}
Actionable == {"SCHEDULED", "RESCHEDULED"}
(* reschedule, cancel, complete and markNoShow, by the status they set.    *)
Changes == InterviewStatuses \ {"SCHEDULED"}
Mailable == {"SCHEDULED", "RESCHEDULED", "CANCELLED"}

InterviewRow == [app : Ids, status : InterviewStatuses]
ASSUME NoInterviewAssumption == NoRow \notin InterviewRow

(* stage is the status of the application that was read ("NONE": not yet), *)
(* existing its active interviews that were found.                         *)
ScheduleReq == [pc : {"scheduleJob", "scheduleExisting", "scheduleSave"},
                app : Ids, by : Recruiters, stage : ApplicationStatuses,
                existing : SUBSET Interviews]
ChangeReq == [pc : {"changeApp", "changeJob", "changeWrite"},
              iv : Interviews, seen : InterviewRow, to : Changes,
              by : Recruiters, stage : ApplicationStatuses \cup {"NONE"}]
MailReq == [pc : {"mail"}, iv : Interviews, status : Mailable]

IvInit ==
  /\ Init
  /\ interviews = [i \in Interviews |-> NoRow]
  /\ mailed = [i \in Interviews |-> {}]
  /\ ivReq = [r \in Requests |-> Idle]

IvFree(r) == req[r] = Idle /\ ivReq[r] = Idle
Booked(i) == interviews[i] # NoRow
IsActive(row) == row.status \in Actionable

(* Mutant: the check on the application's status is missing.               *)
Interviewable_Always(a) == TRUE

(* ensureApplicationInterviewable                                          *)
Interviewable(a) == ~ IsTerminal(applications[a].status)

(* The job of an application never changes, so looking it up later sees    *)
(* the same one; the job itself may have been deleted.                     *)
OwnedJob(a, by) ==
  LET j == applications[a].jobId IN jobs[j] # "deleted" /\ PostedBy[j] = by

(* An await ends and the handler goes on to pc, or a check throws.         *)
GoOn(r, passed, pc) ==
  ivReq' = [ivReq EXCEPT ![r] = IF passed THEN [@ EXCEPT !.pc = pc] ELSE Idle]

-----------------------------------------------------------------------------
(* ScheduleInterviewHandler.execute                                        *)

ScheduleReadApplication(r, a, by) ==
  /\ IvFree(r)
  /\ Exists(a)
  /\ Interviewable(a)
  /\ ivReq' = [ivReq EXCEPT ![r] =
       [pc |-> "scheduleJob", app |-> a, by |-> by,
        stage |-> applications[a].status, existing |-> {}]]
  /\ UNCHANGED <<vars, interviews, mailed>>

ScheduleReadJob(r) ==
  /\ ivReq[r].pc = "scheduleJob"
  /\ GoOn(r, OwnedJob(ivReq[r].app, ivReq[r].by), "scheduleExisting")
  /\ UNCHANGED <<vars, interviews, mailed>>

ActiveInterviews(a) ==
  {i \in Interviews : /\ Booked(i)
                      /\ interviews[i].app = a
                      /\ IsActive(interviews[i])}

(* Mutant: only an interview never moved counts as existing.               *)
HasActive_OnlyScheduled(a) ==
  \E i \in ActiveInterviews(a) : interviews[i].status = "SCHEDULED"

(* findByApplicationId(a).some(isActive)                                   *)
HasActive(a) == ActiveInterviews(a) # {}

ScheduleCheckExisting(r) ==
  /\ ivReq[r].pc = "scheduleExisting"
  /\ ivReq' = [ivReq EXCEPT ![r] =
       IF HasActive(ivReq[r].app) THEN Idle
       ELSE [@ EXCEPT !.pc = "scheduleSave",
                      !.existing = ActiveInterviews(ivReq[r].app)]]
  /\ UNCHANGED <<vars, interviews, mailed>>

ScheduleSave(r) ==
  /\ ivReq[r].pc = "scheduleSave"
  /\ \E i \in Interviews :
       /\ ~ Booked(i)
       /\ interviews' = [interviews EXCEPT ![i] =
                           [app |-> ivReq[r].app, status |-> "SCHEDULED"]]
       /\ ivReq' = [ivReq EXCEPT ![r] = [pc |-> "mail", iv |-> i,
                                         status |-> "SCHEDULED"]]
  /\ UNCHANGED <<vars, mailed>>

-----------------------------------------------------------------------------
(* The four handlers that change an interview                              *)

ChangeRead(r, i, to, by) ==
  /\ IvFree(r)
  /\ Booked(i)
  /\ ivReq' = [ivReq EXCEPT ![r] = [pc |-> "changeApp", iv |-> i,
                                    seen |-> interviews[i],
                                    to |-> to, by |-> by, stage |-> "NONE"]]
  /\ UNCHANGED <<vars, interviews, mailed>>

(* The four handlers, by the entity method each of them calls.             *)
Reschedule(r, i, by) == ChangeRead(r, i, "RESCHEDULED", by)
Cancel(r, i, by)     == ChangeRead(r, i, "CANCELLED", by)
Complete(r, i, by)   == ChangeRead(r, i, "COMPLETED", by)
MarkNoShow(r, i, by) == ChangeRead(r, i, "NO_SHOW", by)

ChangeReadApplication(r) ==
  /\ ivReq[r].pc = "changeApp"
  /\ LET a == ivReq[r].seen.app IN
       ivReq' = [ivReq EXCEPT ![r] =
         IF Exists(a) /\ Interviewable(a)
         THEN [@ EXCEPT !.pc = "changeJob", !.stage = applications[a].status] ELSE Idle]
  /\ UNCHANGED <<vars, interviews, mailed>>

(* The guard of reschedule, cancel, complete and markNoShow.               *)
Changeable(row) == IsActive(row)

(* Mutant: the candidate is mailed before the row is written.              *)
ChangeReadJob_MailsFirst(r) ==
  /\ ivReq[r].pc = "changeJob"
  /\ LET c == ivReq[r] IN
       /\ GoOn(r, OwnedJob(c.seen.app, c.by) /\ Changeable(c.seen), "changeWrite")
       /\ mailed' = [mailed EXCEPT ![c.iv] = @ \cup ({c.to} \cap Mailable)]
  /\ UNCHANGED <<vars, interviews>>

ChangeReadJob(r) ==
  /\ ivReq[r].pc = "changeJob"
  /\ LET c == ivReq[r] IN
       GoOn(r, OwnedJob(c.seen.app, c.by) /\ Changeable(c.seen), "changeWrite")
  /\ UNCHANGED <<vars, interviews, mailed>>

(* The entity after its method: toPersistence writes it whole.             *)
Changed(row, to) == [row EXCEPT !.status = to]

ChangeWrite(r) ==
  /\ ivReq[r].pc = "changeWrite"
  /\ LET c == ivReq[r] IN
       /\ interviews' = [interviews EXCEPT ![c.iv] = Changed(c.seen, c.to)]
       /\ ivReq' = [ivReq EXCEPT ![r] =
            IF c.to \in Mailable
            THEN [pc |-> "mail", iv |-> c.iv, status |-> c.to] ELSE Idle]
  /\ UNCHANGED <<vars, mailed>>

(* The mail after the commit; a failure is logged and swallowed.           *)
SendMail(r) ==
  /\ ivReq[r].pc = "mail"
  /\ mailed' \in {mailed, [mailed EXCEPT ![ivReq[r].iv] = @ \cup {ivReq[r].status}]}
  /\ ivReq' = [ivReq EXCEPT ![r] = Idle]
  /\ UNCHANGED <<vars, interviews>>

(* A check on the input throws, a query rejects, or the process dies.      *)
IvRequestFails(r) ==
  /\ ivReq[r] # Idle
  /\ ivReq' = [ivReq EXCEPT ![r] = Idle]
  /\ UNCHANGED <<vars, interviews, mailed>>

IvStep(r) ==
  \/ \E a \in Ids, by \in Recruiters : ScheduleReadApplication(r, a, by)
  \/ ScheduleReadJob(r) \/ ScheduleCheckExisting(r) \/ ScheduleSave(r)
  \/ \E i \in Interviews, by \in Recruiters :
       \/ Reschedule(r, i, by) \/ Cancel(r, i, by)
       \/ Complete(r, i, by) \/ MarkNoShow(r, i, by)
  \/ ChangeReadApplication(r) \/ ChangeReadJob(r) \/ ChangeWrite(r)
  \/ SendMail(r)
  \/ IvRequestFails(r)

IvNext ==
  \/ \E r \in Requests : ivReq[r] = Idle /\ AppStep(r) /\ UNCHANGED ivVars
  \/ \E j \in Jobs : JobChanges(j) /\ UNCHANGED ivVars
  \/ \E c \in Cvs, s \in CvStates : CvChanges(c, s) /\ UNCHANGED ivVars
  \/ \E r \in Requests : IvStep(r)

IvSpec == IvInit /\ [][IvNext]_ivAllVars

-----------------------------------------------------------------------------
(* Properties                                                              *)

IvTypeOK ==
  /\ TypeOK
  /\ interviews \in [Interviews -> InterviewRow \cup {NoRow}]
  /\ mailed \in [Interviews -> SUBSET Mailable]
  /\ ivReq \in [Requests -> {Idle} \cup ScheduleReq \cup ChangeReq \cup MailReq]

(* Whatever overtakes what, the candidate is mailed of a booking, a move   *)
(* or a cancellation only after it was committed: an interview still       *)
(* SCHEDULED was never announced as moved or cancelled.                    *)
MailedOnlyCommitted ==
  \A i \in Interviews :
    /\ mailed[i] # {} => Booked(i)
    /\ mailed[i] \cap {"RESCHEDULED", "CANCELLED"} # {}
         => interviews[i].status # "SCHEDULED"

(* No stale write makes an interview fresh again or hands it to another    *)
(* application.                                                            *)
NeverFreshAgain ==
  [][\A i \in Interviews : Booked(i) =>
       /\ interviews'[i] # NoRow
       /\ interviews'[i].app = interviews[i].app
       /\ interviews'[i].status = "SCHEDULED"
            => interviews[i].status = "SCHEDULED"]_ivAllVars

(* The application was not in a final status when r read it, and is by now. *)
ClosedSince(a, stage) == IsTerminal(StageOf(a)) /\ ~ IsTerminal(stage)

(* What r read no longer holds when it writes: the application it booked   *)
(* for has closed or got another active interview, the interview it        *)
(* changes is another.                                                     *)
Outrun(r) ==
  /\ ivReq'[r] # ivReq[r]
  /\ \/ /\ ivReq[r].pc = "scheduleSave"
        /\ \/ ~ (ActiveInterviews(ivReq[r].app) \subseteq ivReq[r].existing)
           \/ ClosedSince(ivReq[r].app, ivReq[r].stage)
     \/ /\ ivReq[r].pc = "changeWrite"
        /\ \/ interviews[ivReq[r].iv] # ivReq[r].seen
           \/ ClosedSince(ivReq[r].seen.app, ivReq[r].stage)

OutrunWrite == \E r \in Requests : Outrun(r)

DoublyBooked(i, k) ==
  /\ Booked(i) /\ Booked(k)
  /\ IsActive(interviews[i]) /\ IsActive(interviews[k])
  /\ interviews[i].app = interviews[k].app

(* "This application already has an active interview - cancel it before    *)
(* scheduling a new one" (interview.exceptions.ts 94): two interviews of   *)
(* an application become active together only by a write that was outrun.  *)
OneActiveInterview ==
  [][\A i, k \in Interviews : i # k /\ ~ DoublyBooked(i, k) =>
       ~ DoublyBooked(i, k)' \/ OutrunWrite]_ivAllVars

Diary == INSTANCE InterviewBook WITH
  Closed <- IsTerminal, Outcomes <- Changes,
  stage <- [a \in Ids |-> StageOf(a)],
  book <- [i \in Interviews |-> IF Booked(i)
             THEN <<interviews[i].app, interviews[i].status>> ELSE << >>]

(* Every step keeps what InterviewBook promises, unless its write was      *)
(* outrun: outcomes are final, and "This application has already reached a *)
(* final status [...] and can no longer have interviews scheduled or       *)
(* changed" (interview.exceptions.ts 104).                                 *)
ImplementsInterviewBook ==
  /\ Diary!Init
  /\ [][Diary!Next \/ OutrunWrite]_(Diary!bvars)
=============================================================================
