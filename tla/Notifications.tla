----------------------------- MODULE Notifications -----------------------------
(***************************************************************************)
(* The notifications of applications, composed with the component that     *)
(* announces them: the two listeners of ApplicationEventsListener, and the *)
(* requests by which a user marks notifications as read.                   *)
(*                                                                         *)
(* emit() starts a listener and does not wait for it, so that any number   *)
(* of notifications may be underway while requests go on; what fails or is *)
(* underway when the process ends is lost.  Mark requests share the slots  *)
(* of the application requests.                                            *)
(***************************************************************************)
EXTENDS Applications, FiniteSets

CONSTANT Notes                  \* notification ids

VARIABLES
  notifications,                \* [Notes -> row of notifications, or NoRow]
  underway,                     \* listeners that have not saved, by id and status
  noteReq                       \* [Requests -> what a mark handler holds]

noteVars == <<notifications, underway, noteReq>>
ntVars == <<vars, noteVars>>

People == Candidates \cup Recruiters
Events == [app : Ids, status : ApplicationStatuses]
NotificationRow == [userId : People, of : Events, read : BOOLEAN]

ASSUME NotificationsAssumption ==
  /\ NoRow \notin NotificationRow
  /\ IsFiniteSet(Notes) /\ IsFiniteSet(Requests)

Stored(n) == notifications[n] # NoRow
SlotFree(r) == req[r] = Idle /\ noteReq[r] = Idle

NtInit ==
  /\ Init
  /\ notifications = [n \in Notes |-> NoRow]
  /\ underway = [a \in Ids |-> [s \in ApplicationStatuses |-> 0]]
  /\ noteReq = [r \in Requests |-> Idle]

-----------------------------------------------------------------------------
(* ApplicationEventsListener                                               *)

(* Mutant: the listener is registered by two modules.                      *)
Dispatch_Twice(e) == underway' = [underway EXCEPT ![e.app][e.status] = @ + 2]

(* The listener of the event starts, up to the insert it awaits.           *)
Dispatch(e) == underway' = [underway EXCEPT ![e.app][e.status] = @ + 1]

EmitToListener(r) ==
  /\ EmitEvent(r)
  /\ Dispatch([app |-> req[r].app, status |-> req[r].status])
  /\ UNCHANGED <<notifications, noteReq>>

(* job.applied is for the recruiter, a change of status for the candidate. *)
Recipient(e) ==
  LET row == applications[e.app]
  IN  IF e.status = "APPLIED" THEN PostedBy[row.jobId] ELSE row.userId

(* CreateNotificationHandler: one insert, unread.                          *)
CreateNotification(e, n) ==
  /\ underway[e.app][e.status] > 0 /\ ~ Stored(n)
  /\ notifications' = [notifications EXCEPT ![n] =
                         [userId |-> Recipient(e), of |-> e, read |-> FALSE]]
  /\ underway' = [underway EXCEPT ![e.app][e.status] = @ - 1]
  /\ UNCHANGED <<vars, noteReq>>

(* The insert is rejected and logged, or the process ends.                 *)
NotificationLost(e) ==
  /\ underway[e.app][e.status] > 0
  /\ underway' = [underway EXCEPT ![e.app][e.status] = @ - 1]
  /\ UNCHANGED <<vars, notifications, noteReq>>

-----------------------------------------------------------------------------
(* MarkAsReadHandler and MarkAllAsReadHandler                              *)

MarkFind(r, u, n) ==
  /\ SlotFree(r)
  /\ Stored(n) /\ notifications[n].userId = u /\ ~ notifications[n].read
  /\ noteReq' = [noteReq EXCEPT ![r] = [pc |-> "mark", note |-> n]]
  /\ UNCHANGED <<vars, notifications, underway>>

(* update: the whole row, of which only readAt ever changes.               *)
MarkUpdate(r) ==
  /\ noteReq[r].pc = "mark"
  /\ notifications' = [notifications EXCEPT ![noteReq[r].note].read = TRUE]
  /\ noteReq' = [noteReq EXCEPT ![r] = Idle]
  /\ UNCHANGED <<vars, underway>>

(* updateMany over the user's rows whose readAt is null.                   *)
MarkAll(r, u) ==
  /\ SlotFree(r)
  /\ notifications' = [n \in Notes |->
       IF Stored(n) /\ notifications[n].userId = u
       THEN [notifications[n] EXCEPT !.read = TRUE] ELSE notifications[n]]
  /\ UNCHANGED <<vars, underway, noteReq>>

NoteRequestFails(r) ==
  /\ noteReq[r] # Idle
  /\ noteReq' = [noteReq EXCEPT ![r] = Idle]
  /\ UNCHANGED <<vars, notifications, underway>>

-----------------------------------------------------------------------------
(* The application component's own steps.  An idle slot serves one request. *)
AppRequest(r) ==
  /\ noteReq[r] = Idle
  /\ IF req[r].pc = "emit" THEN RequestFails(r) ELSE AppStep(r)
  /\ UNCHANGED noteVars

NtStep(r) ==
  \/ EmitToListener(r)
  \/ \E u \in People, n \in Notes : MarkFind(r, u, n)
  \/ MarkUpdate(r)
  \/ \E u \in People : MarkAll(r, u)
  \/ NoteRequestFails(r)

NtNext ==
  \/ \E r \in Requests : AppRequest(r) \/ NtStep(r)
  \/ \E e \in Events : NotificationLost(e) \/ \E n \in Notes : CreateNotification(e, n)
  \/ /\ \/ \E j \in Jobs : JobChanges(j)
        \/ \E c \in Cvs, s \in CvStates : CvChanges(c, s)
     /\ UNCHANGED noteVars

NtSpec == NtInit /\ [][NtNext]_ntVars

-----------------------------------------------------------------------------
NtTypeOK ==
  /\ TypeOK
  /\ notifications \in [Notes -> NotificationRow \cup {NoRow}]
  /\ underway \in [Ids -> [ApplicationStatuses -> Nat]]
  /\ noteReq \in [Requests -> {Idle} \cup [pc : {"mark"}, note : Notes]]

(* How often an application came to a status.                              *)
Moves(e) ==
  IF e.status = "APPLIED" THEN IF Exists(e.app) THEN 1 ELSE 0
  ELSE Cardinality({i \in 1..Len(statusHistory[e.app]) :
                      statusHistory[e.app][i].to = e.status})

NotesOf(e) == {n \in Notes : Stored(n) /\ notifications[n].of = e}

(* Somebody is notified at most once of each move that was committed, even *)
(* when two requests make the same move and whatever fails in between: an  *)
(* inbox never tells of more than the audit trail does.                    *)
NotifiedOncePerMove ==
  \A e \in Events : Cardinality(NotesOf(e)) + underway[e.app][e.status] <= Moves(e)
=============================================================================
