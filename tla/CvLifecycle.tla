----------------------------- MODULE CvLifecycle -----------------------------
(***************************************************************************)
(* The CV component composed with Applications: upload, rename, soft       *)
(* delete and the nightly purge, over the cvs table and the object store.  *)
(* The two are not one transaction, and the check that no active           *)
(* application references a CV is a query of its own.                      *)
(*                                                                         *)
(* A CV handler and an application handler share the request slots: with   *)
(* two slots a CV request and an application request overlap.              *)
(***************************************************************************)
EXTENDS Applications, FiniteSets

VARIABLES
  objects,                      \* the file keys present in the object store
  answered,                     \* CVs whose upload was answered with the CV
  pastRetention,                \* CVs whose deletedAt is before the cutoff
  cvReq,                        \* [Requests -> what a CV handler holds]
  purge                         \* the run of PurgeDeletedCvsHandler

cvVars == <<objects, answered, pastRetention, cvReq, purge>>
allVars == <<vars, cvVars>>

(* One object per CV: the key is built from the fresh id of the CV.  refs  *)
(* are the active applications a deletion found to refer to its CV.        *)
CvReq == [pc : {"uploaded", "cleanup", "deleteRead", "deleteChecked",
                "updateRead"}, cv : Cvs, refs : SUBSET Ids]
(* The CVs still to purge, and the one whose object was just deleted.      *)
PurgeRun == [todo : SUBSET Cvs, row : Cvs \cup {NoCv}]
PurgeIdle == [todo |-> {}, row |-> NoCv]

CvInit ==
  /\ Init
  /\ objects = {}
  /\ answered = {}
  /\ pastRetention = {}
  /\ cvReq = [r \in Requests |-> Idle]
  /\ purge = PurgeIdle

Free(r) == req[r] = Idle /\ cvReq[r] = Idle

(* A write to a row of cvs, with the foreign key's SetNull on delete.      *)
WriteCv(c, s) == CvChanges(c, s)

-----------------------------------------------------------------------------
(* CreateCvHandler.execute                                                 *)

(* A fresh id: no row, no object and no other upload has it.               *)
Fresh(c) == /\ cvs[c] = "absent"
            /\ c \notin objects
            /\ \A r \in Requests : cvReq[r] # Idle => cvReq[r].cv # c

CreateUpload(r, c) ==
  /\ Free(r)
  /\ Fresh(c)
  /\ objects' = objects \cup {c}
  /\ cvReq' = [cvReq EXCEPT ![r] = [pc |-> "uploaded", cv |-> c, refs |-> {}]]
  /\ UNCHANGED <<vars, answered, pastRetention, purge>>

CreateSave(r) ==
  /\ cvReq[r].pc = "uploaded"
  /\ WriteCv(cvReq[r].cv, "live")
  /\ answered' = answered \cup {cvReq[r].cv}
  /\ cvReq' = [cvReq EXCEPT ![r] = Idle]
  /\ UNCHANGED <<objects, pastRetention, purge>>

(* The try covers save, emit and toDto: what it catches may come before    *)
(* the insert took effect, or after it, when the reply was lost.           *)
CreateSaveFails(r) ==
  /\ cvReq[r].pc = "uploaded"
  /\ WriteCv(cvReq[r].cv, "live") \/ UNCHANGED vars
  /\ cvReq' = [cvReq EXCEPT ![r].pc = "cleanup"]
  /\ UNCHANGED <<objects, answered, pastRetention, purge>>

(* Delete the object, best effort, row or no row.                          *)
CreateCleanup(r) ==
  /\ cvReq[r].pc = "cleanup"
  /\ objects' \in {objects, objects \ {cvReq[r].cv}}
  /\ cvReq' = [cvReq EXCEPT ![r] = Idle]
  /\ UNCHANGED <<vars, answered, pastRetention, purge>>

-----------------------------------------------------------------------------
(* UpdateCvHandler.execute: findById, then the whole row, deletedAt        *)
(* included, as it was read.                                               *)

UpdateRead(r, c) ==
  /\ Free(r)
  /\ cvs[c] = "live"
  /\ cvReq' = [cvReq EXCEPT ![r] = [pc |-> "updateRead", cv |-> c, refs |-> {}]]
  /\ UNCHANGED <<vars, objects, answered, pastRetention, purge>>

UpdateWrite(r) ==
  /\ cvReq[r].pc = "updateRead"
  /\ IF cvs[cvReq[r].cv] = "deleted"
     THEN WriteCv(cvReq[r].cv, "live")
     ELSE UNCHANGED vars
  /\ cvReq' = [cvReq EXCEPT ![r] = Idle]
  /\ UNCHANGED <<objects, answered, pastRetention, purge>>

-----------------------------------------------------------------------------
(* DeleteCvHandler.execute                                                 *)

ActiveReferences(c) ==
  {a \in Ids : /\ Exists(a)
               /\ applications[a].cvId = c
               /\ ~ IsTerminal(applications[a].status)}
(* hasActiveApplicationReference                                           *)
ActiveReference(c) == ActiveReferences(c) # {}

DeleteRead(r, c) ==
  /\ Free(r)
  /\ cvs[c] = "live"
  /\ cvReq' = [cvReq EXCEPT ![r] = [pc |-> "deleteRead", cv |-> c, refs |-> {}]]
  /\ UNCHANGED <<vars, objects, answered, pastRetention, purge>>

DeleteChecked(r) == [cvReq[r] EXCEPT !.pc = "deleteChecked",
                                     !.refs = ActiveReferences(cvReq[r].cv)]

(* Mutant: no check for an active reference.                               *)
DeleteCheck_Unchecked(r) ==
  /\ cvReq[r].pc = "deleteRead"
  /\ cvReq' = [cvReq EXCEPT ![r] = DeleteChecked(r)]
  /\ UNCHANGED <<vars, objects, answered, pastRetention, purge>>

DeleteCheck(r) ==
  /\ cvReq[r].pc = "deleteRead"
  /\ cvReq' = [cvReq EXCEPT ![r] =
       IF ActiveReference(cvReq[r].cv) THEN Idle ELSE DeleteChecked(r)]
  /\ UNCHANGED <<vars, objects, answered, pastRetention, purge>>

DeleteWrite(r) ==
  /\ cvReq[r].pc = "deleteChecked"
  /\ IF cvs[cvReq[r].cv] = "live"
     THEN WriteCv(cvReq[r].cv, "deleted")
     ELSE UNCHANGED vars
  /\ cvReq' = [cvReq EXCEPT ![r] = Idle]
  /\ UNCHANGED <<objects, answered, pastRetention, purge>>

CvRequestFails(r) ==
  /\ cvReq[r] # Idle
  /\ cvReq' = [cvReq EXCEPT ![r] = Idle]
  /\ UNCHANGED <<vars, objects, answered, pastRetention, purge>>

-----------------------------------------------------------------------------
(* PurgeDeletedCvsHandler.execute                                          *)

(* RETENTION_DAYS pass.  A request lives seconds and the retention is a    *)
(* month, so no handler that found the CV live is still running.           *)
RetentionElapses(c) ==
  /\ cvs[c] = "deleted"
  /\ \A r \in Requests : /\ cvReq[r] # Idle => cvReq[r].cv # c
                         /\ req[r] \in ApplyReq => req[r].cv # c
  /\ pastRetention' = pastRetention \cup {c}
  /\ UNCHANGED <<vars, objects, answered, cvReq, purge>>

(* Mutant: the purge without the cutoff.                                   *)
SoftDeletedBeforeCutoff_NoCutoff == {c \in Cvs : cvs[c] = "deleted"}

(* findSoftDeletedBefore(cutoff)                                           *)
SoftDeletedBeforeCutoff == {c \in pastRetention : cvs[c] = "deleted"}

PurgeStart ==
  /\ purge = PurgeIdle
  /\ purge' = [todo |-> SoftDeletedBeforeCutoff, row |-> NoCv]
  /\ UNCHANGED <<vars, objects, answered, pastRetention, cvReq>>

(* Mutant: an error of the object store skips the row.                     *)
PurgeObject_StoreErrorSkips(c) ==
  /\ purge.row = NoCv
  /\ c \in purge.todo
  /\ \/ /\ objects' = objects
        /\ purge' = [purge EXCEPT !.todo = @ \ {c}]
     \/ /\ objects' = objects \ {c}
        /\ purge' = [todo |-> purge.todo \ {c}, row |-> c]
  /\ UNCHANGED <<vars, answered, pastRetention, cvReq>>

(* The object first; an error of the store is swallowed.                   *)
PurgeObject(c) ==
  /\ purge.row = NoCv
  /\ c \in purge.todo
  /\ objects' \in {objects, objects \ {c}}
  /\ purge' = [todo |-> purge.todo \ {c}, row |-> c]
  /\ UNCHANGED <<vars, answered, pastRetention, cvReq>>

PurgeRow ==
  /\ purge.row # NoCv
  /\ WriteCv(purge.row, "purged")
  /\ purge' = [purge EXCEPT !.row = NoCv]
  /\ UNCHANGED <<objects, answered, pastRetention, cvReq>>

(* The hard delete rejected: counted, and the loop goes on.                *)
PurgeRowFails ==
  /\ purge.row # NoCv
  /\ purge' = [purge EXCEPT !.row = NoCv]
  /\ UNCHANGED <<vars, objects, answered, pastRetention, cvReq>>

(* The process restarts: the rest of the list is forgotten.                *)
PurgeDies ==
  /\ purge # PurgeIdle
  /\ purge' = PurgeIdle
  /\ UNCHANGED <<vars, objects, answered, pastRetention, cvReq>>

-----------------------------------------------------------------------------
CvStep(r) ==
  \/ \E c \in Cvs : CreateUpload(r, c) \/ UpdateRead(r, c) \/ DeleteRead(r, c)
  \/ CreateSave(r) \/ CreateSaveFails(r) \/ CreateCleanup(r)
  \/ UpdateWrite(r)
  \/ DeleteCheck(r) \/ DeleteWrite(r)
  \/ CvRequestFails(r)

PurgeStep ==
  \/ PurgeStart
  \/ \E c \in Cvs : PurgeObject(c)
  \/ PurgeRow \/ PurgeRowFails \/ PurgeDies

CvNext ==
  \/ \E r \in Requests : cvReq[r] = Idle /\ AppStep(r) /\ UNCHANGED cvVars
  \/ \E j \in Jobs : JobChanges(j) /\ UNCHANGED cvVars
  \/ \E r \in Requests : CvStep(r)
  \/ \E c \in Cvs : RetentionElapses(c)
  \/ PurgeStep

CvSpec == CvInit /\ [][CvNext]_allVars

(* The cron fires every night, a run that is not interrupted gets through  *)
(* its list, and the database does not refuse the same delete for ever.    *)
CvFairness ==
  /\ WF_allVars(PurgeStart)
  /\ \A c \in Cvs : SF_allVars(PurgeObject(c))
  /\ \A c \in Cvs : SF_allVars(purge.row = c /\ PurgeRow)

CvFairSpec == CvSpec /\ CvFairness

-----------------------------------------------------------------------------
(* Properties                                                              *)

CvTypeOK ==
  /\ TypeOK
  /\ objects \subseteq Cvs
  /\ answered \subseteq Cvs
  /\ pastRetention \subseteq Cvs
  /\ cvReq \in [Requests -> {Idle} \cup CvReq]
  /\ purge \in PurgeRun

(* A CV whose upload was answered, and that a request can find or bring    *)
(* back, has its file: no clean-up of an upload and no purge, however the  *)
(* requests beside them go, takes the object of such a CV.                 *)
FileOfEveryAnsweredCv ==
  \A c \in answered :
    (cvs[c] = "live" \/ (cvs[c] = "deleted" /\ c \notin pastRetention))
      => c \in objects

(* The purge's list was read before it acts on it; it still only ever      *)
(* removes rows that are soft-deleted and past retention.                  *)
PurgeListIsCurrent ==
  \A c \in purge.todo \cup ({purge.row} \ {NoCv}) :
    cvs[c] = "deleted" /\ c \in pastRetention

(* A CV past retention is out of every request's hands.                    *)
RetentionOutlivesRequests ==
  \A c \in pastRetention :
    /\ cvs[c] \in {"deleted", "purged"}
    /\ \A r \in Requests : /\ cvReq[r] # Idle => cvReq[r].cv # c
                           /\ req[r] \in ApplyReq => req[r].cv # c

(* An upload not yet stored is alone with its key, and neither it nor one  *)
(* being cleaned up was answered.  A CV is purged once per run.            *)
UploadsOwnTheirKey ==
  /\ answered \cap {c \in Cvs : cvs[c] = "absent"} = {}
  /\ \A r \in Requests :
       cvReq[r].pc = "uploaded" =>
         /\ cvs[cvReq[r].cv] = "absent"
         /\ cvReq[r].cv \in objects
         /\ \A q \in Requests \ {r} :
              cvReq[q] # Idle => cvReq[q].cv # cvReq[r].cv
  /\ \A r \in Requests :
       cvReq[r].pc = "cleanup" => cvReq[r].cv \notin answered
  /\ purge.row \notin purge.todo

KeptForItsApplications(c) == ActiveReference(c) => cvs[c] = "live"

(* What r read of a CV and of the applications that refer to it no longer  *)
(* holds when r writes: an application came in after the check of a        *)
(* deletion, the CV went after the look-up of an application, or a status  *)
(* moved under another request.                                            *)
CvOvertaken(r) ==
  \/ /\ cvReq[r].pc = "deleteChecked"
     /\ cvReq'[r] # cvReq[r]
     /\ ~ (ActiveReferences(cvReq[r].cv) \subseteq cvReq[r].refs)
  \/ /\ req[r].pc = "applyChecked"
     /\ req'[r] # req[r]
     /\ cvs[req[r].cv] # req[r].cvSeen
  \/ Overtaken(r)

(* "The CV is referenced by an active job application and cannot be        *)
(* deleted" (cv.exceptions 104): an active application's CV is live, and   *)
(* only a request overtaken between its reads and its write ends that.     *)
ActiveApplicationKeepsCv ==
  [][\A c \in Cvs : KeptForItsApplications(c) =>
       KeptForItsApplications(c)' \/ \E r \in Requests : CvOvertaken(r)]_allVars

(* A CV past retention is eventually purged, however often the object      *)
(* store flakes, a delete fails or the process restarts.                   *)
EventuallyPurged ==
  \A c \in Cvs : c \in pastRetention ~> cvs[c] = "purged"

(* The CV component changes the shared tables only as Applications assumes. *)
ImplementsApplications == Spec
=============================================================================
