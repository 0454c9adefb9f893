------------------------- MODULE Applications_proofs -------------------------
(***************************************************************************)
(* Proofs about Applications, for every set of candidates, postings, CVs   *)
(* and concurrent requests.                                                *)
(***************************************************************************)
EXTENDS Applications, SequenceTheorems, TLAPS

(* The program counter of a request tells which record it is.              *)
LEMMA RequestKinds ==
  ASSUME NEW q \in RequestStates
  PROVE  /\ q.pc = "idle" => q = Idle
         /\ q.pc \in {"applyLookedUp", "applyChecked"} => q \in ApplyReq
         /\ q.pc = "moveRead" => q \in MoveReq
         /\ q.pc \in {"moveWrite", "withdrawWrite"} => q \in WriteReq
         /\ q.pc = "emit" => q \in EmitReq
BY DEF RequestStates, Idle, ApplyReq, MoveReq, WriteReq, EmitReq

(* Every variable keeps its type: what the handlers write are rows of the  *)
(* tables.                                                                 *)
LEMMA TypeInductive ==
  ASSUME TypeOK, [Next]_vars
  PROVE  TypeOK'
<1> USE DEF TypeOK
<1>1. ASSUME NEW r \in Requests, NEW u \in Candidates, NEW j \in Jobs,
             NEW c \in Cvs, ApplyLookups(r, u, j, c)
      PROVE  TypeOK'
  BY <1>1 DEF ApplyLookups, RequestStates, ApplyReq
<1>2. ASSUME NEW r \in Requests, ApplyCheckExisting(r) PROVE TypeOK'
  <2>1. req[r] \in ApplyReq
    BY <1>2, RequestKinds DEF ApplyCheckExisting
  <2>2. [req[r] EXCEPT !.pc = "applyChecked"] \in RequestStates
    BY <2>1 DEF ApplyReq, RequestStates
  <2> QED BY <1>2, <2>2 DEF ApplyCheckExisting, RequestStates
<1>3. ASSUME NEW r \in Requests, ApplySave(r) PROVE TypeOK'
  <2>1. req[r] \in ApplyReq
    BY <1>3, RequestKinds DEF ApplySave
  <2> QED BY <1>3, <2>1 DEF ApplySave, ApplyReq, RequestStates, EmitReq,
               ApplicationRow, ApplicationStatuses
<1>4. ASSUME NEW r \in Requests, ApplySaveRefused(r) PROVE TypeOK'
  BY <1>4 DEF ApplySaveRefused, RequestStates
<1>5. ASSUME NEW r \in Requests, NEW by \in Recruiters, NEW a \in Ids,
             NEW to \in Targets, MoveRead(r, by, a, to)
      PROVE  TypeOK'
  BY <1>5, TargetsAssumption DEF MoveRead, Exists, RequestStates, MoveReq
<1>6. ASSUME NEW r \in Requests, MoveCheck(r) PROVE TypeOK'
  <2>1. req[r] \in MoveReq
    BY <1>6, RequestKinds DEF MoveCheck
  <2>2. [req[r] EXCEPT !.pc = "moveWrite"] \in RequestStates
    BY <2>1 DEF MoveReq, WriteReq, RequestStates
  <2> QED BY <1>6, <2>2 DEF MoveCheck, RequestStates
<1>7. ASSUME NEW r \in Requests, NEW a \in Ids, WithdrawRead(r, a)
      PROVE  TypeOK'
  BY <1>7 DEF WithdrawRead, Exists, RequestStates, WriteReq,
              ApplicationRow, ApplicationStatuses
<1>8. ASSUME NEW r \in Requests, StatusWrite(r) PROVE TypeOK'
  <2>1. req[r] \in WriteReq
    BY <1>8, RequestKinds DEF StatusWrite
  <2>2. ToPersistence(req[r].seen, req[r].to) \in ApplicationRow
    BY <2>1 DEF WriteReq, ToPersistence, ApplicationRow
  <2>3. [from |-> req[r].seen.status, to |-> req[r].to,
         changedById |-> req[r].by] \in HistoryRow
    BY <2>1 DEF WriteReq, ApplicationRow, HistoryRow
  <2>4. [pc |-> "emit", app |-> req[r].app, status |-> req[r].to]
          \in RequestStates
    BY <2>1 DEF WriteReq, EmitReq, RequestStates
  <2>5. applications' \in [Ids -> ApplicationRow \cup {NoRow}]
    BY <1>8, <2>1, <2>2 DEF StatusWrite, UpdateWithHistory
  <2>6. statusHistory' \in [Ids -> Seq(HistoryRow)]
    BY <1>8, <2>1, <2>3 DEF StatusWrite, UpdateWithHistory, WriteReq
  <2>7. req' \in [Requests -> RequestStates]
    BY <1>8, <2>4 DEF StatusWrite, RequestStates
  <2> QED BY <1>8, <2>5, <2>6, <2>7 DEF StatusWrite
<1>9. ASSUME NEW r \in Requests, EmitEvent(r) PROVE TypeOK'
  <2>1. req[r] \in EmitReq
    BY <1>9, RequestKinds DEF EmitEvent
  <2> QED BY <1>9, <2>1 DEF EmitEvent, EmitReq, RequestStates
<1>10. ASSUME NEW r \in Requests, RequestFails(r) PROVE TypeOK'
  BY <1>10 DEF RequestFails, RequestStates
<1>11. ASSUME NEW j \in Jobs, JobChanges(j) PROVE TypeOK'
  BY <1>11 DEF JobChanges, appVars
<1>12. ASSUME NEW c \in Cvs, NEW s \in CvStates, CvChanges(c, s)
       PROVE  TypeOK'
  <2>1. SetNull(c) \in [Ids -> ApplicationRow \cup {NoRow}]
    BY DEF SetNull, Exists, ApplicationRow
  <2> QED BY <1>12, <2>1 DEF CvChanges
<1>13. CASE UNCHANGED vars
  BY <1>13 DEF vars
<1> QED
  BY <1>1, <1>2, <1>3, <1>4, <1>5, <1>6, <1>7, <1>8, <1>9, <1>10, <1>11,
     <1>12, <1>13 DEF Next, AppStep

(* Whatever the interleaving, the tables hold rows and the slots hold      *)
(* requests.                                                               *)
THEOREM TypeCorrect == Spec => []TypeOK
<1>1. Init => TypeOK
  BY DEF Init, TypeOK, JobStates, CvStates, RequestStates
<1>2. TypeOK /\ [Next]_vars => TypeOK'
  BY TypeInductive
<1> QED BY <1>1, <1>2, PTL DEF Spec

-----------------------------------------------------------------------------
(* The statuses of an application's past                                   *)

(* The recorded status is one the application has held.                    *)
LEMMA RecordedIsHeld ==
  ASSUME TypeOK, NEW a \in Ids
  PROVE  RecordedStatus(a) \in HeldStatuses(a)
<1>1. CASE statusHistory[a] = << >>
  BY <1>1 DEF RecordedStatus, HeldStatuses
<1>2. CASE statusHistory[a] # << >>
  <2>1. Len(statusHistory[a]) \in 1..Len(statusHistory[a])
    BY <1>2 DEF TypeOK
  <2> QED BY <1>2, <2>1 DEF RecordedStatus, HeldStatuses
<1> QED BY <1>1, <1>2

(* Appending a history row keeps the past and adds the new status to it.   *)
LEMMA AppendKeepsPast ==
  ASSUME TypeOK, NEW a \in Ids, NEW e \in HistoryRow,
         statusHistory' = [statusHistory EXCEPT ![a] = Append(@, e)]
  PROVE  /\ \A b \in Ids : HeldStatuses(b) \subseteq HeldStatuses(b)'
         /\ e.to \in HeldStatuses(a)'
         /\ RecordedStatus(a)' = e.to
         /\ \A b \in Ids \ {a} : statusHistory'[b] = statusHistory[b]
<1> DEFINE h == statusHistory[a]
<1>1. h \in Seq(HistoryRow) /\ statusHistory'[a] = Append(h, e)
  BY DEF TypeOK
<1>2. \A b \in Ids \ {a} : statusHistory'[b] = statusHistory[b]
  BY DEF TypeOK
<1>3. /\ Len(Append(h, e)) = Len(h) + 1
      /\ Len(h) \in Nat
      /\ \A i \in 1..Len(h) : Append(h, e)[i] = h[i]
      /\ Append(h, e)[Len(h) + 1] = e
      /\ Append(h, e) # << >>
  BY <1>1, AppendProperties, LenProperties
<1>4. HeldStatuses(a) \subseteq HeldStatuses(a)'
  BY <1>1, <1>3 DEF HeldStatuses
<1>5. \A b \in Ids \ {a} : HeldStatuses(b) \subseteq HeldStatuses(b)'
  BY <1>2 DEF HeldStatuses
<1>6. e.to \in HeldStatuses(a)'
  <2>1. Len(h) + 1 \in 1..(Len(h) + 1)
    BY <1>3
  <2> QED BY <1>1, <1>3, <2>1 DEF HeldStatuses
<1>7. RecordedStatus(a)' = e.to
  BY <1>1, <1>3 DEF RecordedStatus
<1> QED BY <1>2, <1>4, <1>5, <1>6, <1>7

-----------------------------------------------------------------------------
(* The inductive invariant                                                 *)

Safety == /\ OneApplicationPerJob
          /\ StatusIsRecorded
          /\ NoDanglingCv
          /\ ToldOnlyCommitted
          /\ RequestsHoldThePast

(* Steps that leave both tables alone disturb only the request itself.     *)
LEMMA TablesKept ==
  ASSUME TypeOK, Safety, NEW r \in Requests,
         NEW q \in RequestStates,
         req' = [req EXCEPT ![r] = q],
         UNCHANGED <<jobs, cvs, applications, statusHistory, told>>,
         HoldsThePast(q)
  PROVE  Safety'
<1>1. /\ \A a : Exists(a)' = Exists(a)
      /\ \A a : HeldStatuses(a)' = HeldStatuses(a)
      /\ \A a : RecordedStatus(a)' = RecordedStatus(a)
  BY DEF Exists, HeldStatuses, RecordedStatus
<1>2. OneApplicationPerJob' /\ StatusIsRecorded' /\ NoDanglingCv'
      /\ ToldOnlyCommitted'
  BY <1>1 DEF Safety, OneApplicationPerJob, StatusIsRecorded, NoDanglingCv,
              ToldOnlyCommitted
<1>3. ASSUME NEW s \in Requests PROVE HoldsThePast(req[s])'
  <2>1. HoldsThePast(req[s]) /\ HoldsThePast(q)
    BY DEF Safety, RequestsHoldThePast
  <2>2. req'[s] = IF s = r THEN q ELSE req[s]
    BY DEF TypeOK
  <2> QED BY <2>1, <2>2, <1>1 DEF HoldsThePast, SeenInPast
<1>4. RequestsHoldThePast'
  BY <1>3 DEF RequestsHoldThePast
<1> QED BY <1>2, <1>4 DEF Safety

(* The insert: a new row under a free id, with no history yet.             *)
LEMMA SaveKeepsSafety ==
  ASSUME TypeOK, Safety, NEW r \in Requests, ApplySave(r)
  PROVE  Safety'
<1> DEFINE q == req[r]
<1>1. q \in ApplyReq /\ cvs[q.cv] \in {"live", "deleted"}
      /\ ~ Applied(q.user, q.job)
  BY RequestKinds DEF TypeOK, ApplySave, InsertAllowed
<1> DEFINE row == [userId |-> q.user, jobId |-> q.job,
                   cvId |-> q.cv, status |-> "APPLIED"]
<1>2. PICK a \in Ids :
        /\ ~ Exists(a)
        /\ applications' = [applications EXCEPT ![a] = row]
        /\ req' = [req EXCEPT ![r] = [pc |-> "emit", app |-> a,
                                      status |-> "APPLIED"]]
  BY DEF ApplySave
<1>3. row \in ApplicationRow
  BY <1>1 DEF ApplyReq, ApplicationRow, ApplicationStatuses
<1>4. UNCHANGED <<jobs, cvs, statusHistory, told>>
  BY DEF ApplySave
<1>5. /\ \A b : HeldStatuses(b)' = HeldStatuses(b)
      /\ \A b : RecordedStatus(b)' = RecordedStatus(b)
  BY <1>4 DEF HeldStatuses, RecordedStatus
<1>6. /\ applications'[a] = row /\ Exists(a)'
      /\ \A b \in Ids \ {a} : applications'[b] = applications[b]
      /\ \A b \in Ids : Exists(b) => Exists(b)' /\ applications'[b] = applications[b]
  BY <1>2, <1>3, NoRowAssumption DEF TypeOK, Exists
<1>7. OneApplicationPerJob'
  BY <1>1, <1>6 DEF Safety, OneApplicationPerJob, Applied, Exists
<1>8. StatusIsRecorded'
  <2>1. statusHistory[a] = << >>
    BY <1>2 DEF Safety, StatusIsRecorded
  <2> QED BY <1>4, <1>5, <1>6, <2>1
          DEF Safety, StatusIsRecorded, RecordedStatus, Exists
<1>9. NoDanglingCv'
  BY <1>1, <1>4, <1>6, NoCvAssumption DEF Safety, NoDanglingCv, Exists, ApplyReq
<1>10. ToldOnlyCommitted'
  BY <1>4, <1>5, <1>6 DEF Safety, ToldOnlyCommitted
<1>11. RequestsHoldThePast'
  <2> SUFFICES ASSUME NEW s \in Requests PROVE HoldsThePast(req[s])'
    BY DEF RequestsHoldThePast
  <2>1. CASE s = r
    BY <1>2, <1>5, <1>6, <2>1 DEF TypeOK, HoldsThePast, HeldStatuses
  <2>2. CASE s # r
    <3>1. req'[s] = req[s] /\ req[s] \in RequestStates
      BY <1>2, <2>2 DEF TypeOK
    <3>2. HoldsThePast(req[s])
      BY DEF Safety, RequestsHoldThePast
    <3>3. req[s].pc \in {"moveRead", "moveWrite", "withdrawWrite", "emit"}
            => req[s].app \in Ids
      BY <3>1, RequestKinds DEF MoveReq, WriteReq, EmitReq
    <3> QED BY <1>5, <1>6, <3>1, <3>2, <3>3 DEF HoldsThePast, SeenInPast
  <2> QED BY <2>1, <2>2
<1> QED BY <1>7, <1>8, <1>9, <1>10, <1>11 DEF Safety

(* The status write: the whole row as it was read, and its history row.    *)
LEMMA WriteKeepsSafety ==
  ASSUME TypeOK, Safety, NEW r \in Requests, StatusWrite(r)
  PROVE  Safety'
<1>1. PICK w \in WriteReq : w = req[r]
  BY RequestKinds DEF TypeOK, StatusWrite
<1> DEFINE row == ToPersistence(w.seen, w.to)
           e == [from |-> w.seen.status, to |-> w.to, changedById |-> w.by]
<1>2. /\ w.app \in Ids /\ Exists(w.app)
      /\ w.seen.userId = applications[w.app].userId
      /\ w.seen.jobId = applications[w.app].jobId
  BY <1>1 DEF Safety, RequestsHoldThePast, HoldsThePast, SeenInPast, WriteReq
<1>3. /\ row \in ApplicationRow /\ row # NoRow /\ row.status = w.to
      /\ row.userId = w.seen.userId /\ row.jobId = w.seen.jobId
      /\ row.cvId = w.seen.cvId
  BY <1>1, NoRowAssumption DEF WriteReq, ToPersistence, ApplicationRow
<1>4. e \in HistoryRow /\ e.to = w.to
  BY <1>1 DEF WriteReq, ApplicationRow, HistoryRow
<1>5. /\ applications' = [applications EXCEPT ![w.app] = row]
      /\ statusHistory' = [statusHistory EXCEPT ![w.app] = Append(@, e)]
      /\ UNCHANGED <<jobs, cvs, told>>
      /\ CvStillReferable(w.seen)
  BY <1>1 DEF StatusWrite, UpdateWithHistory
<1>6. /\ \A b \in Ids : HeldStatuses(b) \subseteq HeldStatuses(b)'
      /\ w.to \in HeldStatuses(w.app)'
      /\ RecordedStatus(w.app)' = w.to
      /\ \A b \in Ids \ {w.app} : statusHistory'[b] = statusHistory[b]
  BY <1>2, <1>4, <1>5, AppendKeepsPast
<1>7. /\ applications'[w.app] = row
      /\ \A b \in Ids \ {w.app} : applications'[b] = applications[b]
      /\ \A b \in Ids : Exists(b)' <=> Exists(b)
  BY <1>2, <1>3, <1>5 DEF TypeOK, Exists
<1>8. \A b \in Ids : Exists(b) => /\ applications'[b].userId = applications[b].userId
                                  /\ applications'[b].jobId = applications[b].jobId
  BY <1>2, <1>3, <1>7
<1>9. OneApplicationPerJob'
  BY <1>7, <1>8 DEF Safety, OneApplicationPerJob
<1>10. StatusIsRecorded'
  <2> SUFFICES ASSUME NEW b \in Ids
               PROVE  IF Exists(b)' THEN applications'[b].status = RecordedStatus(b)'
                                    ELSE statusHistory'[b] = << >>
    BY DEF StatusIsRecorded
  <2>1. CASE b = w.app
    BY <1>2, <1>3, <1>6, <1>7, <2>1
  <2>2. CASE b # w.app
    BY <1>6, <1>7, <2>2 DEF Safety, StatusIsRecorded, RecordedStatus
  <2> QED BY <2>1, <2>2
<1>11. NoDanglingCv'
  <2> SUFFICES ASSUME NEW b \in Ids, Exists(b)', applications'[b].cvId # NoCv
               PROVE  cvs'[applications'[b].cvId] \in {"live", "deleted"}
    BY DEF NoDanglingCv
  <2>1. CASE b = w.app
    BY <1>3, <1>5, <1>7, <2>1 DEF CvStillReferable
  <2>2. CASE b # w.app
    BY <1>5, <1>7, <2>2 DEF Safety, NoDanglingCv
  <2> QED BY <2>1, <2>2
<1>12. ToldOnlyCommitted'
  BY <1>5, <1>6, <1>7 DEF Safety, ToldOnlyCommitted
<1>13. RequestsHoldThePast'
  <2> SUFFICES ASSUME NEW s \in Requests PROVE HoldsThePast(req[s])'
    BY DEF RequestsHoldThePast
  <2>1. CASE s = r
    <3>1. req'[r] = Idle \/ req'[r] = [pc |-> "emit", app |-> w.app, status |-> w.to]
      BY <1>1 DEF StatusWrite, TypeOK
    <3> QED BY <1>2, <1>6, <1>7, <2>1, <3>1 DEF HoldsThePast, Idle
  <2>2. CASE s # r
    <3>1. req'[s] = req[s] /\ req[s] \in RequestStates
      BY <2>2 DEF TypeOK, StatusWrite
    <3>2. HoldsThePast(req[s])
      BY DEF Safety, RequestsHoldThePast
    <3>3. req[s].pc \in {"moveRead", "moveWrite", "withdrawWrite", "emit"}
            => req[s].app \in Ids
      BY <3>1, RequestKinds DEF MoveReq, WriteReq, EmitReq
    <3> QED BY <1>6, <1>7, <1>8, <3>1, <3>2, <3>3 DEF HoldsThePast, SeenInPast
  <2> QED BY <2>1, <2>2
<1> QED BY <1>9, <1>10, <1>11, <1>12, <1>13 DEF Safety

(* A write by the CV component: purging clears cvId, nothing else changes. *)
LEMMA CvChangesKeepSafety ==
  ASSUME TypeOK, Safety, NEW c \in Cvs, NEW s \in CvStates, CvChanges(c, s)
  PROVE  Safety'
<1>1. /\ cvs' = [cvs EXCEPT ![c] = s]
      /\ <<cvs[c], s>> \in CvMoves
      /\ UNCHANGED <<jobs, statusHistory, told, req>>
  BY DEF CvChanges
<1>2. \A a \in Ids :
        /\ Exists(a)' <=> Exists(a)
        /\ applications'[a].userId = applications[a].userId
        /\ applications'[a].jobId = applications[a].jobId
        /\ applications'[a].status = applications[a].status
        /\ Exists(a) /\ applications'[a].cvId # NoCv
             => /\ applications'[a].cvId = applications[a].cvId
                /\ s = "purged" => applications[a].cvId # c
  <2>1. CASE s = "purged"
    <3> SUFFICES ASSUME NEW a \in Ids
                 PROVE  /\ Exists(a)' <=> Exists(a)
                        /\ applications'[a].userId = applications[a].userId
                        /\ applications'[a].jobId = applications[a].jobId
                        /\ applications'[a].status = applications[a].status
                        /\ Exists(a) /\ applications'[a].cvId # NoCv
                             => /\ applications'[a].cvId = applications[a].cvId
                                /\ applications[a].cvId # c
      BY <2>1
    <3>1. applications'[a] = IF Exists(a) /\ applications[a].cvId = c
                             THEN [applications[a] EXCEPT !.cvId = NoCv]
                             ELSE applications[a]
      BY <2>1 DEF CvChanges, SetNull
    <3>2. applications[a] \in ApplicationRow \cup {NoRow}
      BY DEF TypeOK
    <3>3. ASSUME Exists(a)
          PROVE  [applications[a] EXCEPT !.cvId = NoCv] \in ApplicationRow
      BY <3>2, <3>3 DEF Exists, ApplicationRow
    <3>4. CASE Exists(a) /\ applications[a].cvId = c
      BY <3>1, <3>2, <3>3, <3>4, NoRowAssumption DEF Exists, ApplicationRow
    <3>5. CASE ~ (Exists(a) /\ applications[a].cvId = c)
      BY <3>1, <3>5 DEF Exists
    <3> QED BY <3>4, <3>5
  <2>2. CASE s # "purged"
    BY <2>2 DEF CvChanges, Exists
  <2> QED BY <2>1, <2>2
<1>3. /\ \A b : HeldStatuses(b)' = HeldStatuses(b)
      /\ \A b : RecordedStatus(b)' = RecordedStatus(b)
  BY <1>1 DEF HeldStatuses, RecordedStatus
<1>4. OneApplicationPerJob'
  BY <1>2 DEF Safety, OneApplicationPerJob
<1>5. StatusIsRecorded'
  BY <1>1, <1>2, <1>3 DEF Safety, StatusIsRecorded
<1>6. NoDanglingCv'
  <2> SUFFICES ASSUME NEW a \in Ids, Exists(a)', applications'[a].cvId # NoCv
               PROVE  cvs'[applications'[a].cvId] \in {"live", "deleted"}
    BY DEF NoDanglingCv
  <2>1. cvs[applications[a].cvId] \in {"live", "deleted"}
        /\ applications'[a].cvId = applications[a].cvId
        /\ (s = "purged" => applications[a].cvId # c)
    BY <1>2 DEF Safety, NoDanglingCv
  <2>2. s \in {"live", "deleted", "purged"}
    BY <1>1 DEF CvMoves
  <2>3. cvs \in [Cvs -> CvStates] /\ cvs' = [cvs EXCEPT ![c] = s]
    BY <1>1 DEF TypeOK
  <2>4. applications[a].cvId \in Cvs
    BY <1>2, <2>1 DEF TypeOK, Exists, ApplicationRow
  <2> QED BY <2>1, <2>2, <2>3, <2>4
<1>7. ToldOnlyCommitted'
  BY <1>1, <1>2, <1>3 DEF Safety, ToldOnlyCommitted
<1>8. RequestsHoldThePast'
  <2> SUFFICES ASSUME NEW r \in Requests PROVE HoldsThePast(req[r])'
    BY DEF RequestsHoldThePast
  <2>1. HoldsThePast(req[r]) /\ req'[r] = req[r] /\ req[r] \in RequestStates
    BY <1>1 DEF TypeOK, Safety, RequestsHoldThePast
  <2>2. req[r].pc \in {"moveRead", "moveWrite", "withdrawWrite", "emit"}
          => req[r].app \in Ids
    BY <2>1, RequestKinds DEF MoveReq, WriteReq, EmitReq
  <2> QED BY <1>2, <1>3, <2>1, <2>2 DEF HoldsThePast, SeenInPast
<1> QED BY <1>4, <1>5, <1>6, <1>7, <1>8 DEF Safety

(* Safety is inductive under the type invariant.                           *)
LEMMA SafetyInductive ==
  ASSUME TypeOK, Safety, [Next]_vars
  PROVE  Safety'
<1>0. Safety => \A r \in Requests : HoldsThePast(req[r])
  BY DEF Safety, RequestsHoldThePast
<1>1. ASSUME NEW r \in Requests, NEW u \in Candidates, NEW j \in Jobs,
             NEW c \in Cvs, ApplyLookups(r, u, j, c)
      PROVE  Safety'
  <2> DEFINE q == [pc |-> "applyLookedUp", user |-> u, job |-> j, cv |-> c,
                   cvSeen |-> cvs[c]]
  <2>1. q \in RequestStates /\ HoldsThePast(q)
    BY DEF RequestStates, ApplyReq, HoldsThePast, TypeOK
  <2>2. req' = [req EXCEPT ![r] = q]
        /\ UNCHANGED <<jobs, cvs, applications, statusHistory, told>>
    BY <1>1 DEF ApplyLookups
  <2> QED BY <2>1, <2>2, TablesKept
<1>2. ASSUME NEW r \in Requests, ApplyCheckExisting(r) PROVE Safety'
  <2>1. req[r] \in ApplyReq
    BY <1>2, RequestKinds DEF TypeOK, ApplyCheckExisting
  <2>2. PICK q \in RequestStates :
          req' = [req EXCEPT ![r] = q] /\ q.pc \in {"idle", "applyChecked"}
    <3>1. [req[r] EXCEPT !.pc = "applyChecked"] \in ApplyReq
          /\ [req[r] EXCEPT !.pc = "applyChecked"].pc = "applyChecked"
      BY <2>1 DEF ApplyReq
    <3>2. CASE req' = [req EXCEPT ![r] = Idle]
      <4>1. Idle \in RequestStates
        BY DEF RequestStates
      <4>2. Idle.pc \in {"idle", "applyChecked"}
        BY DEF Idle
      <4> QED BY <3>2, <4>1, <4>2
    <3>3. CASE req' = [req EXCEPT ![r] = [req[r] EXCEPT !.pc = "applyChecked"]]
      <4>1. PICK q \in ApplyReq : q = [req[r] EXCEPT !.pc = "applyChecked"]
        BY <3>1
      <4> QED BY <3>1, <3>3, <4>1 DEF RequestStates
    <3> QED BY <1>2, <3>2, <3>3 DEF ApplyCheckExisting
  <2>3. HoldsThePast(q)
    BY <2>2 DEF HoldsThePast
  <2> QED BY <1>2, <2>2, <2>3, TablesKept DEF ApplyCheckExisting
<1>3. ASSUME NEW r \in Requests, ApplySave(r) PROVE Safety'
  BY <1>3, SaveKeepsSafety
<1>4. ASSUME NEW r \in Requests, req' = [req EXCEPT ![r] = Idle],
             UNCHANGED <<jobs, cvs, applications, statusHistory, told>>
      PROVE  Safety'
  <2>1. Idle \in RequestStates /\ HoldsThePast(Idle)
    BY DEF RequestStates, Idle, HoldsThePast
  <2> QED BY <1>4, <2>1, TablesKept
<1>5. ASSUME NEW r \in Requests, NEW by \in Recruiters, NEW a \in Ids,
             NEW to \in Targets, MoveRead(r, by, a, to)
      PROVE  Safety'
  <2>1. PICK q \in MoveReq : /\ req' = [req EXCEPT ![r] = q]
                             /\ q.pc = "moveRead" /\ q.app = a
                             /\ q.seen = applications[a]
    <3>1. applications[a] \in ApplicationRow
      BY <1>5 DEF MoveRead, TypeOK, Exists
    <3>2. PICK row \in ApplicationRow : row = applications[a]
      BY <3>1
    <3>3. [pc |-> "moveRead", app |-> a, seen |-> row, to |-> to, by |-> by]
            \in MoveReq
      BY <1>5, <3>2, TargetsAssumption DEF MoveReq
    <3> QED BY <1>5, <3>2, <3>3 DEF MoveRead
  <2>2. applications[a].status \in HeldStatuses(a)
    BY <1>5, RecordedIsHeld DEF Safety, StatusIsRecorded, MoveRead
  <2>3. HoldsThePast(q) /\ q \in RequestStates
    BY <1>5, <2>1, <2>2 DEF HoldsThePast, SeenInPast, MoveRead, RequestStates
  <2> QED BY <1>5, <2>1, <2>3, TablesKept DEF MoveRead
<1>6. ASSUME NEW r \in Requests, MoveCheck(r) PROVE Safety'
  <2>1. req[r] \in MoveReq /\ HoldsThePast(req[r])
    BY <1>0, <1>6, RequestKinds DEF TypeOK, MoveCheck
  <2>2. CASE req' = [req EXCEPT ![r] = Idle]
    BY <1>4, <1>6, <2>2 DEF MoveCheck
  <2>3. CASE /\ CanTransition(req[r].seen.status, req[r].to)
             /\ req' = [req EXCEPT ![r] = [req[r] EXCEPT !.pc = "moveWrite"]]
    <3>1. PICK q \in WriteReq : /\ q = [req[r] EXCEPT !.pc = "moveWrite"]
                                /\ q.pc = "moveWrite" /\ q.app = req[r].app
                                /\ q.seen = req[r].seen /\ q.to = req[r].to
      <4>1. [req[r] EXCEPT !.pc = "moveWrite"] \in WriteReq
        BY <2>1 DEF MoveReq, WriteReq
      <4> QED BY <2>1, <4>1 DEF MoveReq
    <3>2. SeenInPast(req[r])
      BY <1>6, <2>1 DEF HoldsThePast, MoveCheck
    <3>3. HoldsThePast(q) /\ q \in RequestStates
      BY <2>3, <3>1, <3>2 DEF HoldsThePast, SeenInPast, LegalMove, RequestStates
    <3> QED BY <1>6, <2>3, <3>1, <3>3, TablesKept DEF MoveCheck
  <2> QED BY <1>6, <2>2, <2>3 DEF MoveCheck, TransitionTo
<1>7. ASSUME NEW r \in Requests, NEW a \in Ids, WithdrawRead(r, a)
      PROVE  Safety'
  <2>1. PICK q \in WriteReq : /\ req' = [req EXCEPT ![r] = q]
                              /\ q.pc = "withdrawWrite" /\ q.app = a
                              /\ q.seen = applications[a] /\ q.to = "WITHDRAWN"
    <3>1. applications[a] \in ApplicationRow
      BY <1>7 DEF WithdrawRead, TypeOK, Exists
    <3>2. PICK row \in ApplicationRow : row = applications[a]
      BY <3>1
    <3>3. [pc |-> "withdrawWrite", app |-> a, seen |-> row,
           to |-> "WITHDRAWN", by |-> row.userId] \in WriteReq
      BY <3>2 DEF WriteReq, ApplicationRow, ApplicationStatuses
    <3> QED BY <1>7, <3>2, <3>3 DEF WithdrawRead
  <2>2. applications[a].status \in HeldStatuses(a)
    BY <1>7, RecordedIsHeld DEF Safety, StatusIsRecorded, WithdrawRead
  <2>3. HoldsThePast(q) /\ q \in RequestStates
    BY <1>7, <2>1, <2>2
       DEF HoldsThePast, SeenInPast, LegalMove, WithdrawRead, RequestStates
  <2> QED BY <1>7, <2>1, <2>3, TablesKept DEF WithdrawRead
<1>8. ASSUME NEW r \in Requests, StatusWrite(r) PROVE Safety'
  BY <1>8, WriteKeepsSafety
<1>9. ASSUME NEW r \in Requests, EmitEvent(r) PROVE Safety'
  <2>1. req[r] \in EmitReq /\ HoldsThePast(req[r])
    BY <1>0, <1>9, RequestKinds DEF TypeOK, EmitEvent
  <2>2. /\ told' = [told EXCEPT ![req[r].app] = @ \cup {req[r].status}]
        /\ req' = [req EXCEPT ![r] = Idle]
        /\ UNCHANGED <<jobs, cvs, applications, statusHistory>>
    BY <1>9 DEF EmitEvent
  <2>3. /\ \A b : HeldStatuses(b)' = HeldStatuses(b)
        /\ \A b : RecordedStatus(b)' = RecordedStatus(b)
        /\ \A b : Exists(b)' = Exists(b)
    BY <2>2 DEF HeldStatuses, RecordedStatus, Exists
  <2>4. ToldOnlyCommitted'
    <3>1. req[r].app \in Ids /\ Exists(req[r].app)
          /\ req[r].status \in HeldStatuses(req[r].app)
      BY <1>9, <2>1 DEF EmitReq, HoldsThePast, EmitEvent
    <3> QED BY <2>2, <2>3, <3>1 DEF TypeOK, Safety, ToldOnlyCommitted
  <2>5. RequestsHoldThePast'
    <3> SUFFICES ASSUME NEW s \in Requests PROVE HoldsThePast(req[s])'
      BY DEF RequestsHoldThePast
    <3>1. req'[s] = req[s] \/ req'[s] = Idle
      BY <2>2 DEF TypeOK
    <3> QED BY <1>0, <2>2, <2>3, <3>1 DEF HoldsThePast, SeenInPast, Idle
  <2>6. OneApplicationPerJob' /\ StatusIsRecorded' /\ NoDanglingCv'
    BY <2>2, <2>3 DEF Safety, OneApplicationPerJob, StatusIsRecorded,
                      NoDanglingCv
  <2> QED BY <2>4, <2>5, <2>6 DEF Safety
<1>10. ASSUME NEW j \in Jobs, JobChanges(j) PROVE Safety'
  BY <1>10 DEF JobChanges, appVars, Safety, OneApplicationPerJob,
               StatusIsRecorded, NoDanglingCv, ToldOnlyCommitted,
               RequestsHoldThePast, HoldsThePast, SeenInPast, Exists,
               HeldStatuses, RecordedStatus
<1>11. ASSUME NEW c \in Cvs, NEW s \in CvStates, CvChanges(c, s)
       PROVE  Safety'
  BY <1>11, CvChangesKeepSafety
<1>12. CASE UNCHANGED vars
  BY <1>12 DEF vars, Safety, OneApplicationPerJob,
               StatusIsRecorded, NoDanglingCv, ToldOnlyCommitted,
               RequestsHoldThePast, HoldsThePast, SeenInPast, Exists,
               HeldStatuses, RecordedStatus
<1>13. ASSUME NEW r \in Requests, ApplySaveRefused(r) \/ RequestFails(r)
       PROVE  Safety'
  BY <1>4, <1>13 DEF ApplySaveRefused, RequestFails
<1> QED
  BY <1>1, <1>2, <1>3, <1>5, <1>6, <1>7, <1>8, <1>9, <1>10, <1>11, <1>12,
     <1>13 DEF Next, AppStep

LEMMA InitSafe == Init => Safety
BY DEF Init, Safety, OneApplicationPerJob, StatusIsRecorded, NoDanglingCv,
       ToldOnlyCommitted, RequestsHoldThePast, HoldsThePast, Exists, Idle

(* However requests interleave: at most one application per candidate and  *)
(* posting; a status that is the one its history records; no pointer to a  *)
(* purged CV; only committed statuses announced; and requests that hold    *)
(* nothing but the past.                                                   *)
THEOREM SafetyHolds == Spec => []Safety
<1>1. TypeOK /\ Safety /\ [Next]_vars => Safety'
  BY SafetyInductive
<1> QED BY <1>1, InitSafe, TypeCorrect, PTL DEF Spec

(* @@unique([userId, jobId]) closes the gap between the check and the      *)
(* insert of ApplyJobHandler.                                              *)
THEOREM Uniqueness == Spec => []OneApplicationPerJob
<1>1. Safety => OneApplicationPerJob
  BY DEF Safety
<1> QED BY <1>1, SafetyHolds, PTL

(* The status column and the audit trail never disagree.                   *)
THEOREM AuditAgreement == Spec => []StatusIsRecorded
<1>1. Safety => StatusIsRecorded
  BY DEF Safety
<1> QED BY <1>1, SafetyHolds, PTL

(* Neither an insert nor a whole-row write of a stale cvId brings a purged *)
(* CV back.                                                                *)
THEOREM NoCvDangles == Spec => []NoDanglingCv
<1>1. Safety => NoDanglingCv
  BY DEF Safety
<1> QED BY <1>1, SafetyHolds, PTL

(* No event announces a status its application has not held.               *)
THEOREM EventsFollowCommits == Spec => []ToldOnlyCommitted
<1>1. Safety => ToldOnlyCommitted
  BY DEF Safety
<1> QED BY <1>1, SafetyHolds, PTL

-----------------------------------------------------------------------------
(* Refinement                                                              *)

(* Every step of the component is a step of AuditTrail or leaves it alone. *)
LEMMA StepRefines ==
  ASSUME TypeOK, Safety, TypeOK', [Next]_vars
  PROVE  [Trail!Next]_(Trail!avars)
<1> DEFINE stage == [a \in Ids |-> StageOf(a)]
<1>1. ASSUME \A a \in Ids : StageOf(a)' = StageOf(a), UNCHANGED statusHistory
      PROVE  UNCHANGED Trail!avars
  BY <1>1 DEF Trail!avars
<1>2. ASSUME UNCHANGED <<applications, statusHistory>>
      PROVE  UNCHANGED Trail!avars
  BY <1>1, <1>2 DEF StageOf, Exists
<1>3. ASSUME NEW r \in Requests, ApplySave(r) PROVE Trail!Next
  <2>1. PICK a \in Ids :
          /\ ~ Exists(a)
          /\ \E row \in ApplicationRow :
               /\ applications' = [applications EXCEPT ![a] = row]
               /\ row.status = "APPLIED"
    <3>1. req[r] \in ApplyReq
      BY <1>3, RequestKinds DEF ApplySave, TypeOK
    <3>2. PICK row \in ApplicationRow :
            row = [userId |-> req[r].user, jobId |-> req[r].job,
                   cvId |-> req[r].cv, status |-> "APPLIED"]
      BY <3>1 DEF ApplyReq, ApplicationRow, ApplicationStatuses
    <3> QED BY <1>3, <3>2 DEF ApplySave
  <2>2. stage' = [stage EXCEPT ![a] = "APPLIED"] /\ stage[a] = "NONE"
    BY <2>1, NoRowAssumption DEF StageOf, Exists, TypeOK
  <2>3. Trail!Submit(a)
    BY <1>3, <2>2 DEF Trail!Submit, ApplySave
  <2> QED BY <2>3 DEF Trail!Next
<1>4. ASSUME NEW r \in Requests, StatusWrite(r) PROVE Trail!Next
  <2>1. PICK w \in WriteReq : w = req[r]
    BY <1>4, RequestKinds DEF TypeOK, StatusWrite
  <2>2. /\ w.app \in Ids /\ Exists(w.app)
        /\ w.seen.status \in HeldStatuses(w.app)
        /\ LegalMove(w.seen.status, w.to)
    BY <1>4, <2>1 DEF Safety, RequestsHoldThePast, HoldsThePast, SeenInPast,
                      WriteReq, StatusWrite
  <2> DEFINE row == ToPersistence(w.seen, w.to)
  <2>3. /\ w.seen.status \in ApplicationStatuses /\ w.to \in ApplicationStatuses
        /\ w.by \in Candidates \cup Recruiters
        /\ row \in ApplicationRow /\ row.status = w.to
    BY <2>1 DEF WriteReq, ApplicationRow, ToPersistence
  <2>4. /\ applications' = [applications EXCEPT ![w.app] = row]
        /\ statusHistory' = [statusHistory EXCEPT ![w.app] =
             Append(@, [from |-> w.seen.status, to |-> w.to,
                        changedById |-> w.by])]
    BY <1>4, <2>1 DEF StatusWrite, UpdateWithHistory
  <2>5. stage' = [stage EXCEPT ![w.app] = w.to]
    <3> HIDE DEF row
    <3> QED BY <2>2, <2>3, <2>4, NoRowAssumption DEF StageOf, Exists, TypeOK
  <2>6. stage[w.app] # "NONE"
    BY <2>2 DEF StageOf, Exists, TypeOK, ApplicationRow, ApplicationStatuses
  <2>7. Trail!Record(w.app, w.seen.status, w.to)
    BY <2>2, <2>3, <2>4, <2>5, <2>6 DEF Trail!Record, LegalMove, Trail!LegalMove,
       CanTransition, Trail!CanTransition, CanWithdraw, Trail!CanWithdraw,
       IsTerminal, Trail!IsTerminal, ForwardTransitions,
       Trail!ForwardTransitions, ApplicationStatuses,
       Trail!ApplicationStatuses
  <2> QED BY <2>2, <2>3, <2>7 DEF Trail!Next, Trail!Held, HeldStatuses,
             Trail!ApplicationStatuses, ApplicationStatuses
<1>5. ASSUME NEW c \in Cvs, NEW s \in CvStates, CvChanges(c, s)
      PROVE  UNCHANGED Trail!avars
  <2>1. \A a \in Ids : StageOf(a)' = StageOf(a)
    <3> SUFFICES ASSUME NEW a \in Ids PROVE StageOf(a)' = StageOf(a)
      OBVIOUS
    <3>1. applications[a] \in ApplicationRow \cup {NoRow}
      BY DEF TypeOK
    <3>2. applications'[a] = applications[a] \/
          /\ Exists(a)
          /\ applications'[a] = [applications[a] EXCEPT !.cvId = NoCv]
      BY <1>5 DEF CvChanges, SetNull
    <3>3. ASSUME Exists(a)
          PROVE  /\ [applications[a] EXCEPT !.cvId = NoCv] \in ApplicationRow
                 /\ [applications[a] EXCEPT !.cvId = NoCv].status
                      = applications[a].status
      BY <3>1, <3>3 DEF Exists, ApplicationRow
    <3> QED BY <3>2, <3>3, NoRowAssumption DEF StageOf, Exists
  <2> QED BY <1>1, <1>5, <2>1 DEF CvChanges
<1>6. ASSUME NEW j \in Jobs, JobChanges(j) PROVE UNCHANGED Trail!avars
  BY <1>2, <1>6 DEF JobChanges, appVars
<1>7. CASE UNCHANGED vars
  BY <1>2, <1>7 DEF vars
<1>8. ASSUME NEW r \in Requests, AppStep(r), ~ ApplySave(r), ~ StatusWrite(r)
      PROVE  UNCHANGED Trail!avars
  BY <1>2, <1>8 DEF AppStep, ApplyLookups, ApplyCheckExisting,
     ApplySaveRefused, MoveRead, MoveCheck, WithdrawRead, EmitEvent,
     RequestFails
<1> QED BY <1>3, <1>4, <1>5, <1>6, <1>7, <1>8 DEF Next

(* The component implements AuditTrail for every number of concurrent      *)
(* requests: no history row is lost or rewritten, no status changes        *)
(* without one, and every recorded move is legal from a status held        *)
(* before.                                                                 *)
THEOREM Implementation == Spec => ImplementsAuditTrail
<1>1. Init => Trail!Init
  BY DEF Init, Trail!Init, StageOf, Exists
<1>2. TypeOK /\ TypeOK' /\ Safety /\ [Next]_vars => [Trail!Next]_(Trail!avars)
  BY StepRefines
<1> QED
  BY <1>1, <1>2, TypeCorrect, SafetyHolds, PTL
     DEF Spec, Trail!Spec, ImplementsAuditTrail
-----------------------------------------------------------------------------
(* The pipeline of the domain model                                        *)

(* Only an active application moves.                                       *)
LEMMA MovesLeaveActive ==
  ASSUME NEW from, NEW to \in ApplicationStatuses, LegalMove(from, to)
  PROVE  ~ IsTerminal(from)
BY DEF LegalMove, CanWithdraw, IsTerminal

(* The write of a status, seen from the row it replaces: a legal move of   *)
(* it, unless the request was overtaken.                                   *)
LEMMA StatusWriteFacts ==
  ASSUME TypeOK, Safety, NEW r \in Requests, StatusWrite(r)
  PROVE  \E a \in Ids, row \in ApplicationRow :
           /\ Exists(a) /\ applications' = [applications EXCEPT ![a] = row]
           /\ LegalMove(applications[a].status, row.status) \/ OvertakenWrite
           /\ req[r].app = a /\ row.cvId = req[r].seen.cvId
           /\ row.cvId \in Cvs => cvs[row.cvId] \in {"live", "deleted"}
           /\ req'[r].pc \in {"idle", "emit"} /\ cvs' = cvs
<1>1. PICK w \in WriteReq : w = req[r] /\ w.pc \in {"moveWrite", "withdrawWrite"}
  BY RequestKinds DEF TypeOK, StatusWrite
<1>2. PICK row \in ApplicationRow : row = ToPersistence(w.seen, w.to)
  BY <1>1 DEF ToPersistence, WriteReq, ApplicationRow
<1>3. PICK a \in Ids : a = w.app
  BY <1>1 DEF WriteReq
<1>4. row.status = w.to /\ row.cvId = w.seen.cvId
  BY <1>1, <1>2 DEF ToPersistence, WriteReq, ApplicationRow
<1>5. Exists(a) /\ LegalMove(w.seen.status, w.to)
  BY <1>1, <1>3 DEF Safety, RequestsHoldThePast, HoldsThePast, SeenInPast
<1> DEFINE q == IF w.pc = "moveWrite"
                THEN [pc |-> "emit", app |-> w.app, status |-> w.to] ELSE Idle
<1>6. /\ applications' = [applications EXCEPT ![a] = row] /\ cvs' = cvs
      /\ CvStillReferable(w.seen)
      /\ req' = [req EXCEPT ![r] = q]
  BY <1>1, <1>2, <1>3 DEF StatusWrite, UpdateWithHistory
<1>7. row.cvId \in Cvs => cvs[row.cvId] \in {"live", "deleted"}
  BY <1>4, <1>6, NoCvAssumption DEF CvStillReferable
<1>8. q.pc \in {"idle", "emit"}
  BY DEF Idle
<1>9. req'[r].pc \in {"idle", "emit"}
  <2> HIDE DEF q
  <2> QED BY <1>6, <1>8 DEF TypeOK
<1>10. LegalMove(applications[a].status, row.status) \/ OvertakenWrite
  <2>1. req'[r] # req[r]
    BY <1>1, <1>9
  <2> QED BY <1>1, <1>3, <1>4, <1>5, <2>1 DEF OvertakenWrite, Overtaken
<1> WITNESS a \in Ids, row \in ApplicationRow
<1> QED BY <1>1, <1>3, <1>4, <1>5, <1>6, <1>7, <1>9, <1>10

(* No job or CV moves the status of an application.                        *)
LEMMA OthersKeepStatuses ==
  ASSUME TypeOK,
         \/ \E j \in Jobs : JobChanges(j)
         \/ \E c \in Cvs, s \in CvStates : CvChanges(c, s)
  PROVE  \A a \in Ids : /\ Exists(a)' = Exists(a)
                        /\ applications'[a].status = applications[a].status
<1>1. ASSUME NEW j \in Jobs, JobChanges(j) PROVE applications' = applications
  BY <1>1 DEF JobChanges, appVars
<1>2. ASSUME NEW c \in Cvs, NEW s \in CvStates, CvChanges(c, s), NEW a \in Ids
      PROVE  Exists(a)' = Exists(a) /\ applications'[a].status = applications[a].status
  <2>1. CASE Exists(a) /\ applications[a].cvId = c /\ s = "purged"
    <3>1. applications[a] \in ApplicationRow
      BY <2>1 DEF TypeOK, Exists
    <3>2. applications'[a] = [applications[a] EXCEPT !.cvId = NoCv]
      BY <1>2, <2>1 DEF CvChanges, SetNull
    <3>3. /\ [applications[a] EXCEPT !.cvId = NoCv] \in ApplicationRow
          /\ [applications[a] EXCEPT !.cvId = NoCv].status = applications[a].status
      BY <3>1 DEF ApplicationRow
    <3> QED BY <2>1, <3>2, <3>3, NoRowAssumption DEF Exists
  <2>2. CASE ~ (Exists(a) /\ applications[a].cvId = c /\ s = "purged")
    BY <1>2, <2>2 DEF CvChanges, SetNull, Exists
  <2> QED BY <2>1, <2>2
<1> QED BY <1>1, <1>2 DEF Exists

(* An insert, seen from the table.                                         *)
LEMMA SaveFacts ==
  ASSUME TypeOK, NEW r \in Requests, ApplySave(r)
  PROVE  \E a \in Ids, row \in ApplicationRow :
           /\ ~ Exists(a) /\ row.status = "APPLIED" /\ row.cvId = req[r].cv
           /\ applications' = [applications EXCEPT ![a] = row]
           /\ req' = [req EXCEPT ![r] = [pc |-> "emit", app |-> a, status |-> "APPLIED"]]
           /\ cvs' = cvs
<1>1. req[r] \in ApplyReq
  BY RequestKinds DEF ApplySave, TypeOK
<1>2. PICK row \in ApplicationRow :
        row = [userId |-> req[r].user, jobId |-> req[r].job,
               cvId |-> req[r].cv, status |-> "APPLIED"]
  BY <1>1 DEF ApplicationRow, ApplyReq, ApplicationStatuses
<1> QED BY <1>2 DEF ApplySave

(* A step that neither inserts nor writes leaves the rows alone.           *)
LEMMA OthersReadOnly ==
  ASSUME NEW r \in Requests, AppStep(r), ~ ApplySave(r), ~ StatusWrite(r)
  PROVE  UNCHANGED <<jobs, cvs, applications, statusHistory>>
BY DEF AppStep, ApplyLookups, ApplyCheckExisting, ApplySaveRefused, MoveRead,
   MoveCheck, WithdrawRead, EmitEvent, RequestFails

LEMMA StepFollowsPipeline ==
  ASSUME TypeOK, Safety, [Next]_vars
  PROVE  [Pipeline!Next \/ OvertakenWrite]_([a \in Ids |-> StageOf(a)])
<1> DEFINE stage == [a \in Ids |-> StageOf(a)]
<1>1. ASSUME NEW r \in Requests, ApplySave(r) PROVE Pipeline!Next
  <2>1. PICK a \in Ids, row \in ApplicationRow :
          /\ ~ Exists(a) /\ row.status = "APPLIED"
          /\ applications' = [applications EXCEPT ![a] = row]
    BY <1>1, SaveFacts
  <2>2. stage[a] = "NONE" /\ stage' = [stage EXCEPT ![a] = "APPLIED"]
    BY <2>1, NoRowAssumption DEF StageOf, Exists, TypeOK
  <2>3. Pipeline!Submit(a)
    BY <2>2 DEF Pipeline!Submit
  <2> QED BY <2>3 DEF Pipeline!Next
<1>2. ASSUME NEW r \in Requests, StatusWrite(r), ~ OvertakenWrite PROVE Pipeline!Next
  <2>1. PICK a \in Ids, row \in ApplicationRow :
           /\ Exists(a) /\ applications' = [applications EXCEPT ![a] = row]
           /\ LegalMove(applications[a].status, row.status)
    BY <1>2, StatusWriteFacts
  <2>2. row.status \in ApplicationStatuses /\ applications[a] \in ApplicationRow
    BY <2>1 DEF ApplicationRow, TypeOK, Exists
  <2>3. /\ stage[a] = applications[a].status /\ stage[a] # "NONE"
        /\ stage' = [stage EXCEPT ![a] = row.status]
    BY <2>1, <2>2, NoRowAssumption
       DEF StageOf, Exists, TypeOK, ApplicationRow, ApplicationStatuses
  <2>4. Pipeline!LegalMove(stage[a], row.status)
    BY <2>1, <2>3 DEF LegalMove, Pipeline!LegalMove, CanTransition,
       Pipeline!CanTransition, CanWithdraw, Pipeline!CanWithdraw, IsTerminal,
       Pipeline!IsTerminal, ForwardTransitions, Pipeline!ForwardTransitions,
       ApplicationStatuses, Pipeline!ApplicationStatuses
  <2>5. Pipeline!Move(a, row.status)
    BY <2>3, <2>4 DEF Pipeline!Move
  <2> QED BY <2>2, <2>5 DEF Pipeline!Next, ApplicationStatuses,
             Pipeline!ApplicationStatuses
<1>3. ASSUME UNCHANGED applications PROVE UNCHANGED stage
  BY <1>3 DEF StageOf, Exists
<1>4. ASSUME NEW r \in Requests, AppStep(r), ~ OvertakenWrite
      PROVE  [Pipeline!Next]_stage
  BY <1>1, <1>2, <1>3, <1>4, OthersReadOnly
<1>5. CASE \/ \E j \in Jobs : JobChanges(j)
           \/ \E c \in Cvs, s \in CvStates : CvChanges(c, s)
  BY <1>5, OthersKeepStatuses DEF StageOf
<1>6. CASE UNCHANGED vars
  BY <1>3, <1>6 DEF vars
<1> QED BY <1>4, <1>5, <1>6 DEF Next

(* For any number of requests in flight: an application leaves the status  *)
(* it holds by a legal move of the domain model, unless the request that   *)
(* moves it was overtaken between its read and its write.                  *)
THEOREM PipelineFollowed == Spec => ImplementsPipeline
<1>1. Init => Pipeline!Init
  BY DEF Init, Pipeline!Init, StageOf, Exists
<1>2. TypeOK /\ Safety /\ [Next]_vars
        => [Pipeline!Next \/ OvertakenWrite]_([a \in Ids |-> StageOf(a)])
  BY StepFollowsPipeline
<1> QED BY <1>1, <1>2, TypeCorrect, SafetyHolds, PTL DEF Spec, ImplementsPipeline

(* A stored status that is terminal stays, unless an overtaken request     *)
(* writes over it.                                                         *)
THEOREM TerminalStays == Spec => TerminalIsFinal
<1>1. ASSUME TypeOK, Safety, Next, NEW a \in Ids, Exists(a),
             IsTerminal(applications[a].status), ~ OvertakenWrite
      PROVE  applications'[a].status = applications[a].status
  <2>1. ASSUME NEW r \in Requests, ApplySave(r)
        PROVE  applications'[a].status = applications[a].status
    <3>1. PICK b \in Ids, row \in ApplicationRow :
             ~ Exists(b) /\ applications' = [applications EXCEPT ![b] = row]
      BY <1>1, <2>1, SaveFacts
    <3> QED BY <1>1, <3>1
  <2>2. ASSUME NEW r \in Requests, StatusWrite(r)
        PROVE  applications'[a].status = applications[a].status
    <3>1. PICK b \in Ids, row \in ApplicationRow :
             /\ applications' = [applications EXCEPT ![b] = row]
             /\ LegalMove(applications[b].status, row.status)
      BY <1>1, <2>2, StatusWriteFacts
    <3>2. row.status \in ApplicationStatuses
      BY DEF ApplicationRow
    <3>3. b # a
      BY <1>1, <3>1, <3>2, MovesLeaveActive
    <3> QED BY <3>1, <3>3
  <2> QED BY <1>1, <2>1, <2>2, OthersReadOnly, OthersKeepStatuses DEF Next
<1>2. TypeOK /\ Safety /\ [Next]_vars
        => [\A a \in Ids : Exists(a) /\ IsTerminal(applications[a].status) =>
              applications'[a].status = applications[a].status \/ OvertakenWrite]_vars
  BY <1>1
<1> QED BY <1>2, TypeCorrect, SafetyHolds, PTL DEF Spec, TerminalIsFinal
=============================================================================
