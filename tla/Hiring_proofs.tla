----------------------------- MODULE Hiring_proofs -----------------------------
(***************************************************************************)
(* Proofs about the components composed with Applications: CvLifecycle,    *)
(* InterviewScheduling and Notifications.  Each keeps what is proved of    *)
(* Applications alone, and adds its own types and promises.                *)
(***************************************************************************)
EXTENDS CvLifecycle, InterviewScheduling, Notifications, Applications_proofs,
        FiniteSetTheorems

-----------------------------------------------------------------------------
(* CVs                                                                     *)

(* The part of the type invariant that is about this component.            *)
CvTypes == /\ objects \subseteq Cvs
           /\ answered \subseteq Cvs
           /\ pastRetention \subseteq Cvs
           /\ cvReq \in [Requests -> {Idle} \cup CvReq]
           /\ purge \in PurgeRun

(* A slot that is not idle holds a CV request.                             *)
LEMMA CvRequestKinds ==
  ASSUME CvTypes, NEW r \in Requests, cvReq[r] # Idle \/ cvReq[r].pc # "idle"
  PROVE  cvReq[r] \in CvReq /\ cvReq[r].cv \in Cvs
BY DEF CvTypes, CvReq, Idle

LEMMA CvTypesInductive ==
  ASSUME CvTypes, [CvNext]_allVars
  PROVE  CvTypes'
<1> USE DEF CvTypes
<1>1. ASSUME UNCHANGED cvVars PROVE CvTypes'
  BY <1>1 DEF cvVars
<1>2. ASSUME NEW r \in Requests, NEW c \in Cvs,
             CreateUpload(r, c) \/ UpdateRead(r, c) \/ DeleteRead(r, c)
      PROVE  CvTypes'
  BY <1>2 DEF CreateUpload, UpdateRead, DeleteRead, CvReq
<1>3. ASSUME NEW r \in Requests,
             CreateSave(r) \/ UpdateWrite(r) \/ DeleteWrite(r) \/ CvRequestFails(r)
      PROVE  CvTypes'
  <2>1. CreateSave(r) => cvReq[r].cv \in Cvs
    BY CvRequestKinds DEF CreateSave, Idle
  <2> QED BY <1>3, <2>1 DEF CreateSave, UpdateWrite, DeleteWrite, CvRequestFails
<1>4. ASSUME NEW r \in Requests, CreateSaveFails(r) PROVE CvTypes'
  <2>1. cvReq[r] \in CvReq
    BY <1>4, CvRequestKinds DEF CreateSaveFails
  <2>2. [cvReq[r] EXCEPT !.pc = "cleanup"] \in CvReq
    BY <2>1 DEF CvReq
  <2> QED BY <1>4, <2>2 DEF CreateSaveFails
<1>5. ASSUME NEW r \in Requests, CreateCleanup(r) PROVE CvTypes'
  BY <1>5 DEF CreateCleanup
<1>6. ASSUME NEW r \in Requests, DeleteCheck(r) PROVE CvTypes'
  <2>1. cvReq[r] \in CvReq
    BY <1>6, CvRequestKinds DEF DeleteCheck
  <2>2. DeleteChecked(r) \in CvReq
    BY <2>1 DEF CvReq, DeleteChecked, ActiveReferences
  <2> QED BY <1>6, <2>2 DEF DeleteCheck
<1>7. ASSUME NEW c \in Cvs, RetentionElapses(c) PROVE CvTypes'
  BY <1>7 DEF RetentionElapses
<1>8. ASSUME PurgeStep PROVE CvTypes'
  <2>1. ASSUME PurgeStart PROVE CvTypes'
    BY <2>1 DEF PurgeStart, PurgeRun, SoftDeletedBeforeCutoff
  <2>2. ASSUME NEW c \in Cvs, PurgeObject(c) PROVE CvTypes'
    BY <2>2 DEF PurgeObject, PurgeRun
  <2>3. ASSUME PurgeRow \/ PurgeRowFails PROVE CvTypes'
    BY <2>3 DEF PurgeRow, PurgeRowFails, PurgeRun
  <2>4. ASSUME PurgeDies PROVE CvTypes'
    BY <2>4 DEF PurgeDies, PurgeIdle, PurgeRun
  <2> QED BY <1>8, <2>1, <2>2, <2>3, <2>4 DEF PurgeStep
<1> QED
  BY <1>1, <1>2, <1>3, <1>4, <1>5, <1>6, <1>7, <1>8
     DEF CvNext, CvStep, allVars, cvVars

(* Every step of the composition is one Applications allows.               *)
LEMMA CvStepRefines ==
  ASSUME CvTypes, [CvNext]_allVars
  PROVE  [Next]_vars
<1>1. ASSUME NEW r \in Requests, CreateSave(r) PROVE Next
  <2>1. cvReq[r].cv \in Cvs
    BY <1>1, CvRequestKinds DEF CreateSave
  <2> QED BY <1>1, <2>1 DEF CreateSave, WriteCv, Next, CvStates
<1>2. ASSUME NEW r \in Requests, UpdateWrite(r) PROVE [Next]_vars
  <2>1. cvReq[r].cv \in Cvs
    BY <1>2, CvRequestKinds DEF UpdateWrite
  <2> QED BY <1>2, <2>1 DEF UpdateWrite, WriteCv, Next, CvStates
<1>3. ASSUME NEW r \in Requests, DeleteWrite(r) PROVE [Next]_vars
  <2>1. cvReq[r].cv \in Cvs
    BY <1>3, CvRequestKinds DEF DeleteWrite
  <2> QED BY <1>3, <2>1 DEF DeleteWrite, WriteCv, Next, CvStates
<1>4. ASSUME PurgeRow PROVE Next
  <2>1. purge.row \in Cvs
    BY <1>4 DEF CvTypes, PurgeRun, PurgeRow
  <2> QED BY <1>4, <2>1 DEF PurgeRow, WriteCv, Next, CvStates
<1>8. ASSUME NEW r \in Requests, CreateSaveFails(r) PROVE [Next]_vars
  <2>1. cvReq[r].cv \in Cvs
    BY <1>8, CvRequestKinds DEF CreateSaveFails
  <2> QED BY <1>8, <2>1 DEF CreateSaveFails, WriteCv, Next, CvStates
<1>5. ASSUME NEW r \in Requests, CvStep(r), ~ CreateSave(r),
             ~ CreateSaveFails(r), ~ UpdateWrite(r), ~ DeleteWrite(r)
      PROVE  UNCHANGED vars
  BY <1>5 DEF CvStep, CreateUpload, UpdateRead, DeleteRead, CreateCleanup,
     DeleteCheck, CvRequestFails
<1>6. ASSUME PurgeStep, ~ PurgeRow PROVE UNCHANGED vars
  BY <1>6 DEF PurgeStep, PurgeStart, PurgeObject, PurgeRowFails, PurgeDies
<1>7. ASSUME NEW c \in Cvs, RetentionElapses(c) PROVE UNCHANGED vars
  BY <1>7 DEF RetentionElapses
<1> QED
  BY <1>1, <1>2, <1>3, <1>4, <1>5, <1>6, <1>7, <1>8 DEF CvNext, Next, allVars

(* Composed with the CV component, the application component keeps every   *)
(* promise proved of it alone.                                             *)
THEOREM CvRefinement == CvSpec => ImplementsApplications
<1>1. CvInit => Init /\ CvTypes
  BY DEF CvInit, CvTypes, PurgeIdle, PurgeRun
<1>2. CvTypes /\ [CvNext]_allVars => CvTypes'
  BY CvTypesInductive
<1>3. CvTypes /\ [CvNext]_allVars => [Next]_vars
  BY CvStepRefines
<1> QED BY <1>1, <1>2, <1>3, PTL DEF CvSpec, Spec, ImplementsApplications

(* Hence uniqueness, the audit trail and the foreign key hold here too.    *)
THEOREM ComposedSafety == CvSpec => []Safety
BY CvRefinement, SafetyHolds, PTL DEF ImplementsApplications

(* Objects, requests and the purge keep their types, and so do the tables  *)
(* shared with the application component.                                  *)
THEOREM CvTypeCorrect == CvSpec => []CvTypeOK
<1>1. CvInit => CvTypes
  BY DEF CvInit, CvTypes, PurgeIdle, PurgeRun
<1>2. CvTypes /\ [CvNext]_allVars => CvTypes'
  BY CvTypesInductive
<1>3. CvSpec => []TypeOK
  BY CvRefinement, TypeCorrect, PTL DEF ImplementsApplications
<1>4. TypeOK /\ CvTypes => CvTypeOK
  BY DEF CvTypes, CvTypeOK
<1> QED BY <1>1, <1>2, <1>3, <1>4, PTL DEF CvSpec

-----------------------------------------------------------------------------
(* The file of every CV whose upload was answered                          *)

Files == /\ FileOfEveryAnsweredCv
         /\ PurgeListIsCurrent
         /\ RetentionOutlivesRequests
         /\ UploadsOwnTheirKey

(* An application handler touches no CV row, and starts an application     *)
(* only with a CV it finds.                                                *)
LEMMA AppStepsUseLiveCvs ==
  ASSUME TypeOK, NEW r \in Requests, AppStep(r), NEW s \in Requests,
         req'[s] \in ApplyReq
  PROVE  \/ req[s] \in ApplyReq /\ req'[s].cv = req[s].cv
         \/ cvs[req'[s].cv] = "live"
<1>1. CASE s # r
  BY <1>1 DEF TypeOK, AppStep, ApplyLookups, ApplyCheckExisting, ApplySave,
     ApplySaveRefused, MoveRead, MoveCheck, WithdrawRead, StatusWrite,
     EmitEvent, RequestFails
<1>2. CASE s = r
  <2>1. ASSUME NEW u \in Candidates, NEW j \in Jobs, NEW c \in Cvs,
               ApplyLookups(r, u, j, c)
        PROVE  cvs[req'[r].cv] = "live"
    BY <2>1 DEF TypeOK, ApplyLookups
  <2>2. ASSUME ApplyCheckExisting(r)
        PROVE  req[r] \in ApplyReq /\ req'[r].cv = req[r].cv
    <3>1. req[r] \in ApplyReq
      BY <2>2, RequestKinds DEF TypeOK, ApplyCheckExisting
    <3>2. req'[r] # Idle
      BY <1>2 DEF ApplyReq, Idle
    <3>3. req'[r] = [req[r] EXCEPT !.pc = "applyChecked"]
      BY <2>2, <3>2 DEF TypeOK, ApplyCheckExisting
    <3>4. [req[r] EXCEPT !.pc = "applyChecked"].cv = req[r].cv
      BY <3>1 DEF ApplyReq
    <3> QED BY <3>1, <3>3, <3>4
  <2>3. req'[r].pc \in {"applyLookedUp", "applyChecked"}
    BY <1>2 DEF ApplyReq
  <2>4. ~ ApplySave(r) /\ ~ ApplySaveRefused(r) /\ ~ EmitEvent(r)
        /\ ~ RequestFails(r)
    BY <2>3 DEF TypeOK, ApplySave, ApplySaveRefused, EmitEvent, RequestFails, Idle
  <2>5. ~ StatusWrite(r)
    BY <2>3 DEF TypeOK, StatusWrite, Idle
  <2>6. ~ MoveCheck(r)
    <3> SUFFICES ASSUME MoveCheck(r) PROVE FALSE
      OBVIOUS
    <3>1. req[r] \in MoveReq
      BY RequestKinds DEF TypeOK, MoveCheck
    <3>2. [req[r] EXCEPT !.pc = "moveWrite"].pc = "moveWrite"
      BY <3>1 DEF MoveReq
    <3> QED BY <2>3, <3>2 DEF TypeOK, MoveCheck, Idle
  <2>7. \A by \in Recruiters, a \in Ids, to \in Targets : ~ MoveRead(r, by, a, to)
    BY <2>3 DEF TypeOK, MoveRead
  <2>8. \A a \in Ids : ~ WithdrawRead(r, a)
    BY <2>3 DEF TypeOK, WithdrawRead
  <2> QED BY <1>2, <2>1, <2>2, <2>4, <2>5, <2>6, <2>7, <2>8 DEF AppStep
<1> QED BY <1>1, <1>2

LEMMA AppStepKeepsFiles ==
  ASSUME TypeOK, CvTypes, Files, NEW r \in Requests, AppStep(r),
         UNCHANGED cvVars
  PROVE  Files'
<1>1. cvs' = cvs
  BY DEF AppStep, ApplyLookups, ApplyCheckExisting, ApplySave,
     ApplySaveRefused, MoveRead, MoveCheck, WithdrawRead, StatusWrite,
     EmitEvent, RequestFails
<1>2. FileOfEveryAnsweredCv' /\ PurgeListIsCurrent' /\ UploadsOwnTheirKey'
  BY <1>1 DEF Files, FileOfEveryAnsweredCv, PurgeListIsCurrent,
     UploadsOwnTheirKey, cvVars
<1>3. RetentionOutlivesRequests'
  <2> SUFFICES ASSUME NEW c \in pastRetention', NEW s \in Requests,
                      req'[s] \in ApplyReq, req'[s].cv = c
               PROVE  FALSE
    BY <1>1 DEF Files, RetentionOutlivesRequests, cvVars
  <2>1. cvs[c] \in {"deleted", "purged"}
        /\ (req[s] \in ApplyReq => req[s].cv # c)
    BY DEF Files, RetentionOutlivesRequests, cvVars
  <2> QED BY <2>1, AppStepsUseLiveCvs
<1> QED BY <1>2, <1>3 DEF Files

(* Steps that move neither a row nor an object.                            *)
LEMMA CvRequestEnds ==
  ASSUME CvTypes, Files, NEW r \in Requests,
         cvReq' = [cvReq EXCEPT ![r] = Idle],
         UNCHANGED <<vars, objects, answered, pastRetention, purge>>
  PROVE  Files'
<1>1. \A s \in Requests : cvReq'[s] = Idle \/ cvReq'[s] = cvReq[s]
  BY DEF CvTypes
<1>2. UNCHANGED <<cvs, req, objects, answered, pastRetention, purge>>
  BY DEF vars
<1>3. FileOfEveryAnsweredCv' /\ PurgeListIsCurrent'
  BY <1>2 DEF Files, FileOfEveryAnsweredCv, PurgeListIsCurrent
<1>4. RetentionOutlivesRequests'
  BY <1>1, <1>2 DEF Files, RetentionOutlivesRequests
<1>5. UploadsOwnTheirKey'
  BY <1>1, <1>2 DEF Files, UploadsOwnTheirKey, Idle
<1> QED BY <1>3, <1>4, <1>5 DEF Files

LEMMA CvStepKeepsFiles ==
  ASSUME TypeOK, CvTypes, Files, NEW r \in Requests, CvStep(r)
  PROVE  Files'
<1> USE DEF CvTypes
<1>0. NoCv \notin Cvs
  BY NoCvAssumption
<1>1. ASSUME NEW c \in Cvs, CreateUpload(r, c) PROVE Files'
  <2>1. /\ cvReq' = [cvReq EXCEPT ![r] = [pc |-> "uploaded", cv |-> c, refs |-> {}]]
        /\ objects' = objects \cup {c}
        /\ UNCHANGED <<cvs, req, answered, pastRetention, purge>>
        /\ cvs[c] = "absent"
        /\ \A q \in Requests : cvReq[q] # Idle => cvReq[q].cv # c
    BY <1>1 DEF CreateUpload, Fresh, vars
  <2>2. FileOfEveryAnsweredCv' /\ PurgeListIsCurrent'
    BY <2>1 DEF Files, FileOfEveryAnsweredCv, PurgeListIsCurrent
  <2>3. RetentionOutlivesRequests'
    BY <2>1 DEF Files, RetentionOutlivesRequests
  <2>4. UploadsOwnTheirKey'
    <3>1. \A q \in Requests \ {r} : cvReq'[q] = cvReq[q]
      BY <2>1
    <3>2. cvReq'[r] = [pc |-> "uploaded", cv |-> c, refs |-> {}] /\ c \in objects'
      BY <2>1
    <3>3. cvReq[r] = Idle
      BY <1>1 DEF CreateUpload, Free
    <3>4. \A q \in Requests \ {r} : cvReq[q].pc = "uploaded" => cvReq[q].cv # c
      BY <2>1 DEF Idle
    <3> QED BY <2>1, <3>1, <3>2, <3>3, <3>4 DEF Files, UploadsOwnTheirKey
  <2> QED BY <2>2, <2>3, <2>4 DEF Files
<1>2. ASSUME NEW c \in Cvs, NEW k \in {"updateRead", "deleteRead"},
             cvReq[r] = Idle, cvs[c] = "live",
             cvReq' = [cvReq EXCEPT ![r] = [pc |-> k, cv |-> c, refs |-> {}]],
             UNCHANGED <<vars, objects, answered, pastRetention, purge>>
      PROVE  Files'
  <2>1. UNCHANGED <<cvs, req, objects, answered, pastRetention, purge>>
    BY <1>2 DEF vars
  <2>2. /\ cvReq'[r] = [pc |-> k, cv |-> c, refs |-> {}]
        /\ \A q \in Requests \ {r} : cvReq'[q] = cvReq[q]
    BY <1>2
  <2>3. FileOfEveryAnsweredCv' /\ PurgeListIsCurrent'
    BY <2>1 DEF Files, FileOfEveryAnsweredCv, PurgeListIsCurrent
  <2>4. RetentionOutlivesRequests'
    BY <1>2, <2>1, <2>2 DEF Files, RetentionOutlivesRequests
  <2>5. UploadsOwnTheirKey'
    BY <1>2, <2>1, <2>2 DEF Files, UploadsOwnTheirKey
  <2> QED BY <2>3, <2>4, <2>5 DEF Files
<1>3. ASSUME NEW q \in CvReq, cvReq[r] \in CvReq,
             q.cv = cvReq[r].cv,
             q.pc # "uploaded",
             q.pc = "cleanup" => cvReq[r].pc = "uploaded",
             cvReq' = [cvReq EXCEPT ![r] = q],
             UNCHANGED <<vars, objects, answered, pastRetention, purge>>
      PROVE  Files'
  <2>1. UNCHANGED <<cvs, req, objects, answered, pastRetention, purge>>
    BY <1>3 DEF vars
  <2>2. /\ cvReq'[r] = q /\ cvReq[r] # Idle
        /\ \A s \in Requests \ {r} : cvReq'[s] = cvReq[s]
    BY <1>3 DEF CvReq, Idle
  <2>3. FileOfEveryAnsweredCv' /\ PurgeListIsCurrent'
    BY <2>1 DEF Files, FileOfEveryAnsweredCv, PurgeListIsCurrent
  <2>4. RetentionOutlivesRequests'
    BY <1>3, <2>1, <2>2 DEF Files, RetentionOutlivesRequests
  <2>5. UploadsOwnTheirKey'
    <3>1. q.pc = "cleanup" => q.cv \notin answered
      BY <1>3 DEF Files, UploadsOwnTheirKey, CvReq
    <3> QED BY <1>3, <2>1, <2>2, <3>1 DEF Files, UploadsOwnTheirKey
  <2> QED BY <2>3, <2>4, <2>5 DEF Files
<1>4. ASSUME NEW c \in Cvs, NEW s \in {"live", "deleted"}, NEW p \in {Idle} \cup CvReq,
             cvReq[r] # Idle, cvReq[r].cv = c,
             WriteCv(c, s),
             cvs[c] = "absent" => cvReq[r].pc = "uploaded",
             cvReq' = [cvReq EXCEPT ![r] = p],
             \/ p = Idle /\ answered' = answered
             \/ p = Idle /\ answered' = answered \cup {c} /\ cvReq[r].pc = "uploaded"
             \/ /\ p.pc = "cleanup" /\ p.cv = c
                /\ answered' = answered /\ cvReq[r].pc = "uploaded",
             UNCHANGED <<objects, pastRetention, purge>>
      PROVE  Files'
  <2>1. /\ cvs' = [cvs EXCEPT ![c] = s]
        /\ req' = req
        /\ <<cvs[c], s>> \in CvMoves
        /\ cvs \in [Cvs -> CvStates]
    BY <1>4 DEF WriteCv, CvChanges, TypeOK
  <2>2. cvReq'[r] = p /\ \A q \in Requests \ {r} : cvReq'[q] = cvReq[q]
    BY <1>4
  <2>3. c \notin pastRetention
    BY <1>4 DEF Files, RetentionOutlivesRequests
  <2>4. c \in answered' => c \in objects
    <3>1. CASE cvReq[r].pc = "uploaded"
      BY <1>4, <3>1 DEF Files, UploadsOwnTheirKey
    <3>2. CASE cvReq[r].pc # "uploaded"
      BY <1>4, <2>1, <2>3, <3>2 DEF Files, FileOfEveryAnsweredCv, CvMoves
    <3> QED BY <3>1, <3>2
  <2>5. FileOfEveryAnsweredCv'
    BY <1>4, <2>1, <2>4 DEF Files, FileOfEveryAnsweredCv
  <2>6. PurgeListIsCurrent'
    BY <1>0, <1>4, <2>1, <2>3 DEF Files, PurgeListIsCurrent, PurgeRun
  <2>7. RetentionOutlivesRequests'
    BY <1>4, <2>1, <2>2, <2>3 DEF Files, RetentionOutlivesRequests
  <2>8. UploadsOwnTheirKey'
    <3>1. \A q \in Requests \ {r} :
            /\ cvReq[q].pc = "uploaded" => cvReq[q].cv # c
            /\ /\ cvReq[r].pc = "uploaded" /\ cvReq[q].pc = "cleanup"
               => cvReq[q].cv # c
      BY <1>4 DEF Files, UploadsOwnTheirKey, Idle
    <3>2. \A q \in Requests :
            cvReq[q].pc \in {"uploaded", "cleanup"} => cvReq[q].cv \in Cvs
      BY CvRequestKinds
    <3>3. answered' \cap {d \in Cvs : cvs'[d] = "absent"} = {}
      BY <1>4, <2>1 DEF Files, UploadsOwnTheirKey
    <3>4. p.pc = "cleanup" => c \notin answered'
      <4>1. p.pc = "cleanup" => p # Idle
        BY DEF Idle
      <4>2. CASE p.pc = "cleanup"
        <5>1. cvReq[r].pc = "uploaded" /\ answered' = answered
          BY <1>4, <4>1, <4>2
        <5>2. cvs[c] = "absent"
          BY <1>4, <5>1 DEF Files, UploadsOwnTheirKey
        <5> QED BY <5>1, <5>2 DEF Files, UploadsOwnTheirKey
      <4> QED BY <4>2
    <3>5. \A q \in Requests : cvReq'[q].pc = "cleanup" => cvReq'[q].cv \notin answered'
      <4> SUFFICES ASSUME NEW q \in Requests, cvReq'[q].pc = "cleanup"
                   PROVE  cvReq'[q].cv \notin answered'
        OBVIOUS
      <4>1. CASE q = r
        BY <1>4, <2>2, <3>4, <4>1 DEF Idle
      <4>2. CASE q # r
        BY <1>4, <2>2, <3>1, <4>2 DEF Files, UploadsOwnTheirKey
      <4> QED BY <4>1, <4>2
    <3>6. \A q \in Requests :
            cvReq'[q].pc = "uploaded" =>
              /\ cvs'[cvReq'[q].cv] = "absent"
              /\ cvReq'[q].cv \in objects'
              /\ \A t \in Requests \ {q} :
                   cvReq'[t] # Idle => cvReq'[t].cv # cvReq'[q].cv
      <4>1. p.pc # "uploaded" /\ (p # Idle => p.cv = c)
        BY <1>4 DEF Idle
      <4> QED BY <1>4, <2>1, <2>2, <3>1, <3>2, <4>1 DEF Files, UploadsOwnTheirKey
    <3>7. purge'.row \notin purge'.todo
      BY <1>4 DEF Files, UploadsOwnTheirKey
    <3> QED BY <3>3, <3>5, <3>6, <3>7 DEF UploadsOwnTheirKey
  <2> QED BY <2>5, <2>6, <2>7, <2>8 DEF Files
<1>5. ASSUME CreateSave(r) PROVE Files'
  <2>1. cvReq[r] # Idle /\ cvReq[r].cv \in Cvs
    BY <1>5, CvRequestKinds DEF CreateSave, Idle
  <2> QED BY <1>4, <1>5, <2>1 DEF CreateSave
<1>6. ASSUME UpdateWrite(r) PROVE Files'
  <2>1. cvReq[r] # Idle /\ cvReq[r].cv \in Cvs
    BY <1>6, CvRequestKinds DEF UpdateWrite, Idle
  <2>2. CASE cvs[cvReq[r].cv] = "deleted"
    BY <1>4, <1>6, <2>1, <2>2 DEF UpdateWrite
  <2>3. CASE cvs[cvReq[r].cv] # "deleted"
    BY <1>6, <2>3, CvRequestEnds DEF UpdateWrite
  <2> QED BY <2>2, <2>3
<1>7. ASSUME DeleteWrite(r) PROVE Files'
  <2>1. cvReq[r] # Idle /\ cvReq[r].cv \in Cvs
    BY <1>7, CvRequestKinds DEF DeleteWrite, Idle
  <2>2. CASE cvs[cvReq[r].cv] = "live"
    BY <1>4, <1>7, <2>1, <2>2 DEF DeleteWrite
  <2>3. CASE cvs[cvReq[r].cv] # "live"
    BY <1>7, <2>3, CvRequestEnds DEF DeleteWrite
  <2> QED BY <2>2, <2>3
<1>8. ASSUME CreateSaveFails(r) PROVE Files'
  <2>1. cvReq[r] \in CvReq /\ cvReq[r] # Idle /\ cvReq[r].cv \in Cvs
    BY <1>8, CvRequestKinds DEF CreateSaveFails, Idle
  <2>2. PICK q \in CvReq : /\ q = [cvReq[r] EXCEPT !.pc = "cleanup"]
                           /\ q.pc = "cleanup" /\ q.cv = cvReq[r].cv
    <3>1. [cvReq[r] EXCEPT !.pc = "cleanup"] \in CvReq
      BY <2>1 DEF CvReq
    <3> QED BY <2>1, <3>1 DEF CvReq
  <2>3. cvReq' = [cvReq EXCEPT ![r] = q] /\ cvReq[r].pc = "uploaded"
        /\ UNCHANGED <<objects, answered, pastRetention, purge>>
    BY <1>8, <2>2 DEF CreateSaveFails
  <2>4. CASE UNCHANGED vars
    BY <1>3, <2>1, <2>2, <2>3, <2>4
  <2>5. CASE WriteCv(cvReq[r].cv, "live")
    BY <1>4, <2>1, <2>2, <2>3, <2>5
  <2> QED BY <1>8, <2>4, <2>5 DEF CreateSaveFails
<1>9. ASSUME DeleteCheck(r) PROVE Files'
  <2>1. cvReq[r] \in CvReq
    BY <1>9, CvRequestKinds DEF DeleteCheck
  <2>2. CASE cvReq' = [cvReq EXCEPT ![r] = Idle]
    BY <1>9, <2>2, CvRequestEnds DEF DeleteCheck
  <2>3. CASE cvReq' = [cvReq EXCEPT ![r] = DeleteChecked(r)]
    <3>1. PICK q \in CvReq : /\ q = DeleteChecked(r)
                             /\ q.pc = "deleteChecked" /\ q.cv = cvReq[r].cv
      <4>1. DeleteChecked(r) \in CvReq
        BY <2>1 DEF CvReq, DeleteChecked, ActiveReferences
      <4>2. DeleteChecked(r).pc = "deleteChecked" /\ DeleteChecked(r).cv = cvReq[r].cv
        BY <2>1 DEF CvReq, DeleteChecked
      <4> QED BY <4>1, <4>2
    <3> QED BY <1>3, <1>9, <2>1, <2>3, <3>1 DEF DeleteCheck
  <2> QED BY <1>9, <2>2, <2>3 DEF DeleteCheck
<1>10. ASSUME CreateCleanup(r) PROVE Files'
  <2>1. /\ cvReq[r] # Idle /\ cvReq[r].cv \in Cvs
        /\ cvReq[r].cv \notin answered
        /\ \A q \in Requests \ {r} : cvReq[q].pc = "uploaded" => cvReq[q].cv # cvReq[r].cv
    BY <1>10, CvRequestKinds DEF CreateCleanup, Idle, Files, UploadsOwnTheirKey
  <2>2. /\ UNCHANGED <<cvs, req, answered, pastRetention, purge>>
        /\ \A q \in Requests : cvReq'[q] = IF q = r THEN Idle ELSE cvReq[q]
        /\ \A c \in objects : c # cvReq[r].cv => c \in objects'
    BY <1>10 DEF CreateCleanup, vars
  <2>3. FileOfEveryAnsweredCv' /\ PurgeListIsCurrent'
    BY <2>1, <2>2 DEF Files, FileOfEveryAnsweredCv, PurgeListIsCurrent
  <2>4. RetentionOutlivesRequests'
    BY <2>2 DEF Files, RetentionOutlivesRequests
  <2>5. UploadsOwnTheirKey'
    BY <2>1, <2>2 DEF Files, UploadsOwnTheirKey, Idle
  <2> QED BY <2>3, <2>4, <2>5 DEF Files
<1>11. ASSUME CvRequestFails(r) PROVE Files'
  BY <1>11, CvRequestEnds DEF CvRequestFails
<1>12. ASSUME NEW c \in Cvs, UpdateRead(r, c) \/ DeleteRead(r, c) PROVE Files'
  BY <1>2, <1>12 DEF UpdateRead, DeleteRead, Free
<1> QED
  BY <1>1, <1>5, <1>6, <1>7, <1>8, <1>9, <1>10, <1>11, <1>12 DEF CvStep

LEMMA PurgeKeepsFiles ==
  ASSUME TypeOK, CvTypes, Files, PurgeStep
  PROVE  Files'
<1> USE DEF CvTypes
<1>0. NoCv \notin Cvs
  BY NoCvAssumption
<1>1. ASSUME PurgeStart PROVE Files'
  BY <1>0, <1>1 DEF PurgeStart, SoftDeletedBeforeCutoff, vars, Files, FileOfEveryAnsweredCv,
     PurgeListIsCurrent, RetentionOutlivesRequests, UploadsOwnTheirKey
<1>2. ASSUME NEW c \in Cvs, PurgeObject(c) PROVE Files'
  <2>1. /\ UNCHANGED <<cvs, req, cvReq, answered, pastRetention>>
        /\ purge'.todo = purge.todo \ {c} /\ purge'.row = c
        /\ c \in purge.todo
        /\ \A d \in objects : d # c => d \in objects'
    BY <1>2 DEF PurgeObject, vars
  <2>2. cvs[c] = "deleted" /\ c \in pastRetention
    BY <2>1 DEF Files, PurgeListIsCurrent
  <2>3. FileOfEveryAnsweredCv' /\ PurgeListIsCurrent' /\ RetentionOutlivesRequests'
    BY <2>1, <2>2 DEF Files, FileOfEveryAnsweredCv, PurgeListIsCurrent,
                      RetentionOutlivesRequests
  <2>4. UploadsOwnTheirKey'
    <3>1. \A r \in Requests :
            cvReq[r].pc = "uploaded" => cvReq[r].cv # c
      BY <2>2 DEF Files, UploadsOwnTheirKey
    <3> QED BY <2>1, <3>1 DEF Files, UploadsOwnTheirKey
  <2> QED BY <2>3, <2>4 DEF Files
<1>3. ASSUME PurgeRow PROVE Files'
  <2>1. PICK c \in Cvs : c = purge.row /\ c \notin purge.todo
    BY <1>3 DEF PurgeRow, PurgeRun, Files, UploadsOwnTheirKey
  <2>2. /\ cvs' = [cvs EXCEPT ![c] = "purged"]
        /\ UNCHANGED <<req, cvReq, objects, answered, pastRetention>>
        /\ purge'.todo = purge.todo /\ purge'.row = NoCv
        /\ cvs \in [Cvs -> CvStates]
    BY <1>3, <2>1 DEF PurgeRow, WriteCv, CvChanges, TypeOK, PurgeRun
  <2>3. cvs[c] = "deleted"
    BY <1>0, <2>1 DEF Files, PurgeListIsCurrent
  <2>4. FileOfEveryAnsweredCv'
    BY <2>2 DEF Files, FileOfEveryAnsweredCv
  <2>5. PurgeListIsCurrent'
    BY <1>0, <2>1, <2>2 DEF Files, PurgeListIsCurrent, PurgeRun
  <2>6. RetentionOutlivesRequests'
    BY <2>2 DEF Files, RetentionOutlivesRequests
  <2>7. UploadsOwnTheirKey'
    <3>1. \A r \in Requests : cvReq[r].pc = "uploaded"
            => cvReq[r].cv \in Cvs /\ cvReq[r].cv # c
      BY <2>3, CvRequestKinds DEF Files, UploadsOwnTheirKey
    <3> QED BY <1>0, <2>1, <2>2, <3>1 DEF Files, UploadsOwnTheirKey, PurgeRun
  <2> QED BY <2>4, <2>5, <2>6, <2>7 DEF Files
<1>4. ASSUME PurgeRowFails \/ PurgeDies PROVE Files'
  BY <1>0, <1>4 DEF PurgeRowFails, PurgeDies, PurgeIdle, PurgeRun, vars, Files,
     FileOfEveryAnsweredCv, PurgeListIsCurrent, RetentionOutlivesRequests,
     UploadsOwnTheirKey
<1> QED BY <1>1, <1>2, <1>3, <1>4 DEF PurgeStep

LEMMA FilesInductive ==
  ASSUME TypeOK, CvTypes, Files, [CvNext]_allVars
  PROVE  Files'
<1>1. ASSUME NEW c \in Cvs, RetentionElapses(c) PROVE Files'
  BY <1>1 DEF RetentionElapses, vars, Files, FileOfEveryAnsweredCv,
     PurgeListIsCurrent, RetentionOutlivesRequests, UploadsOwnTheirKey, CvTypes
<1>2. ASSUME NEW j \in Jobs, JobChanges(j), UNCHANGED cvVars PROVE Files'
  BY <1>2 DEF JobChanges, appVars, cvVars, Files, FileOfEveryAnsweredCv,
     PurgeListIsCurrent, RetentionOutlivesRequests, UploadsOwnTheirKey
<1>3. CASE UNCHANGED allVars
  BY <1>3 DEF allVars, vars, cvVars, Files, FileOfEveryAnsweredCv,
     PurgeListIsCurrent, RetentionOutlivesRequests, UploadsOwnTheirKey
<1> QED
  BY <1>1, <1>2, <1>3, AppStepKeepsFiles, CvStepKeepsFiles, PurgeKeepsFiles
     DEF CvNext

(* Whatever fails and whatever interleaves, a CV whose upload was answered *)
(* has its file for as long as a request can find it or bring it back.     *)
THEOREM FilesHold == CvSpec => []FileOfEveryAnsweredCv
<1>1. CvInit => CvTypes /\ Files
  BY NoCvAssumption DEF CvInit, Init, CvTypes, PurgeIdle, PurgeRun, Idle, Files,
     FileOfEveryAnsweredCv, PurgeListIsCurrent, RetentionOutlivesRequests,
     UploadsOwnTheirKey
<1>2. CvTypes /\ [CvNext]_allVars => CvTypes'
  BY CvTypesInductive
<1>3. TypeOK /\ CvTypes /\ Files /\ [CvNext]_allVars => Files'
  BY FilesInductive
<1>4. CvSpec => []TypeOK
  BY CvRefinement, TypeCorrect, PTL DEF ImplementsApplications
<1>5. Files => FileOfEveryAnsweredCv
  BY DEF Files
<1> QED BY <1>1, <1>2, <1>3, <1>4, <1>5, PTL DEF CvSpec

-----------------------------------------------------------------------------
(* The CV of an active application                                         *)

(* What a handler keeps of its reads: an apply request found its CV live,  *)
(* and the CV a status request read is the one of its application, but for *)
(* one that was purged meanwhile.                                          *)
HoldsItsCv(q) ==
  /\ q.pc \in {"applyLookedUp", "applyChecked"} => q.cvSeen = "live"
  /\ q.pc \in {"moveRead", "moveWrite", "withdrawWrite"} =>
       \/ q.seen.cvId = applications[q.app].cvId
       \/ q.seen.cvId \in Cvs /\ cvs[q.seen.cvId] = "purged"

AppReads == \A r \in Requests : HoldsItsCv(req[r])

(* A deletion goes on only when it found no active application.            *)
DeletesChecked ==
  \A r \in Requests : cvReq[r].pc = "deleteChecked" => cvReq[r].refs = {}

(* Slots that keep or drop their request while no row changes its CV.      *)
LEMMA CvReadsStay ==
  ASSUME AppReads, NEW r \in Requests, HoldsItsCv(req'[r]),
         \A s \in Requests \ {r} : req'[s] = req[s],
         UNCHANGED <<applications, cvs>>
  PROVE  AppReads'
BY DEF AppReads, HoldsItsCv

LEMMA AppStepKeepsReads ==
  ASSUME TypeOK, Safety, AppReads, NEW r \in Requests, AppStep(r)
  PROVE  AppReads'
<1>1. \A s \in Requests \ {r} : req'[s] = req[s]
  BY DEF TypeOK, AppStep, ApplyLookups, ApplyCheckExisting, ApplySave,
     ApplySaveRefused, MoveRead, MoveCheck, WithdrawRead, StatusWrite,
     EmitEvent, RequestFails
<1>2. HoldsItsCv(Idle) /\ HoldsItsCv(req[r])
  BY DEF HoldsItsCv, Idle, AppReads
<1>3. CASE ApplySave(r)
  <2>1. PICK a \in Ids, row \in ApplicationRow :
          /\ ~ Exists(a) /\ applications' = [applications EXCEPT ![a] = row]
          /\ req' = [req EXCEPT ![r] = [pc |-> "emit", app |-> a, status |-> "APPLIED"]]
          /\ cvs' = cvs
    BY <1>3, SaveFacts
  <2>2. ASSUME NEW s \in Requests, s # r PROVE HoldsItsCv(req[s])'
    <3>1. HoldsItsCv(req[s]) /\ req'[s] = req[s]
      BY <1>1, <2>2 DEF AppReads
    <3>2. req[s].pc \in {"moveRead", "moveWrite", "withdrawWrite"} => req[s].app # a
      BY <2>1 DEF Safety, RequestsHoldThePast, HoldsThePast, SeenInPast
    <3> QED BY <2>1, <3>1, <3>2 DEF HoldsItsCv, TypeOK
  <2>3. HoldsItsCv(req[r])'
    BY <2>1 DEF HoldsItsCv, TypeOK
  <2> QED BY <2>2, <2>3 DEF AppReads
<1>4. CASE StatusWrite(r)
  <2>1. PICK a \in Ids, row \in ApplicationRow :
           /\ Exists(a) /\ applications' = [applications EXCEPT ![a] = row]
           /\ req[r].app = a /\ row.cvId = req[r].seen.cvId
           /\ row.cvId \in Cvs => cvs[row.cvId] \in {"live", "deleted"}
           /\ req'[r].pc \in {"idle", "emit"} /\ cvs' = cvs
    BY <1>4, StatusWriteFacts
  <2>2. row.cvId = applications[a].cvId
    BY <1>2, <1>4, <2>1 DEF HoldsItsCv, StatusWrite
  <2>3. ASSUME NEW s \in Requests, s # r PROVE HoldsItsCv(req[s])'
    <3>1. HoldsItsCv(req[s]) /\ req'[s] = req[s]
      BY <1>1, <2>3 DEF AppReads
    <3>2. \A b \in Ids : applications'[b].cvId = applications[b].cvId
      BY <2>1, <2>2 DEF TypeOK
    <3>3. req[s].pc \in {"moveRead", "moveWrite", "withdrawWrite"} => req[s].app \in Ids
      BY RequestKinds DEF TypeOK, MoveReq, WriteReq
    <3> QED BY <2>1, <3>1, <3>2, <3>3 DEF HoldsItsCv
  <2>4. HoldsItsCv(req[r])'
    BY <2>1 DEF HoldsItsCv
  <2> QED BY <2>3, <2>4 DEF AppReads
<1>5. CASE ~ ApplySave(r) /\ ~ StatusWrite(r)
  <2>1. UNCHANGED <<applications, cvs>>
    BY <1>5, OthersReadOnly
  <2>2. HoldsItsCv(req'[r])
    <3>1. CASE ApplySaveRefused(r) \/ EmitEvent(r) \/ RequestFails(r)
      BY <1>2, <3>1 DEF ApplySaveRefused, EmitEvent, RequestFails, TypeOK
    <3>2. ASSUME NEW u \in Candidates, NEW j \in Jobs, NEW c \in Cvs,
                 ApplyLookups(r, u, j, c)
          PROVE  HoldsItsCv(req'[r])
      BY <3>2 DEF ApplyLookups, TypeOK, HoldsItsCv
    <3>3. ASSUME NEW by \in Recruiters, NEW a \in Ids, NEW to \in Targets,
                 MoveRead(r, by, a, to)
          PROVE  HoldsItsCv(req'[r])
      BY <3>3 DEF MoveRead, TypeOK, HoldsItsCv
    <3>4. ASSUME NEW a \in Ids, WithdrawRead(r, a) PROVE HoldsItsCv(req'[r])
      BY <3>4 DEF WithdrawRead, TypeOK, HoldsItsCv
    <3>5. CASE ApplyCheckExisting(r)
      <4>1. req[r] \in ApplyReq /\ req[r].pc = "applyLookedUp"
        BY <3>5, RequestKinds DEF TypeOK, ApplyCheckExisting
      <4>2. /\ [req[r] EXCEPT !.pc = "applyChecked"].pc = "applyChecked"
            /\ [req[r] EXCEPT !.pc = "applyChecked"].cvSeen = req[r].cvSeen
        BY <4>1 DEF ApplyReq
      <4>3. req'[r] = Idle \/ req'[r] = [req[r] EXCEPT !.pc = "applyChecked"]
        BY <3>5 DEF ApplyCheckExisting, TypeOK
      <4>4. HoldsItsCv([req[r] EXCEPT !.pc = "applyChecked"])
        BY <1>2, <4>1, <4>2 DEF HoldsItsCv
      <4> QED BY <1>2, <4>3, <4>4
    <3>6. CASE MoveCheck(r)
      <4>1. req[r] \in MoveReq /\ req[r].pc = "moveRead"
        BY <3>6, RequestKinds DEF TypeOK, MoveCheck
      <4>2. /\ [req[r] EXCEPT !.pc = "moveWrite"].pc = "moveWrite"
            /\ [req[r] EXCEPT !.pc = "moveWrite"].seen = req[r].seen
            /\ [req[r] EXCEPT !.pc = "moveWrite"].app = req[r].app
        BY <4>1 DEF MoveReq
      <4>3. req'[r] = Idle \/ req'[r] = [req[r] EXCEPT !.pc = "moveWrite"]
        BY <3>6 DEF MoveCheck, TypeOK
      <4>4. HoldsItsCv([req[r] EXCEPT !.pc = "moveWrite"])
        BY <1>2, <4>1, <4>2 DEF HoldsItsCv
      <4> QED BY <1>2, <4>3, <4>4
    <3> QED BY <1>5, <3>1, <3>2, <3>3, <3>4, <3>5, <3>6 DEF AppStep
  <2> QED BY <1>1, <2>1, <2>2, CvReadsStay
<1> QED BY <1>3, <1>4, <1>5

(* A purge takes its CV out of the applications; nothing else touches what *)
(* they refer to.                                                          *)
LEMMA CvChangesRows ==
  ASSUME TypeOK, NEW c \in Cvs, NEW s \in CvStates, CvChanges(c, s), NEW a \in Ids
  PROVE  /\ Exists(a)' = Exists(a)
         /\ Exists(a) => /\ applications'[a].status = applications[a].status
                         /\ \/ applications'[a].cvId = applications[a].cvId
                            \/ /\ s = "purged" /\ applications[a].cvId = c
                               /\ applications'[a].cvId = NoCv
<1>1. CASE Exists(a) /\ s = "purged" /\ applications[a].cvId = c
  <2>1. applications[a] \in ApplicationRow
    BY <1>1 DEF TypeOK, Exists
  <2>2. /\ [applications[a] EXCEPT !.cvId = NoCv] \in ApplicationRow
        /\ [applications[a] EXCEPT !.cvId = NoCv].status = applications[a].status
        /\ [applications[a] EXCEPT !.cvId = NoCv].cvId = NoCv
    BY <2>1 DEF ApplicationRow
  <2>3. applications'[a] = [applications[a] EXCEPT !.cvId = NoCv]
    BY <1>1 DEF CvChanges, SetNull
  <2> QED BY <1>1, <2>2, <2>3, NoRowAssumption DEF Exists
<1>2. CASE ~ (Exists(a) /\ s = "purged" /\ applications[a].cvId = c)
  BY <1>2 DEF CvChanges, SetNull, Exists
<1> QED BY <1>1, <1>2

LEMMA AppReadsInductive ==
  ASSUME TypeOK, Safety, AppReads, [Next]_vars
  PROVE  AppReads'
<1>1. ASSUME NEW c \in Cvs, NEW s \in CvStates, CvChanges(c, s) PROVE AppReads'
  <2>1. /\ <<cvs[c], s>> \in CvMoves /\ cvs' = [cvs EXCEPT ![c] = s] /\ req' = req
    BY <1>1 DEF CvChanges
  <2>2. \A d \in Cvs : cvs[d] = "purged" => cvs'[d] = "purged"
    BY <2>1 DEF CvMoves, TypeOK
  <2>3. s = "purged" => cvs'[c] = "purged"
    BY <2>1 DEF TypeOK
  <2>4. ASSUME NEW r \in Requests PROVE HoldsItsCv(req[r])'
    <3>1. HoldsItsCv(req[r])
      BY DEF AppReads
    <3>2. CASE req[r].pc \in {"moveRead", "moveWrite", "withdrawWrite"}
      <4>1. PICK a \in Ids : a = req[r].app /\ Exists(a)
        BY <3>2, RequestKinds DEF TypeOK, MoveReq, WriteReq, Safety,
           RequestsHoldThePast, HoldsThePast, SeenInPast
      <4>2. \/ applications'[a].cvId = applications[a].cvId
            \/ s = "purged" /\ applications[a].cvId = c
        BY <1>1, <4>1, CvChangesRows
      <4> QED BY <2>1, <2>2, <2>3, <3>1, <3>2, <4>1, <4>2 DEF HoldsItsCv
    <3>3. CASE req[r].pc \notin {"moveRead", "moveWrite", "withdrawWrite"}
      BY <2>1, <3>1, <3>3 DEF HoldsItsCv
    <3> QED BY <3>2, <3>3
  <2> QED BY <2>4 DEF AppReads
<1>2. ASSUME NEW j \in Jobs, JobChanges(j) PROVE AppReads'
  BY <1>2 DEF JobChanges, appVars, AppReads, HoldsItsCv
<1>3. CASE UNCHANGED vars
  BY <1>3 DEF vars, AppReads, HoldsItsCv
<1> QED BY <1>1, <1>2, <1>3, AppStepKeepsReads DEF Next

LEMMA DeletesCheckedInductive ==
  ASSUME CvTypes, DeletesChecked, [CvNext]_allVars
  PROVE  DeletesChecked'
<1>1. ASSUME NEW r \in Requests, NEW q \in {Idle} \cup CvReq,
             q.pc = "deleteChecked" => q.refs = {},
             cvReq' = [cvReq EXCEPT ![r] = q]
      PROVE  DeletesChecked'
  BY <1>1 DEF DeletesChecked, CvTypes
<1>2. ASSUME UNCHANGED cvReq PROVE DeletesChecked'
  BY <1>2 DEF DeletesChecked
<1>3. ASSUME NEW r \in Requests, cvReq' = [cvReq EXCEPT ![r] = Idle]
      PROVE  DeletesChecked'
  BY <1>1, <1>3 DEF Idle
<1>4. ASSUME NEW r \in Requests, NEW c \in Cvs,
             CreateUpload(r, c) \/ UpdateRead(r, c) \/ DeleteRead(r, c)
      PROVE  DeletesChecked'
  <2>1. PICK k \in {"uploaded", "updateRead", "deleteRead"} :
          cvReq' = [cvReq EXCEPT ![r] = [pc |-> k, cv |-> c, refs |-> {}]]
    BY <1>4 DEF CreateUpload, UpdateRead, DeleteRead
  <2>2. [pc |-> k, cv |-> c, refs |-> {}] \in CvReq
    BY DEF CvReq
  <2> QED BY <1>1, <2>1, <2>2
<1>5. ASSUME NEW r \in Requests, CreateSaveFails(r) PROVE DeletesChecked'
  <2>1. cvReq[r] \in CvReq
    BY <1>5, CvRequestKinds DEF CreateSaveFails
  <2>2. /\ [cvReq[r] EXCEPT !.pc = "cleanup"] \in CvReq
        /\ [cvReq[r] EXCEPT !.pc = "cleanup"].pc = "cleanup"
    BY <2>1 DEF CvReq
  <2>3. PICK q \in CvReq : q.pc = "cleanup" /\ cvReq' = [cvReq EXCEPT ![r] = q]
    BY <1>5, <2>2 DEF CreateSaveFails
  <2> QED BY <1>1, <2>3
<1>6. ASSUME NEW r \in Requests, DeleteCheck(r) PROVE DeletesChecked'
  <2>1. cvReq[r] \in CvReq
    BY <1>6, CvRequestKinds DEF DeleteCheck
  <2>2. DeleteChecked(r) \in CvReq /\ DeleteChecked(r).refs = ActiveReferences(cvReq[r].cv)
    BY <2>1 DEF CvReq, DeleteChecked, ActiveReferences
  <2>3. CASE ActiveReference(cvReq[r].cv)
    BY <1>3, <1>6, <2>3 DEF DeleteCheck
  <2>4. CASE ~ ActiveReference(cvReq[r].cv)
    <3>1. DeleteChecked(r).refs = {} /\ cvReq' = [cvReq EXCEPT ![r] = DeleteChecked(r)]
      BY <1>6, <2>2, <2>4 DEF DeleteCheck, ActiveReference
    <3> QED BY <1>1, <2>2, <3>1
  <2> QED BY <2>3, <2>4
<1>7. ASSUME NEW r \in Requests, CvStep(r) PROVE DeletesChecked'
  <2>1. CASE \/ CreateSave(r) \/ CreateCleanup(r) \/ UpdateWrite(r)
             \/ DeleteWrite(r) \/ CvRequestFails(r)
    BY <1>3, <2>1 DEF CreateSave, CreateCleanup, UpdateWrite, DeleteWrite, CvRequestFails
  <2> QED BY <1>4, <1>5, <1>6, <1>7, <2>1 DEF CvStep
<1>8. ASSUME PurgeStep \/ \E c \in Cvs : RetentionElapses(c) PROVE UNCHANGED cvReq
  BY <1>8 DEF PurgeStep, PurgeStart, PurgeObject, PurgeRow, PurgeRowFails,
     PurgeDies, RetentionElapses
<1> QED BY <1>2, <1>7, <1>8 DEF CvNext, allVars, cvVars

(* A step of an application request that was not overtaken.                *)
LEMMA AppStepKeepsCvs ==
  ASSUME TypeOK, Safety, AppReads, NEW r \in Requests, AppStep(r),
         NEW c \in Cvs, KeptForItsApplications(c),
         \A s \in Requests : ~ CvOvertaken(s)
  PROVE  KeptForItsApplications(c)'
<1>1. HoldsItsCv(req[r])
  BY DEF AppReads
<1>2. CASE ApplySave(r)
  <2>1. PICK a \in Ids, row \in ApplicationRow :
          /\ row.cvId = req[r].cv
          /\ applications' = [applications EXCEPT ![a] = row]
          /\ req' = [req EXCEPT ![r] = [pc |-> "emit", app |-> a, status |-> "APPLIED"]]
          /\ cvs' = cvs
    BY <1>2, SaveFacts
  <2>2. req[r].pc = "applyChecked" /\ req'[r] # req[r]
    BY <1>2, <2>1 DEF ApplySave, TypeOK
  <2>3. cvs[row.cvId] = "live"
    BY <1>1, <2>1, <2>2 DEF HoldsItsCv, CvOvertaken
  <2> QED BY <2>1, <2>3 DEF KeptForItsApplications, ActiveReference, ActiveReferences,
             Exists, TypeOK
<1>3. CASE StatusWrite(r)
  <2>1. ~ OvertakenWrite
    BY DEF OvertakenWrite, CvOvertaken
  <2>2. PICK a \in Ids, row \in ApplicationRow :
           /\ Exists(a) /\ applications' = [applications EXCEPT ![a] = row]
           /\ LegalMove(applications[a].status, row.status)
           /\ req[r].app = a /\ row.cvId = req[r].seen.cvId
           /\ row.cvId \in Cvs => cvs[row.cvId] \in {"live", "deleted"}
           /\ cvs' = cvs
    BY <1>3, <2>1, StatusWriteFacts
  <2>3. row.cvId = applications[a].cvId
    BY <1>1, <1>3, <2>2 DEF HoldsItsCv, StatusWrite
  <2>4. row.status \in ApplicationStatuses
    BY DEF ApplicationRow
  <2>5. ~ IsTerminal(applications[a].status)
    BY <2>2, <2>4, MovesLeaveActive
  <2>6. ActiveReference(c)' => ActiveReference(c)
    <3> SUFFICES ASSUME NEW b \in Ids, Exists(b)', applications'[b].cvId = c,
                        ~ IsTerminal(applications'[b].status)
                 PROVE  ActiveReference(c)
      BY DEF ActiveReference, ActiveReferences
    <3>1. CASE b = a
      BY <2>2, <2>3, <2>5, <3>1 DEF ActiveReference, ActiveReferences, TypeOK
    <3>2. CASE b # a
      BY <2>2, <3>2 DEF ActiveReference, ActiveReferences, TypeOK, Exists
    <3> QED BY <3>1, <3>2
  <2> QED BY <2>2, <2>6 DEF KeptForItsApplications
<1>4. CASE ~ ApplySave(r) /\ ~ StatusWrite(r)
  <2>1. UNCHANGED <<applications, cvs>>
    BY <1>4, OthersReadOnly
  <2> QED BY <2>1 DEF KeptForItsApplications, ActiveReference, ActiveReferences, Exists
<1> QED BY <1>2, <1>3, <1>4

(* A write to a row of cvs.                                                *)
LEMMA WriteCvKeepsCvs ==
  ASSUME TypeOK, NEW d \in Cvs, NEW s \in CvStates, WriteCv(d, s),
         s = "deleted" => ~ ActiveReference(d),
         NEW c \in Cvs, KeptForItsApplications(c)
  PROVE  KeptForItsApplications(c)'
<1>1. CvChanges(d, s) /\ <<cvs[d], s>> \in CvMoves /\ cvs' = [cvs EXCEPT ![d] = s]
  BY DEF WriteCv, CvChanges
<1>2. \A a \in Ids :
         /\ Exists(a)' = Exists(a)
         /\ Exists(a) => /\ applications'[a].status = applications[a].status
                         /\ \/ applications'[a].cvId = applications[a].cvId
                            \/ applications'[a].cvId = NoCv
  BY <1>1, CvChangesRows
<1>3. ActiveReference(c)' => ActiveReference(c)
  BY <1>2, NoCvAssumption DEF ActiveReference, ActiveReferences
<1>4. cvs[c] = "live" /\ ~ (c = d /\ s = "deleted") => cvs'[c] = "live"
  BY <1>1 DEF CvMoves, TypeOK
<1> QED BY <1>3, <1>4 DEF KeptForItsApplications

LEMMA CvNextKeepsCvs ==
  ASSUME TypeOK, Safety, AppReads, CvTypes, DeletesChecked, [CvNext]_allVars,
         NEW c \in Cvs, KeptForItsApplications(c),
         \A s \in Requests : ~ CvOvertaken(s)
  PROVE  KeptForItsApplications(c)'
<1>1. ASSUME UNCHANGED <<applications, cvs>> PROVE KeptForItsApplications(c)'
  BY <1>1 DEF KeptForItsApplications, ActiveReference, ActiveReferences, Exists
<1>2. ASSUME NEW r \in Requests, cvReq[r].cv \in Cvs, WriteCv(cvReq[r].cv, "live")
      PROVE  KeptForItsApplications(c)'
  BY <1>2, WriteCvKeepsCvs DEF CvStates
<1>3. ASSUME NEW r \in Requests, CreateSave(r) \/ CreateSaveFails(r) \/ UpdateWrite(r)
      PROVE  KeptForItsApplications(c)'
  <2>1. cvReq[r].cv \in Cvs
    BY <1>3, CvRequestKinds DEF CreateSave, CreateSaveFails, UpdateWrite, Idle
  <2>2. WriteCv(cvReq[r].cv, "live") \/ UNCHANGED vars
    BY <1>3 DEF CreateSave, CreateSaveFails, UpdateWrite
  <2> QED BY <1>1, <1>2, <2>1, <2>2 DEF vars
<1>4. ASSUME NEW r \in Requests, DeleteWrite(r) PROVE KeptForItsApplications(c)'
  <2>1. cvReq[r].cv \in Cvs /\ cvReq[r].refs = {}
    BY <1>4, CvRequestKinds DEF DeleteWrite, Idle, DeletesChecked
  <2>2. cvReq'[r] # cvReq[r] /\ cvReq[r].pc = "deleteChecked"
    BY <1>4 DEF DeleteWrite, CvTypes, Idle
  <2>3. ~ ActiveReference(cvReq[r].cv)
    BY <2>1, <2>2 DEF CvOvertaken, ActiveReference
  <2>4. WriteCv(cvReq[r].cv, "deleted") \/ UNCHANGED vars
    BY <1>4 DEF DeleteWrite
  <2> QED BY <1>1, <2>1, <2>3, <2>4, WriteCvKeepsCvs DEF vars, CvStates
<1>5. ASSUME PurgeRow PROVE KeptForItsApplications(c)'
  <2>1. purge.row \in Cvs /\ WriteCv(purge.row, "purged")
    BY <1>5 DEF CvTypes, PurgeRun, PurgeRow
  <2> QED BY <2>1, WriteCvKeepsCvs DEF CvStates
<1>6. ASSUME NEW r \in Requests, CvStep(r) PROVE KeptForItsApplications(c)'
  <2>1. CASE \/ CreateCleanup(r) \/ DeleteCheck(r) \/ CvRequestFails(r)
             \/ \E d \in Cvs : CreateUpload(r, d) \/ UpdateRead(r, d) \/ DeleteRead(r, d)
    BY <1>1, <2>1 DEF CreateCleanup, DeleteCheck, CvRequestFails, CreateUpload,
       UpdateRead, DeleteRead, vars
  <2> QED BY <1>3, <1>4, <1>6, <2>1 DEF CvStep
<1>7. ASSUME \/ PurgeStep /\ ~ PurgeRow
             \/ \E d \in Cvs : RetentionElapses(d)
             \/ \E j \in Jobs : JobChanges(j)
             \/ UNCHANGED allVars
      PROVE  UNCHANGED <<applications, cvs>>
  BY <1>7 DEF PurgeStep, PurgeStart, PurgeObject, PurgeRowFails, PurgeDies,
     RetentionElapses, JobChanges, appVars, allVars, vars
<1> QED BY <1>1, <1>5, <1>6, <1>7, AppStepKeepsCvs DEF CvNext

(* Whatever fails and whatever interleaves, the CV of an active            *)
(* application is live until a request writes that was overtaken since it  *)
(* read: a deletion by an application that came in after its check, an     *)
(* application by the deletion of its CV, or a status by another.          *)
THEOREM ActiveCvsStay == CvSpec => ActiveApplicationKeepsCv
<1>1. Init => AppReads
  BY DEF Init, AppReads, HoldsItsCv, Idle
<1>2. TypeOK /\ Safety /\ AppReads /\ [Next]_vars => AppReads'
  BY AppReadsInductive
<1>3. Spec => []AppReads
  BY <1>1, <1>2, TypeCorrect, SafetyHolds, PTL DEF Spec
<1>4. CvInit => CvTypes /\ DeletesChecked
  BY DEF CvInit, CvTypes, PurgeIdle, PurgeRun, DeletesChecked, Idle
<1>5. CvTypes /\ DeletesChecked /\ [CvNext]_allVars => CvTypes' /\ DeletesChecked'
  BY CvTypesInductive, DeletesCheckedInductive
<1>6. CvSpec => [](TypeOK /\ Safety /\ AppReads)
  BY <1>3, CvRefinement, TypeCorrect, SafetyHolds, PTL DEF ImplementsApplications
<1>7. TypeOK /\ Safety /\ AppReads /\ CvTypes /\ DeletesChecked /\ [CvNext]_allVars
        => [\A c \in Cvs : KeptForItsApplications(c) =>
              KeptForItsApplications(c)' \/ \E r \in Requests : CvOvertaken(r)]_allVars
  BY CvNextKeepsCvs
<1> QED BY <1>4, <1>5, <1>6, <1>7, PTL DEF CvSpec, ActiveApplicationKeepsCv

-----------------------------------------------------------------------------
(* Interviews                                                              *)

IvTypes == /\ interviews \in [Interviews -> InterviewRow \cup {NoRow}]
           /\ mailed \in [Interviews -> SUBSET Mailable]
           /\ ivReq \in [Requests -> {Idle} \cup ScheduleReq \cup ChangeReq \cup MailReq]

(* The pc of a slot tells what it holds.                                   *)
LEMMA IvRequestKinds ==
  ASSUME IvTypes, NEW r \in Requests
  PROVE  /\ ivReq[r].pc \in {"scheduleJob", "scheduleExisting", "scheduleSave"}
              => ivReq[r] \in ScheduleReq
         /\ ivReq[r].pc \in {"changeApp", "changeJob", "changeWrite"}
              => ivReq[r] \in ChangeReq
         /\ ivReq[r].pc = "mail" => ivReq[r] \in MailReq
BY DEF IvTypes, Idle, ScheduleReq, ChangeReq, MailReq

(* What each handler holds after the await it goes on from.                *)
LEMMA GoOnTypes ==
  ASSUME IvTypes, NEW r \in Requests, NEW passed \in BOOLEAN, NEW pc,
         \/ ivReq[r] \in ScheduleReq /\ pc \in {"scheduleExisting", "scheduleSave"}
         \/ ivReq[r] \in ChangeReq /\ pc \in {"changeJob", "changeWrite"},
         GoOn(r, passed, pc)
  PROVE  ivReq' \in [Requests -> {Idle} \cup ScheduleReq \cup ChangeReq \cup MailReq]
<1>1. [ivReq[r] EXCEPT !.pc = pc] \in ScheduleReq \cup ChangeReq
  BY DEF ScheduleReq, ChangeReq
<1> QED BY <1>1 DEF IvTypes, GoOn

(* Interview steps leave the application component's state alone, and the  *)
(* other steps are its own.                                                *)
LEMMA IvStepRefines ==
  ASSUME [IvNext]_ivAllVars
  PROVE  [Next]_vars
<1>1. ASSUME NEW r \in Requests, IvStep(r) PROVE UNCHANGED vars
  BY <1>1 DEF IvStep, ScheduleReadApplication, ScheduleReadJob,
     ScheduleCheckExisting, ScheduleSave, Reschedule, Cancel, Complete,
     MarkNoShow, ChangeRead, ChangeReadApplication, ChangeReadJob, ChangeWrite,
     SendMail, IvRequestFails
<1> QED BY <1>1 DEF IvNext, Next, ivAllVars

LEMMA IvTypesInductive ==
  ASSUME TypeOK, IvTypes, [IvNext]_ivAllVars
  PROVE  IvTypes'
<1> USE DEF IvTypes
<1>1. ASSUME UNCHANGED ivVars PROVE IvTypes'
  BY <1>1 DEF ivVars
<1>2. ASSUME NEW r \in Requests, NEW a \in Ids, NEW by \in Recruiters,
             ScheduleReadApplication(r, a, by)
      PROVE  IvTypes'
  <2>1. applications[a].status \in ApplicationStatuses
    BY <1>2 DEF ScheduleReadApplication, TypeOK, Exists, ApplicationRow
  <2>2. [pc |-> "scheduleJob", app |-> a, by |-> by,
         stage |-> applications[a].status, existing |-> {}] \in ScheduleReq
    BY <2>1 DEF ScheduleReq
  <2> QED BY <1>2, <2>2 DEF ScheduleReadApplication
<1>3. ASSUME NEW r \in Requests, ScheduleReadJob(r) PROVE IvTypes'
  <2>1. ivReq[r] \in ScheduleReq
    BY <1>3, IvRequestKinds DEF ScheduleReadJob
  <2> QED BY <1>3, <2>1, GoOnTypes DEF ScheduleReadJob, OwnedJob
<1>4. ASSUME NEW r \in Requests, ScheduleCheckExisting(r) PROVE IvTypes'
  <2>1. PICK q \in ScheduleReq : q = ivReq[r]
    BY <1>4, IvRequestKinds DEF ScheduleCheckExisting
  <2>2. ActiveInterviews(q.app) \in SUBSET Interviews
    BY DEF ActiveInterviews
  <2>3. [q EXCEPT !.pc = "scheduleSave", !.existing = ActiveInterviews(q.app)]
          \in ScheduleReq
    BY <2>2 DEF ScheduleReq
  <2> QED BY <1>4, <2>1, <2>3 DEF ScheduleCheckExisting
<1>5. ASSUME NEW r \in Requests, ScheduleSave(r) PROVE IvTypes'
  <2>1. ivReq[r].app \in Ids
    BY <1>5, IvRequestKinds DEF ScheduleSave, ScheduleReq
  <2>2. PICK i \in Interviews :
          /\ interviews' = [interviews EXCEPT ![i] =
                              [app |-> ivReq[r].app, status |-> "SCHEDULED"]]
          /\ ivReq' = [ivReq EXCEPT ![r] =
                         [pc |-> "mail", iv |-> i, status |-> "SCHEDULED"]]
    BY <1>5 DEF ScheduleSave
  <2>3. [app |-> ivReq[r].app, status |-> "SCHEDULED"] \in InterviewRow
    BY <2>1 DEF InterviewRow, InterviewStatuses
  <2>4. [pc |-> "mail", iv |-> i, status |-> "SCHEDULED"] \in MailReq
    BY DEF MailReq, Mailable
  <2> QED BY <1>5, <2>2, <2>3, <2>4 DEF ScheduleSave
<1>6. ASSUME NEW r \in Requests, NEW i \in Interviews, NEW to \in Changes,
             NEW by \in Recruiters, ChangeRead(r, i, to, by)
      PROVE  IvTypes'
  <2>1. [pc |-> "changeApp", iv |-> i, seen |-> interviews[i], to |-> to,
         by |-> by, stage |-> "NONE"] \in ChangeReq
    BY <1>6 DEF ChangeRead, ChangeReq, Booked
  <2> QED BY <1>6, <2>1 DEF ChangeRead
<1>7. ASSUME NEW r \in Requests, ChangeReadApplication(r) PROVE IvTypes'
  <2>1. PICK q \in ChangeReq : q = ivReq[r]
    BY <1>7, IvRequestKinds DEF ChangeReadApplication
  <2>2. q.seen.app \in Ids
    BY <2>1 DEF ChangeReq, InterviewRow
  <2>3. Exists(q.seen.app) => applications[q.seen.app].status \in ApplicationStatuses
    BY <2>2 DEF TypeOK, Exists, ApplicationRow
  <2>4. Exists(q.seen.app) =>
          [q EXCEPT !.pc = "changeJob", !.stage = applications[q.seen.app].status]
            \in ChangeReq
    BY <2>3 DEF ChangeReq
  <2> QED BY <1>7, <2>1, <2>4 DEF ChangeReadApplication
<1>8. ASSUME NEW r \in Requests, ChangeReadJob(r) PROVE IvTypes'
  <2>1. ivReq[r] \in ChangeReq
    BY <1>8, IvRequestKinds DEF ChangeReadJob
  <2> QED BY <1>8, <2>1, GoOnTypes DEF ChangeReadJob
<1>9. ASSUME NEW r \in Requests, ChangeWrite(r) PROVE IvTypes'
  <2>1. PICK c \in ChangeReq : c = ivReq[r]
    BY <1>9, IvRequestKinds DEF ChangeWrite
  <2>2. Changed(c.seen, c.to) \in InterviewRow
    BY <2>1 DEF Changed, ChangeReq, InterviewRow, Changes
  <2>3. c.to \in Mailable
          => [pc |-> "mail", iv |-> c.iv, status |-> c.to] \in MailReq
    BY <2>1 DEF ChangeReq, MailReq
  <2> QED BY <1>9, <2>1, <2>2, <2>3 DEF ChangeWrite
<1>10. ASSUME NEW r \in Requests, SendMail(r) PROVE IvTypes'
  <2>1. ivReq[r].status \in Mailable
    BY <1>10, IvRequestKinds DEF SendMail, MailReq
  <2> QED BY <1>10, <2>1 DEF SendMail
<1>11. ASSUME NEW r \in Requests, IvRequestFails(r) PROVE IvTypes'
  BY <1>11 DEF IvRequestFails
<1>12. {"RESCHEDULED", "CANCELLED", "COMPLETED", "NO_SHOW"} \subseteq Changes
  BY DEF Changes, InterviewStatuses
<1>13. ASSUME NEW r \in Requests, IvStep(r) PROVE IvTypes'
  BY <1>2, <1>3, <1>4, <1>5, <1>6, <1>7, <1>8, <1>9, <1>10, <1>11, <1>12, <1>13
     DEF IvStep, Reschedule, Cancel, Complete, MarkNoShow
<1> QED BY <1>1, <1>13 DEF IvNext, ivAllVars

(* Every state of the composition is well typed.                           *)
THEOREM IvTypeCorrect == IvSpec => []IvTypeOK
<1>1. IvInit => TypeOK /\ IvTypes
  BY DEF IvInit, IvTypes, Init, TypeOK, JobStates, CvStates, RequestStates
<1>2. TypeOK /\ IvTypes /\ [IvNext]_ivAllVars => TypeOK' /\ IvTypes'
  BY IvStepRefines, TypeInductive, IvTypesInductive
<1>3. TypeOK /\ IvTypes => IvTypeOK
  BY DEF IvTypes, IvTypeOK
<1> QED BY <1>1, <1>2, <1>3, PTL DEF IvSpec
-----------------------------------------------------------------------------
(* However requests overlap                                                *)

(* A change in flight knows an interview that is there and its             *)
(* application; a mail in flight is of something that was committed.       *)
RequestsKnowTheRow ==
  \A r \in Requests :
    /\ ivReq[r].pc \in {"changeApp", "changeJob", "changeWrite"}
         => /\ Booked(ivReq[r].iv)
            /\ ivReq[r].seen.app = interviews[ivReq[r].iv].app
    /\ ivReq[r].pc = "mail"
         => /\ Booked(ivReq[r].iv)
            /\ ivReq[r].status # "SCHEDULED"
                 => interviews[ivReq[r].iv].status # "SCHEDULED"

IvSafety == MailedOnlyCommitted /\ RequestsKnowTheRow

(* A row that is there keeps its application and, once it is no longer     *)
(* SCHEDULED, never is again.                                              *)
NoneFreshAgain ==
  \A i \in Interviews : Booked(i) =>
    /\ interviews'[i] # NoRow
    /\ interviews'[i].app = interviews[i].app
    /\ interviews'[i].status = "SCHEDULED" => interviews[i].status = "SCHEDULED"

(* Steps that write no interview and no mail, and leave a slot with the    *)
(* interview it already had, or one it has just read.                      *)
LEMMA IvReadsKeepSafety ==
  ASSUME IvTypes, IvSafety, NEW r \in Requests,
         UNCHANGED <<interviews, mailed>>,
         NEW q, ivReq' = [ivReq EXCEPT ![r] = q],
         q.pc \in {"idle", "scheduleJob", "scheduleExisting", "scheduleSave"}
         \/ /\ q.pc \in {"changeApp", "changeJob", "changeWrite"}
            /\ Booked(q.iv) /\ q.seen.app = interviews[q.iv].app
  PROVE  IvSafety' /\ NoneFreshAgain
<1>1. /\ MailedOnlyCommitted'
      /\ NoneFreshAgain
  BY DEF IvSafety, MailedOnlyCommitted, NoneFreshAgain, Booked
<1>2. ASSUME NEW s \in Requests
      PROVE  ivReq'[s] = q \/ ivReq'[s] = ivReq[s]
  BY DEF IvTypes
<1>3. RequestsKnowTheRow'
  BY <1>2 DEF IvSafety, RequestsKnowTheRow, Booked
<1> QED BY <1>1, <1>3 DEF IvSafety

LEMMA IvSaveKeepsSafety ==
  ASSUME IvTypes, IvSafety, NEW r \in Requests, ScheduleSave(r)
  PROVE  IvSafety' /\ NoneFreshAgain
<1> DEFINE row == [app |-> ivReq[r].app, status |-> "SCHEDULED"]
<1>1. ivReq[r].app \in Ids
  BY IvRequestKinds DEF ScheduleSave, ScheduleReq
<1>2. row # NoRow
  BY <1>1, NoInterviewAssumption DEF InterviewRow, InterviewStatuses
<1>3. PICK i \in Interviews :
        /\ ~ Booked(i)
        /\ interviews' = [interviews EXCEPT ![i] = row]
        /\ ivReq' = [ivReq EXCEPT ![r] =
                       [pc |-> "mail", iv |-> i, status |-> "SCHEDULED"]]
  BY DEF ScheduleSave
<1>4. /\ interviews'[i] = row
      /\ \A k \in Interviews \ {i} : interviews'[k] = interviews[k]
      /\ mailed' = mailed
  BY <1>3 DEF IvTypes, ScheduleSave
<1>5. MailedOnlyCommitted'
  BY <1>2, <1>3, <1>4 DEF IvSafety, MailedOnlyCommitted, Booked
<1>6. NoneFreshAgain
  BY <1>3, <1>4 DEF NoneFreshAgain, Booked
<1>7. ASSUME NEW s \in Requests,
             ivReq'[s].pc \in {"changeApp", "changeJob", "changeWrite"}
      PROVE  interviews'[ivReq'[s].iv] # NoRow /\ ivReq'[s].seen.app = interviews'[ivReq'[s].iv].app
  <2>1. s # r /\ ivReq'[s] = ivReq[s]
    BY <1>3, <1>7 DEF IvTypes
  <2>2. ivReq[s].iv \in Interviews
    BY <1>7, <2>1, IvRequestKinds DEF ChangeReq
  <2>3. Booked(ivReq[s].iv) /\ ivReq[s].seen.app = interviews[ivReq[s].iv].app
    BY <1>7, <2>1 DEF IvSafety, RequestsKnowTheRow
  <2> QED BY <1>3, <1>4, <2>1, <2>2, <2>3 DEF Booked
<1>8. ASSUME NEW s \in Requests, ivReq'[s].pc = "mail"
      PROVE  /\ interviews'[ivReq'[s].iv] # NoRow
             /\ ivReq'[s].status # "SCHEDULED"
                  => interviews'[ivReq'[s].iv].status # "SCHEDULED"
  <2>1. CASE s = r
    BY <1>2, <1>3, <1>4, <2>1 DEF IvTypes, Booked
  <2>2. CASE s # r
    <3>1. ivReq'[s] = ivReq[s]
      BY <1>3, <2>2 DEF IvTypes
    <3>2. ivReq[s].iv \in Interviews
      BY <1>8, <3>1, IvRequestKinds DEF MailReq
    <3> QED BY <1>3, <1>4, <1>8, <3>1, <3>2 DEF IvSafety, RequestsKnowTheRow, Booked
  <2> QED BY <2>1, <2>2
<1> QED BY <1>5, <1>6, <1>7, <1>8 DEF IvSafety, RequestsKnowTheRow, Booked

LEMMA IvWriteKeepsSafety ==
  ASSUME IvTypes, IvSafety, NEW r \in Requests, ChangeWrite(r)
  PROVE  IvSafety' /\ NoneFreshAgain
<1>1. PICK c \in ChangeReq : c = ivReq[r]
  BY IvRequestKinds DEF ChangeWrite
<1>0. /\ Changed(c.seen, c.to) \in InterviewRow
      /\ Changed(c.seen, c.to).status = c.to
      /\ Changed(c.seen, c.to).app = c.seen.app
  BY <1>1 DEF Changed, ChangeReq, InterviewRow, Changes
<1>2. PICK row \in InterviewRow :
        /\ row = Changed(c.seen, c.to)
        /\ row.status = c.to /\ row.app = c.seen.app
  BY <1>0
<1>3. /\ Booked(c.iv) /\ c.seen.app = interviews[c.iv].app /\ c.iv \in Interviews
      /\ c.to # "SCHEDULED" /\ row # NoRow
  BY <1>1, <1>2, NoInterviewAssumption
     DEF IvSafety, RequestsKnowTheRow, ChangeWrite, ChangeReq, Changes
<1>4. /\ interviews'[c.iv] = row
      /\ \A k \in Interviews \ {c.iv} : interviews'[k] = interviews[k]
      /\ mailed' = mailed
  BY <1>1, <1>2, <1>3 DEF IvTypes, ChangeWrite
<1>5. \A i \in Interviews : Booked(i) =>
        /\ Booked(i)' /\ interviews'[i].app = interviews[i].app
        /\ interviews'[i].status = "SCHEDULED" => interviews[i].status = "SCHEDULED"
  BY <1>2, <1>3, <1>4 DEF Booked
<1>6. MailedOnlyCommitted'
  BY <1>4, <1>5 DEF IvSafety, MailedOnlyCommitted
<1>7. NoneFreshAgain
  BY <1>5 DEF NoneFreshAgain, Booked
<1>8. \A s \in Requests \ {r} : ivReq'[s] = ivReq[s]
  BY DEF IvTypes, ChangeWrite
<1>9. ivReq'[r] = Idle \/ ivReq'[r] = [pc |-> "mail", iv |-> c.iv, status |-> c.to]
  BY <1>1 DEF IvTypes, ChangeWrite
<1>10. ASSUME NEW s \in Requests,
              ivReq'[s].pc \in {"changeApp", "changeJob", "changeWrite"}
       PROVE  interviews'[ivReq'[s].iv] # NoRow /\ ivReq'[s].seen.app = interviews'[ivReq'[s].iv].app
  <2>1. s # r /\ ivReq'[s] = ivReq[s]
    BY <1>8, <1>9, <1>10 DEF Idle
  <2>2. ivReq[s].iv \in Interviews
    BY <1>10, <2>1, IvRequestKinds DEF ChangeReq
  <2>3. Booked(ivReq[s].iv) /\ ivReq[s].seen.app = interviews[ivReq[s].iv].app
    BY <1>10, <2>1 DEF IvSafety, RequestsKnowTheRow
  <2> QED BY <1>5, <2>1, <2>2, <2>3 DEF Booked
<1>11. ASSUME NEW s \in Requests, ivReq'[s].pc = "mail"
       PROVE  /\ interviews'[ivReq'[s].iv] # NoRow
              /\ ivReq'[s].status # "SCHEDULED"
                   => interviews'[ivReq'[s].iv].status # "SCHEDULED"
  <2>1. CASE s = r
    <3>1. ivReq'[s] = [pc |-> "mail", iv |-> c.iv, status |-> c.to]
      BY <1>9, <1>11, <2>1 DEF Idle
    <3> QED BY <1>2, <1>3, <1>4, <3>1 DEF Booked
  <2>2. CASE s # r
    <3>1. ivReq'[s] = ivReq[s]
      BY <1>8, <2>2
    <3>2. ivReq[s].iv \in Interviews
      BY <1>11, <3>1, IvRequestKinds DEF MailReq
    <3>3. /\ Booked(ivReq[s].iv)
          /\ ivReq[s].status # "SCHEDULED"
               => interviews[ivReq[s].iv].status # "SCHEDULED"
      BY <1>11, <3>1 DEF IvSafety, RequestsKnowTheRow
    <3> QED BY <1>5, <3>1, <3>2, <3>3 DEF Booked
  <2> QED BY <2>1, <2>2
<1> QED BY <1>6, <1>7, <1>10, <1>11 DEF IvSafety, RequestsKnowTheRow, Booked

LEMMA IvMailKeepsSafety ==
  ASSUME IvTypes, IvSafety, NEW r \in Requests, SendMail(r)
  PROVE  IvSafety' /\ NoneFreshAgain
<1>1. ivReq[r] \in MailReq
  BY IvRequestKinds DEF SendMail
<1>2. ivReq[r].iv \in Interviews
  BY <1>1 DEF MailReq
<1>3. /\ Booked(ivReq[r].iv)
      /\ ivReq[r].status # "SCHEDULED" => interviews[ivReq[r].iv].status # "SCHEDULED"
  BY DEF IvSafety, RequestsKnowTheRow, SendMail
<1>4. /\ interviews' = interviews
      /\ \A s \in Requests \ {r} : ivReq'[s] = ivReq[s]
      /\ ivReq'[r] = Idle
  BY DEF IvTypes, SendMail
<1>5. \A i \in Interviews :
        \/ mailed'[i] = mailed[i]
        \/ i = ivReq[r].iv /\ mailed'[i] = mailed[i] \cup {ivReq[r].status}
  BY DEF IvTypes, SendMail
<1>6. MailedOnlyCommitted'
  BY <1>3, <1>4, <1>5 DEF IvSafety, MailedOnlyCommitted, Booked
<1>7. RequestsKnowTheRow'
  BY <1>4 DEF IvSafety, RequestsKnowTheRow, Booked, Idle
<1>8. NoneFreshAgain
  BY <1>4 DEF NoneFreshAgain, Booked
<1> QED BY <1>6, <1>7, <1>8 DEF IvSafety

LEMMA IvSafetyInductive ==
  ASSUME TypeOK, IvTypes, IvSafety, [IvNext]_ivAllVars
  PROVE  IvSafety' /\ NoneFreshAgain
<1>1. ASSUME UNCHANGED ivVars PROVE IvSafety' /\ NoneFreshAgain
  BY <1>1 DEF ivVars, IvSafety, MailedOnlyCommitted, RequestsKnowTheRow,
     NoneFreshAgain, Booked
<1>2. ASSUME NEW r \in Requests, NEW a \in Ids, NEW by \in Recruiters,
             ScheduleReadApplication(r, a, by)
      PROVE  IvSafety' /\ NoneFreshAgain
  BY <1>2, IvReadsKeepSafety DEF ScheduleReadApplication
<1>3. ASSUME NEW r \in Requests, NEW passed, NEW pc, GoOn(r, passed, pc),
             UNCHANGED <<interviews, mailed>>,
             \/ ivReq[r] \in ScheduleReq /\ pc \in {"scheduleExisting", "scheduleSave"}
             \/ /\ ivReq[r] \in ChangeReq /\ pc \in {"changeJob", "changeWrite"}
                /\ Booked(ivReq[r].iv)
                /\ ivReq[r].seen.app = interviews[ivReq[r].iv].app
      PROVE  IvSafety' /\ NoneFreshAgain
  <2> DEFINE q == IF passed THEN [ivReq[r] EXCEPT !.pc = pc] ELSE Idle
  <2>1. ivReq' = [ivReq EXCEPT ![r] = q]
    BY <1>3 DEF GoOn, IvTypes
  <2>2. CASE ivReq[r] \in ScheduleReq /\ pc \in {"scheduleExisting", "scheduleSave"}
    <3>1. [ivReq[r] EXCEPT !.pc = pc].pc = pc
      BY <2>2 DEF ScheduleReq
    <3>2. q.pc \in {"idle", "scheduleJob", "scheduleExisting", "scheduleSave"}
      BY <2>2, <3>1 DEF Idle
    <3> HIDE DEF q
    <3> QED BY <1>3, <2>1, <3>2, IvReadsKeepSafety
  <2>3. CASE /\ ivReq[r] \in ChangeReq /\ pc \in {"changeJob", "changeWrite"}
             /\ Booked(ivReq[r].iv)
             /\ ivReq[r].seen.app = interviews[ivReq[r].iv].app
    <3> DEFINE p == [ivReq[r] EXCEPT !.pc = pc]
    <3>1. p.pc = pc /\ p.iv = ivReq[r].iv /\ p.seen = ivReq[r].seen
      BY <2>3 DEF ChangeReq
    <3>2. \/ q.pc = "idle"
          \/ q.pc = pc /\ Booked(q.iv) /\ q.seen.app = interviews[q.iv].app
      BY <2>3, <3>1 DEF Idle
    <3> HIDE DEF q
    <3> QED BY <1>3, <2>1, <2>3, <3>2, IvReadsKeepSafety
  <2> QED BY <1>3, <2>2, <2>3
<1>4. ASSUME NEW r \in Requests, ScheduleReadJob(r) \/ ScheduleCheckExisting(r)
      PROVE  IvSafety' /\ NoneFreshAgain
  <2>1. PICK q \in ScheduleReq : q = ivReq[r]
    BY <1>4, IvRequestKinds DEF ScheduleReadJob, ScheduleCheckExisting
  <2>2. CASE ScheduleReadJob(r)
    BY <1>3, <2>1, <2>2 DEF ScheduleReadJob
  <2>3. CASE ScheduleCheckExisting(r)
    <3> DEFINE k == [q EXCEPT !.pc = "scheduleSave",
                              !.existing = ActiveInterviews(q.app)]
    <3>1. k.pc = "scheduleSave" /\ Idle.pc = "idle"
      BY DEF ScheduleReq, Idle
    <3>2. PICK h \in {k, Idle} : ivReq' = [ivReq EXCEPT ![r] = h]
      BY <2>1, <2>3 DEF ScheduleCheckExisting, IvTypes
    <3>3. h.pc \in {"idle", "scheduleSave"}
      BY <3>1, <3>2
    <3> HIDE DEF k
    <3> QED BY <2>3, <3>2, <3>3, IvReadsKeepSafety DEF ScheduleCheckExisting
  <2> QED BY <1>4, <2>2, <2>3
<1>5. ASSUME NEW r \in Requests, NEW i \in Interviews, NEW to \in Changes,
             NEW by \in Recruiters, ChangeRead(r, i, to, by)
      PROVE  IvSafety' /\ NoneFreshAgain
  <2> DEFINE q == [pc |-> "changeApp", iv |-> i, seen |-> interviews[i],
                   to |-> to, by |-> by, stage |-> "NONE"]
  <2>1. /\ ivReq' = [ivReq EXCEPT ![r] = q]
        /\ UNCHANGED <<interviews, mailed>>
        /\ q.pc = "changeApp" /\ Booked(q.iv) /\ q.seen.app = interviews[q.iv].app
    BY <1>5 DEF ChangeRead
  <2> HIDE DEF q
  <2> QED BY <2>1, IvReadsKeepSafety
<1>6. ASSUME NEW r \in Requests, ChangeReadApplication(r) \/ ChangeReadJob(r)
      PROVE  IvSafety' /\ NoneFreshAgain
  <2>1. ivReq[r] \in ChangeReq
    BY <1>6, IvRequestKinds DEF ChangeReadApplication, ChangeReadJob
  <2>2. Booked(ivReq[r].iv) /\ ivReq[r].seen.app = interviews[ivReq[r].iv].app
    BY <1>6 DEF IvSafety, RequestsKnowTheRow, ChangeReadApplication, ChangeReadJob
  <2>3. CASE ChangeReadJob(r)
    BY <1>3, <2>1, <2>2, <2>3 DEF ChangeReadJob
  <2>4. CASE ChangeReadApplication(r)
    <3>0. PICK q \in ChangeReq : q = ivReq[r]
      BY <2>1
    <3> DEFINE k == [q EXCEPT !.pc = "changeJob",
                              !.stage = applications[q.seen.app].status]
    <3>1. k.pc = "changeJob" /\ k.iv = q.iv /\ k.seen = q.seen /\ Idle.pc = "idle"
      BY DEF ChangeReq, Idle
    <3>2. PICK h \in {k, Idle} : ivReq' = [ivReq EXCEPT ![r] = h]
      BY <2>4, <3>0 DEF ChangeReadApplication, IvTypes
    <3>3. \/ h.pc = "idle"
          \/ h.pc = "changeJob" /\ Booked(h.iv) /\ h.seen.app = interviews[h.iv].app
      BY <2>2, <3>0, <3>1, <3>2
    <3> HIDE DEF k
    <3> QED BY <2>4, <3>2, <3>3, IvReadsKeepSafety DEF ChangeReadApplication
  <2> QED BY <1>6, <2>3, <2>4
<1>7. ASSUME NEW r \in Requests, IvRequestFails(r)
      PROVE  IvSafety' /\ NoneFreshAgain
  <2>1. Idle.pc = "idle"
    BY DEF Idle
  <2> QED BY <1>7, <2>1, IvReadsKeepSafety DEF IvRequestFails
<1>8. {"RESCHEDULED", "CANCELLED", "COMPLETED", "NO_SHOW"} \subseteq Changes
  BY DEF Changes, InterviewStatuses
<1>9. ASSUME NEW r \in Requests, IvStep(r) PROVE IvSafety' /\ NoneFreshAgain
  BY <1>2, <1>4, <1>5, <1>6, <1>7, <1>8, <1>9, IvSaveKeepsSafety,
     IvWriteKeepsSafety, IvMailKeepsSafety
     DEF IvStep, Reschedule, Cancel, Complete, MarkNoShow
<1> QED BY <1>1, <1>9 DEF IvNext, ivAllVars

LEMMA IvInvariant == IvSpec => [](TypeOK /\ IvTypes /\ IvSafety)
<1>1. IvInit => TypeOK /\ IvTypes /\ IvSafety
  BY DEF IvInit, IvTypes, Init, TypeOK, JobStates, CvStates, RequestStates,
     IvSafety, MailedOnlyCommitted, RequestsKnowTheRow, Booked, Idle
<1>2. TypeOK /\ IvTypes /\ IvSafety /\ [IvNext]_ivAllVars
        => (TypeOK /\ IvTypes /\ IvSafety)'
  BY IvStepRefines, TypeInductive, IvTypesInductive, IvSafetyInductive
<1> QED BY <1>1, <1>2, PTL DEF IvSpec

(* A mail of a move or a cancellation never precedes its commit, and none  *)
(* is sent of an interview that is not there.                              *)
THEOREM MailsFollowCommits == IvSpec => []MailedOnlyCommitted
<1>1. IvSafety => MailedOnlyCommitted
  BY DEF IvSafety
<1> QED BY <1>1, IvInvariant, PTL

(* However many stale writes there are, none makes an interview SCHEDULED  *)
(* again or hands it to another application.                               *)
THEOREM FreshOnce == IvSpec => NeverFreshAgain
<1>1. TypeOK /\ IvTypes /\ IvSafety /\ [IvNext]_ivAllVars
        => [\A i \in Interviews : Booked(i) =>
              /\ interviews'[i] # NoRow
              /\ interviews'[i].app = interviews[i].app
              /\ interviews'[i].status = "SCHEDULED"
                   => interviews[i].status = "SCHEDULED"]_ivAllVars
  BY IvSafetyInductive DEF NoneFreshAgain
<1> QED BY <1>1, IvInvariant, PTL DEF IvSpec, NeverFreshAgain

-----------------------------------------------------------------------------
(* What overtakes a write                                                  *)

(* A request writes only after it found the application open to            *)
(* interviews, and no active interview of it or an active one to change.   *)
ReadOpen(q) ==
  /\ q.pc \in {"scheduleJob", "scheduleExisting", "scheduleSave"}
       => ~ IsTerminal(q.stage)
  /\ q.pc = "scheduleSave" => q.existing = {}
  /\ q.pc \in {"changeJob", "changeWrite"} => ~ IsTerminal(q.stage)
  /\ q.pc = "changeWrite" => IsActive(q.seen)

ReadsOpen == \A r \in Requests : ReadOpen(ivReq[r])

(* What a slot holds after an await it went on from, field by field.       *)
LEMMA GoOnReads ==
  ASSUME IvTypes, NEW r \in Requests, NEW passed, NEW pc, GoOn(r, passed, pc),
         ivReq[r] \in ScheduleReq \cup ChangeReq
  PROVE  \/ ivReq'[r] = Idle
         \/ /\ passed
            /\ ivReq'[r].pc = pc /\ ivReq'[r].stage = ivReq[r].stage
            /\ ivReq[r] \in ScheduleReq => ivReq'[r].existing = ivReq[r].existing
            /\ ivReq[r] \in ChangeReq => ivReq'[r].seen = ivReq[r].seen
<1>1. ivReq'[r] = IF passed THEN [ivReq[r] EXCEPT !.pc = pc] ELSE Idle
  BY DEF GoOn, IvTypes
<1>2. CASE ivReq[r] \in ScheduleReq
  <2>1. PICK q \in ScheduleReq : q = ivReq[r]
    BY <1>2
  <2>2. /\ [q EXCEPT !.pc = pc].pc = pc /\ [q EXCEPT !.pc = pc].stage = q.stage
        /\ [q EXCEPT !.pc = pc].existing = q.existing
    BY DEF ScheduleReq
  <2>3. ivReq[r] \notin ChangeReq
    BY <2>1 DEF ScheduleReq, ChangeReq
  <2> QED BY <1>1, <2>1, <2>2, <2>3
<1>3. CASE ivReq[r] \in ChangeReq
  <2>1. PICK q \in ChangeReq : q = ivReq[r]
    BY <1>3
  <2>2. /\ [q EXCEPT !.pc = pc].pc = pc /\ [q EXCEPT !.pc = pc].stage = q.stage
        /\ [q EXCEPT !.pc = pc].seen = q.seen
    BY DEF ChangeReq
  <2>3. ivReq[r] \notin ScheduleReq
    BY <2>1 DEF ScheduleReq, ChangeReq
  <2> QED BY <1>1, <2>1, <2>2, <2>3
<1> QED BY <1>2, <1>3

LEMMA IvStepReadsOpen ==
  ASSUME IvTypes, ReadsOpen, NEW r \in Requests, IvStep(r)
  PROVE  ReadsOpen'
<1>1. \A s \in Requests \ {r} : ivReq'[s] = ivReq[s]
  BY DEF IvTypes, IvStep, ScheduleReadApplication, ScheduleReadJob,
     ScheduleCheckExisting, ScheduleSave, Reschedule, Cancel, Complete,
     MarkNoShow, ChangeRead, ChangeReadApplication, ChangeReadJob, ChangeWrite,
     SendMail, IvRequestFails, GoOn
<1>2. ASSUME ivReq'[r].pc \in {"idle", "mail", "changeApp"} PROVE ReadOpen(ivReq'[r])
  BY <1>2 DEF ReadOpen
<1>3. Idle.pc = "idle"
  BY DEF Idle
<1>4. ASSUME NEW a \in Ids, NEW by \in Recruiters, ScheduleReadApplication(r, a, by)
      PROVE  ReadOpen(ivReq'[r])
  <2>1. ivReq'[r] = [pc |-> "scheduleJob", app |-> a, by |-> by,
                     stage |-> applications[a].status, existing |-> {}]
    BY <1>4 DEF ScheduleReadApplication, IvTypes
  <2>2. ~ IsTerminal(applications[a].status)
    BY <1>4 DEF ScheduleReadApplication, Interviewable
  <2> QED BY <2>1, <2>2 DEF ReadOpen
<1>5. ASSUME ScheduleReadJob(r) PROVE ReadOpen(ivReq'[r])
  <2>1. ivReq[r] \in ScheduleReq /\ ~ IsTerminal(ivReq[r].stage)
    BY <1>5, IvRequestKinds DEF ScheduleReadJob, ReadsOpen, ReadOpen
  <2>2. GoOn(r, OwnedJob(ivReq[r].app, ivReq[r].by), "scheduleExisting")
    BY <1>5 DEF ScheduleReadJob
  <2>3. \/ ivReq'[r] = Idle
        \/ ivReq'[r].pc = "scheduleExisting" /\ ivReq'[r].stage = ivReq[r].stage
    BY <2>1, <2>2, GoOnReads
  <2> QED BY <1>2, <1>3, <2>1, <2>3 DEF ReadOpen
<1>6. ASSUME ScheduleCheckExisting(r) PROVE ReadOpen(ivReq'[r])
  <2>1. PICK q \in ScheduleReq : q = ivReq[r] /\ ~ IsTerminal(q.stage)
    BY <1>6, IvRequestKinds DEF ScheduleCheckExisting, ReadsOpen, ReadOpen
  <2> DEFINE k == [q EXCEPT !.pc = "scheduleSave",
                            !.existing = ActiveInterviews(q.app)]
  <2>2. k.pc = "scheduleSave" /\ k.stage = q.stage
        /\ k.existing = ActiveInterviews(q.app)
    BY DEF ScheduleReq
  <2>3. \/ ivReq'[r] = Idle
        \/ ivReq'[r] = k /\ ActiveInterviews(q.app) = {}
    BY <1>6, <2>1 DEF ScheduleCheckExisting, HasActive, IvTypes
  <2> HIDE DEF k
  <2> QED BY <1>2, <1>3, <2>1, <2>2, <2>3 DEF ReadOpen
<1>7. ASSUME NEW i \in Interviews, NEW to \in Changes, NEW by \in Recruiters,
             ChangeRead(r, i, to, by)
      PROVE  ReadOpen(ivReq'[r])
  BY <1>2, <1>7 DEF ChangeRead, IvTypes
<1>8. ASSUME ChangeReadApplication(r) PROVE ReadOpen(ivReq'[r])
  <2>1. PICK q \in ChangeReq : q = ivReq[r]
    BY <1>8, IvRequestKinds DEF ChangeReadApplication
  <2> DEFINE k == [q EXCEPT !.pc = "changeJob",
                            !.stage = applications[q.seen.app].status]
  <2>2. k.pc = "changeJob" /\ k.stage = applications[q.seen.app].status
    BY DEF ChangeReq
  <2>3. ivReq'[r] = Idle \/ (ivReq'[r] = k /\ Interviewable(q.seen.app))
    BY <1>8, <2>1 DEF ChangeReadApplication, IvTypes
  <2> HIDE DEF k
  <2> QED BY <1>2, <1>3, <2>2, <2>3 DEF ReadOpen, Interviewable
<1>9. ASSUME ChangeReadJob(r) PROVE ReadOpen(ivReq'[r])
  <2>1. ivReq[r] \in ChangeReq /\ ~ IsTerminal(ivReq[r].stage)
    BY <1>9, IvRequestKinds DEF ChangeReadJob, ReadsOpen, ReadOpen
  <2>2. GoOn(r, OwnedJob(ivReq[r].seen.app, ivReq[r].by) /\ Changeable(ivReq[r].seen),
             "changeWrite")
    BY <1>9 DEF ChangeReadJob
  <2>3. \/ ivReq'[r] = Idle
        \/ /\ Changeable(ivReq[r].seen)
           /\ ivReq'[r].pc = "changeWrite" /\ ivReq'[r].stage = ivReq[r].stage
           /\ ivReq'[r].seen = ivReq[r].seen
    BY <2>1, <2>2, GoOnReads
  <2> QED BY <1>2, <1>3, <2>1, <2>3 DEF ReadOpen, Changeable
<1>10. ASSUME ScheduleSave(r) \/ ChangeWrite(r) \/ SendMail(r) \/ IvRequestFails(r)
       PROVE  ReadOpen(ivReq'[r])
  <2>1. ivReq'[r].pc \in {"idle", "mail"}
    BY <1>3, <1>10 DEF ScheduleSave, ChangeWrite, SendMail, IvRequestFails, IvTypes
  <2> QED BY <1>2, <2>1
<1>11. {"RESCHEDULED", "CANCELLED", "COMPLETED", "NO_SHOW"} \subseteq Changes
  BY DEF Changes, InterviewStatuses
<1>12. ReadOpen(ivReq'[r])
  BY <1>4, <1>5, <1>6, <1>7, <1>8, <1>9, <1>10, <1>11
     DEF IvStep, Reschedule, Cancel, Complete, MarkNoShow
<1> QED BY <1>1, <1>12 DEF ReadsOpen

LEMMA ReadsOpenInductive ==
  ASSUME IvTypes, ReadsOpen, [IvNext]_ivAllVars
  PROVE  ReadsOpen'
<1>1. ASSUME UNCHANGED ivVars PROVE ReadsOpen'
  BY <1>1 DEF ivVars, ReadsOpen
<1> QED BY <1>1, IvStepReadsOpen DEF IvNext, ivAllVars

(* The book's entry of an interview.                                       *)
Entry(i) == IF Booked(i) THEN <<interviews[i].app, interviews[i].status>> ELSE << >>

LEMMA EntryFacts ==
  ASSUME IvTypes
  PROVE  \A i \in Interviews :
           /\ Entry(i) = << >> <=> ~ Booked(i)
           /\ Booked(i) => /\ Entry(i)[1] = interviews[i].app
                          /\ Entry(i)[2] = interviews[i].status
                          /\ interviews[i] \in InterviewRow
BY DEF IvTypes, Entry, Booked

(* No two interviews of one application become active together.            *)
NoneDoubled ==
  \A i, k \in Interviews : i # k /\ ~ DoublyBooked(i, k) => ~ DoublyBooked(i, k)'

(* A booking that nothing overtook is one the book allows.                 *)
LEMMA SaveFollowsBook ==
  ASSUME IvTypes, ReadsOpen, NEW r \in Requests, ScheduleSave(r), ~ Outrun(r)
  PROVE  NoneDoubled /\ \E i \in Interviews, a \in Ids : Diary!Book(i, a)
<1>0. PICK q \in ScheduleReq : q = ivReq[r]
  BY IvRequestKinds DEF ScheduleSave
<1>1. PICK a \in Ids : a = q.app
  BY DEF ScheduleReq
<1> DEFINE row == [app |-> a, status |-> "SCHEDULED"]
<1>2. row # NoRow
  BY NoInterviewAssumption DEF InterviewRow, InterviewStatuses
<1>3. PICK i \in Interviews :
        /\ ~ Booked(i)
        /\ interviews' = [interviews EXCEPT ![i] = row]
        /\ ivReq' = [ivReq EXCEPT ![r] =
                       [pc |-> "mail", iv |-> i, status |-> "SCHEDULED"]]
  BY <1>0, <1>1 DEF ScheduleSave
<1>4. /\ interviews'[i] = row
      /\ \A k \in Interviews \ {i} : interviews'[k] = interviews[k]
      /\ UNCHANGED vars
  BY <1>3 DEF IvTypes, ScheduleSave
<1>5. ivReq'[r] # ivReq[r] /\ ivReq[r].pc = "scheduleSave"
  <2>1. ivReq'[r].pc = "mail"
    BY <1>3 DEF IvTypes
  <2> QED BY <2>1 DEF ScheduleSave
<1>6. ActiveInterviews(a) = {} /\ ~ IsTerminal(StageOf(a))
  BY <1>0, <1>1, <1>5 DEF Outrun, ClosedSince, ReadsOpen, ReadOpen
<1>7. NoneDoubled
  <2>1. \A k \in Interviews \ {i} :
          ~ (Booked(k) /\ IsActive(interviews[k]) /\ interviews[k].app = a)
    BY <1>6 DEF ActiveInterviews
  <2> QED BY <1>4, <2>1 DEF NoneDoubled, DoublyBooked, Booked, IsActive
<1>8. Diary!Book(i, a)
  <2>1. Entry(i) = << >>
    BY <1>3 DEF Entry
  <2>2. \A k \in Interviews :
          ~ (Entry(k) # << >> /\ Entry(k)[2] \in {"SCHEDULED", "RESCHEDULED"}
             /\ Entry(k)[1] = a)
    BY <1>6, EntryFacts DEF ActiveInterviews, IsActive, Actionable
  <2>3. \A k \in Interviews :
          Entry(k)' = IF k = i THEN <<a, "SCHEDULED">> ELSE Entry(k)
    BY <1>2, <1>4 DEF Entry, Booked
  <2>4. UNCHANGED [b \in Ids |-> StageOf(b)]
    BY <1>4 DEF StageOf, Exists, vars
  <2> QED BY <1>6, <2>1, <2>2, <2>3, <2>4 DEF Diary!Book, Diary!Pending, Entry
<1> QED BY <1>7, <1>8

(* A change that nothing overtook is one the book allows.                  *)
LEMMA WriteFollowsBook ==
  ASSUME IvTypes, IvSafety, ReadsOpen, NEW r \in Requests, ChangeWrite(r), ~ Outrun(r)
  PROVE  NoneDoubled /\ \E i \in Interviews, to \in Changes : Diary!Settle(i, to)
<1>1. PICK c \in ChangeReq : c = ivReq[r]
  BY IvRequestKinds DEF ChangeWrite
<1> DEFINE i == c.iv
           to == c.to
<1>2. /\ i \in Interviews /\ to \in Changes /\ Booked(i) /\ c.pc = "changeWrite"
      /\ IsActive(c.seen) /\ ~ IsTerminal(c.stage)
  BY <1>1 DEF ChangeWrite, ChangeReq, IvSafety, RequestsKnowTheRow, ReadsOpen, ReadOpen
<1>3. /\ Changed(c.seen, to) \in InterviewRow
      /\ Changed(c.seen, to).status = to
      /\ Changed(c.seen, to).app = c.seen.app
  BY <1>1 DEF Changed, ChangeReq, InterviewRow, Changes
<1>4. ivReq'[r] # ivReq[r]
  <2>1. /\ ivReq'[r] = Idle \/ ivReq'[r] = [pc |-> "mail", iv |-> i, status |-> to]
    BY <1>1 DEF ChangeWrite, IvTypes
  <2>2. ivReq'[r].pc # "changeWrite"
    BY <2>1 DEF Idle
  <2> QED BY <1>1, <1>2, <2>2
<1>5. c.seen = interviews[i] /\ ~ IsTerminal(StageOf(interviews[i].app))
  BY <1>1, <1>2, <1>4 DEF Outrun, ClosedSince
<1>6. PICK row \in InterviewRow :
        /\ row = Changed(c.seen, to)
        /\ row.status = to /\ row.app = interviews[i].app /\ row # NoRow
  BY <1>3, <1>5, NoInterviewAssumption
<1>7. /\ interviews'[i] = row
      /\ \A k \in Interviews \ {i} : interviews'[k] = interviews[k]
      /\ UNCHANGED vars
  BY <1>1, <1>2, <1>6 DEF IvTypes, ChangeWrite
<1>8. NoneDoubled
  BY <1>2, <1>5, <1>6, <1>7 DEF NoneDoubled, DoublyBooked, Booked
<1>9. Diary!Settle(i, to)
  <2>1. /\ Entry(i) # << >> /\ Entry(i)[1] = interviews[i].app
        /\ Entry(i)[2] \in {"SCHEDULED", "RESCHEDULED"}
    BY <1>2, <1>5, EntryFacts DEF IsActive, Actionable
  <2>2. interviews[i].app \in Ids
    BY <1>1, <1>5 DEF ChangeReq, InterviewRow
  <2>3. Entry(i) = <<interviews[i].app, interviews[i].status>>
    BY <1>2 DEF Entry
  <2>4. \A k \in Interviews :
          Entry(k)' = IF k = i THEN [Entry(i) EXCEPT ![2] = to] ELSE Entry(k)
    <3>1. [Entry(i) EXCEPT ![2] = to] = <<interviews[i].app, to>>
      BY <2>3
    <3>2. interviews'[i].app = interviews[i].app /\ interviews'[i].status = to
      BY <1>6, <1>7
    <3> QED BY <1>6, <1>7, <3>1, <3>2 DEF Entry, Booked
  <2>5. UNCHANGED [b \in Ids |-> StageOf(b)]
    BY <1>7 DEF StageOf, Exists, vars
  <2> QED BY <1>2, <1>5, <2>1, <2>2, <2>4, <2>5 DEF Diary!Settle, Diary!Pending, Entry
<1> QED BY <1>2, <1>8, <1>9

(* Every step follows the book and doubles no booking, or was overtaken.   *)
LEMMA IvStepFollowsBook ==
  ASSUME IvTypes, IvSafety, ReadsOpen, [IvNext]_ivAllVars
  PROVE  (NoneDoubled /\ Diary!Next) \/ OutrunWrite
<1>1. ASSUME UNCHANGED interviews PROVE NoneDoubled /\ Diary!Next
  BY <1>1 DEF NoneDoubled, DoublyBooked, Diary!Next, Diary!Elsewhere, Booked
<1>2. ASSUME NEW r \in Requests, IvStep(r)
      PROVE  (NoneDoubled /\ Diary!Next) \/ OutrunWrite
  <2>1. CASE Outrun(r)
    BY <2>1 DEF OutrunWrite
  <2>2. CASE ScheduleSave(r) /\ ~ Outrun(r)
    BY <2>2, SaveFollowsBook DEF Diary!Next
  <2>3. CASE ChangeWrite(r) /\ ~ Outrun(r)
    BY <2>3, WriteFollowsBook DEF Diary!Next
  <2>4. CASE ~ ScheduleSave(r) /\ ~ ChangeWrite(r)
    <3>1. UNCHANGED interviews
      BY <1>2, <2>4 DEF IvStep, ScheduleReadApplication, ScheduleReadJob,
         ScheduleCheckExisting, Reschedule, Cancel, Complete, MarkNoShow, ChangeRead,
         ChangeReadApplication, ChangeReadJob, SendMail, IvRequestFails
    <3> QED BY <1>1, <3>1
  <2> QED BY <2>1, <2>2, <2>3, <2>4
<1>3. ASSUME UNCHANGED ivVars PROVE NoneDoubled /\ Diary!Next
  BY <1>1, <1>3 DEF ivVars
<1> QED BY <1>2, <1>3 DEF IvNext, ivAllVars

LEMMA ReadsOpenHolds == IvSpec => [](IvTypes /\ IvSafety /\ ReadsOpen)
<1>1. IvInit => ReadsOpen
  BY DEF IvInit, ReadsOpen, ReadOpen, Idle
<1>2. IvTypes /\ ReadsOpen /\ [IvNext]_ivAllVars => ReadsOpen'
  BY ReadsOpenInductive
<1> QED BY <1>1, <1>2, IvInvariant, PTL DEF IvSpec

(* Two interviews of one application become active together only by a      *)
(* write that was overtaken: a booking after another booking of the        *)
(* application, or the change of a row that changed since it was read.     *)
THEOREM OneActiveUnlessOutrun == IvSpec => OneActiveInterview
<1>1. IvTypes /\ IvSafety /\ ReadsOpen /\ [IvNext]_ivAllVars
        => [\A i, k \in Interviews : i # k /\ ~ DoublyBooked(i, k) =>
              ~ DoublyBooked(i, k)' \/ OutrunWrite]_ivAllVars
  BY IvStepFollowsBook DEF NoneDoubled
<1> QED BY <1>1, ReadsOpenHolds, PTL DEF IvSpec, OneActiveInterview

(* Every step of the component is one InterviewBook allows, unless it      *)
(* writes from what no longer holds: outcomes are final, and a final       *)
(* application has no interview booked or changed.                         *)
THEOREM BookFollowed == IvSpec => ImplementsInterviewBook
<1>1. IvInit => Diary!Init
  BY DEF IvInit, Diary!Init, Booked
<1>2. IvTypes /\ IvSafety /\ ReadsOpen /\ [IvNext]_ivAllVars
        => [Diary!Next \/ OutrunWrite]_(Diary!bvars)
  BY IvStepFollowsBook
<1> QED BY <1>1, <1>2, ReadsOpenHolds, PTL DEF IvSpec, ImplementsInterviewBook

-----------------------------------------------------------------------------
(* Notifications                                                           *)

NtTypes ==
  /\ notifications \in [Notes -> NotificationRow \cup {NoRow}]
  /\ underway \in [Ids -> [ApplicationStatuses -> Nat]]
  /\ noteReq \in [Requests -> {Idle} \cup [pc : {"mark"}, note : Notes]]

(* The requests that are about to announce a move.                         *)
Announces(q, e) == q.pc = "emit" /\ q.app = e.app /\ q.status = e.status
Emitting(e) == {r \in Requests : Announces(req[r], e)}

MoveRows(e) == {i \in 1..Len(statusHistory[e.app]) :
                  statusHistory[e.app][i].to = e.status}

(* A move has one announcement: still to come, in a listener's hands, or   *)
(* stored.                                                                 *)
Announced(e) ==
  Cardinality(NotesOf(e)) + underway[e.app][e.status] + Cardinality(Emitting(e))
AnnouncedOncePerMove == \A e \in Events : Announced(e) <= Moves(e)

MarksAreStored ==
  \A r \in Requests : noteReq[r].pc = "mark" => Stored(noteReq[r].note)

NtInv == AnnouncedOncePerMove /\ MarksAreStored

(* An event takes an application and a status.                             *)
LEMMA EventFields ==
  ASSUME NEW e \in Events
  PROVE  e.app \in Ids /\ e.status \in ApplicationStatuses
BY DEF Events

LEMMA NotesAreCounted ==
  ASSUME NEW e
  PROVE  /\ IsFiniteSet(NotesOf(e)) /\ Cardinality(NotesOf(e)) \in Nat
         /\ IsFiniteSet(Emitting(e)) /\ Cardinality(Emitting(e)) \in Nat
         /\ Cardinality(NotesOf(e)') \in Nat /\ Cardinality(Emitting(e)') \in Nat
<1>1. IsFiniteSet(Notes) /\ IsFiniteSet(Requests)
  BY NotificationsAssumption
<1>2. /\ NotesOf(e) \in SUBSET Notes /\ Emitting(e) \in SUBSET Requests
      /\ NotesOf(e)' \in SUBSET Notes /\ Emitting(e)' \in SUBSET Requests
  BY DEF NotesOf, Emitting
<1>3. /\ IsFiniteSet(NotesOf(e)) /\ IsFiniteSet(Emitting(e))
      /\ IsFiniteSet(NotesOf(e)') /\ IsFiniteSet(Emitting(e)')
  BY <1>1, <1>2, FS_Subset
<1> QED BY <1>3, FS_CardinalityType

LEMMA RowsAreCounted ==
  ASSUME NEW h \in Seq(HistoryRow), NEW s
  PROVE  /\ IsFiniteSet({i \in 1..Len(h) : h[i].to = s})
         /\ Cardinality({i \in 1..Len(h) : h[i].to = s}) \in Nat
<1>1. IsFiniteSet(1..Len(h))
  BY FS_Interval
<1>2. {i \in 1..Len(h) : h[i].to = s} \in SUBSET (1..Len(h))
  OBVIOUS
<1>3. IsFiniteSet({i \in 1..Len(h) : h[i].to = s})
  BY <1>1, <1>2, FS_Subset
<1> QED BY <1>3, FS_CardinalityType

LEMMA MovesAreCounted ==
  ASSUME TypeOK, NEW e \in Events
  PROVE  /\ IsFiniteSet(MoveRows(e)) /\ Cardinality(MoveRows(e)) \in Nat
         /\ Moves(e) \in Nat
         /\ e.status # "APPLIED" => Moves(e) = Cardinality(MoveRows(e))
<1>1. IsFiniteSet(MoveRows(e)) /\ Cardinality(MoveRows(e)) \in Nat
  BY EventFields, RowsAreCounted DEF TypeOK, MoveRows
<1>2. Moves(e) = IF e.status = "APPLIED" THEN (IF Exists(e.app) THEN 1 ELSE 0)
                 ELSE Cardinality(MoveRows(e))
  BY DEF Moves, MoveRows
<1> QED BY <1>1, <1>2

(* A new history row is one more move, of its own status.                  *)
LEMMA AppendIsAMove ==
  ASSUME TypeOK, NEW a \in Ids, NEW h \in HistoryRow, h.to # "APPLIED",
         statusHistory' = [statusHistory EXCEPT ![a] = Append(@, h)],
         \A b \in Ids : Exists(b) => Exists(b)',
         NEW e \in Events
  PROVE  Moves(e)' >= Moves(e) + IF e.app = a /\ e.status = h.to THEN 1 ELSE 0
<1> DEFINE old == statusHistory[a]
           n == Len(old)
<1>1. old \in Seq(HistoryRow) /\ n \in Nat /\ statusHistory'[a] = Append(old, h)
  BY DEF TypeOK
<1>2. \A b \in Ids : b # a => statusHistory'[b] = statusHistory[b]
  BY DEF TypeOK
<1>3. CASE e.status = "APPLIED"
  BY <1>3, EventFields DEF Moves
<1>4. CASE e.status # "APPLIED" /\ e.app # a
  BY <1>2, <1>4, EventFields, MovesAreCounted DEF Moves
<1>5. CASE e.status # "APPLIED" /\ e.app = a
  <2>1. /\ Len(Append(old, h)) = n + 1 /\ Append(old, h)[n + 1] = h
        /\ \A i \in 1..n : Append(old, h)[i] = old[i]
    BY <1>1
  <2>2. MoveRows(e)' = IF e.status = h.to THEN MoveRows(e) \cup {n + 1}
                       ELSE MoveRows(e)
    BY <1>1, <1>5, <2>1 DEF MoveRows
  <2>3. IsFiniteSet(MoveRows(e)) /\ Cardinality(MoveRows(e)) \in Nat
        /\ Moves(e) = Cardinality(MoveRows(e))
    BY <1>5, MovesAreCounted
  <2>4. n + 1 \notin MoveRows(e)
    BY <1>1, <1>5 DEF MoveRows
  <2>5. Moves(e)' = Cardinality(MoveRows(e)')
    BY <1>5 DEF Moves, MoveRows
  <2>6. Cardinality(MoveRows(e) \cup {n + 1}) = Cardinality(MoveRows(e)) + 1
    BY <2>3, <2>4, FS_AddElement
  <2> QED BY <1>5, <2>2, <2>3, <2>5, <2>6
<1> QED BY <1>3, <1>4, <1>5

(* What a slot that takes on another state does to the announcements to    *)
(* come.                                                                   *)
LEMMA EmittingAfter ==
  ASSUME TypeOK, NEW r \in Requests, NEW q, req' = [req EXCEPT ![r] = q], NEW e
  PROVE  /\ Announces(q, e) => Cardinality(Emitting(e)') <= Cardinality(Emitting(e)) + 1
         /\ ~ Announces(q, e) =>
              Cardinality(Emitting(e)')
                = Cardinality(Emitting(e)) - IF Announces(req[r], e) THEN 1 ELSE 0
<1>1. \A s \in Requests : req'[s] = IF s = r THEN q ELSE req[s]
  BY DEF TypeOK
<1>2. Emitting(e)' = IF Announces(q, e) THEN Emitting(e) \cup {r} ELSE Emitting(e) \ {r}
  BY <1>1 DEF Emitting, Announces
<1>3. IsFiniteSet(Emitting(e)) /\ Cardinality(Emitting(e)) \in Nat
  BY NotesAreCounted
<1>4. Cardinality(Emitting(e) \cup {r}) <= Cardinality(Emitting(e)) + 1
  <2>1. Cardinality(Emitting(e) \cup {r})
          = IF r \in Emitting(e) THEN Cardinality(Emitting(e))
            ELSE Cardinality(Emitting(e)) + 1
    BY <1>3, FS_AddElement
  <2> QED BY <1>3, <2>1
<1>5. Cardinality(Emitting(e) \ {r})
        = Cardinality(Emitting(e)) - IF Announces(req[r], e) THEN 1 ELSE 0
  <2>1. Cardinality(Emitting(e) \ {r})
          = IF r \in Emitting(e) THEN Cardinality(Emitting(e)) - 1
            ELSE Cardinality(Emitting(e))
    BY <1>3, FS_RemoveElement
  <2>2. r \in Emitting(e) <=> Announces(req[r], e)
    BY DEF Emitting
  <2> QED BY <1>3, <2>1, <2>2
<1> QED BY <1>2, <1>4, <1>5

(* Only an application that exists has come to a status.                   *)
LEMMA MovedExists ==
  ASSUME TypeOK, StatusIsRecorded, NEW e \in Events, Moves(e) > 0
  PROVE  Exists(e.app)
<1>1. CASE e.status = "APPLIED"
  BY <1>1 DEF Moves
<1>2. CASE e.status # "APPLIED"
  <2> SUFFICES ASSUME ~ Exists(e.app) PROVE FALSE
    OBVIOUS
  <2>1. statusHistory[e.app] = << >>
    BY EventFields DEF StatusIsRecorded
  <2>2. MoveRows(e) = {}
    BY <2>1 DEF MoveRows
  <2>3. Moves(e) = 0
    BY <1>2, <2>2, MovesAreCounted, FS_EmptySet
  <2> QED BY <2>3
<1> QED BY <1>1, <1>2

(* What is underway has somebody to go to.                                 *)
LEMMA NotificationsAreAddressed ==
  ASSUME TypeOK, Safety, NtTypes, NtInv, NEW e \in Events,
         underway[e.app][e.status] > 0
  PROVE  [userId |-> Recipient(e), of |-> e, read |-> FALSE] \in NotificationRow
<1>1. Moves(e) > 0
  BY NotesAreCounted, MovesAreCounted, EventFields
     DEF NtInv, AnnouncedOncePerMove, Announced, NtTypes
<1>2. applications[e.app] \in ApplicationRow
  BY <1>1, MovedExists, EventFields DEF Safety, Exists, TypeOK
<1>3. Recipient(e) \in People
  BY <1>2, ReferencesAssumption DEF Recipient, People, ApplicationRow
<1> QED BY <1>3 DEF NotificationRow

(* The notifications leave the application component's state alone.        *)
LEMMA NtStepRefines ==
  ASSUME [NtNext]_ntVars
  PROVE  [Next]_vars
<1>1. ASSUME NEW r \in Requests, AppRequest(r) PROVE Next
  BY <1>1 DEF AppRequest, AppStep, Next
<1>2. ASSUME NEW r \in Requests, NtStep(r) PROVE [Next]_vars
  <2>1. CASE EmitToListener(r)
    BY <2>1 DEF EmitToListener, AppStep, Next
  <2>2. CASE ~ EmitToListener(r)
    BY <1>2, <2>2 DEF NtStep, MarkFind, MarkUpdate, MarkAll, NoteRequestFails
  <2> QED BY <2>1, <2>2
<1>3. ASSUME NEW e \in Events,
             NotificationLost(e) \/ \E n \in Notes : CreateNotification(e, n)
      PROVE  UNCHANGED vars
  BY <1>3 DEF NotificationLost, CreateNotification
<1> QED BY <1>1, <1>2, <1>3 DEF NtNext, Next, ntVars

LEMMA NtTypesInductive ==
  ASSUME TypeOK, Safety, NtTypes, NtInv, [NtNext]_ntVars
  PROVE  NtTypes'
<1> USE DEF NtTypes
<1>1. ASSUME UNCHANGED noteVars PROVE NtTypes'
  BY <1>1 DEF noteVars
<1>2. ASSUME NEW r \in Requests, EmitToListener(r) PROVE NtTypes'
  <2>1. req[r].app \in Ids /\ req[r].status \in ApplicationStatuses
    BY <1>2, RequestKinds DEF EmitToListener, EmitEvent, TypeOK, EmitReq
  <2> QED BY <1>2, <2>1 DEF EmitToListener, Dispatch
<1>3. ASSUME NEW e \in Events, NotificationLost(e) PROVE NtTypes'
  BY <1>3, EventFields DEF NotificationLost
<1>4. ASSUME NEW e \in Events, NEW n \in Notes, CreateNotification(e, n)
      PROVE  NtTypes'
  <2>1. [userId |-> Recipient(e), of |-> e, read |-> FALSE] \in NotificationRow
    BY <1>4, NotificationsAreAddressed DEF CreateNotification
  <2> QED BY <1>4, <2>1, EventFields DEF CreateNotification
<1>5. ASSUME NEW r \in Requests, NEW u \in People, NEW n \in Notes, MarkFind(r, u, n)
      PROVE  NtTypes'
  BY <1>5 DEF MarkFind
<1>6. ASSUME NEW r \in Requests, MarkUpdate(r) PROVE NtTypes'
  <2>1. PICK n \in Notes : n = noteReq[r].note
    BY <1>6 DEF MarkUpdate, Idle
  <2>2. notifications[n] \in NotificationRow
    BY <1>6, <2>1 DEF MarkUpdate, NtInv, MarksAreStored, Stored
  <2>3. [notifications[n] EXCEPT !.read = TRUE] \in NotificationRow
    BY <2>2 DEF NotificationRow
  <2> QED BY <1>6, <2>1, <2>3 DEF MarkUpdate
<1>7. ASSUME NEW r \in Requests, NEW u \in People, MarkAll(r, u) PROVE NtTypes'
  <2>1. \A n \in Notes : Stored(n) =>
          [notifications[n] EXCEPT !.read = TRUE] \in NotificationRow
    BY DEF NotificationRow, Stored
  <2> QED BY <1>7, <2>1 DEF MarkAll
<1>8. ASSUME NEW r \in Requests, NoteRequestFails(r) PROVE NtTypes'
  BY <1>8 DEF NoteRequestFails
<1> QED BY <1>1, <1>2, <1>3, <1>4, <1>5, <1>6, <1>7, <1>8
        DEF NtNext, NtStep, AppRequest, ntVars, noteVars

(* A step of the application component keeps the promise when every event  *)
(* it is about to announce comes of one more move.                         *)
LEMMA AppStepAnnounces ==
  ASSUME TypeOK, TypeOK', NtTypes, NtInv, UNCHANGED noteVars,
         \A e \in Events : Cardinality(Emitting(e)') - Cardinality(Emitting(e))
                             <= Moves(e)' - Moves(e)
  PROVE  NtInv'
<1>1. \A e \in Events : NotesOf(e)' = NotesOf(e)
  BY DEF NotesOf, Stored, noteVars
<1>2. ASSUME NEW e \in Events PROVE Announced(e)' <= Moves(e)'
  <2>1. underway' = underway /\ underway[e.app][e.status] \in Nat
    BY EventFields DEF noteVars, NtTypes
  <2>2. Cardinality(Emitting(e)) \in Nat /\ Cardinality(Emitting(e)') \in Nat
        /\ Cardinality(NotesOf(e)) \in Nat /\ Moves(e) \in Nat /\ Moves(e)' \in Nat
    <3>1. Cardinality({i \in 1..Len(statusHistory'[e.app]) :
                         statusHistory'[e.app][i].to = e.status}) \in Nat
      BY EventFields, RowsAreCounted DEF TypeOK
    <3>2. Moves(e)' \in Nat
      BY <3>1 DEF Moves
    <3> QED BY <3>2, NotesAreCounted, MovesAreCounted
  <2>3. Announced(e) <= Moves(e)
    BY DEF NtInv, AnnouncedOncePerMove
  <2> QED BY <1>1, <2>1, <2>2, <2>3 DEF Announced
<1>3. MarksAreStored'
  BY DEF NtInv, MarksAreStored, Stored, noteVars
<1> QED BY <1>2, <1>3 DEF NtInv, AnnouncedOncePerMove

LEMMA AppRequestAnnounces ==
  ASSUME TypeOK, TypeOK', Safety, NtTypes, NtInv,
         NEW r \in Requests, AppRequest(r)
  PROVE  NtInv'
<1>0. UNCHANGED noteVars
  BY DEF AppRequest
<1>1. CASE ApplySave(r)
  <2>1. PICK a \in Ids :
          /\ ~ Exists(a)
          /\ applications' = [applications EXCEPT ![a] =
               [userId |-> req[r].user, jobId |-> req[r].job,
                cvId |-> req[r].cv, status |-> "APPLIED"]]
          /\ req' = [req EXCEPT ![r] = [pc |-> "emit", app |-> a, status |-> "APPLIED"]]
    BY <1>1 DEF ApplySave
  <2> DEFINE q == [pc |-> "emit", app |-> a, status |-> "APPLIED"]
  <2>2. /\ req[r].pc = "applyChecked" /\ statusHistory' = statusHistory
    BY <1>1 DEF ApplySave
  <2>3. Exists(a)' /\ \A b \in Ids : b # a => Exists(b)' = Exists(b)
    <3>1. [userId |-> req[r].user, jobId |-> req[r].job,
           cvId |-> req[r].cv, status |-> "APPLIED"] \in ApplicationRow
      BY <2>2, RequestKinds DEF TypeOK, ApplicationRow, ApplyReq, ApplicationStatuses
    <3> QED BY <2>1, <3>1, NoRowAssumption DEF Exists, TypeOK
  <2>4. ASSUME NEW e \in Events
        PROVE  Cardinality(Emitting(e)') - Cardinality(Emitting(e)) <= Moves(e)' - Moves(e)
    <3>1. Cardinality(Emitting(e)) \in Nat /\ Cardinality(Emitting(e)') \in Nat
          /\ Moves(e) \in Nat
      BY NotesAreCounted, MovesAreCounted
    <3>2. CASE e.app = a /\ e.status = "APPLIED"
      <4>1. Moves(e) = 0 /\ Moves(e)' = 1
        BY <2>1, <2>3, <3>2 DEF Moves
      <4>2. Announces(q, e)
        BY <3>2 DEF Announces
      <4>3. Cardinality(Emitting(e)') <= Cardinality(Emitting(e)) + 1
        BY <2>1, <4>2, EmittingAfter
      <4> QED BY <3>1, <4>1, <4>3
    <3>3. CASE ~ (e.app = a /\ e.status = "APPLIED")
      <4>1. Moves(e)' = Moves(e)
        BY <2>2, <2>3, <3>3, EventFields DEF Moves
      <4>2. ~ Announces(q, e) /\ ~ Announces(req[r], e)
        BY <2>2, <3>3 DEF Announces
      <4>3. Cardinality(Emitting(e)') = Cardinality(Emitting(e)) - 0
        BY <2>1, <4>2, EmittingAfter
      <4> QED BY <3>1, <4>1, <4>3
    <3> QED BY <3>2, <3>3
  <2> QED BY <1>0, <2>4, AppStepAnnounces
<1>2. CASE StatusWrite(r)
  <2>1. PICK w \in WriteReq : w = req[r]
    BY <1>2, RequestKinds DEF TypeOK, StatusWrite
  <2> DEFINE h == [from |-> w.seen.status, to |-> w.to, changedById |-> w.by]
             q == IF w.pc = "moveWrite"
                  THEN [pc |-> "emit", app |-> w.app, status |-> w.to] ELSE Idle
  <2>2. /\ w.pc \in {"moveWrite", "withdrawWrite"}
        /\ applications' = [applications EXCEPT ![w.app] = ToPersistence(w.seen, w.to)]
        /\ statusHistory' = [statusHistory EXCEPT ![w.app] = Append(@, h)]
        /\ req' = [req EXCEPT ![r] = q]
    BY <1>2, <2>1 DEF StatusWrite, UpdateWithHistory
  <2>3. /\ w.app \in Ids /\ w.to \in ApplicationStatuses
        /\ w.seen \in ApplicationRow /\ h \in HistoryRow
    BY <2>1 DEF WriteReq, HistoryRow, ApplicationRow
  <2>4. w.to # "APPLIED"
    <3>1. HoldsThePast(w)
      BY <2>1 DEF Safety, RequestsHoldThePast
    <3> QED BY <2>2, <3>1 DEF HoldsThePast, LegalMove, CanTransition, ForwardTransitions
  <2>5. ToPersistence(w.seen, w.to) \in ApplicationRow
    BY <2>3 DEF ToPersistence, ApplicationRow
  <2>6. \A b \in Ids : Exists(b) => Exists(b)'
    BY <2>2, <2>5, NoRowAssumption DEF Exists, TypeOK
  <2> HIDE DEF q, h
  <2>7. h.to = w.to
    BY DEF h
  <2>8. ASSUME NEW e \in Events
        PROVE  Cardinality(Emitting(e)') - Cardinality(Emitting(e)) <= Moves(e)' - Moves(e)
    <3>1. Cardinality(Emitting(e)) \in Nat /\ Cardinality(Emitting(e)') \in Nat
          /\ Moves(e) \in Nat
      BY NotesAreCounted, MovesAreCounted
    <3>2. Moves(e)' >= Moves(e) + IF e.app = w.app /\ e.status = w.to THEN 1 ELSE 0
      BY <2>2, <2>3, <2>4, <2>6, <2>7, AppendIsAMove
    <3>3. ~ Announces(req[r], e)
      BY <2>1, <2>2 DEF Announces
    <3>4. Announces(q, e) => e.app = w.app /\ e.status = w.to
      BY DEF Announces, q, Idle
    <3>5. /\ Announces(q, e) => Cardinality(Emitting(e)') <= Cardinality(Emitting(e)) + 1
          /\ ~ Announces(q, e) => Cardinality(Emitting(e)') = Cardinality(Emitting(e)) - 0
      BY <2>2, <3>3, EmittingAfter
    <3>6. Moves(e)' \in Int
      <4>1. Cardinality({i \in 1..Len(statusHistory'[e.app]) :
                           statusHistory'[e.app][i].to = e.status}) \in Nat
        BY EventFields, RowsAreCounted DEF TypeOK
      <4> QED BY <4>1 DEF Moves
    <3> QED BY <3>1, <3>2, <3>4, <3>5, <3>6
  <2> QED BY <1>0, <2>8, AppStepAnnounces
<1>3. CASE ~ ApplySave(r) /\ ~ StatusWrite(r)
  <2>1. /\ UNCHANGED <<applications, statusHistory>>
        /\ \E q : q.pc # "emit" /\ req' = [req EXCEPT ![r] = q]
    <3>1. CASE \/ \E u \in Candidates, j \in Jobs, c \in Cvs : ApplyLookups(r, u, j, c)
               \/ \E by \in Recruiters, a \in Ids, to \in Targets : MoveRead(r, by, a, to)
               \/ \E a \in Ids : WithdrawRead(r, a)
      BY <3>1 DEF ApplyLookups, MoveRead, WithdrawRead
    <3>2. CASE ApplySaveRefused(r) \/ RequestFails(r)
      BY <3>2 DEF ApplySaveRefused, RequestFails, Idle
    <3>3. CASE ApplyCheckExisting(r)
      <4>1. req[r] \in ApplyReq
        BY <3>3, RequestKinds DEF TypeOK, ApplyCheckExisting
      <4>2. [req[r] EXCEPT !.pc = "applyChecked"].pc # "emit" /\ Idle.pc # "emit"
        BY <4>1 DEF ApplyReq, Idle
      <4> QED BY <3>3, <4>2 DEF ApplyCheckExisting
    <3>4. CASE MoveCheck(r)
      <4>1. req[r] \in MoveReq
        BY <3>4, RequestKinds DEF TypeOK, MoveCheck
      <4>2. [req[r] EXCEPT !.pc = "moveWrite"].pc # "emit" /\ Idle.pc # "emit"
        BY <4>1 DEF MoveReq, Idle
      <4> QED BY <3>4, <4>2 DEF MoveCheck
    <3> QED BY <1>3, <3>1, <3>2, <3>3, <3>4 DEF AppRequest, AppStep, EmitEvent
  <2>2. PICK q : q.pc # "emit" /\ req' = [req EXCEPT ![r] = q]
    BY <2>1
  <2>3. ASSUME NEW e \in Events
        PROVE  Cardinality(Emitting(e)') - Cardinality(Emitting(e)) <= Moves(e)' - Moves(e)
    <3>1. Cardinality(Emitting(e)) \in Nat /\ Cardinality(Emitting(e)') \in Nat
          /\ Moves(e) \in Nat /\ Moves(e)' = Moves(e)
      BY <2>1, NotesAreCounted, MovesAreCounted DEF Moves, Exists
    <3>2. ~ Announces(q, e)
      BY <2>2 DEF Announces
    <3>3. Cardinality(Emitting(e)')
            = Cardinality(Emitting(e)) - IF Announces(req[r], e) THEN 1 ELSE 0
      BY <2>2, <3>2, EmittingAfter
    <3> QED BY <3>1, <3>3
  <2> QED BY <1>0, <2>3, AppStepAnnounces
<1> QED BY <1>1, <1>2, <1>3

LEMMA OthersAnnounce ==
  ASSUME TypeOK, TypeOK', NtTypes, NtInv, UNCHANGED noteVars,
         \/ \E j \in Jobs : JobChanges(j)
         \/ \E c \in Cvs, s \in CvStates : CvChanges(c, s)
  PROVE  NtInv'
<1>1. /\ UNCHANGED <<statusHistory, req>>
      /\ \A a \in Ids : Exists(a)' = Exists(a)
  <2>1. ASSUME NEW j \in Jobs, JobChanges(j)
        PROVE  UNCHANGED <<applications, statusHistory, req>>
    BY <2>1 DEF JobChanges, appVars
  <2>2. ASSUME NEW c \in Cvs, NEW s \in CvStates, CvChanges(c, s)
        PROVE  /\ UNCHANGED <<statusHistory, req>>
               /\ \A a \in Ids : Exists(a)' <=> Exists(a)
    <3>1. \A a \in Ids : Exists(a) =>
            [applications[a] EXCEPT !.cvId = NoCv] \in ApplicationRow
      BY DEF TypeOK, Exists, ApplicationRow
    <3> QED BY <2>2, <3>1, NoRowAssumption DEF CvChanges, SetNull, Exists, TypeOK
  <2> QED BY <2>1, <2>2 DEF Exists
<1>2. ASSUME NEW e \in Events
      PROVE  Cardinality(Emitting(e)') - Cardinality(Emitting(e)) <= Moves(e)' - Moves(e)
  <2>1. Emitting(e)' = Emitting(e) /\ Moves(e)' = Moves(e)
    BY <1>1, EventFields DEF Emitting, Announces, Moves
  <2> QED BY <2>1, NotesAreCounted, MovesAreCounted
<1> QED BY <1>2, AppStepAnnounces

(* A listener takes an announcement over from its request.                 *)
LEMMA EmitAnnounces ==
  ASSUME TypeOK, NtTypes, NtInv, NEW r \in Requests, EmitToListener(r)
  PROVE  NtInv'
<1>1. /\ req[r].pc = "emit" /\ req' = [req EXCEPT ![r] = Idle]
      /\ UNCHANGED <<applications, statusHistory, notifications, noteReq>>
      /\ underway' = [underway EXCEPT ![req[r].app][req[r].status] = @ + 1]
  BY DEF EmitToListener, EmitEvent, Dispatch
<1>2. req[r].app \in Ids /\ req[r].status \in ApplicationStatuses
  BY <1>1, RequestKinds DEF TypeOK, EmitReq
<1>3. ASSUME NEW e \in Events PROVE Announced(e)' <= Moves(e)'
  <2>1. Moves(e)' = Moves(e) /\ NotesOf(e)' = NotesOf(e)
    BY <1>1 DEF Moves, Exists, NotesOf, Stored
  <2>2. ~ Announces(Idle, e)
    BY DEF Announces, Idle
  <2>3. Cardinality(Emitting(e)')
          = Cardinality(Emitting(e)) - IF Announces(req[r], e) THEN 1 ELSE 0
    BY <1>1, <2>2, EmittingAfter
  <2>4. /\ underway[e.app][e.status] \in Nat
        /\ underway'[e.app][e.status]
             = underway[e.app][e.status] + IF Announces(req[r], e) THEN 1 ELSE 0
    BY <1>1, <1>2, EventFields DEF NtTypes, Announces
  <2>5. Announced(e) <= Moves(e)
    BY DEF NtInv, AnnouncedOncePerMove
  <2> QED BY <2>1, <2>3, <2>4, <2>5, NotesAreCounted, MovesAreCounted DEF Announced
<1>4. MarksAreStored'
  BY <1>1 DEF NtInv, MarksAreStored, Stored
<1> QED BY <1>3, <1>4 DEF NtInv, AnnouncedOncePerMove

(* A listener stores the notification it has underway, or loses it.        *)
LEMMA ListenersAnnounce ==
  ASSUME TypeOK, Safety, NtTypes, NtInv, NEW d \in Events,
         NotificationLost(d) \/ \E n \in Notes : CreateNotification(d, n)
  PROVE  NtInv'
<1>1. /\ UNCHANGED vars /\ noteReq' = noteReq /\ underway[d.app][d.status] > 0
      /\ underway' = [underway EXCEPT ![d.app][d.status] = @ - 1]
  BY DEF NotificationLost, CreateNotification
<1>2. /\ \/ notifications' = notifications
         \/ \E n \in Notes :
              /\ ~ Stored(n) /\ notifications'[n].of = d
              /\ notifications'[n] # NoRow
              /\ \A m \in Notes : m # n => notifications'[m] = notifications[m]
  <2>1. ASSUME NEW n \in Notes, CreateNotification(d, n)
        PROVE  /\ ~ Stored(n) /\ notifications'[n].of = d
               /\ notifications'[n] # NoRow
               /\ \A m \in Notes : m # n => notifications'[m] = notifications[m]
    <3>1. notifications'[n] = [userId |-> Recipient(d), of |-> d, read |-> FALSE]
          /\ \A m \in Notes : m # n => notifications'[m] = notifications[m]
      BY <2>1 DEF CreateNotification, NtTypes
    <3>2. notifications'[n] # NoRow
      BY <2>1, <3>1, NotificationsAreAddressed, NotificationsAssumption
         DEF CreateNotification
    <3> QED BY <2>1, <3>1, <3>2 DEF CreateNotification
  <2> QED BY <2>1 DEF NotificationLost
<1>3. ASSUME NEW e \in Events PROVE Announced(e)' <= Moves(e)'
  <2>1. Moves(e)' = Moves(e) /\ Emitting(e)' = Emitting(e)
    BY <1>1 DEF vars, Moves, Exists, Emitting
  <2>2. Cardinality(NotesOf(e)')
          <= Cardinality(NotesOf(e)) + IF e = d THEN 1 ELSE 0
    <3>1. CASE notifications' = notifications
      <4>1. NotesOf(e)' = NotesOf(e) /\ Cardinality(NotesOf(e)) \in Nat
        BY <3>1, NotesAreCounted DEF NotesOf, Stored
      <4> QED BY <4>1
    <3>2. ASSUME NEW n \in Notes, ~ Stored(n), notifications'[n].of = d,
                 notifications'[n] # NoRow,
                 \A m \in Notes : m # n => notifications'[m] = notifications[m]
          PROVE  Cardinality(NotesOf(e)')
                   <= Cardinality(NotesOf(e)) + IF e = d THEN 1 ELSE 0
      <4>1. NotesOf(e)' = IF e = d THEN NotesOf(e) \cup {n} ELSE NotesOf(e)
        BY <3>2 DEF NotesOf, Stored
      <4>2. IsFiniteSet(NotesOf(e)) /\ Cardinality(NotesOf(e)) \in Nat
        BY NotesAreCounted
      <4>3. Cardinality(NotesOf(e) \cup {n}) =
              IF n \in NotesOf(e) THEN Cardinality(NotesOf(e))
              ELSE Cardinality(NotesOf(e)) + 1
        BY <4>2, FS_AddElement
      <4> QED BY <4>1, <4>2, <4>3
    <3> QED BY <1>2, <3>1, <3>2
  <2>3. e = d <=> e.app = d.app /\ e.status = d.status
    BY DEF Events
  <2>4. /\ underway[e.app][e.status] \in Nat
        /\ underway'[e.app][e.status]
             = underway[e.app][e.status] - IF e = d THEN 1 ELSE 0
    BY <1>1, <2>3, EventFields DEF NtTypes
  <2>5. Announced(e) <= Moves(e)
    BY DEF NtInv, AnnouncedOncePerMove
  <2> QED BY <2>1, <2>2, <2>4, <2>5, NotesAreCounted, MovesAreCounted DEF Announced
<1>4. MarksAreStored'
  <2>1. \A n \in Notes : Stored(n) => Stored(n)'
    BY <1>2 DEF Stored
  <2>2. \A r \in Requests : noteReq[r].pc = "mark" => noteReq[r].note \in Notes
    BY DEF NtTypes, Idle
  <2> QED BY <1>1, <2>1, <2>2 DEF NtInv, MarksAreStored, Stored
<1> QED BY <1>3, <1>4 DEF NtInv, AnnouncedOncePerMove

(* Marking as read moves and renames no notification.                      *)
LEMMA MarksAnnounce ==
  ASSUME TypeOK, NtTypes, NtInv, NEW r \in Requests,
         \/ \E u \in People, n \in Notes : MarkFind(r, u, n)
         \/ MarkUpdate(r)
         \/ \E u \in People : MarkAll(r, u)
         \/ NoteRequestFails(r)
  PROVE  NtInv'
<1>1. UNCHANGED vars /\ underway' = underway
  BY DEF MarkFind, MarkUpdate, MarkAll, NoteRequestFails
<1>2. \A n \in Notes : /\ Stored(n)' <=> Stored(n)
                       /\ Stored(n) => notifications'[n].of = notifications[n].of
  <2>1. \A n \in Notes : Stored(n) =>
          /\ [notifications[n] EXCEPT !.read = TRUE] \in NotificationRow
          /\ [notifications[n] EXCEPT !.read = TRUE].of = notifications[n].of
    BY DEF NtTypes, Stored, NotificationRow
  <2>2. CASE MarkUpdate(r)
    <3>1. PICK n \in Notes : n = noteReq[r].note /\ Stored(n)
      BY <2>2 DEF MarkUpdate, NtTypes, Idle, NtInv, MarksAreStored
    <3>2. notifications' = [notifications EXCEPT ![n].read = TRUE]
      BY <2>2, <3>1 DEF MarkUpdate
    <3> QED BY <2>1, <3>1, <3>2, NotificationsAssumption DEF NtTypes, Stored
  <2>3. ASSUME NEW u \in People, MarkAll(r, u)
        PROVE  \A n \in Notes :
                 /\ Stored(n)' <=> Stored(n)
                 /\ Stored(n) => notifications'[n].of = notifications[n].of
    BY <2>1, <2>3, NotificationsAssumption DEF MarkAll, Stored
  <2>4. CASE notifications' = notifications
    BY <2>4 DEF Stored
  <2> QED BY <2>2, <2>3, <2>4 DEF MarkFind, NoteRequestFails
<1>3. \A e \in Events : NotesOf(e)' = NotesOf(e)
  BY <1>2 DEF NotesOf
<1>4. \A e \in Events : Announced(e)' = Announced(e) /\ Moves(e)' = Moves(e)
  BY <1>1, <1>3 DEF vars, Announced, Moves, Exists, Emitting
<1>5. MarksAreStored'
  <2>1. \A s \in Requests :
          \/ noteReq'[s] = noteReq[s] \/ noteReq'[s] = Idle
          \/ \E n \in Notes : noteReq'[s] = [pc |-> "mark", note |-> n] /\ Stored(n)
    BY DEF MarkFind, MarkUpdate, MarkAll, NoteRequestFails, NtTypes
  <2>2. \A s \in Requests : noteReq[s].pc = "mark" => noteReq[s].note \in Notes
    BY DEF NtTypes, Idle
  <2>3. ASSUME NEW s \in Requests, noteReq'[s].pc = "mark"
        PROVE  noteReq'[s].note \in Notes /\ Stored(noteReq'[s].note)
    <3>1. CASE noteReq'[s] = noteReq[s]
      BY <2>2, <2>3, <3>1 DEF NtInv, MarksAreStored
    <3>2. CASE \E n \in Notes : noteReq'[s] = [pc |-> "mark", note |-> n] /\ Stored(n)
      BY <3>2
    <3>3. noteReq'[s] # Idle
      BY <2>3 DEF Idle
    <3> QED BY <2>1, <3>1, <3>2, <3>3
  <2> QED BY <1>2, <2>3 DEF MarksAreStored, Stored
<1> QED BY <1>4, <1>5 DEF NtInv, AnnouncedOncePerMove

LEMMA NtInductive ==
  ASSUME TypeOK, TypeOK', Safety, NtTypes, NtInv, [NtNext]_ntVars
  PROVE  NtInv'
<1>1. CASE UNCHANGED ntVars
  BY <1>1 DEF ntVars, noteVars, vars, NtInv, AnnouncedOncePerMove, Announced,
     NotesOf, Stored, Emitting, Moves, Exists, MarksAreStored
<1>2. ASSUME NEW r \in Requests, NtStep(r) PROVE NtInv'
  BY <1>2, EmitAnnounces, MarksAnnounce DEF NtStep
<1> QED BY <1>1, <1>2, AppRequestAnnounces, ListenersAnnounce, OthersAnnounce
        DEF NtNext

(* Composed with its listeners, the application component keeps every      *)
(* promise proved of it alone.                                             *)
THEOREM NtRefinement == NtSpec => Spec
<1>1. NtInit => Init
  BY DEF NtInit
<1>2. [NtNext]_ntVars => [Next]_vars
  BY NtStepRefines
<1> QED BY <1>1, <1>2, PTL DEF NtSpec, Spec

LEMMA NtInvariant == NtSpec => [](TypeOK /\ Safety /\ NtTypes /\ NtInv)
<1>1. NtInit => NtTypes /\ NtInv
  <2> SUFFICES ASSUME NtInit PROVE NtTypes /\ NtInv
    OBVIOUS
  <2>1. NtTypes
    BY DEF NtInit, NtTypes
  <2>2. MarksAreStored
    BY DEF NtInit, MarksAreStored, Idle
  <2>3. ASSUME NEW e \in Events PROVE Announced(e) <= Moves(e)
    <3>1. NotesOf(e) = {} /\ Emitting(e) = {}
      BY DEF NtInit, Init, NotesOf, Stored, Emitting, Announces, Idle
    <3>2. underway[e.app][e.status] = 0
      BY EventFields DEF NtInit
    <3>3. TypeOK
      BY DEF NtInit, Init, TypeOK, JobStates, CvStates, RequestStates
    <3>4. Moves(e) \in Nat
      BY <3>3, MovesAreCounted
    <3> QED BY <3>1, <3>2, <3>4, FS_EmptySet DEF Announced
  <2> QED BY <2>1, <2>2, <2>3 DEF NtInv, AnnouncedOncePerMove
<1>2. /\ TypeOK /\ TypeOK' /\ Safety /\ NtTypes /\ NtInv /\ [NtNext]_ntVars
        => NtTypes' /\ NtInv'
  BY NtTypesInductive, NtInductive
<1>3. NtSpec => [](TypeOK /\ Safety)
  BY NtRefinement, TypeCorrect, SafetyHolds, PTL
<1> QED BY <1>1, <1>2, <1>3, PTL DEF NtSpec

(* Rows, listeners and mark requests hold what they are said to hold: a    *)
(* listener always finds the application it is to tell of.                 *)
THEOREM NtTypeCorrect == NtSpec => []NtTypeOK
<1>1. TypeOK /\ NtTypes => NtTypeOK
  BY DEF NtTypes, NtTypeOK
<1> QED BY <1>1, NtInvariant, PTL

(* However requests interleave and whatever fails, nobody is notified of   *)
(* a committed move more than once.                                        *)
THEOREM OneNotificationPerMove == NtSpec => []NotifiedOncePerMove
<1>1. TypeOK /\ NtTypes /\ NtInv => NotifiedOncePerMove
  BY NotesAreCounted, MovesAreCounted, EventFields
     DEF NtInv, AnnouncedOncePerMove, Announced, NotifiedOncePerMove, NtTypes
<1> QED BY <1>1, NtInvariant, PTL
=============================================================================
