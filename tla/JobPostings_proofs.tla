-------------------------- MODULE JobPostings_proofs --------------------------
(***************************************************************************)
(* Proofs about Companies, for any number of recruiters, companies, slugs  *)
(* and requests in flight, and about JobPostings, which extends it: types, *)
(* the foreign keys of the taxonomy, the view counter, and no deleted      *)
(* posting that is open.                                                   *)
(***************************************************************************)
EXTENDS JobPostings, TLAPS

(* The pc of a slot tells what it holds.                                   *)
LEMMA CompanyRequestKinds ==
  ASSUME CoTypeOK, NEW r \in Requests
  PROVE  /\ coReq[r].pc \in {"createChecked", "createNamed", "refused"}
              => coReq[r].by \in Recruiters
         /\ coReq[r].pc = "createNamed" => coReq[r].slug \in Slugs
         /\ coReq[r].pc = "write"
              => coReq[r].company \in Companies /\ coReq[r].row \in CompanyRow
BY DEF CoTypeOK, CompanyReq, Idle

LEMMA CoTypesInductive ==
  ASSUME CoTypeOK, [CoNext]_coVars
  PROVE  CoTypeOK'
<1> USE DEF CoTypeOK
<1>1. CASE UNCHANGED coVars
  BY <1>1 DEF coVars
<1>2. ASSUME NEW r \in Requests, NEW by \in Recruiters, CreateCheckOwner(r, by)
      PROVE  CoTypeOK'
  BY <1>2 DEF CreateCheckOwner, CompanyReq
<1>3. ASSUME NEW r \in Requests, NEW by \in Recruiters, NEW c \in Companies,
             NEW deleted \in BOOLEAN, ReadForWrite(r, c, by, deleted)
      PROVE  CoTypeOK'
  <2>1. companies[c] \in CompanyRow
    BY <1>3 DEF ReadForWrite, Found, Active, Founded
  <2>2. [companies[c] EXCEPT !.deleted = deleted] \in CompanyRow
    BY <2>1 DEF CompanyRow
  <2>3. [pc |-> "write", company |-> c,
         row |-> [companies[c] EXCEPT !.deleted = deleted]] \in CompanyReq
    BY <2>2 DEF CompanyReq
  <2> QED BY <1>3, <2>3 DEF ReadForWrite
<1>4. ASSUME NEW r \in Requests, NEW s \in Slugs, CreatePickSlug(r, s)
      PROVE  CoTypeOK'
  <2>1. coReq[r].by \in Recruiters
    BY <1>4, CompanyRequestKinds DEF CreatePickSlug
  <2> QED BY <1>4, <2>1 DEF CreatePickSlug, CompanyReq
<1>5. ASSUME NEW r \in Requests, NEW c \in Companies, CreateSave(r, c)
      PROVE  CoTypeOK'
  <2>1. coReq[r].by \in Recruiters /\ coReq[r].slug \in Slugs
    BY <1>5, CompanyRequestKinds DEF CreateSave
  <2>2. [owner |-> coReq[r].by, slug |-> coReq[r].slug, deleted |-> FALSE]
          \in CompanyRow
    BY <2>1 DEF CompanyRow
  <2> QED BY <1>5, <2>2 DEF CreateSave, CompanyReq
<1>6. ASSUME NEW r \in Requests, CreateSaveRefused(r) PROVE CoTypeOK'
  <2>1. coReq[r].by \in Recruiters
    BY <1>6, CompanyRequestKinds DEF CreateSaveRefused
  <2> QED BY <1>6, <2>1 DEF CreateSaveRefused, CompanyReq, Reason
<1>7. ASSUME NEW r \in Requests, CreateAnswerRefusal(r) \/ CoRequestFails(r)
      PROVE  CoTypeOK'
  BY <1>7 DEF CreateAnswerRefusal, CoRequestFails, CompanyReq
<1>8. ASSUME NEW r \in Requests, CompanyWrite(r) PROVE CoTypeOK'
  <2>1. coReq[r].row \in CompanyRow
    BY <1>8, CompanyRequestKinds DEF CompanyWrite
  <2> QED BY <1>8, <2>1 DEF CompanyWrite, CompanyReq
<1> QED
  BY <1>1, <1>2, <1>3, <1>4, <1>5, <1>6, <1>7, <1>8
     DEF CoNext, CoStart, CoContinue, UpdateCompany, DeleteCompany

(* Every state is well typed.                                              *)
THEOREM CoTypeCorrect == CoSpec => []CoTypeOK
<1>1. CoInit => CoTypeOK
  BY DEF CoInit, CoTypeOK, CompanyReq
<1>2. CoTypeOK /\ [CoNext]_coVars => CoTypeOK'
  BY CoTypesInductive
<1> QED BY <1>1, <1>2, PTL DEF CoSpec

-----------------------------------------------------------------------------
(* A write in flight belongs to the company it names: the owner it read is *)
(* still the owner.  With it the other two invariants are inductive.       *)
WritesKnowTheOwner ==
  \A r \in Requests : coReq[r].pc = "write" =>
    /\ Founded(coReq[r].company)
    /\ coReq[r].row.owner = companies[coReq[r].company].owner

CoSafety == OneActiveCompanyPerOwner /\ OwnerIsLinked /\ WritesKnowTheOwner

LEMMA CoReadsKeepSafety ==
  ASSUME CoTypeOK, CoSafety, UNCHANGED <<companies, linkedTo>>,
         NEW r \in Requests, NEW q, coReq' = [coReq EXCEPT ![r] = q],
         q.pc = "write" => /\ Founded(q.company)
                           /\ q.row.owner = companies[q.company].owner
  PROVE  CoSafety'
<1>1. OneActiveCompanyPerOwner' /\ OwnerIsLinked'
  BY DEF CoSafety, OneActiveCompanyPerOwner, OwnerIsLinked, Active, Founded
<1>2. \A s \in Requests : coReq'[s] = q \/ coReq'[s] = coReq[s]
  BY DEF CoTypeOK
<1>3. WritesKnowTheOwner'
  BY <1>2 DEF CoSafety, WritesKnowTheOwner, Founded
<1> QED BY <1>1, <1>3 DEF CoSafety

LEMMA CreateKeepsSafety ==
  ASSUME CoTypeOK, CoSafety, NEW r \in Requests, NEW c \in Companies,
         CreateSave(r, c)
  PROVE  CoSafety'
<1>1. PICK u \in Recruiters : u = coReq[r].by
  BY CompanyRequestKinds DEF CreateSave
<1>2. PICK row \in CompanyRow :
        row = [owner |-> u, slug |-> coReq[r].slug, deleted |-> FALSE]
  BY <1>1, CompanyRequestKinds DEF CreateSave, CompanyRow
<1>3. row.owner = u /\ ~ row.deleted /\ row # NoRow
  BY <1>2, NoCompanyRowAssumption
<1>4. /\ ~ Founded(c) /\ OwnerHasNoOther(c, u)
      /\ companies'[c] = row
      /\ \A d \in Companies \ {c} : companies'[d] = companies[d]
      /\ linkedTo'[u] = c
      /\ \A v \in Recruiters \ {u} : linkedTo'[v] = linkedTo[v]
  BY <1>1, <1>2 DEF CreateSave, CoTypeOK
<1>5. OneActiveCompanyPerOwner'
  BY <1>3, <1>4
     DEF CoSafety, OneActiveCompanyPerOwner, OwnerHasNoOther, Active, Founded
<1>6. OwnerIsLinked'
  <2> SUFFICES ASSUME NEW d \in Companies, companies'[d] # NoRow
               PROVE  /\ linkedTo'[companies'[d].owner] # NoCompany
                      /\ companies'[linkedTo'[companies'[d].owner]] # NoRow
                      /\ companies'[linkedTo'[companies'[d].owner]].owner = companies'[d].owner
    BY DEF OwnerIsLinked, Founded
  <2>1. CASE companies'[d].owner = u
    BY <1>3, <1>4, <2>1, NoCompanyAssumption
  <2>2. CASE companies'[d].owner # u
    <3>1. d # c /\ companies'[d] = companies[d]
      BY <1>3, <1>4, <2>2
    <3>2. PICK v \in Recruiters : v = companies[d].owner /\ v # u
      BY <2>2, <3>1 DEF CoTypeOK, CompanyRow
    <3>3. /\ linkedTo[v] # NoCompany /\ Founded(linkedTo[v])
          /\ companies[linkedTo[v]].owner = v
      BY <3>1, <3>2 DEF CoSafety, OwnerIsLinked, Founded
    <3>4. linkedTo'[v] = linkedTo[v] /\ linkedTo[v] \in Companies \ {c}
      BY <1>4, <3>2, <3>3 DEF CoTypeOK
    <3> QED BY <1>4, <3>1, <3>2, <3>3, <3>4 DEF Founded
  <2> QED BY <2>1, <2>2
<1>7. \A s \in Requests : coReq'[s] = Idle \/ coReq'[s] = coReq[s]
  BY DEF CreateSave, CoTypeOK
<1>8. WritesKnowTheOwner'
  <2> SUFFICES ASSUME NEW s \in Requests, coReq'[s].pc = "write"
               PROVE  /\ companies'[coReq'[s].company] # NoRow
                      /\ coReq'[s].row.owner = companies'[coReq'[s].company].owner
    BY DEF WritesKnowTheOwner, Founded
  <2>1. coReq'[s] = coReq[s]
    BY <1>7 DEF Idle
  <2>2. /\ coReq[s].company \in Companies /\ Founded(coReq[s].company)
        /\ coReq[s].row.owner = companies[coReq[s].company].owner
    BY <2>1, CompanyRequestKinds DEF CoSafety, WritesKnowTheOwner
  <2> QED BY <1>4, <2>1, <2>2 DEF Founded
<1> QED BY <1>5, <1>6, <1>8 DEF CoSafety

LEMMA WriteKeepsCompanies ==
  ASSUME CoTypeOK, CoSafety, NEW r \in Requests, CompanyWrite(r)
  PROVE  CoSafety'
<1>1. PICK c \in Companies : c = coReq[r].company
  BY CompanyRequestKinds DEF CompanyWrite
<1>2. PICK row \in CompanyRow : row = coReq[r].row
  BY CompanyRequestKinds DEF CompanyWrite
<1>3. /\ Founded(c) /\ row.owner = companies[c].owner /\ row # NoRow
      /\ row.deleted \/ OwnerHasNoOther(c, row.owner)
      /\ companies'[c] = row /\ linkedTo' = linkedTo
      /\ \A d \in Companies \ {c} : companies'[d] = companies[d]
  BY <1>1, <1>2, NoCompanyRowAssumption
     DEF CompanyWrite, CoTypeOK, CoSafety, WritesKnowTheOwner
<1>4. OneActiveCompanyPerOwner'
  BY <1>3 DEF CoSafety, OneActiveCompanyPerOwner, OwnerHasNoOther, Active, Founded
<1>5. \A d \in Companies : /\ companies'[d] # NoRow <=> companies[d] # NoRow
                           /\ companies'[d].owner = companies[d].owner
  BY <1>3 DEF Founded
<1>6. OwnerIsLinked'
  <2> SUFFICES ASSUME NEW d \in Companies, companies'[d] # NoRow
               PROVE  /\ linkedTo'[companies'[d].owner] # NoCompany
                      /\ companies'[linkedTo'[companies'[d].owner]] # NoRow
                      /\ companies'[linkedTo'[companies'[d].owner]].owner = companies'[d].owner
    BY DEF OwnerIsLinked, Founded
  <2>1. PICK v \in Recruiters : v = companies[d].owner
    BY <1>5 DEF CoTypeOK, CompanyRow
  <2>2. /\ linkedTo[v] # NoCompany /\ Founded(linkedTo[v])
        /\ companies[linkedTo[v]].owner = v
    BY <1>5, <2>1 DEF CoSafety, OwnerIsLinked, Founded
  <2>3. linkedTo[v] \in Companies
    BY <2>2 DEF CoTypeOK
  <2> QED BY <1>3, <1>5, <2>1, <2>2, <2>3 DEF Founded
<1>7. WritesKnowTheOwner'
  <2> SUFFICES ASSUME NEW s \in Requests, coReq'[s].pc = "write"
               PROVE  /\ companies'[coReq'[s].company] # NoRow
                      /\ coReq'[s].row.owner = companies'[coReq'[s].company].owner
    BY DEF WritesKnowTheOwner, Founded
  <2>1. coReq'[s] = coReq[s]
    BY DEF CompanyWrite, CoTypeOK, Idle
  <2>2. /\ coReq[s].company \in Companies /\ Founded(coReq[s].company)
        /\ coReq[s].row.owner = companies[coReq[s].company].owner
    BY <2>1, CompanyRequestKinds DEF CoSafety, WritesKnowTheOwner
  <2> QED BY <1>5, <2>1, <2>2 DEF Founded
<1> QED BY <1>4, <1>6, <1>7 DEF CoSafety

LEMMA CoSafetyInductive ==
  ASSUME CoTypeOK, CoSafety, [CoNext]_coVars
  PROVE  CoSafety'
<1>1. CASE UNCHANGED coVars
  BY <1>1 DEF CoSafety, OneActiveCompanyPerOwner, OwnerIsLinked,
     WritesKnowTheOwner, Active, Founded, coVars
<1>2. ASSUME NEW r \in Requests, NEW by \in Recruiters, CreateCheckOwner(r, by)
      PROVE  CoSafety'
  <2> DEFINE q == IF OwnsActive(by)
                  THEN [pc |-> "refused", by |-> by, why |-> "alreadyExists"]
                  ELSE [pc |-> "createChecked", by |-> by]
  <2>1. coReq' = [coReq EXCEPT ![r] = q] /\ q.pc # "write"
    BY <1>2 DEF CreateCheckOwner
  <2> HIDE DEF q
  <2> QED BY <1>2, <2>1, CoReadsKeepSafety DEF CreateCheckOwner
<1>3. ASSUME NEW r \in Requests, NEW by \in Recruiters, NEW c \in Companies,
             NEW deleted \in BOOLEAN, ReadForWrite(r, c, by, deleted)
      PROVE  CoSafety'
  <2> DEFINE q == [pc |-> "write", company |-> c,
                   row |-> [companies[c] EXCEPT !.deleted = deleted]]
  <2>1. companies[c] \in CompanyRow /\ Founded(c)
    BY <1>3 DEF CoTypeOK, ReadForWrite, Found, Active, Founded
  <2>2. [companies[c] EXCEPT !.deleted = deleted].owner = companies[c].owner
    BY <2>1 DEF CompanyRow
  <2>3. /\ coReq' = [coReq EXCEPT ![r] = q]
        /\ Founded(q.company) /\ q.row.owner = companies[q.company].owner
    BY <1>3, <2>1, <2>2 DEF ReadForWrite
  <2> HIDE DEF q
  <2> QED BY <1>3, <2>3, CoReadsKeepSafety DEF ReadForWrite
<1>4. ASSUME NEW r \in Requests, NEW s \in Slugs, CreatePickSlug(r, s)
      PROVE  CoSafety'
  BY <1>4, CoReadsKeepSafety DEF CreatePickSlug
<1>5. ASSUME NEW r \in Requests, CreateSaveRefused(r) PROVE CoSafety'
  <2>1. PICK index : coReq' = [coReq EXCEPT ![r] =
          [pc |-> "refused", by |-> coReq[r].by, why |-> Reason(index)]]
    BY <1>5 DEF CreateSaveRefused
  <2> QED BY <1>5, <2>1, CoReadsKeepSafety DEF CreateSaveRefused
<1>6. ASSUME NEW r \in Requests, CreateAnswerRefusal(r) \/ CoRequestFails(r)
      PROVE  CoSafety'
  <2>1. Idle.pc # "write"
    BY DEF Idle
  <2> QED BY <1>6, <2>1, CoReadsKeepSafety DEF CreateAnswerRefusal, CoRequestFails
<1> QED
  BY <1>1, <1>2, <1>3, <1>4, <1>5, <1>6, CreateKeepsSafety, WriteKeepsCompanies
     DEF CoNext, CoStart, CoContinue, UpdateCompany, DeleteCompany

LEMMA CoInvariant == CoSpec => [](CoTypeOK /\ CoSafety)
<1>1. CoInit => CoTypeOK /\ CoSafety
  BY DEF CoInit, CoTypeOK, CompanyReq, CoSafety, OneActiveCompanyPerOwner,
     OwnerIsLinked, WritesKnowTheOwner, Active, Founded, Idle
<1>2. CoTypeOK /\ CoSafety /\ [CoNext]_coVars => (CoTypeOK /\ CoSafety)'
  BY CoTypesInductive, CoSafetyInductive
<1> QED BY <1>1, <1>2, PTL DEF CoSpec

(* The partial index is enough: no recruiter ever has two active           *)
(* companies, whichever requests overlap.                                  *)
THEOREM OneCompany == CoSpec => []OneActiveCompanyPerOwner
<1>1. CoSafety => OneActiveCompanyPerOwner
  BY DEF CoSafety
<1> QED BY <1>1, CoInvariant, PTL

(* createWithOwnerLink leaves no owner without a company of theirs in      *)
(* User.companyId.                                                         *)
THEOREM OwnersAreLinked == CoSpec => []OwnerIsLinked
<1>1. CoSafety => OwnerIsLinked
  BY DEF CoSafety
<1> QED BY <1>1, CoInvariant, PTL

(* Nobody is told that they own a company who does not.                    *)
THEOREM RefusalsAreTrue == CoSpec => AlreadyExistsIsTrue
<1>1. ASSUME CoTypeOK, [CoNext]_coVars, NEW r \in Requests,
             coReq'[r].pc = "refused", coReq[r].pc # "refused",
             coReq'[r].why = "alreadyExists"
      PROVE  OwnsActive(coReq'[r].by)
  <2>1. PICK s \in Requests : CoStart(s) \/ CoContinue(s)
    BY <1>1 DEF CoNext, coVars
  <2>2. s = r
    BY <1>1, <2>1 DEF CoStart, CoContinue, CreateCheckOwner, UpdateCompany,
       DeleteCompany, ReadForWrite, CreatePickSlug, CreateSave,
       CreateSaveRefused, CreateAnswerRefusal, CompanyWrite, CoRequestFails,
       CoTypeOK
  <2>3. ASSUME NEW by \in Recruiters, CreateCheckOwner(r, by)
        PROVE  OwnsActive(coReq'[r].by)
    BY <1>1, <2>3 DEF CreateCheckOwner, CoTypeOK
  <2>4. ASSUME CreateSaveRefused(r) PROVE OwnsActive(coReq'[r].by)
    <3>1. PICK index \in Violated(coReq[r].by, coReq[r].slug) :
            coReq' = [coReq EXCEPT ![r] =
              [pc |-> "refused", by |-> coReq[r].by, why |-> Reason(index)]]
      BY <2>4 DEF CreateSaveRefused
    <3>2. coReq'[r].by = coReq[r].by /\ Reason(index) = "alreadyExists"
      BY <1>1, <3>1 DEF CoTypeOK
    <3> QED BY <3>1, <3>2 DEF Reason, Violated
  <2>5. CreateSaveRefused(r) \/ \E by \in Recruiters : CreateCheckOwner(r, by)
    BY <1>1, <2>1, <2>2 DEF CoStart, CoContinue, UpdateCompany,
       DeleteCompany, ReadForWrite, CreatePickSlug, CreateSave,
       CreateAnswerRefusal, CompanyWrite, CoRequestFails, CoTypeOK, Idle
  <2> QED BY <2>3, <2>4, <2>5
<1>2. CoTypeOK /\ [CoNext]_coVars
        => [\A r \in Requests :
              coReq'[r].pc = "refused" /\ coReq[r].pc # "refused"
              /\ coReq'[r].why = "alreadyExists" => OwnsActive(coReq'[r].by)]_coVars
  BY <1>1
<1> QED BY <1>2, CoTypeCorrect, PTL DEF CoSpec, AlreadyExistsIsTrue

-----------------------------------------------------------------------------
(* Job postings                                                            *)

JobReqs == {Idle} \cup WriteReq \cup ViewReq \cup TermReq \cup CronReq

JobTypes ==
  /\ postings \in [Jobs -> PostingRow \cup {NoRow}]
  /\ tags \in [Jobs -> SUBSET Skills]
  /\ taxonomy \in [Terms -> TermStates]
  /\ now \in 0 .. MaxNow
  /\ jobReq \in [Requests -> JobReqs]

(* What a handler or a run holds: postings that are there, rows that are   *)
(* not both deleted and open, and what was true of them when they were     *)
(* read: an update found its posting listed, a run found its own open and  *)
(* past their deadline.                                                    *)
SoundReq(q) ==
  /\ q.pc \in {"category", "skills", "write"} =>
       /\ q.row.deleted => q.row.status = "CLOSED"
       /\ q.job = NoJob => /\ q.tags \in SUBSET Skills
                           /\ q.row.status = "OPEN" /\ ~ q.row.deleted
       /\ q.job # NoJob => Posted(q.job) /\ q.seen \in {"open", "closed"}
  /\ q.pc = "view" => Posted(q.job)
  /\ q.pc = "cron" =>
       \A w \in q.todo : /\ Posted(w.job) /\ Expired(w.row)
                         /\ ~ w.row.deleted /\ w.row.status = "OPEN"

SoundRequests == \A r \in Requests : SoundReq(jobReq[r])

JobSafety == NoDanglingTaxonomy /\ DeletedIsClosed /\ SoundRequests

ViewsKept ==
  \A j \in Jobs : Posted(j) => Posted(j)' /\ postings'[j].views >= postings[j].views

(* The pc of a slot tells what it holds.                                   *)
LEMMA JobRequestKinds ==
  ASSUME NEW q \in JobReqs
  PROVE  /\ q.pc \in {"category", "skills", "write"} => q \in WriteReq
         /\ q.pc = "view" => q \in ViewReq
         /\ q.pc \in {"count", "remove"} => q \in TermReq
         /\ q.pc = "cron" => q \in CronReq
BY DEF JobReqs, Idle, WriteReq, ViewReq, TermReq, CronReq

-----------------------------------------------------------------------------
(* Three shapes of steps                                                   *)

(* A step that only reads.                                                 *)
LEMMA JobReadKeeps ==
  ASSUME JobTypes, JobSafety, NEW r \in Requests, NEW q \in JobReqs, SoundReq(q),
         jobReq' = [jobReq EXCEPT ![r] = q],
         UNCHANGED <<postings, tags, taxonomy, now>>
  PROVE  JobTypes' /\ JobSafety' /\ ViewsKept
<1>1. JobTypes'
  BY DEF JobTypes
<1>2. NoDanglingTaxonomy' /\ DeletedIsClosed'
  BY DEF JobSafety, NoDanglingTaxonomy, DeletedIsClosed, Posted, Live
<1>3. \A s \in Requests : jobReq'[s] = q \/ jobReq'[s] = jobReq[s]
  BY DEF JobTypes
<1>4. SoundRequests'
  BY <1>3 DEF JobSafety, SoundRequests, SoundReq, Posted, Expired
<1>5. ViewsKept
  BY DEF ViewsKept, Posted, JobTypes, PostingRow
<1> QED BY <1>1, <1>2, <1>4, <1>5 DEF JobSafety

(* A request stays sound while postings stay posted.                       *)
LEMMA SoundStays ==
  ASSUME JobTypes, NEW q \in JobReqs, SoundReq(q),
         \A j \in Jobs : Posted(j) => Posted(j)', now' = now
  PROVE  SoundReq(q)'
<1>1. /\ q.pc \in {"category", "skills", "write"} /\ q.job # NoJob => q.job \in Jobs
      /\ q.pc = "view" => q.job \in Jobs
      /\ q.pc = "cron" => \A w \in q.todo : w.job \in Jobs
  BY JobRequestKinds DEF WriteReq, ViewReq, CronReq
<1> QED BY <1>1 DEF SoundReq, Posted, Expired

(* A step that writes one posting and its tags.                            *)
LEMMA PostingWritten ==
  ASSUME JobTypes, JobSafety, NEW r \in Requests, NEW q \in JobReqs, SoundReq(q),
         jobReq' = [jobReq EXCEPT ![r] = q],
         NEW j \in Jobs, NEW row \in PostingRow, NEW ts \in SUBSET Skills,
         postings' = [postings EXCEPT ![j] = row],
         tags' = [tags EXCEPT ![j] = ts],
         UNCHANGED <<taxonomy, now>>,
         row.deleted => row.status = "CLOSED",
         row.category # NoCategory => Live(row.category),
         \A s \in ts : Live(s),
         Posted(j) => row.views >= postings[j].views
  PROVE  JobTypes' /\ JobSafety' /\ ViewsKept
<1>1. /\ postings'[j] = row /\ tags'[j] = ts /\ row # NoRow
      /\ \A k \in Jobs \ {j} : postings'[k] = postings[k] /\ tags'[k] = tags[k]
  BY NoPostingAssumption DEF JobTypes
<1>2. JobTypes'
  BY DEF JobTypes
<1>3. NoDanglingTaxonomy'
  BY <1>1 DEF JobSafety, NoDanglingTaxonomy, Posted, Live
<1>4. DeletedIsClosed'
  BY <1>1 DEF JobSafety, DeletedIsClosed, Posted
<1>5. ViewsKept
  BY <1>1 DEF ViewsKept, Posted, JobTypes, PostingRow
<1>6. \A s \in Requests : jobReq'[s] = q \/ jobReq'[s] = jobReq[s]
  BY DEF JobTypes
<1>7. SoundRequests'
  <2> SUFFICES ASSUME NEW s \in Requests PROVE SoundReq(jobReq[s])'
    BY DEF SoundRequests
  <2>1. PICK p \in JobReqs : p = jobReq'[s] /\ SoundReq(p)
    BY <1>6 DEF JobTypes, JobSafety, SoundRequests
  <2>2. SoundReq(p)'
    BY <1>5, <2>1, SoundStays DEF ViewsKept
  <2> QED BY <2>1, <2>2 DEF SoundReq, Posted, Expired
<1> QED BY <1>2, <1>3, <1>4, <1>5, <1>7 DEF JobSafety

-----------------------------------------------------------------------------
(* The steps                                                               *)

LEMMA CreateKeeps ==
  ASSUME JobTypes, JobSafety, CoTypeOK, NEW r \in Requests, NEW by \in Recruiters,
         NEW category \in Categories \cup {NoCategory}, NEW ts \in SUBSET Skills,
         NEW expires \in Deadlines \cup {NoDeadline},
         CreateJob(r, by, category, ts, expires)
  PROVE  JobTypes' /\ JobSafety' /\ ViewsKept
<1> DEFINE row == [by |-> by, company |-> linkedTo[by], status |-> "OPEN",
                   deleted |-> FALSE, expires |-> expires,
                   category |-> category, views |-> 0]
           q == [pc |-> FirstCheck(category, ts), job |-> NoJob, tags |-> ts, seen |-> "none",
                row |-> row]
<1>1. row \in PostingRow
  BY ClockAssumption DEF CreateJob, CoTypeOK, PostingRow
<1>2. FirstCheck(category, ts) \in {"category", "skills", "write"}
  BY DEF FirstCheck, SkillCheck
<1>3. q \in JobReqs
  BY <1>1, <1>2 DEF JobReqs, WriteReq, Stages
<1>4. SoundReq(q)
  BY <1>2 DEF SoundReq
<1>5. jobReq' = [jobReq EXCEPT ![r] = q] /\ UNCHANGED <<postings, tags, taxonomy, now>>
  BY DEF CreateJob
<1> HIDE DEF q
<1> QED BY <1>3, <1>4, <1>5, JobReadKeeps

LEMMA ReadPostingKeeps ==
  ASSUME JobTypes, JobSafety, NEW r \in Requests, NEW j \in Jobs,
         NEW by \in Recruiters, NEW pc \in {"category", "skills", "write"},
         NEW ts \in (SUBSET Skills) \cup {Keep}, NEW changed,
         changed \in PostingRow, changed.deleted => changed.status = "CLOSED",
         ReadPosting(r, j, by, pc, ts, changed)
  PROVE  JobTypes' /\ JobSafety' /\ ViewsKept
<1> DEFINE q == [pc |-> pc, job |-> j, tags |-> ts, row |-> changed, seen |-> Stage(postings[j])]
<1>1. Stage(postings[j]) \in {"open", "closed"}
  BY DEF ReadPosting, Listed, Posted, Stage
<1>2. q \in JobReqs
  BY <1>1 DEF JobReqs, WriteReq, Stages
<1>3. SoundReq(q)
  BY <1>1, AbsenceAssumption DEF SoundReq, ReadPosting, Listed
<1>4. jobReq' = [jobReq EXCEPT ![r] = q] /\ UNCHANGED <<postings, tags, taxonomy, now>>
  BY DEF ReadPosting
<1> HIDE DEF q
<1> QED BY <1>2, <1>3, <1>4, JobReadKeeps

LEMMA ChangesKeep ==
  ASSUME JobTypes, JobSafety, NEW r \in Requests, NEW by \in Recruiters, NEW j \in Jobs,
         \/ \E category \in Categories \cup {NoCategory, Keep},
               ts \in (SUBSET Skills) \cup {Keep},
               expires \in Deadlines \cup {Keep} :
              UpdateJob(r, j, by, category, ts, expires)
         \/ CloseJob(r, j, by) \/ ReopenJob(r, j, by) \/ DeleteJob(r, j, by)
  PROVE  JobTypes' /\ JobSafety' /\ ViewsKept
<1>1. Listed(j)
  BY DEF UpdateJob, CloseJob, ReopenJob, DeleteJob, ReadPosting
<1>2. PICK old \in PostingRow : old = postings[j] /\ ~ old.deleted
  BY <1>1 DEF Listed, Posted, JobTypes
<1>3. ASSUME NEW category \in Categories \cup {NoCategory, Keep},
             NEW ts \in (SUBSET Skills) \cup {Keep},
             NEW expires \in Deadlines \cup {Keep},
             UpdateJob(r, j, by, category, ts, expires)
      PROVE  JobTypes' /\ JobSafety' /\ ViewsKept
  <2>1. PICK new \in PostingRow :
          new = UpdateDetails(postings[j], category, expires) /\ ~ new.deleted
    <3>1. /\ UpdateDetails(old, category, expires) \in PostingRow
          /\ UpdateDetails(old, category, expires).deleted = old.deleted
      BY DEF UpdateDetails, PostingRow
    <3> QED BY <1>2, <3>1
  <2>2. FirstCheck(category, ts) \in {"category", "skills", "write"}
    BY DEF FirstCheck, SkillCheck
  <2> QED BY <1>3, <2>1, <2>2, ReadPostingKeeps DEF UpdateJob
<1>4. ASSUME CloseJob(r, j, by) PROVE JobTypes' /\ JobSafety' /\ ViewsKept
  <2>1. [old EXCEPT !.status = "CLOSED"] \in PostingRow
    BY DEF PostingRow
  <2>2. ~ [old EXCEPT !.status = "CLOSED"].deleted
    BY <1>2 DEF PostingRow
  <2>3. ReadPosting(r, j, by, "write", Keep, [old EXCEPT !.status = "CLOSED"])
    BY <1>2, <1>4 DEF CloseJob
  <2>4. PICK new \in PostingRow :
          ~ new.deleted /\ ReadPosting(r, j, by, "write", Keep, new)
    BY <2>1, <2>2, <2>3
  <2> QED BY <2>4, ReadPostingKeeps
<1>5. ASSUME ReopenJob(r, j, by) PROVE JobTypes' /\ JobSafety' /\ ViewsKept
  <2>1. [old EXCEPT !.status = "OPEN"] \in PostingRow
    BY DEF PostingRow
  <2>2. ~ [old EXCEPT !.status = "OPEN"].deleted
    BY <1>2 DEF PostingRow
  <2>3. ReadPosting(r, j, by, "write", Keep, [old EXCEPT !.status = "OPEN"])
    BY <1>2, <1>5 DEF ReopenJob
  <2>4. PICK new \in PostingRow :
          ~ new.deleted /\ ReadPosting(r, j, by, "write", Keep, new)
    BY <2>1, <2>2, <2>3
  <2> QED BY <2>4, ReadPostingKeeps
<1>6. ASSUME DeleteJob(r, j, by) PROVE JobTypes' /\ JobSafety' /\ ViewsKept
  <2>1. [old EXCEPT !.deleted = TRUE, !.status = "CLOSED"] \in PostingRow
    BY DEF PostingRow
  <2>2. [old EXCEPT !.deleted = TRUE, !.status = "CLOSED"].status = "CLOSED"
    BY <1>2 DEF PostingRow
  <2>3. ReadPosting(r, j, by, "write", Keep, [old EXCEPT !.deleted = TRUE, !.status = "CLOSED"])
    BY <1>2, <1>6 DEF DeleteJob
  <2>4. PICK new \in PostingRow :
          new.status = "CLOSED" /\ ReadPosting(r, j, by, "write", Keep, new)
    BY <2>1, <2>2, <2>3
  <2> QED BY <2>4, ReadPostingKeeps
<1> QED BY <1>3, <1>4, <1>5, <1>6

LEMMA ChecksKeep ==
  ASSUME JobTypes, JobSafety, NEW r \in Requests, CheckCategory(r) \/ CheckSkills(r)
  PROVE  JobTypes' /\ JobSafety' /\ ViewsKept
<1>1. PICK q \in WriteReq : q = jobReq[r] /\ SoundReq(q) /\ q.pc \in {"category", "skills"}
  BY JobRequestKinds DEF JobTypes, JobSafety, SoundRequests, CheckCategory, CheckSkills
<1>2. PICK pc \in {"skills", "write"} : jobReq'[r] \in {Idle, [q EXCEPT !.pc = pc]}
  BY <1>1 DEF JobTypes, CheckCategory, CheckSkills, SkillCheck
<1>3. [q EXCEPT !.pc = pc] \in WriteReq
  BY DEF WriteReq
<1>4. /\ [q EXCEPT !.pc = pc].row = q.row /\ [q EXCEPT !.pc = pc].job = q.job
      /\ [q EXCEPT !.pc = pc].tags = q.tags /\ [q EXCEPT !.pc = pc].pc = pc
      /\ [q EXCEPT !.pc = pc].seen = q.seen
  BY DEF WriteReq
<1>5. SoundReq([q EXCEPT !.pc = pc]) /\ SoundReq(Idle)
  BY <1>1, <1>4 DEF SoundReq, Idle
<1>6. PICK p \in JobReqs : p = jobReq'[r] /\ SoundReq(p)
  BY <1>2, <1>3, <1>5 DEF JobReqs
<1>7. jobReq' = [jobReq EXCEPT ![r] = p] /\ UNCHANGED <<postings, tags, taxonomy, now>>
  BY <1>6 DEF CheckCategory, CheckSkills, JobTypes
<1> QED BY <1>6, <1>7, JobReadKeeps

LEMMA IdleIsSound == Idle \in JobReqs /\ SoundReq(Idle)
BY DEF JobReqs, SoundReq, Idle

LEMMA InsertKeeps ==
  ASSUME JobTypes, JobSafety, NEW r \in Requests, NEW j \in Jobs, InsertJob(r, j)
  PROVE  JobTypes' /\ JobSafety' /\ ViewsKept
<1>1. PICK q \in WriteReq : q = jobReq[r] /\ SoundReq(q) /\ q.pc = "write" /\ q.job = NoJob
  BY JobRequestKinds DEF JobTypes, JobSafety, SoundRequests, InsertJob
<1>2. PICK row \in PostingRow : row = q.row
  BY DEF WriteReq
<1>3. PICK ts \in SUBSET Skills : ts = q.tags
  BY <1>1 DEF SoundReq
<1>4. /\ postings' = [postings EXCEPT ![j] = row]
      /\ tags' = [tags EXCEPT ![j] = ts]
      /\ jobReq' = [jobReq EXCEPT ![r] = Idle]
      /\ UNCHANGED <<taxonomy, now>> /\ ~ Posted(j)
  BY <1>1, <1>2, <1>3 DEF InsertJob
<1>5. /\ row.deleted => row.status = "CLOSED"
      /\ row.category # NoCategory => Live(row.category)
      /\ ts # Keep => \A s \in ts : Live(s)
  BY <1>1, <1>2, <1>3 DEF SoundReq, InsertJob, ReferencesExist
<1>6. ts # Keep
  BY AbsenceAssumption
<1> QED BY <1>4, <1>5, <1>6, IdleIsSound, PostingWritten

(* toPersistence keeps all columns but viewCount.                          *)
LEMMA PersistedFields ==
  ASSUME NEW j, NEW row \in PostingRow, postings[j].views \in 0 .. MaxViews
  PROVE  /\ Persisted(j, row) \in PostingRow
         /\ Persisted(j, row).views = postings[j].views
         /\ Persisted(j, row).deleted = row.deleted
         /\ Persisted(j, row).status = row.status
         /\ Persisted(j, row).category = row.category
BY DEF Persisted, PostingRow

LEMMA WriteJobKeeps ==
  ASSUME JobTypes, JobSafety, NEW r \in Requests, WriteJob(r)
  PROVE  JobTypes' /\ JobSafety' /\ ViewsKept
<1>1. PICK q \in WriteReq : q = jobReq[r] /\ SoundReq(q) /\ q.pc = "write" /\ q.job # NoJob
  BY JobRequestKinds DEF JobTypes, JobSafety, SoundRequests, WriteJob
<1>2. PICK j \in Jobs : j = q.job /\ Posted(j)
  BY <1>1 DEF SoundReq, WriteReq
<1>3. postings[j].views \in 0 .. MaxViews
  BY <1>2 DEF JobTypes, Posted, PostingRow
<1>4. PICK row \in PostingRow :
        /\ row = Persisted(j, q.row) /\ row.views = postings[j].views
        /\ row.deleted = q.row.deleted /\ row.status = q.row.status
        /\ row.category = q.row.category
  BY <1>3, PersistedFields DEF WriteReq
<1>5. PICK ts \in SUBSET Skills : ts = IF q.tags = Keep THEN tags[j] ELSE q.tags
  <2>1. tags[j] \in SUBSET Skills /\ q.tags \in (SUBSET Skills) \cup {Keep}
    BY DEF JobTypes, WriteReq
  <2>2. (IF q.tags = Keep THEN tags[j] ELSE q.tags) \in SUBSET Skills
    BY <2>1
  <2> QED BY <2>2
<1>6. /\ postings' = [postings EXCEPT ![j] = row]
      /\ tags' = [tags EXCEPT ![j] = ts]
      /\ jobReq' = [jobReq EXCEPT ![r] = Idle]
      /\ UNCHANGED <<taxonomy, now>>
  BY <1>1, <1>2, <1>4, <1>5 DEF WriteJob
<1>7. /\ row.deleted => row.status = "CLOSED"
      /\ row.category # NoCategory => Live(row.category)
      /\ \A s \in ts : Live(s)
  BY <1>1, <1>4, <1>5
     DEF SoundReq, WriteJob, ReferencesExist, JobSafety, NoDanglingTaxonomy
<1>8. row.views >= postings[j].views
  BY <1>3, <1>4
<1> QED BY <1>6, <1>7, <1>8, IdleIsSound, PostingWritten

LEMMA IncrementKeeps ==
  ASSUME JobTypes, JobSafety, NEW r \in Requests, IncrementViewCount(r)
  PROVE  JobTypes' /\ JobSafety' /\ ViewsKept
<1>1. PICK q \in ViewReq : q = jobReq[r] /\ SoundReq(q)
  BY JobRequestKinds DEF JobTypes, JobSafety, SoundRequests, IncrementViewCount
<1>2. PICK j \in Jobs : j = q.job /\ Posted(j)
  BY <1>1 DEF SoundReq, ViewReq
<1>3. PICK old \in PostingRow : old = postings[j]
  BY <1>2 DEF JobTypes, Posted
<1>4. PICK row \in PostingRow :
        /\ row = [old EXCEPT !.views = @ + 1] /\ row.views >= old.views
        /\ row.deleted = old.deleted /\ row.status = old.status
        /\ row.category = old.category
  <2>1. old.views < MaxViews /\ old.views \in 0 .. MaxViews
    BY <1>1, <1>2, <1>3 DEF IncrementViewCount, PostingRow
  <2>2. old.views + 1 \in 0 .. MaxViews
    BY <2>1, ClockAssumption
  <2>3. [old EXCEPT !.views = @ + 1] \in PostingRow
    BY <2>2 DEF PostingRow
  <2> QED BY <2>1, <2>3 DEF PostingRow
<1>5. PICK ts \in SUBSET Skills : ts = tags[j]
  BY DEF JobTypes
<1>6. /\ postings' = [postings EXCEPT ![j] = row]
      /\ tags' = [tags EXCEPT ![j] = ts]
      /\ jobReq' = [jobReq EXCEPT ![r] = Idle]
      /\ UNCHANGED <<taxonomy, now>>
  BY <1>1, <1>2, <1>3, <1>4, <1>5 DEF IncrementViewCount, JobTypes
<1>7. /\ row.deleted => row.status = "CLOSED"
      /\ row.category # NoCategory => Live(row.category)
      /\ \A s \in ts : Live(s)
  BY <1>2, <1>3, <1>4, <1>5 DEF JobSafety, NoDanglingTaxonomy, DeletedIsClosed
<1> QED BY <1>3, <1>4, <1>6, <1>7, IdleIsSound, PostingWritten

LEMMA CronCloseKeeps ==
  ASSUME JobTypes, JobSafety, NEW r \in Requests, NEW j \in Jobs, CronClose(r, j)
  PROVE  JobTypes' /\ JobSafety' /\ ViewsKept
<1>1. PICK q \in CronReq : q = jobReq[r] /\ SoundReq(q)
  BY JobRequestKinds DEF JobTypes, JobSafety, SoundRequests, CronClose
<1>2. PICK w \in jobReq[r].todo :
        /\ w.job = j /\ ReferencesExist(w.row, Keep)
        /\ postings' = [postings EXCEPT ![j] =
                          Persisted(j, [w.row EXCEPT !.status = "CLOSED"])]
        /\ jobReq' = [jobReq EXCEPT ![r] =
             IF jobReq[r].todo \ {w} = {} THEN Idle
             ELSE [pc |-> "cron", todo |-> jobReq[r].todo \ {w}]]
  BY DEF CronClose
<1>3. w \in q.todo /\ Posted(j) /\ ~ w.row.deleted /\ w.row \in PostingRow
  BY <1>1, <1>2 DEF SoundReq, CronReq
<1>4. postings[j].views \in 0 .. MaxViews
  BY <1>3 DEF JobTypes, Posted, PostingRow
<1>5. PICK row \in PostingRow :
        /\ row = Persisted(j, [w.row EXCEPT !.status = "CLOSED"])
        /\ row.views = postings[j].views
        /\ row.deleted = w.row.deleted /\ row.category = w.row.category
  <2>1. /\ [w.row EXCEPT !.status = "CLOSED"] \in PostingRow
        /\ [w.row EXCEPT !.status = "CLOSED"].deleted = w.row.deleted
        /\ [w.row EXCEPT !.status = "CLOSED"].category = w.row.category
    BY <1>3 DEF PostingRow
  <2>2. PICK closed \in PostingRow :
          /\ closed = [w.row EXCEPT !.status = "CLOSED"]
          /\ closed.deleted = w.row.deleted /\ closed.category = w.row.category
    BY <2>1
  <2>3. /\ Persisted(j, closed) \in PostingRow
        /\ Persisted(j, closed).views = postings[j].views
        /\ Persisted(j, closed).deleted = w.row.deleted
        /\ Persisted(j, closed).category = w.row.category
    BY <1>4, <2>2, PersistedFields
  <2> QED BY <2>2, <2>3
<1>6. PICK p \in JobReqs : p = jobReq'[r] /\ SoundReq(p)
  <2> DEFINE left == [pc |-> "cron", todo |-> q.todo \ {w}]
  <2>1. left \in CronReq
    BY DEF CronReq
  <2>2. SoundReq(left)
    BY <1>1 DEF SoundReq, CronReq
  <2>3. jobReq'[r] \in {Idle, left}
    BY <1>1, <1>2 DEF JobTypes
  <2> QED BY <2>1, <2>2, <2>3, IdleIsSound DEF JobReqs
<1>7. PICK ts \in SUBSET Skills : ts = tags[j]
  BY DEF JobTypes
<1>8. /\ postings' = [postings EXCEPT ![j] = row]
      /\ tags' = [tags EXCEPT ![j] = ts]
      /\ jobReq' = [jobReq EXCEPT ![r] = p]
      /\ UNCHANGED <<taxonomy, now>>
  BY <1>2, <1>5, <1>6, <1>7 DEF CronClose, JobTypes
<1>9. /\ row.deleted => row.status = "CLOSED"
      /\ row.category # NoCategory => Live(row.category)
      /\ \A s \in ts : Live(s)
      /\ row.views >= postings[j].views
  BY <1>2, <1>3, <1>4, <1>5, <1>7
     DEF ReferencesExist, JobSafety, NoDanglingTaxonomy
<1> QED BY <1>6, <1>8, <1>9, PostingWritten

(* A posting whose category goes keeps all that its stage depends on.      *)
LEMMA RemoveLeaves ==
  ASSUME JobTypes, NEW r \in Requests, RemoveTerm(r), NEW j \in Jobs,
         NEW t \in Terms, t = jobReq[r].term
  PROVE  /\ ~ Posted(j) => postings'[j] = NoRow
         /\ Posted(j) =>
              /\ postings'[j] \in PostingRow /\ postings'[j] # NoRow
              /\ postings'[j].views = postings[j].views
              /\ postings'[j].deleted = postings[j].deleted
              /\ postings'[j].status = postings[j].status
              /\ \/ postings'[j].category = NoCategory
                 \/ /\ postings'[j].category = postings[j].category
                    /\ postings[j].category # t
<1>1. CASE Posted(j) /\ postings[j].category = t
  <2>1. PICK old \in PostingRow : old = postings[j]
    BY <1>1 DEF JobTypes, Posted
  <2>2. postings'[j] = [old EXCEPT !.category = NoCategory]
    BY <1>1, <2>1 DEF RemoveTerm
  <2>3. /\ [old EXCEPT !.category = NoCategory] \in PostingRow
        /\ [old EXCEPT !.category = NoCategory].views = old.views
        /\ [old EXCEPT !.category = NoCategory].deleted = old.deleted
        /\ [old EXCEPT !.category = NoCategory].status = old.status
        /\ [old EXCEPT !.category = NoCategory].category = NoCategory
    BY DEF PostingRow
  <2>4. PICK new \in PostingRow :
          /\ new = postings'[j] /\ new.views = old.views
          /\ new.deleted = old.deleted /\ new.status = old.status
          /\ new.category = NoCategory
    BY <2>2, <2>3
  <2> QED BY <1>1, <2>1, <2>4, NoPostingAssumption DEF Posted
<1>2. CASE ~ (Posted(j) /\ postings[j].category = t)
  <2>1. postings'[j] = postings[j]
    BY <1>2 DEF RemoveTerm, Posted, JobTypes
  <2> QED BY <1>2, <2>1 DEF Posted, JobTypes
<1> QED BY <1>1, <1>2

LEMMA RemoveKeeps ==
  ASSUME JobTypes, JobSafety, NEW r \in Requests, RemoveTerm(r)
  PROVE  JobTypes' /\ JobSafety' /\ ViewsKept
<1>1. PICK t \in Terms : t = jobReq[r].term
  BY JobRequestKinds DEF JobTypes, RemoveTerm, TermReq
<1>2. ASSUME NEW j \in Jobs
      PROVE  /\ ~ Posted(j) => postings'[j] = NoRow
             /\ Posted(j) =>
                  /\ postings'[j] \in PostingRow /\ postings'[j] # NoRow
                  /\ postings'[j].views = postings[j].views
                  /\ postings'[j].deleted = postings[j].deleted
                  /\ postings'[j].status = postings[j].status
                  /\ \/ postings'[j].category = NoCategory
                     \/ /\ postings'[j].category = postings[j].category
                        /\ postings[j].category # t
  BY <1>1, RemoveLeaves
<1>3. /\ tags' = [j \in Jobs |-> tags[j] \ {t}]
      /\ taxonomy' = [taxonomy EXCEPT ![t] = "gone"]
      /\ jobReq' = [jobReq EXCEPT ![r] = Idle]
      /\ now' = now
      /\ DOMAIN postings' = Jobs /\ postings' = [j \in Jobs |-> postings'[j]]
  BY <1>1 DEF RemoveTerm
<1>4. JobTypes'
  <2>1. postings' \in [Jobs -> PostingRow \cup {NoRow}]
    <3>1. \A j \in Jobs : postings'[j] \in PostingRow \cup {NoRow}
      BY <1>2 DEF Posted
    <3> QED BY <1>3, <3>1
  <2>2. tags' \in [Jobs -> SUBSET Skills]
    BY <1>3 DEF JobTypes
  <2> QED BY <1>3, <2>1, <2>2, IdleIsSound DEF JobTypes, TermStates
<1>5. NoDanglingTaxonomy'
  <2>1. \A c \in Terms \ {t} : Live(c) => taxonomy'[c] = "live"
    BY <1>3 DEF Live, JobTypes
  <2>2. \A j \in Jobs : /\ Posted(j) => postings[j].category \in Categories \cup {NoCategory}
                       /\ tags[j] \subseteq Terms
    BY DEF JobTypes, Posted, PostingRow, Terms
  <2>3. ASSUME NEW j \in Jobs, Posted(j)', postings'[j].category # NoCategory
        PROVE  taxonomy'[postings'[j].category] = "live"
    <3>1. PICK c \in Terms \ {t} : c = postings[j].category /\ c = postings'[j].category
                                  /\ Live(c)
      BY <1>2, <2>2, <2>3 DEF JobSafety, NoDanglingTaxonomy, Terms, Posted
    <3> QED BY <2>1, <3>1
  <2>4. \A j \in Jobs : \A c \in tags'[j] : taxonomy'[c] = "live"
    BY <1>3, <2>1, <2>2 DEF JobSafety, NoDanglingTaxonomy
  <2> QED BY <2>3, <2>4 DEF NoDanglingTaxonomy, Live
<1>6. DeletedIsClosed'
  BY <1>2 DEF JobSafety, DeletedIsClosed, Posted
<1>7. ViewsKept
  BY <1>2 DEF ViewsKept, JobTypes, PostingRow, Posted
<1>8. SoundRequests'
  <2> SUFFICES ASSUME NEW s \in Requests PROVE SoundReq(jobReq[s])'
    BY DEF SoundRequests
  <2>1. PICK p \in JobReqs : p = jobReq'[s] /\ SoundReq(p)
    BY <1>3, IdleIsSound DEF JobTypes, JobSafety, SoundRequests
  <2>2. SoundReq(p)'
    BY <1>2, <1>3, <2>1, SoundStays DEF Posted
  <2> QED BY <2>1, <2>2 DEF SoundReq, Posted, Expired
<1> QED BY <1>4, <1>5, <1>6, <1>7, <1>8 DEF JobSafety

(* The remaining steps: reads, and the ones that touch no posting.         *)
LEMMA RestKeeps ==
  ASSUME JobTypes, JobSafety, NEW r \in Requests,
         \/ CronStart(r) \/ CountReferences(r) \/ JobRequestFails(r)
         \/ \E j \in Jobs : ViewJob(r, j)
         \/ \E t \in Terms : CreateTerm(r, t) \/ DeleteTerm(r, t)
  PROVE  JobTypes' /\ JobSafety' /\ ViewsKept
<1>1. CASE CronStart(r)
  <2> DEFINE q == [pc |-> "cron",
                   todo |-> {[job |-> j, row |-> postings[j]] : j \in ExpiredOpen}]
  <2>1. \A j \in ExpiredOpen : j \in Jobs /\ Posted(j) /\ ~ postings[j].deleted
                              /\ postings[j] \in PostingRow /\ Expired(postings[j])
                              /\ postings[j].status = "OPEN"
    BY DEF ExpiredOpen, Listed, Posted, JobTypes
  <2>2. q \in JobReqs /\ SoundReq(q)
    BY <2>1 DEF JobReqs, CronReq, SoundReq
  <2>3. jobReq' = [jobReq EXCEPT ![r] = q] /\ UNCHANGED <<postings, tags, taxonomy, now>>
    BY <1>1 DEF CronStart
  <2> HIDE DEF q
  <2> QED BY <2>2, <2>3, JobReadKeeps
<1>2. CASE CountReferences(r)
  <2>1. PICK q \in TermReq : q = jobReq[r]
    BY <1>2, JobRequestKinds DEF JobTypes, CountReferences
  <2>2. [q EXCEPT !.pc = "remove"] \in TermReq /\ [q EXCEPT !.pc = "remove"].pc = "remove"
    BY DEF TermReq
  <2>3. PICK p \in JobReqs : p = jobReq'[r] /\ SoundReq(p)
    <3>1. jobReq'[r] \in {Idle, [q EXCEPT !.pc = "remove"]}
      BY <1>2, <2>1 DEF JobTypes, CountReferences
    <3>2. SoundReq([q EXCEPT !.pc = "remove"])
      BY <2>2 DEF SoundReq
    <3> QED BY <2>2, <3>1, <3>2, IdleIsSound DEF JobReqs
  <2>4. jobReq' = [jobReq EXCEPT ![r] = p] /\ UNCHANGED <<postings, tags, taxonomy, now>>
    BY <1>2, <2>3 DEF CountReferences, JobTypes
  <2> QED BY <2>3, <2>4, JobReadKeeps
<1>3. CASE JobRequestFails(r)
  BY <1>3, IdleIsSound, JobReadKeeps DEF JobRequestFails
<1>4. ASSUME NEW j \in Jobs, ViewJob(r, j) PROVE JobTypes' /\ JobSafety' /\ ViewsKept
  <2>1. [pc |-> "view", job |-> j] \in JobReqs /\ SoundReq([pc |-> "view", job |-> j])
    BY <1>4 DEF JobReqs, ViewReq, SoundReq, ViewJob, Listed
  <2> QED BY <1>4, <2>1, JobReadKeeps DEF ViewJob
<1>5. ASSUME NEW t \in Terms, DeleteTerm(r, t) PROVE JobTypes' /\ JobSafety' /\ ViewsKept
  <2>1. [pc |-> "count", term |-> t] \in JobReqs /\ SoundReq([pc |-> "count", term |-> t])
    BY DEF JobReqs, TermReq, SoundReq
  <2> QED BY <1>5, <2>1, JobReadKeeps DEF DeleteTerm
<1>6. ASSUME NEW t \in Terms, CreateTerm(r, t) PROVE JobTypes' /\ JobSafety' /\ ViewsKept
  <2>1. JobTypes'
    BY <1>6 DEF JobTypes, CreateTerm, TermStates
  <2>2. \A u \in Terms : Live(u) => Live(u)'
    BY <1>6 DEF CreateTerm, Live, JobTypes
  <2>3. \A j \in Jobs : /\ Posted(j) => postings[j].category \in Categories \cup {NoCategory}
                       /\ tags[j] \subseteq Terms
    BY DEF JobTypes, Posted, PostingRow, Terms
  <2>4. NoDanglingTaxonomy'
    BY <1>6, <2>2, <2>3 DEF JobSafety, NoDanglingTaxonomy, CreateTerm, Posted, Terms
  <2>5. DeletedIsClosed' /\ SoundRequests' /\ ViewsKept
    BY <1>6 DEF JobSafety, DeletedIsClosed, SoundRequests, SoundReq, ViewsKept,
       CreateTerm, Posted, Expired, JobTypes, PostingRow
  <2> QED BY <2>1, <2>4, <2>5 DEF JobSafety
<1> QED BY <1>1, <1>2, <1>3, <1>4, <1>5, <1>6

-----------------------------------------------------------------------------
(* The theorems                                                            *)

LEMMA JobStepKeeps ==
  ASSUME CoTypeOK, JobTypes, JobSafety, [JobNext]_postVars
  PROVE  JobTypes' /\ JobSafety' /\ ViewsKept
<1>1. ASSUME UNCHANGED jobVars PROVE JobTypes' /\ JobSafety' /\ ViewsKept
  BY <1>1 DEF jobVars, JobTypes, JobSafety, NoDanglingTaxonomy, DeletedIsClosed,
     SoundRequests, SoundReq, ViewsKept, Posted, Live, Expired, PostingRow
<1>2. ASSUME NEW r \in Requests, JobStart(r)
      PROVE  JobTypes' /\ JobSafety' /\ ViewsKept
  BY <1>2, CreateKeeps, ChangesKeep, RestKeeps DEF JobStart
<1>3. ASSUME NEW r \in Requests, CronStart(r) \/ JobContinue(r)
      PROVE  JobTypes' /\ JobSafety' /\ ViewsKept
  BY <1>3, ChecksKeep, InsertKeeps, WriteJobKeeps, IncrementKeeps,
     CronCloseKeeps, RemoveKeeps, RestKeeps DEF JobContinue
<1>4. ASSUME Tick PROVE JobTypes' /\ JobSafety' /\ ViewsKept
  <2>1. JobTypes' /\ NoDanglingTaxonomy' /\ DeletedIsClosed' /\ ViewsKept
    BY <1>4, ClockAssumption DEF Tick, JobTypes, JobSafety, NoDanglingTaxonomy,
       DeletedIsClosed, ViewsKept, Posted, Live, PostingRow
  <2>2. ASSUME NEW r \in Requests, jobReq[r].pc = "cron", NEW w \in jobReq[r].todo
        PROVE  Expired(w.row)'
    <3>1. w.row \in PostingRow /\ Expired(w.row)
      BY <2>2, JobRequestKinds DEF JobTypes, JobSafety, SoundRequests, SoundReq, CronReq
    <3>2. w.row.expires \in Nat /\ w.row.expires < now
      BY <3>1, ClockAssumption DEF Expired, PostingRow
    <3>3. w.row.expires < now'
      BY <1>4, <3>2, ClockAssumption DEF Tick, JobTypes
    <3> QED BY <3>1, <3>3 DEF Expired
  <2>3. SoundRequests'
    BY <1>4, <2>2 DEF Tick, JobSafety, SoundRequests, SoundReq, Posted
  <2> QED BY <2>1, <2>3 DEF JobSafety
<1> QED BY <1>1, <1>2, <1>3, <1>4 DEF JobNext, postVars

(* What the job component does to the company component's variables is     *)
(* what that component does itself.                                        *)
LEMMA JobStepRefines ==
  ASSUME [JobNext]_postVars
  PROVE  [CoNext]_coVars
<1>1. ASSUME NEW r \in Requests, JobStart(r) \/ CronStart(r) PROVE UNCHANGED coVars
  BY <1>1 DEF JobStart, CronStart, CreateJob, UpdateJob, CloseJob, ReopenJob,
     DeleteJob, ReadPosting, ViewJob, CreateTerm, DeleteTerm
<1>2. ASSUME NEW r \in Requests, JobContinue(r) PROVE UNCHANGED coVars
  BY <1>2 DEF JobContinue, CheckCategory, CheckSkills, InsertJob, WriteJob,
     IncrementViewCount, CronClose, CountReferences, RemoveTerm, JobRequestFails
<1>3. ASSUME Tick PROVE UNCHANGED coVars
  BY <1>3 DEF Tick
<1> QED BY <1>1, <1>2, <1>3 DEF JobNext, CoNext, postVars

LEMMA JobInvariant == JobSpec => [](CoTypeOK /\ JobTypes /\ JobSafety)
<1>1. JobInit => CoTypeOK /\ JobTypes /\ JobSafety
  BY ClockAssumption, IdleIsSound
     DEF JobInit, CoInit, CoTypeOK, CompanyReq, JobTypes, TermStates, JobSafety,
     NoDanglingTaxonomy, DeletedIsClosed, SoundRequests, Posted
<1>2. CoTypeOK /\ JobTypes /\ JobSafety /\ [JobNext]_postVars
        => (CoTypeOK /\ JobTypes /\ JobSafety)'
  BY JobStepRefines, CoTypesInductive, JobStepKeeps
<1> QED BY <1>1, <1>2, PTL DEF JobSpec

(* Every state of the composition is well typed.                           *)
THEOREM JobTypeCorrect == JobSpec => []JobTypeOK
<1>1. CoTypeOK /\ JobTypes => JobTypeOK
  BY DEF JobTypes, JobTypeOK, JobReqs
<1> QED BY <1>1, JobInvariant, PTL

(* Composed with postings and the taxonomy, the company component keeps    *)
(* what is proved of it alone.                                             *)
THEOREM PostingsRespectCompanies == JobSpec => CoSpec
<1>1. JobInit => CoInit
  BY DEF JobInit
<1> QED BY <1>1, JobStepRefines, PTL DEF JobSpec, CoSpec

(* However late a write comes, no posting names a term that is gone.       *)
THEOREM TaxonomyHolds == JobSpec => []NoDanglingTaxonomy
<1>1. JobSafety => NoDanglingTaxonomy
  BY DEF JobSafety
<1> QED BY <1>1, JobInvariant, PTL

(* No deleted posting is open, whatever stale write comes.                 *)
THEOREM DeletedClosed == JobSpec => []DeletedIsClosed
<1>1. JobSafety => DeletedIsClosed
  BY DEF JobSafety
<1> QED BY <1>1, JobInvariant, PTL

(* No whole-row write loses a view.                                        *)
THEOREM ViewsHold == JobSpec => ViewsNeverDrop
<1>1. CoTypeOK /\ JobTypes /\ JobSafety /\ [JobNext]_postVars
        => [\A j \in Jobs : Posted(j) => postings'[j].views >= postings[j].views]_postVars
  BY JobStepKeeps DEF ViewsKept
<1> QED BY <1>1, JobInvariant, PTL DEF JobSpec, ViewsNeverDrop
-----------------------------------------------------------------------------
(* Requests and cron runs that overlap                                     *)

(* A turn of the cron touches one posting; one that nobody edited since    *)
(* the run listed it is past its deadline and keeps that deadline.         *)
LEMMA CronCloses ==
  ASSUME JobTypes, JobSafety, NEW r \in Requests, NEW j \in Jobs, CronClose(r, j)
  PROVE  /\ \A k \in Jobs \ {j} : postings'[k] = postings[k]
         /\ \/ postings'[j].expires = postings[j].expires /\ Expired(postings[j])
            \/ EditedSinceListed(r, j)
<1>1. PICK q \in CronReq : q = jobReq[r] /\ SoundReq(q) /\ q.pc = "cron"
  BY JobRequestKinds DEF JobTypes, JobSafety, SoundRequests, CronClose
<1>2. PICK w \in q.todo :
        /\ w.job = j
        /\ postings' = [postings EXCEPT ![j] =
                          Persisted(j, [w.row EXCEPT !.status = "CLOSED"])]
  BY <1>1 DEF CronClose
<1>3. w.row \in PostingRow /\ Posted(j) /\ Expired(w.row)
  BY <1>1, <1>2 DEF SoundReq, CronReq
<1>4. \A k \in Jobs \ {j} : postings'[k] = postings[k]
  BY <1>2 DEF JobTypes
<1>5. CASE Persisted(j, w.row) = postings[j]
  <2>1. PICK row \in PostingRow : row = w.row
    BY <1>3
  <2>2. PICK closed \in PostingRow :
          closed = [row EXCEPT !.status = "CLOSED"] /\ closed.expires = row.expires
    <3>1. /\ [row EXCEPT !.status = "CLOSED"] \in PostingRow
          /\ [row EXCEPT !.status = "CLOSED"].expires = row.expires
      BY DEF PostingRow
    <3> QED BY <3>1
  <2>3. /\ Persisted(j, closed).expires = closed.expires
        /\ Persisted(j, row).expires = row.expires
    BY DEF Persisted, PostingRow
  <2>4. postings'[j] = Persisted(j, closed)
    BY <1>2, <2>1, <2>2 DEF JobTypes
  <2>5. postings[j].expires = row.expires /\ postings'[j].expires = row.expires
    BY <1>5, <2>1, <2>2, <2>3, <2>4
  <2> QED BY <1>3, <1>4, <2>1, <2>5 DEF Expired
<1>6. CASE Persisted(j, w.row) # postings[j]
  BY <1>1, <1>2, <1>4, <1>6 DEF EditedSinceListed
<1> QED BY <1>5, <1>6

(* A slot that holds a cron run moves on by a turn of its loop or by       *)
(* giving up.                                                              *)
LEMMA CronMoves ==
  ASSUME JobTypes, JobNext, NEW r \in Requests, jobReq[r].pc = "cron",
         jobReq'[r] # jobReq[r]
  PROVE  (\E j \in Jobs : CronClose(r, j)) \/ UNCHANGED postings
<1>1. ASSUME NEW s \in Requests, JobStart(s) \/ CronStart(s) PROVE UNCHANGED postings
  BY <1>1 DEF JobStart, CronStart, CreateJob, UpdateJob, CloseJob, ReopenJob,
     DeleteJob, ReadPosting, ViewJob, CreateTerm, DeleteTerm
<1>2. ASSUME NEW s \in Requests, JobContinue(s)
      PROVE  (\E j \in Jobs : CronClose(r, j)) \/ UNCHANGED postings
  <2>1. s = r
    BY <1>2 DEF JobTypes, JobContinue, CheckCategory, CheckSkills, InsertJob, WriteJob,
       IncrementViewCount, CronClose, CountReferences, RemoveTerm, JobRequestFails
  <2> QED BY <1>2, <2>1 DEF JobContinue, CheckCategory, CheckSkills, InsertJob,
       WriteJob, IncrementViewCount, CountReferences, RemoveTerm, JobRequestFails
<1>3. jobVars' = jobVars \/ Tick => UNCHANGED postings
  BY DEF jobVars, Tick
<1> QED BY <1>1, <1>2, <1>3 DEF JobNext

(* The rows the cron closes are past their deadline when it writes them,   *)
(* and keep that deadline, unless they were edited since it listed them.   *)
THEOREM CronClosesTheExpired == JobSpec => CronClosesOnlyExpired
<1>1. ASSUME JobTypes, JobSafety, JobNext, NEW j \in Jobs, NEW r \in Requests,
             jobReq[r].pc = "cron", jobReq'[r] # jobReq[r], postings'[j] # postings[j]
      PROVE  \/ postings'[j].expires = postings[j].expires /\ Expired(postings[j])
             \/ EditedSinceListed(r, j)
  <2>1. PICK k \in Jobs : CronClose(r, k)
    BY <1>1, CronMoves
  <2>2. k = j
    BY <1>1, <2>1, CronCloses
  <2> QED BY <1>1, <2>1, <2>2, CronCloses
<1>2. CoTypeOK /\ JobTypes /\ JobSafety /\ [JobNext]_postVars
        => [\A j \in Jobs, r \in Requests :
              /\ jobReq[r].pc = "cron" /\ jobReq'[r] # jobReq[r]
              /\ postings'[j] # postings[j]
              => \/ postings'[j].expires = postings[j].expires /\ Expired(postings[j])
                 \/ EditedSinceListed(r, j)]_postVars
  BY <1>1
<1> QED BY <1>2, JobInvariant, PTL DEF JobSpec, CronClosesOnlyExpired

(* A step that leaves the stage of a posting alone.                        *)
SameStage(j) == /\ Posted(j)' = Posted(j)
                /\ Posted(j) => /\ postings'[j].deleted = postings[j].deleted
                                /\ postings'[j].status = postings[j].status

LEMMA StagesStay ==
  ASSUME \A j \in Jobs : SameStage(j)
  PROVE  UNCHANGED [j \in Jobs |-> StageOf(j)]
BY DEF SameStage, StageOf, Stage, Posted

LEMMA OnePostingMoves ==
  ASSUME JobTypes, NEW j \in Jobs, NEW row \in PostingRow,
         postings' = [postings EXCEPT ![j] = row],
         \/ ~ Posted(j) /\ row.status = "OPEN" /\ ~ row.deleted
         \/ Listed(j)
  PROVE  [Lifecycle!Next]_[k \in Jobs |-> StageOf(k)]
<1> DEFINE stage == [k \in Jobs |-> StageOf(k)]
           to == IF row.deleted THEN "removed"
                 ELSE IF row.status = "OPEN" THEN "open" ELSE "closed"
<1>1. stage' = [stage EXCEPT ![j] = to]
  BY NoPostingAssumption DEF StageOf, Stage, Posted, JobTypes
<1>2. CASE ~ Posted(j) /\ row.status = "OPEN" /\ ~ row.deleted
  <2>1. stage[j] = "none" /\ to = "open"
    BY <1>2 DEF StageOf, Stage, Posted
  <2>2. Lifecycle!Publish(j)
    BY <1>1, <2>1 DEF Lifecycle!Publish, Lifecycle!Move
  <2> QED BY <2>2 DEF Lifecycle!Next
<1>3. CASE Listed(j)
  <2>1. stage[j] \in {"open", "closed"} /\ to \in {"open", "closed", "removed"}
    BY <1>3 DEF StageOf, Stage, Listed, Posted
  <2>2. CASE stage[j] = to
    BY <1>1, <2>2
  <2>3. CASE stage[j] # to
    <3>1. Lifecycle!Close(j) \/ Lifecycle!Reopen(j) \/ Lifecycle!Remove(j)
      BY <1>1, <2>1, <2>3 DEF Lifecycle!Close, Lifecycle!Reopen,
         Lifecycle!Remove, Lifecycle!Move
    <3> QED BY <3>1 DEF Lifecycle!Next
  <2> QED BY <2>2, <2>3
<1> QED BY <1>2, <1>3

LEMMA JobStepFollowsLifecycle ==
  ASSUME CoTypeOK, JobTypes, JobTypes', JobSafety, [JobNext]_postVars
  PROVE  [Lifecycle!Next \/ OutdatedWrite]_([j \in Jobs |-> StageOf(j)])
<1>1. ASSUME UNCHANGED postings PROVE UNCHANGED [j \in Jobs |-> StageOf(j)]
  BY <1>1, StagesStay DEF SameStage, Posted
<1>2. ASSUME NEW r \in Requests, NEW j \in Jobs, InsertJob(r, j)
      PROVE  [Lifecycle!Next]_[k \in Jobs |-> StageOf(k)]
  <2>1. PICK q \in WriteReq : /\ q = jobReq[r] /\ q.row.status = "OPEN"
                              /\ ~ q.row.deleted
    BY <1>2, JobRequestKinds DEF JobTypes, JobSafety, SoundRequests, SoundReq, InsertJob
  <2>2. PICK row \in PostingRow : row = q.row
    BY DEF WriteReq
  <2> QED BY <1>2, <2>1, <2>2, OnePostingMoves DEF InsertJob
<1>3. ASSUME NEW r \in Requests, WriteJob(r), ~ OutdatedWrite
      PROVE  [Lifecycle!Next]_[k \in Jobs |-> StageOf(k)]
  <2>1. PICK q \in WriteReq : /\ q = jobReq[r] /\ q.job # NoJob /\ q.pc = "write"
                              /\ q.seen \in {"open", "closed"}
    BY <1>3, JobRequestKinds DEF JobTypes, JobSafety, SoundRequests, SoundReq, WriteJob
  <2>2. PICK j \in Jobs : j = q.job
    BY <2>1 DEF WriteReq
  <2>3. jobReq'[r] # jobReq[r]
    BY <1>3, <2>1 DEF WriteJob, JobTypes, Idle
  <2>4. q.seen = StageOf(j)
    BY <1>3, <2>1, <2>2, <2>3 DEF OutdatedWrite, WritesOutdated
  <2>5. Listed(j)
    BY <2>1, <2>4 DEF StageOf, Stage, Listed, Posted
  <2>6. postings[j].views \in 0 .. MaxViews
    BY <2>5 DEF JobTypes, Listed, Posted, PostingRow
  <2>7. PICK row \in PostingRow : row = Persisted(j, q.row)
    BY <2>6, PersistedFields DEF WriteReq
  <2>8. postings' = [postings EXCEPT ![j] = row]
    BY <1>3, <2>1, <2>2, <2>7 DEF WriteJob
  <2> QED BY <2>5, <2>8, OnePostingMoves
<1>4. ASSUME NEW r \in Requests, NEW j \in Jobs, CronClose(r, j), ~ OutdatedWrite
      PROVE  [Lifecycle!Next]_[k \in Jobs |-> StageOf(k)]
  <2>1. PICK q \in CronReq : q = jobReq[r] /\ SoundReq(q) /\ q.pc = "cron"
    BY <1>4, JobRequestKinds DEF JobTypes, JobSafety, SoundRequests, CronClose
  <2>2. PICK w \in q.todo :
          /\ w.job = j
          /\ jobReq'[r] = IF q.todo \ {w} = {} THEN Idle
                          ELSE [pc |-> "cron", todo |-> q.todo \ {w}]
    BY <1>4, <2>1 DEF CronClose, JobTypes
  <2>3. jobReq'[r] # jobReq[r]
    BY <2>1, <2>2 DEF Idle
  <2>4. w \in q.todo \ (IF jobReq'[r] = Idle THEN {} ELSE jobReq'[r].todo)
    BY <2>2
  <2>5. Stage(w.row) = StageOf(j)
    BY <1>4, <2>1, <2>2, <2>3, <2>4 DEF OutdatedWrite, WritesOutdated
  <2>6. w.row # NoRow /\ ~ w.row.deleted /\ w.row.status = "OPEN"
    BY <2>1, <2>2, NoPostingAssumption DEF SoundReq, CronReq
  <2>7. Listed(j)
    BY <2>5, <2>6 DEF StageOf, Stage, Listed, Posted
  <2>8. \A k \in Jobs \ {j} : postings'[k] = postings[k]
    BY <1>4, CronCloses
  <2>9. postings'[j] # NoRow
    BY <1>4, <2>7, CronCloseKeeps DEF ViewsKept, Listed, Posted
  <2>10. PICK row \in PostingRow : row = postings'[j]
    BY <2>9 DEF JobTypes
  <2>11. postings' = [postings EXCEPT ![j] = row]
    BY <2>8, <2>10 DEF JobTypes
  <2> QED BY <2>7, <2>11, OnePostingMoves
<1>5. ASSUME NEW r \in Requests, IncrementViewCount(r)
      PROVE  UNCHANGED [j \in Jobs |-> StageOf(j)]
  <2>1. PICK q \in ViewReq : q = jobReq[r] /\ Posted(q.job)
    BY <1>5, JobRequestKinds
       DEF JobTypes, JobSafety, SoundRequests, SoundReq, IncrementViewCount
  <2>2. PICK j \in Jobs : j = q.job
    BY DEF ViewReq
  <2>3. PICK old \in PostingRow : old = postings[j]
    BY <2>1, <2>2 DEF JobTypes, Posted
  <2>4. /\ [old EXCEPT !.views = @ + 1].deleted = old.deleted
        /\ [old EXCEPT !.views = @ + 1].status = old.status
    BY DEF PostingRow
  <2>5. postings' = [postings EXCEPT ![j] = [old EXCEPT !.views = @ + 1]]
    BY <1>5, <2>1, <2>2, <2>3 DEF IncrementViewCount, JobTypes
  <2>6. Posted(j) /\ Posted(j)'
    BY <1>5, <2>1, <2>2, IncrementKeeps DEF ViewsKept
  <2>7. \A k \in Jobs : SameStage(k)
    BY <2>3, <2>4, <2>5, <2>6 DEF SameStage, Posted, JobTypes
  <2> QED BY <2>7, StagesStay
<1>6. ASSUME NEW r \in Requests, RemoveTerm(r)
      PROVE  UNCHANGED [j \in Jobs |-> StageOf(j)]
  <2>1. PICK t \in Terms : t = jobReq[r].term
    BY <1>6, JobRequestKinds DEF JobTypes, RemoveTerm, TermReq
  <2>2. \A j \in Jobs : SameStage(j)
    BY <1>6, <2>1, RemoveLeaves DEF SameStage, Posted
  <2> QED BY <2>2, StagesStay
<1>7. ASSUME NEW r \in Requests, JobContinue(r), ~ OutdatedWrite
      PROVE  [Lifecycle!Next]_[j \in Jobs |-> StageOf(j)]
  <2>1. CASE \/ CheckCategory(r) \/ CheckSkills(r) \/ CountReferences(r)
             \/ JobRequestFails(r)
    BY <1>1, <2>1 DEF CheckCategory, CheckSkills, CountReferences, JobRequestFails
  <2> QED BY <1>2, <1>3, <1>4, <1>5, <1>6, <1>7, <2>1 DEF JobContinue
<1>8. ASSUME NEW r \in Requests, JobStart(r) \/ CronStart(r) PROVE UNCHANGED postings
  BY <1>8 DEF JobStart, CronStart, CreateJob, UpdateJob, CloseJob, ReopenJob,
     DeleteJob, ReadPosting, ViewJob, CreateTerm, DeleteTerm
<1>9. UNCHANGED jobVars \/ Tick => UNCHANGED postings
  BY DEF jobVars, Tick
<1>10. [Lifecycle!Next]_[j \in Jobs |-> StageOf(j)] \/ OutdatedWrite
  BY <1>1, <1>7, <1>8, <1>9 DEF JobNext, postVars
<1> QED BY <1>10

(* A posting is published once, closed and reopened by whoever may, and    *)
(* stays removed once it is deleted, unless a write from an entity read    *)
(* before another request moved the posting undoes that move.              *)
THEOREM LifecycleFollowed == JobSpec => ImplementsPostingLifecycle
<1>1. JobInit => Lifecycle!Init
  BY DEF JobInit, Lifecycle!Init, StageOf, Stage
<1>2. CoTypeOK /\ JobTypes /\ JobTypes' /\ JobSafety /\ [JobNext]_postVars
        => [Lifecycle!Next \/ OutdatedWrite]_([j \in Jobs |-> StageOf(j)])
  BY JobStepFollowsLifecycle
<1> QED
  BY <1>1, <1>2, JobInvariant, PTL DEF JobSpec, ImplementsPostingLifecycle
=============================================================================
