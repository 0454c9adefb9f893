------------------------------ MODULE Companies ------------------------------
(***************************************************************************)
(* The company component: create, update and delete, over the table        *)
(* companies and the column User.companyId that creation links.            *)
(*                                                                         *)
(* A row keeps the owner, the slug and whether deletedAt is set; the other *)
(* columns decide nothing.  The slug is fixed at creation.  Two unique     *)
(* indexes guard the table: companies_slug_key over every row, and a       *)
(* partial one over the owners of the rows that are not deleted.           *)
(***************************************************************************)
CONSTANTS
  Recruiters,
  Companies,                    \* company ids
  Slugs,
  Requests,                     \* slots for requests in flight
  NoCompany,                    \* User.companyId = null
  NoRow                         \* no row under this id

ASSUME NoCompanyAssumption == NoCompany \notin Companies

VARIABLES
  companies,                    \* [Companies -> row of companies, or NoRow]
  linkedTo,                     \* [Recruiters -> User.companyId]
  coReq                         \* [Requests -> what a company handler holds]

coVars == <<companies, linkedTo, coReq>>

CompanyRow == [owner : Recruiters, slug : Slugs, deleted : BOOLEAN]
ASSUME NoCompanyRowAssumption == NoRow \notin CompanyRow

Idle == [pc |-> "idle"]
CompanyReq ==
  {Idle}
  \cup [pc : {"createChecked"}, by : Recruiters]
  \cup [pc : {"createNamed"}, by : Recruiters, slug : Slugs]
  \cup [pc : {"refused"}, by : Recruiters, why : {"alreadyExists", "slugTaken"}]
  \cup [pc : {"write"}, company : Companies, row : CompanyRow]

Founded(c) == companies[c] # NoRow
(* findById and findByOwnerId see the rows without deletedAt.              *)
Active(c) == Founded(c) /\ ~ companies[c].deleted
OwnsActive(u) == \E c \in Companies : Active(c) /\ companies[c].owner = u
(* existsBySlug sees every row.                                            *)
SlugUsed(s) == \E c \in Companies : Founded(c) /\ companies[c].slug = s

CoInit ==
  /\ companies = [c \in Companies |-> NoRow]
  /\ linkedTo = [u \in Recruiters |-> NoCompany]
  /\ coReq = [r \in Requests |-> Idle]

-----------------------------------------------------------------------------
(* CreateCompanyHandler.execute                                            *)

CreateCheckOwner(r, by) ==
  /\ coReq[r] = Idle
  /\ coReq' = [coReq EXCEPT ![r] =
       IF OwnsActive(by)
       THEN [pc |-> "refused", by |-> by, why |-> "alreadyExists"]
       ELSE [pc |-> "createChecked", by |-> by]]
  /\ UNCHANGED <<companies, linkedTo>>

(* generateUniqueSlug: it tries one suffix after another and stops at a    *)
(* slug that no row has when it looks.                                     *)
CreatePickSlug(r, s) ==
  /\ coReq[r].pc = "createChecked"
  /\ ~ SlugUsed(s)
  /\ coReq' = [coReq EXCEPT ![r] =
       [pc |-> "createNamed", by |-> coReq[r].by, slug |-> s]]
  /\ UNCHANGED <<companies, linkedTo>>

(* Mutant: the database before migration 20260905090000.                   *)
OwnerHasNoOther_NoIndex(c, u) == TRUE

(* companies_owner_id_active_unique, for an active row c of owner u.       *)
OwnerHasNoOther(c, u) ==
  \A d \in Companies \ {c} : ~ (Active(d) /\ companies[d].owner = u)

(* createWithOwnerLink: one transaction.                                   *)
CreateSave(r, c) ==
  /\ coReq[r].pc = "createNamed"
  /\ ~ Founded(c)
  /\ ~ SlugUsed(coReq[r].slug)
  /\ OwnerHasNoOther(c, coReq[r].by)
  /\ companies' = [companies EXCEPT ![c] =
       [owner |-> coReq[r].by, slug |-> coReq[r].slug, deleted |-> FALSE]]
  /\ linkedTo' = [linkedTo EXCEPT ![coReq[r].by] = c]
  /\ coReq' = [coReq EXCEPT ![r] = Idle]

(* The indexes an insert violates; the error names one of them.            *)
Violated(u, s) ==
  {i \in {"companies_slug_key", "companies_owner_id_active_unique"} :
     IF i = "companies_slug_key" THEN SlugUsed(s) ELSE OwnsActive(u)}

(* Mutant: any P2002 is reported as "you already own a company".           *)
Reason_Conflated(index) == "alreadyExists"

(* The catch block: uniqueConstraintName decides the answer.               *)
Reason(index) ==
  IF index = "companies_slug_key" THEN "slugTaken" ELSE "alreadyExists"

CreateSaveRefused(r) ==
  /\ coReq[r].pc = "createNamed"
  /\ \E index \in Violated(coReq[r].by, coReq[r].slug) :
       coReq' = [coReq EXCEPT ![r] =
         [pc |-> "refused", by |-> coReq[r].by, why |-> Reason(index)]]
  /\ UNCHANGED <<companies, linkedTo>>

CreateAnswerRefusal(r) ==
  /\ coReq[r].pc = "refused"
  /\ coReq' = [coReq EXCEPT ![r] = Idle]
  /\ UNCHANGED <<companies, linkedTo>>

-----------------------------------------------------------------------------
(* UpdateCompanyHandler and DeleteCompanyHandler                           *)

(* findById                                                                *)
Found(c) == Active(c)

(* findById, ensureOwner, then the entity method: updateDetails touches    *)
(* none of the columns kept here, softDelete sets deletedAt.               *)
ReadForWrite(r, c, by, deleted) ==
  /\ coReq[r] = Idle
  /\ Found(c)
  /\ companies[c].owner = by
  /\ coReq' = [coReq EXCEPT ![r] =
       [pc |-> "write", company |-> c,
        row |-> [companies[c] EXCEPT !.deleted = deleted]]]
  /\ UNCHANGED <<companies, linkedTo>>

UpdateCompany(r, c, by) == ReadForWrite(r, c, by, FALSE)
DeleteCompany(r, c, by) == ReadForWrite(r, c, by, TRUE)

(* toPersistence writes every column, deletedAt included; User.companyId   *)
(* is left alone.                                                          *)
CompanyWrite(r) ==
  /\ coReq[r].pc = "write"
  /\ LET w == coReq[r] IN
       /\ w.row.deleted \/ OwnerHasNoOther(w.company, w.row.owner)
       /\ companies' = [companies EXCEPT ![w.company] = w.row]
  /\ coReq' = [coReq EXCEPT ![r] = Idle]
  /\ UNCHANGED linkedTo

(* A query rejects, the partial index refuses the write, a check throws,   *)
(* or the process dies.                                                    *)
CoRequestFails(r) ==
  /\ coReq[r] # Idle
  /\ coReq' = [coReq EXCEPT ![r] = Idle]
  /\ UNCHANGED <<companies, linkedTo>>

(* A new request finds its slot idle; the others go on.                    *)
CoStart(r) ==
  \E by \in Recruiters :
    \/ CreateCheckOwner(r, by)
    \/ \E c \in Companies : UpdateCompany(r, c, by) \/ DeleteCompany(r, c, by)

CoContinue(r) ==
  \/ \E s \in Slugs : CreatePickSlug(r, s)
  \/ \E c \in Companies : CreateSave(r, c)
  \/ CreateSaveRefused(r) \/ CreateAnswerRefusal(r)
  \/ CompanyWrite(r)
  \/ CoRequestFails(r)

CoNext == \E r \in Requests : CoStart(r) \/ CoContinue(r)

CoSpec == CoInit /\ [][CoNext]_coVars

-----------------------------------------------------------------------------
(* Properties                                                              *)

CoTypeOK ==
  /\ companies \in [Companies -> CompanyRow \cup {NoRow}]
  /\ linkedTo \in [Recruiters -> Companies \cup {NoCompany}]
  /\ coReq \in [Requests -> CompanyReq]

(* A recruiter has at most one company that is not deleted: neither two    *)
(* creations nor a stale update of a deleted company make a second one.    *)
OneActiveCompanyPerOwner ==
  \A c, d \in Companies :
    Active(c) /\ Active(d) /\ companies[c].owner = companies[d].owner => c = d

(* No recruiter owns a company without User.companyId naming a company of  *)
(* theirs (company-prisma.repository.ts 63-70).                            *)
OwnerIsLinked ==
  \A c \in Companies : Founded(c) =>
    LET u == companies[c].owner IN
      linkedTo[u] # NoCompany /\ Founded(linkedTo[u]) /\ companies[linkedTo[u]].owner = u

(* "You already own a company" is only ever told to a recruiter who owns   *)
(* an active one at that moment (create-company.command.ts 81-88).         *)
AlreadyExistsIsTrue ==
  [][\A r \in Requests :
       coReq'[r].pc = "refused" /\ coReq[r].pc # "refused"
       /\ coReq'[r].why = "alreadyExists" => OwnsActive(coReq'[r].by)]_coVars
=============================================================================
