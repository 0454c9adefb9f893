--------------------------- MODULE Accounts_proofs ---------------------------
(***************************************************************************)
(* Proofs about Accounts, for any number of accounts, sessions, tokens,    *)
(* codes and requests in flight.                                           *)
(***************************************************************************)
EXTENDS Accounts, FiniteSetTheorems, TLAPS

(* The pc of a slot tells what it holds.                                   *)
LEMMA AccountRequestKinds ==
  ASSUME NEW q \in AcRequest
  PROVE  /\ q.pc = "createUser" => q \in CreateReq
         /\ q.pc = "createCode" => q \in CodeReq
         /\ q.pc = "findOwner" => q \in RedeemReq
         /\ q.pc = "markUsed" => q \in MarkReq
         /\ q.pc = "loadUser" => q \in LoadReq
         /\ q.pc = "countAdmins" => q \in CountReq
         /\ q.pc = "save" => q \in SaveReq
         /\ q.pc = "revokeAll" => q \in RevokeReq
         /\ q.pc \in {"refreshUser", "rotate"} => q \in RefreshReq
         /\ q.pc = "store" => q \in StoreReq
BY DEF AcRequest, Idle, CreateReq, CodeReq, RedeemReq, MarkReq, LoadReq, CountReq,
       SaveReq, RevokeReq, RefreshReq, StoreReq

(* What a request holds is linked to the accounts that are there: the      *)
(* owner of a code has an account, and the row to save was read.           *)
Linked(q) ==
  /\ q.pc \in {"findOwner", "markUsed"} => Registered(q.owner)
  /\ q.pc = "createCode" => Registered(q.user)
  /\ q.pc = "markUsed" /\ q.kind # "SOCIAL_LOGIN" => q.row # NoRow /\ q.seen # NoRow

AcLinked ==
  /\ \A k \in Codes : codes[k] # NoRow => Registered(codes[k].user)
  /\ \A r \in Requests : Linked(acReq[r])

(* Revoking touches live tokens only, and leaves whose they are.           *)
LEMMA RevokedTokens ==
  ASSUME AcTypeOK, NEW T \in SUBSET Tokens
  PROVE  /\ Revoked(T) \in [Tokens -> TokenRow \cup {NoRow}]
         /\ \A t \in Tokens :
              /\ Revoked(T)[t] = NoRow <=> tokens[t] = NoRow
              /\ tokens[t] # NoRow => /\ Revoked(T)[t].user = tokens[t].user
                                      /\ Revoked(T)[t].session = tokens[t].session
              /\ tokens[t] # NoRow /\ Revoked(T)[t].state = "live"
                   => t \notin T /\ Live(t)
<1> SUFFICES ASSUME NEW t \in Tokens
             PROVE  /\ Revoked(T)[t] \in TokenRow \cup {NoRow}
                    /\ Revoked(T)[t] = NoRow <=> tokens[t] = NoRow
                    /\ tokens[t] # NoRow => /\ Revoked(T)[t].user = tokens[t].user
                                            /\ Revoked(T)[t].session = tokens[t].session
                    /\ tokens[t] # NoRow /\ Revoked(T)[t].state = "live"
                         => t \notin T /\ Live(t)
  BY DEF Revoked
<1>1. CASE ~ (t \in T /\ Live(t))
  BY <1>1 DEF Revoked, Live, AcTypeOK
<1>2. CASE t \in T /\ Live(t)
  <2>1. tokens[t] \in TokenRow
    BY <1>2 DEF Live, AcTypeOK
  <2>2. Revoked(T)[t] = [tokens[t] EXCEPT !.state = "revoked"]
    BY <1>2 DEF Revoked
  <2> QED BY <1>2, <2>1, <2>2, NoAccountRowAssumption DEF TokenRow, Live
<1> QED BY <1>1, <1>2

LEMMA SessionsOfUser ==
  ASSUME AcTypeOK, NEW u
  PROVE  SessionsOf(u) \subseteq Sessions
BY DEF SessionsOf, TokensOf, AcTypeOK, TokenRow

(* What taking effect adds to the count.                                   *)
LEMMA RedeemingOnce ==
  ASSUME AcTypeOK, NEW k \in Codes \cup {NoRow}
  PROVE  /\ Redeeming(k) \in [Codes -> Nat]
         /\ \A x \in Codes :
              Redeeming(k)[x] = IF x = k THEN redeemed[x] + 1 ELSE redeemed[x]
<1>1. CASE k = NoRow
  BY <1>1, NoAccountRowAssumption DEF Redeeming, AcTypeOK
<1>2. CASE k \in Codes
  BY <1>2, NoAccountRowAssumption DEF Redeeming, AcTypeOK
<1> QED BY <1>1, <1>2

(* A step that only moves a request on.                                    *)
LEMMA GoKeepsTypes ==
  ASSUME AcTypeOK, AcLinked, NEW r \in Requests, NEW q \in AcRequest, Linked(q),
         Go(r, q), UNCHANGED <<users, codes>>,
         tokens' \in [Tokens -> TokenRow \cup {NoRow}],
         begun' \subseteq Sessions, ended' \subseteq Sessions, forked' \subseteq Sessions,
         redeemed' \in [Codes -> Nat], shared' \subseteq Codes
  PROVE  AcTypeOK' /\ AcLinked'
<1>1. /\ acReq' \in [Requests -> AcRequest]
      /\ \A s \in Requests : acReq'[s] = q \/ acReq'[s] = acReq[s]
  BY DEF AcTypeOK, Go
<1>2. AcTypeOK'
  BY <1>1 DEF AcTypeOK
<1>3. AcLinked'
  BY <1>1 DEF AcLinked, Linked, Registered
<1> QED BY <1>2, <1>3

LEMMA StartKeepsTypes ==
  ASSUME AcTypeOK, AcLinked, NEW r \in Requests, AcStart(r)
  PROVE  AcTypeOK' /\ AcLinked'
<1> DEFINE Unchanged == UNCHANGED <<users, tokens, codes, begun, ended, forked, redeemed, shared>>
<1>1. ASSUME NEW u \in Users, NEW role \in Roles,
             Register(r, u, role) \/ SocialLogin(r, u, role)
      PROVE  AcTypeOK' /\ AcLinked'
  <2>1. PICK q : /\ Go(r, q) /\ Unchanged
                 /\ \/ /\ Registered(u) /\ q = [pc |-> "createCode", user |-> u,
                                                kind |-> "SOCIAL_LOGIN"]
                    \/ \E k \in Kinds, row \in UserRow :
                         q = [pc |-> "createUser", user |-> u, kind |-> k, row |-> row]
    BY <1>1 DEF Register, SocialLogin, Kinds, UserRow, Roles, Statuses
  <2>2. q \in AcRequest /\ Linked(q)
    BY <2>1 DEF AcRequest, CodeReq, CreateReq, Kinds, Linked
  <2> QED BY <2>1, <2>2, GoKeepsTypes DEF AcTypeOK
<1>2. ASSUME NEW u \in Users, ForgotPassword(r, u) PROVE AcTypeOK' /\ AcLinked'
  <2>1. PICK q : Go(r, q) /\ Unchanged /\ q = [pc |-> "createCode", user |-> u, kind |-> "PASSWORD_RESET"]
    BY <1>2 DEF ForgotPassword
  <2>2. q \in AcRequest /\ Linked(q)
    BY <1>2, <2>1 DEF ForgotPassword, AcRequest, CodeReq, Kinds, Linked
  <2> QED BY <2>1, <2>2, GoKeepsTypes DEF AcTypeOK
<1>3. ASSUME NEW u \in Users, ChangePassword(r, u) PROVE AcTypeOK' /\ AcLinked'
  <2>1. PICK q : /\ Go(r, q) /\ Unchanged
                 /\ q = [pc |-> "save", user |-> u, row |-> users[u], seen |-> users[u],
                         counted |-> {}, revoke |-> TRUE, code |-> NoRow]
    BY <1>3 DEF ChangePassword
  <2>2. q \in AcRequest /\ Linked(q)
    BY <1>3, <2>1 DEF ChangePassword, Registered, AcTypeOK, AcRequest, SaveReq, Linked
  <2> QED BY <2>1, <2>2, GoKeepsTypes DEF AcTypeOK
<1>4. ASSUME NEW u \in Users, NEW s \in Sessions, Login(r, u, s)
      PROVE  AcTypeOK' /\ AcLinked'
  <2>1. PICK q : /\ Go(r, q)
                 /\ q = [pc |-> "store", user |-> u, session |-> s, code |-> NoRow]
    BY <1>4 DEF Login
  <2>2. q \in AcRequest /\ Linked(q)
    BY <2>1 DEF AcRequest, StoreReq, Linked
  <2> QED BY <1>4, <2>1, <2>2, GoKeepsTypes DEF AcTypeOK, Login
<1>5. ASSUME NEW a \in Users, NEW u \in Users, NEW role \in Roles \cup {NoInput},
             NEW status \in Statuses \cup {NoInput}, UpdateUser(r, a, u, role, status)
      PROVE  AcTypeOK' /\ AcLinked'
  <2>1. users[u] \in UserRow /\ Updated(users[u], role, status) \in UserRow
    BY <1>5 DEF UpdateUser, Registered, AcTypeOK, Updated, UserRow
  <2>2. PICK q :
          /\ Go(r, q) /\ Unchanged
          /\ \E row \in UserRow, revoke \in BOOLEAN :
               \/ q = [pc |-> "countAdmins", user |-> u, row |-> row, seen |-> users[u],
                       revoke |-> revoke]
               \/ q = [pc |-> "save", user |-> u, row |-> row, seen |-> users[u],
                       counted |-> {}, revoke |-> revoke, code |-> NoRow]
    BY <1>5, <2>1 DEF UpdateUser, ChangesRole
  <2>3. q \in AcRequest /\ Linked(q)
    BY <2>1, <2>2 DEF AcRequest, CountReq, SaveReq, Linked
  <2> QED BY <2>2, <2>3, GoKeepsTypes DEF AcTypeOK
<1>6. ASSUME NEW k \in Codes, Redeem(r, k) PROVE AcTypeOK' /\ AcLinked'
  <2>1. codes[k] \in CodeRow /\ Registered(codes[k].user)
    BY <1>6 DEF Redeem, Redeemable, AcTypeOK, AcLinked
  <2>2. PICK u \in Users, kind \in Kinds :
          u = codes[k].user /\ kind = codes[k].kind /\ Registered(u)
    BY <2>1 DEF CodeRow
  <2>3. PICK q : /\ Go(r, q)
                 /\ \/ /\ kind = "SOCIAL_LOGIN"
                       /\ q = [pc |-> "markUsed", code |-> k, owner |-> u,
                               kind |-> kind, row |-> NoRow, seen |-> NoRow]
                    \/ q = [pc |-> "findOwner", code |-> k, owner |-> u, kind |-> kind]
    BY <1>6, <2>2 DEF Redeem
  <2>4. q \in AcRequest /\ Linked(q)
    BY <2>2, <2>3 DEF AcRequest, RedeemReq, MarkReq, Linked
  <2> QED BY <1>6, <2>3, <2>4, GoKeepsTypes DEF Redeem, AcTypeOK
<1>7. ASSUME NEW t \in Tokens, Refresh(r, t) PROVE AcTypeOK' /\ AcLinked'
  <2>1. tokens[t] \in TokenRow
    BY <1>7 DEF Refresh, Valid, AcTypeOK
  <2>2. PICK q : /\ Go(r, q)
                 /\ q = [pc |-> "refreshUser", token |-> t, user |-> tokens[t].user,
                         session |-> tokens[t].session]
    BY <1>7 DEF Refresh
  <2>3. q \in AcRequest /\ Linked(q)
    BY <2>1, <2>2 DEF AcRequest, RefreshReq, TokenRow, Linked
  <2>4. forked' \subseteq Sessions
    BY <1>7, <2>1 DEF Refresh, AcTypeOK, TokenRow
  <2> QED BY <1>7, <2>2, <2>3, <2>4, GoKeepsTypes DEF Refresh, AcTypeOK
<1>8. ASSUME NEW T \in SUBSET Tokens,
             tokens' = Revoked(T),
             UNCHANGED <<users, codes, acReq, begun, forked, redeemed, shared>>,
             ended' \subseteq Sessions
      PROVE  AcTypeOK' /\ AcLinked'
  <2>1. tokens' \in [Tokens -> TokenRow \cup {NoRow}]
    BY <1>8, RevokedTokens DEF AcTypeOK
  <2> QED BY <1>8, <2>1 DEF AcTypeOK, AcLinked, Linked, Registered
<1>9. ASSUME NEW t \in Tokens, Logout(r, t) PROVE AcTypeOK' /\ AcLinked'
  <2>1. tokens[t].session \in Sessions
    BY <1>9 DEF Logout, AcTypeOK, TokenRow
  <2>2. ended' \subseteq Sessions
    BY <1>9, <2>1 DEF Logout, AcTypeOK
  <2> QED BY <1>8, <1>9, <2>2 DEF Logout
<1>10. ASSUME NEW u \in Users, LogoutAll(r, u) PROVE AcTypeOK' /\ AcLinked'
  BY <1>8, <1>10, SessionsOfUser DEF LogoutAll, RevokeAll, TokensOf, AcTypeOK
<1>11. ASSUME Cleanup(r) PROVE AcTypeOK' /\ AcLinked'
  <2>1. /\ tokens' \in [Tokens -> TokenRow \cup {NoRow}]
        /\ codes' \in [Codes -> CodeRow \cup {NoRow}]
        /\ \A k \in Codes : codes'[k] = NoRow \/ codes'[k] = codes[k]
    BY <1>11 DEF Cleanup, AcTypeOK
  <2> QED BY <1>11, <2>1 DEF Cleanup, AcTypeOK, AcLinked, Linked, Registered
<1> QED BY <1>1, <1>2, <1>3, <1>4, <1>5, <1>6, <1>7, <1>9, <1>10, <1>11 DEF AcStart

LEMMA ContinueKeepsTypes ==
  ASSUME AcTypeOK, AcLinked, NEW r \in Requests, AcContinue(r)
  PROVE  AcTypeOK' /\ AcLinked'
<1> DEFINE Unchanged == UNCHANGED <<users, tokens, codes, begun, ended, forked, redeemed, shared>>
<1>0. /\ acReq[r] \in AcRequest /\ Linked(acReq[r])
      /\ Idle \in AcRequest /\ Linked(Idle)
  BY DEF AcTypeOK, AcLinked, AcRequest, Idle, Linked
<1>1. CASE CreateUser(r)
  <2>1. acReq[r] \in CreateReq
    BY <1>0, <1>1, AccountRequestKinds DEF CreateUser
  <2>2. PICK u \in Users, row \in UserRow, kind \in Kinds :
          u = acReq[r].user /\ row = acReq[r].row /\ kind = acReq[r].kind
    BY <2>1 DEF CreateReq
  <2>3. CASE Registered(u)
    BY <1>0, <1>1, <2>2, <2>3, GoKeepsTypes DEF CreateUser, AcTypeOK
  <2>4. CASE ~ Registered(u)
    <3>1. PICK q : Go(r, q) /\ q = [pc |-> "createCode", user |-> u, kind |-> kind]
      BY <1>1, <2>2, <2>4 DEF CreateUser
    <3>2. /\ users' \in [Users -> UserRow \cup {NoRow}] /\ users'[u] = row
          /\ \A v \in Users \ {u} : users'[v] = users[v]
          /\ UNCHANGED <<tokens, codes, begun, ended, forked, redeemed, shared>>
      BY <1>1, <2>2, <2>4 DEF CreateUser, AcTypeOK
    <3>3. /\ q \in AcRequest
          /\ acReq' \in [Requests -> AcRequest]
          /\ \A s \in Requests : acReq'[s] = q \/ acReq'[s] = acReq[s]
      BY <3>1 DEF Go, AcTypeOK, AcRequest, CodeReq
    <3>4. AcTypeOK'
      BY <3>2, <3>3 DEF AcTypeOK
    <3>5. row # NoRow
      BY NoAccountRowAssumption
    <3>6. \A k \in Codes : codes'[k] # NoRow => users'[codes'[k].user] # NoRow
      BY <3>2, <3>5 DEF AcLinked, Registered, AcTypeOK, CodeRow
    <3>7. \A v \in Users : Registered(v) => users'[v] # NoRow
      BY <3>2, <3>5 DEF Registered
    <3>8. ASSUME NEW s \in Requests
          PROVE  /\ acReq'[s].pc \in {"findOwner", "markUsed"} => users'[acReq'[s].owner] # NoRow
                 /\ acReq'[s].pc = "createCode" => users'[acReq'[s].user] # NoRow
                 /\ acReq'[s].pc = "markUsed" /\ acReq'[s].kind # "SOCIAL_LOGIN"
                      => acReq'[s].row # NoRow /\ acReq'[s].seen # NoRow
      <4>1. CASE acReq'[s] = q
        BY <3>1, <3>2, <3>5, <4>1
      <4>2. CASE acReq'[s] = acReq[s]
        <5>1. acReq[s] \in AcRequest /\ Linked(acReq[s])
          BY DEF AcTypeOK, AcLinked
        <5>2. /\ acReq[s].pc \in {"findOwner", "markUsed"} => acReq[s].owner \in Users
              /\ acReq[s].pc = "createCode" => acReq[s].user \in Users
          BY <5>1, AccountRequestKinds DEF RedeemReq, MarkReq, CodeReq
        <5> QED BY <3>7, <4>2, <5>1, <5>2 DEF Linked
      <4> QED BY <3>3, <4>1, <4>2
    <3> QED BY <3>4, <3>6, <3>8 DEF AcLinked, Linked, Registered
  <2> QED BY <2>3, <2>4
<1>2. ASSUME NEW k \in Codes, CreateCode(r, k) PROVE AcTypeOK' /\ AcLinked'
  <2>1. acReq[r] \in CodeReq /\ Registered(acReq[r].user)
    BY <1>0, <1>2, AccountRequestKinds DEF CreateCode, Linked
  <2>2. PICK row \in CodeRow :
          row = [user |-> acReq[r].user, kind |-> acReq[r].kind, state |-> "valid"]
    BY <2>1 DEF CodeReq, CodeRow
  <2>3. codes' = [codes EXCEPT ![k] = row] /\ Registered(row.user)
    BY <1>2, <2>1, <2>2 DEF CreateCode
  <2> QED BY <1>0, <1>2, <2>3 DEF CreateCode, Go, AcTypeOK, AcLinked, Linked, Registered
<1>3. CASE FindOwner(r)
  <2>1. acReq[r] \in RedeemReq /\ Registered(acReq[r].owner)
    BY <1>0, <1>3, AccountRequestKinds DEF FindOwner, Linked
  <2>2. users[acReq[r].owner] \in UserRow
    BY <2>1 DEF RedeemReq, Registered, AcTypeOK
  <2>3. PICK row \in UserRow :
          row = IF acReq[r].kind = "EMAIL_VERIFICATION"
                THEN [users[acReq[r].owner] EXCEPT !.status = "ACTIVE"]
                ELSE users[acReq[r].owner]
    BY <2>2 DEF UserRow, Statuses
  <2>4. PICK q : /\ Go(r, q) /\ Unchanged
                 /\ q = [pc |-> "markUsed", code |-> acReq[r].code, owner |-> acReq[r].owner,
                         kind |-> acReq[r].kind, seen |-> users[acReq[r].owner],
                         row |-> row]
    BY <1>3, <2>3 DEF FindOwner
  <2>5. q \in AcRequest /\ Linked(q)
    BY <2>1, <2>2, <2>4, NoAccountRowAssumption DEF AcRequest, RedeemReq, MarkReq, Linked
  <2> QED BY <2>4, <2>5, GoKeepsTypes DEF AcTypeOK
<1>4. CASE MarkUsed(r)
  <2>1. acReq[r] \in MarkReq
    BY <1>0, <1>4, AccountRequestKinds DEF MarkUsed
  <2>2. PICK k \in Codes, u \in Users : k = acReq[r].code /\ u = acReq[r].owner
    BY <2>1 DEF MarkReq
  <2>3. codes[k] \in CodeRow
    BY <1>4, <2>2 DEF MarkUsed, AcTypeOK
  <2>4. PICK state \in {"used", "expired"} :
           state = IF codes[k].state = "expired" THEN "expired" ELSE "used"
    OBVIOUS
  <2>5. codes' = [codes EXCEPT ![k] = [codes[k] EXCEPT !.state = state]]
    BY <1>4, <2>2, <2>4 DEF MarkUsed
  <2>6. /\ [codes[k] EXCEPT !.state = state] \in CodeRow
         /\ [codes[k] EXCEPT !.state = state].user = codes[k].user
    BY <2>3, <2>4 DEF CodeRow
  <2>7. PICK row \in CodeRow :
          row = [codes[k] EXCEPT !.state = state] /\ row.user = codes[k].user
    BY <2>6
  <2>8. codes' = [codes EXCEPT ![k] = row]
    BY <2>7, <2>5
  <2> DEFINE load == [pc |-> "loadUser", user |-> acReq[r].owner, code |-> acReq[r].code]
             save == [pc |-> "save", user |-> acReq[r].owner, row |-> acReq[r].row,
                      seen |-> acReq[r].seen, counted |-> {},
                      revoke |-> acReq[r].kind = "PASSWORD_RESET", code |-> acReq[r].code]
             q == IF acReq[r].kind = "SOCIAL_LOGIN" THEN load ELSE save
  <2>9. Go(r, q)
    BY <1>4 DEF MarkUsed
  <2>10. acReq[r].kind # "SOCIAL_LOGIN" => acReq[r].row \in UserRow /\ acReq[r].seen \in UserRow
    BY <1>0, <1>4, <2>1 DEF MarkReq, Linked, MarkUsed
  <2>11. q \in AcRequest /\ q.pc \in {"loadUser", "save"}
    <3>1. CASE acReq[r].kind = "SOCIAL_LOGIN"
      BY <2>2, <3>1 DEF AcRequest, LoadReq
    <3>2. CASE acReq[r].kind # "SOCIAL_LOGIN"
      <4>1. (acReq[r].kind = "PASSWORD_RESET") \in BOOLEAN
        OBVIOUS
      <4>2. save \in SaveReq /\ save.pc = "save"
        BY <2>2, <2>10, <3>2, <4>1 DEF SaveReq
      <4> QED BY <3>2, <4>2 DEF AcRequest
    <3> QED BY <3>1, <3>2
  <2> HIDE DEF q, load, save
  <2>12. /\ acReq' \in [Requests -> AcRequest]
        /\ \A s \in Requests : acReq'[s] = q \/ acReq'[s] = acReq[s]
    BY <2>9, <2>11 DEF Go, AcTypeOK
  <2>13. AcTypeOK'
    BY <1>4, <2>8, <2>12 DEF MarkUsed, AcTypeOK
  <2>14. \A x \in Codes : codes'[x] # NoRow => users[codes'[x].user] # NoRow
    BY <1>4, <2>2, <2>7, <2>8 DEF MarkUsed, AcTypeOK, AcLinked, Registered
  <2> QED BY <1>4, <2>11, <2>12, <2>13, <2>14 DEF MarkUsed, AcLinked, Linked, Registered
<1>5. ASSUME NEW s \in Sessions, LoadUser(r, s) PROVE AcTypeOK' /\ AcLinked'
  <2>1. acReq[r] \in LoadReq
    BY <1>0, <1>5, AccountRequestKinds DEF LoadUser
  <2>2. PICK q : /\ Go(r, q)
                 /\ \/ q = Idle
                    \/ q = [pc |-> "store", user |-> acReq[r].user, session |-> s,
                            code |-> acReq[r].code]
    BY <1>5 DEF LoadUser
  <2>3. q \in AcRequest /\ Linked(q)
    BY <1>0, <2>1, <2>2 DEF AcRequest, LoadReq, StoreReq, Linked
  <2> QED BY <1>5, <2>2, <2>3, GoKeepsTypes DEF LoadUser, AcTypeOK
<1>6. CASE CountAdmins(r)
  <2>1. acReq[r] \in CountReq
    BY <1>0, <1>6, AccountRequestKinds DEF CountAdmins
  <2>2. PICK q : /\ Go(r, q) /\ Unchanged
                 /\ \/ q = Idle
                    \/ q = [pc |-> "save", user |-> acReq[r].user, row |-> acReq[r].row,
                            seen |-> acReq[r].seen, counted |-> {u \in Users : IsActiveAdmin(u)},
                            revoke |-> acReq[r].revoke, code |-> NoRow]
    BY <1>6 DEF CountAdmins
  <2>3. q \in AcRequest /\ Linked(q)
    BY <1>0, <2>1, <2>2 DEF AcRequest, CountReq, SaveReq, Linked
  <2> QED BY <2>2, <2>3, GoKeepsTypes DEF AcTypeOK
<1>7. CASE Save(r)
  <2>1. acReq[r] \in SaveReq
    BY <1>0, <1>7, AccountRequestKinds DEF Save
  <2>2. PICK u \in Users, row \in UserRow :
          u = acReq[r].user /\ row = acReq[r].row /\ row # NoRow
    BY <2>1, NoAccountRowAssumption DEF SaveReq
  <2>3. users' = [users EXCEPT ![u] = row]
    BY <1>7, <2>2 DEF Save
  <2>4. redeemed' \in [Codes -> Nat]
    BY <1>7, <2>1, RedeemingOnce DEF Save, SaveReq
  <2>5. PICK q : /\ Go(r, q)
                 /\ q = Idle \/ q = [pc |-> "revokeAll", user |-> u]
    BY <1>7, <2>2 DEF Save
  <2>6. q \in AcRequest /\ Linked(q) /\ q.pc \in {"idle", "revokeAll"}
    BY <1>0, <2>5 DEF AcRequest, RevokeReq, Linked, Idle
  <2>7. /\ acReq' \in [Requests -> AcRequest]
        /\ \A s \in Requests : acReq'[s] = q \/ acReq'[s] = acReq[s]
    BY <2>5, <2>6 DEF Go, AcTypeOK
  <2>8. AcTypeOK'
    BY <1>7, <2>3, <2>4, <2>7 DEF Save, AcTypeOK
  <2>9. \A v \in Users : Registered(v) => users'[v] # NoRow
    BY <2>2, <2>3 DEF Registered, AcTypeOK
  <2>10. \A k \in Codes : codes[k] # NoRow => users'[codes[k].user] # NoRow
    BY <2>9 DEF AcLinked, AcTypeOK, CodeRow
  <2>11. ASSUME NEW s \in Requests
         PROVE  /\ acReq'[s].pc \in {"findOwner", "markUsed"} => users'[acReq'[s].owner] # NoRow
                /\ acReq'[s].pc = "createCode" => users'[acReq'[s].user] # NoRow
                /\ acReq'[s].pc = "markUsed" /\ acReq'[s].kind # "SOCIAL_LOGIN"
                     => acReq'[s].row # NoRow /\ acReq'[s].seen # NoRow
    <3>1. CASE acReq'[s] = q
      BY <2>6, <3>1
    <3>2. CASE acReq'[s] = acReq[s]
      <4>1. acReq[s] \in AcRequest /\ Linked(acReq[s])
        BY DEF AcTypeOK, AcLinked
      <4>2. /\ acReq[s].pc \in {"findOwner", "markUsed"} => acReq[s].owner \in Users
            /\ acReq[s].pc = "createCode" => acReq[s].user \in Users
        BY <4>1, AccountRequestKinds DEF RedeemReq, MarkReq, CodeReq
      <4> QED BY <2>9, <3>2, <4>1, <4>2 DEF Linked
    <3> QED BY <2>7, <3>1, <3>2
  <2> QED BY <1>7, <2>8, <2>10, <2>11 DEF Save, AcLinked, Linked, Registered
<1>8. CASE RevokeSessions(r)
  <2>1. /\ tokens' \in [Tokens -> TokenRow \cup {NoRow}]
        /\ ended' \subseteq Sessions
    BY <1>8, RevokedTokens, SessionsOfUser
       DEF RevokeSessions, RevokeAll, TokensOf, AcTypeOK
  <2> QED BY <1>0, <1>8, <2>1, GoKeepsTypes DEF RevokeSessions, AcTypeOK
<1>9. CASE RefreshUser(r)
  <2>1. acReq[r] \in RefreshReq
    BY <1>0, <1>9, AccountRequestKinds DEF RefreshUser
  <2>2. [acReq[r] EXCEPT !.pc = "rotate"] \in RefreshReq
    BY <2>1 DEF RefreshReq
  <2>3. PICK q : Go(r, q) /\ Unchanged /\ (q = Idle \/ (q \in RefreshReq /\ q.pc = "rotate"))
    BY <1>9, <2>1, <2>2 DEF RefreshUser, RefreshReq
  <2>4. q \in AcRequest /\ Linked(q)
    BY <1>0, <2>3 DEF AcRequest, Linked
  <2> QED BY <2>3, <2>4, GoKeepsTypes DEF AcTypeOK
<1>10. CASE Rotate(r)
  <2>1. acReq[r] \in RefreshReq
    BY <1>0, <1>10, AccountRequestKinds DEF Rotate
  <2>2. tokens' \in [Tokens -> TokenRow \cup {NoRow}]
    BY <1>10, <2>1, RevokedTokens DEF Rotate, RefreshReq
  <2>3. PICK q : /\ Go(r, q)
                 /\ q = [pc |-> "store", user |-> acReq[r].user,
                         session |-> acReq[r].session, code |-> NoRow]
    BY <1>10 DEF Rotate, ToStore
  <2>4. q \in AcRequest /\ Linked(q)
    BY <2>1, <2>3 DEF AcRequest, RefreshReq, StoreReq, Linked
  <2> QED BY <1>10, <2>2, <2>3, <2>4, GoKeepsTypes DEF Rotate, AcTypeOK
<1>11. ASSUME NEW t \in Tokens, StoreToken(r, t) PROVE AcTypeOK' /\ AcLinked'
  <2>1. acReq[r] \in StoreReq
    BY <1>0, <1>11, AccountRequestKinds DEF StoreToken
  <2>2. [user |-> acReq[r].user, session |-> acReq[r].session, state |-> "live"] \in TokenRow
    BY <2>1 DEF StoreReq, TokenRow
  <2>3. tokens' \in [Tokens -> TokenRow \cup {NoRow}] /\ redeemed' \in [Codes -> Nat]
    BY <1>11, <2>1, <2>2, RedeemingOnce DEF StoreToken, StoreReq, AcTypeOK
  <2> QED BY <1>0, <1>11, <2>3, GoKeepsTypes DEF StoreToken, AcTypeOK
<1>12. CASE AcRequestFails(r)
  BY <1>0, <1>12, GoKeepsTypes DEF AcRequestFails, AcTypeOK
<1> QED BY <1>1, <1>2, <1>3, <1>4, <1>5, <1>6, <1>7, <1>8, <1>9, <1>10, <1>11, <1>12
           DEF AcContinue

LEMMA AcTypesInductive ==
  ASSUME AcTypeOK, AcLinked, [AcNext]_acVars
  PROVE  AcTypeOK' /\ AcLinked'
<1>1. CASE UNCHANGED acVars
  BY <1>1 DEF acVars, AcTypeOK, AcLinked, Linked, Registered
<1>2. ASSUME NEW t \in Tokens, TokenExpires(t) PROVE AcTypeOK' /\ AcLinked'
  <2>1. [tokens[t] EXCEPT !.state = "expired"] \in TokenRow
    BY <1>2 DEF TokenExpires, AcTypeOK, TokenRow
  <2> QED BY <1>2, <2>1 DEF TokenExpires, AcTypeOK, AcLinked, Linked, Registered
<1>3. ASSUME NEW k \in Codes, CodeExpires(k) PROVE AcTypeOK' /\ AcLinked'
  <2>1. PICK row \in CodeRow :
          row = [codes[k] EXCEPT !.state = "expired"] /\ row.user = codes[k].user
    BY <1>3 DEF CodeExpires, AcTypeOK, CodeRow
  <2>2. codes' = [codes EXCEPT ![k] = row]
    BY <1>3, <2>1 DEF CodeExpires
  <2> QED BY <1>3, <2>1, <2>2 DEF CodeExpires, AcTypeOK, AcLinked, Linked, Registered
<1> QED BY <1>1, <1>2, <1>3, StartKeepsTypes, ContinueKeepsTypes DEF AcNext

LEMMA AcTypesInit == AcInit => AcTypeOK /\ AcLinked
BY AdminAssumption
   DEF AcInit, AcTypeOK, AcLinked, Linked, Registered, Idle, AcRequest, UserRow, Roles,
       Statuses

(* Every state is well typed, and no code is without its account, whatever *)
(* the requests in flight.                                                 *)
THEOREM AcTypeCorrect == AcSpec => [](AcTypeOK /\ AcLinked)
<1>1. AcInit => AcTypeOK /\ AcLinked
  BY AcTypesInit
<1>2. AcTypeOK /\ AcLinked /\ [AcNext]_acVars => (AcTypeOK /\ AcLinked)'
  BY AcTypesInductive
<1> QED BY <1>1, <1>2, PTL DEF AcSpec

-----------------------------------------------------------------------------
(* Sessions.  Every token of a session, and every request that carries it  *)
(* on, belong to one account; and unless the session was forked, a request *)
(* carries it on alone and the one live token, if any, is the token it     *)
(* will revoke.                                                            *)
Carries(q, s) == q.pc \in Carrying /\ q.session = s
LiveIn(tks, t) == tks[t] # NoRow /\ tks[t].state = "live"

OwnedBy(f, tks, reqs) ==
  /\ \A t \in Tokens : tks[t] # NoRow => tks[t].user = f[tks[t].session]
  /\ \A r \in Requests : reqs[r].pc \in Carrying => reqs[r].user = f[reqs[r].session]

OneUserPerSession == \E f \in [Sessions -> Users] : OwnedBy(f, tokens, acReq)

OnlyBegunSessions ==
  /\ ended \subseteq begun
  /\ \A t \in Tokens : tokens[t] # NoRow => tokens[t].session \in begun
  /\ \A r \in Requests : acReq[r].pc \in Carrying => acReq[r].session \in begun \ ended

CarriedOnce ==
  \A r, x \in Requests, s \in Sessions :
    Carries(acReq[r], s) /\ Carries(acReq[x], s) => r = x \/ s \in forked

CarrierReplaces ==
  \A r \in Requests, t \in Tokens, s \in Sessions :
    Carries(acReq[r], s) /\ LiveIn(tokens, t) /\ tokens[t].session = s
      => (acReq[r].pc # "store" /\ acReq[r].token = t) \/ s \in forked

SessionsSound ==
  /\ EndedSessionsStayEnded /\ OneTokenPerSession
  /\ OnlyBegunSessions /\ OneUserPerSession /\ CarriedOnce /\ CarrierReplaces

LEMMA CarrierTypes ==
  ASSUME AcTypeOK, NEW r \in Requests, acReq[r].pc \in Carrying
  PROVE  acReq[r].session \in Sessions /\ acReq[r].user \in Users
BY AccountRequestKinds DEF AcTypeOK, Carrying, RefreshReq, StoreReq

(* Tokens that are revoked, expire or are deleted, and requests that end,  *)
(* end nothing but what is answered to be over.                            *)
LEMMA NarrowingKeepsSessions ==
  ASSUME AcTypeOK, SessionsSound, UNCHANGED <<begun, forked>>,
         \A t \in Tokens : tokens'[t] # NoRow =>
           /\ tokens[t] # NoRow
           /\ tokens'[t].user = tokens[t].user
           /\ tokens'[t].session = tokens[t].session
           /\ tokens'[t].state = "live" =>
                tokens[t].state = "live" /\ tokens[t].session \notin ended',
         ended' \subseteq begun,
         \A x \in Requests : acReq'[x].pc \in Carrying =>
           acReq'[x] = acReq[x] /\ acReq[x].session \notin ended'
  PROVE  SessionsSound'
<1>1. EndedSessionsStayEnded'
  BY DEF EndedSessionsStayEnded, Live
<1>2. OneTokenPerSession'
  BY DEF SessionsSound, OneTokenPerSession, Live
<1>3. OnlyBegunSessions'
  BY DEF SessionsSound, OnlyBegunSessions
<1>4. OneUserPerSession'
  <2>1. PICK f \in [Sessions -> Users] : OwnedBy(f, tokens, acReq)
    BY DEF SessionsSound, OneUserPerSession
  <2>2. OwnedBy(f, tokens', acReq')
    BY <2>1 DEF OwnedBy
  <2> QED BY <2>2 DEF OneUserPerSession
<1>5. CarriedOnce'
  BY DEF SessionsSound, CarriedOnce, Carries
<1>6. CarrierReplaces'
  BY DEF SessionsSound, CarrierReplaces, Carries, LiveIn
<1> QED BY <1>1, <1>2, <1>3, <1>4, <1>5, <1>6 DEF SessionsSound

(* A request that goes on to carry a session.                              *)
LEMMA CarryingKeepsSessions ==
  ASSUME AcTypeOK, SessionsSound, NEW r \in Requests, NEW q, Go(r, q),
         NEW s \in Sessions, Carries(q, s), s \in begun' \ ended,
         UNCHANGED ended, begun \subseteq begun', forked \subseteq forked',
         \A t \in Tokens : tokens'[t] # NoRow =>
           /\ tokens[t] # NoRow
           /\ tokens'[t].user = tokens[t].user
           /\ tokens'[t].session = tokens[t].session
           /\ tokens'[t].state = "live" => tokens[t].state = "live",
         NEW f \in [Sessions -> Users], OwnedBy(f, tokens, acReq), q.user = f[s],
         \A x \in Requests \ {r} : Carries(acReq[x], s) => s \in forked',
         \A t \in Tokens : LiveIn(tokens', t) /\ tokens[t].session = s
           => (q.pc # "store" /\ q.token = t) \/ s \in forked'
  PROVE  SessionsSound'
<1>1. acReq'[r] = q /\ \A x \in Requests \ {r} : acReq'[x] = acReq[x]
  BY DEF Go, AcTypeOK
<1>2. EndedSessionsStayEnded' /\ OneTokenPerSession'
  BY DEF SessionsSound, EndedSessionsStayEnded, OneTokenPerSession, Live
<1>3. OnlyBegunSessions'
  BY <1>1 DEF SessionsSound, OnlyBegunSessions, Carries
<1>4. OneUserPerSession'
  <2>1. OwnedBy(f, tokens', acReq')
    BY <1>1 DEF OwnedBy, Carries
  <2> QED BY <2>1 DEF OneUserPerSession
<1>5. CarriedOnce'
  <2> SUFFICES ASSUME NEW x \in Requests, NEW y \in Requests, NEW z \in Sessions,
                      Carries(acReq'[x], z), Carries(acReq'[y], z)
               PROVE  x = y \/ z \in forked'
    BY DEF CarriedOnce, Carries
  <2>1. CASE x # r /\ y # r
    BY <1>1, <2>1 DEF SessionsSound, CarriedOnce
  <2>2. CASE x = r \/ y = r
    BY <1>1, <2>2 DEF Carries
  <2> QED BY <2>1, <2>2
<1>6. CarrierReplaces'
  <2> SUFFICES ASSUME NEW x \in Requests, NEW t \in Tokens, NEW z \in Sessions,
                      Carries(acReq'[x], z), LiveIn(tokens', t), tokens'[t].session = z
               PROVE  (acReq'[x].pc # "store" /\ acReq'[x].token = t) \/ z \in forked'
    BY DEF CarrierReplaces, Carries, LiveIn
  <2>1. CASE x = r
    BY <1>1, <2>1 DEF Carries, LiveIn
  <2>2. CASE x # r
    BY <1>1, <2>2 DEF SessionsSound, CarrierReplaces, LiveIn
  <2> QED BY <2>1, <2>2
<1> QED BY <1>2, <1>3, <1>4, <1>5, <1>6 DEF SessionsSound

(* Login and LoadUser: a new session, which nobody carries on yet.         *)
LEMMA BeginningKeepsSessions ==
  ASSUME AcTypeOK, SessionsSound, NEW r \in Requests, NEW s \in Sessions,
         NEW u \in Users, NEW k,
         Go(r, [pc |-> "store", user |-> u, session |-> s, code |-> k]),
         s \notin begun, begun' = begun \cup {s}, UNCHANGED <<tokens, ended, forked>>
  PROVE  SessionsSound'
<1>1. PICK q : q = [pc |-> "store", user |-> u, session |-> s, code |-> k]
  OBVIOUS
<1>2. Go(r, q) /\ Carries(q, s) /\ q.user = u
  BY <1>1 DEF Carries, Carrying
<1>3. s \in begun' \ ended
  BY DEF SessionsSound, OnlyBegunSessions
<1>4. /\ \A t \in Tokens : tokens[t] # NoRow => tokens[t].session \in Sessions \ {s}
      /\ \A x \in Requests : acReq[x].pc \in Carrying => acReq[x].session \in Sessions \ {s}
  BY CarrierTypes DEF SessionsSound, OnlyBegunSessions, AcTypeOK, TokenRow
<1>5. PICK g \in [Sessions -> Users] : OwnedBy(g, tokens, acReq)
  BY DEF SessionsSound, OneUserPerSession
<1>6. PICK f \in [Sessions -> Users] : f = [g EXCEPT ![s] = u]
  OBVIOUS
<1>7. OwnedBy(f, tokens, acReq) /\ q.user = f[s]
  BY <1>2, <1>4, <1>5, <1>6 DEF OwnedBy
<1>8. \A x \in Requests \ {r} : Carries(acReq[x], s) => s \in forked'
  BY <1>4 DEF Carries
<1>9. \A t \in Tokens : LiveIn(tokens', t) /\ tokens[t].session = s
        => (q.pc # "store" /\ q.token = t) \/ s \in forked'
  BY <1>4 DEF LiveIn
<1> QED BY <1>2, <1>3, <1>7, <1>8, <1>9, CarryingKeepsSessions

(* A token that is refreshed while its session is being carried on forks   *)
(* the session.                                                            *)
LEMMA RefreshKeepsSessions ==
  ASSUME AcTypeOK, SessionsSound, NEW r \in Requests, NEW t \in Tokens, Refresh(r, t)
  PROVE  SessionsSound'
<1>1. tokens[t] \in TokenRow /\ LiveIn(tokens, t) /\ Live(t)
  BY DEF Refresh, Valid, AcTypeOK, LiveIn, Live
<1>2. PICK s \in Sessions, u \in Users : s = tokens[t].session /\ u = tokens[t].user
  BY <1>1 DEF TokenRow
<1>3. PICK q : Go(r, q) /\ q = [pc |-> "refreshUser", token |-> t, user |-> u, session |-> s]
  BY <1>2 DEF Refresh
<1>4. Carries(q, s) /\ q.user = u
  BY <1>3 DEF Carries, Carrying
<1>5. s \in begun' \ ended /\ begun \subseteq begun' /\ forked \subseteq forked'
  BY <1>1, <1>2 DEF Refresh, SessionsSound, OnlyBegunSessions, EndedSessionsStayEnded, LiveIn
<1>6. PICK f \in [Sessions -> Users] : OwnedBy(f, tokens, acReq) /\ q.user = f[s]
  BY <1>1, <1>2, <1>4 DEF SessionsSound, OneUserPerSession, OwnedBy, LiveIn
<1>7. \A x \in Requests \ {r} : Carries(acReq[x], s) => s \in forked'
  BY <1>2 DEF Refresh, Carried, Carries
<1>8. \A x \in Tokens : LiveIn(tokens', x) /\ tokens[x].session = s
        => (q.pc # "store" /\ q.token = x) \/ s \in forked'
  <2>1. \A x \in Tokens : Live(x) /\ tokens[x].session = s => t = x \/ s \in forked
    BY <1>1, <1>2 DEF SessionsSound, OneTokenPerSession
  <2> QED BY <1>3, <1>5, <2>1 DEF Refresh, LiveIn, Live
<1>9. UNCHANGED <<tokens, ended>>
  BY DEF Refresh
<1> QED BY <1>3, <1>4, <1>5, <1>6, <1>7, <1>8, <1>9, CarryingKeepsSessions

(* RefreshUser and Rotate carry on what they were carrying on.             *)
LEMMA GoingOnKeepsSessions ==
  ASSUME AcTypeOK, SessionsSound, NEW r \in Requests, acReq[r] \in RefreshReq,
         acReq[r].pc \in Carrying, NEW q, Go(r, q), q.pc \in {"rotate", "store"},
         q.user = acReq[r].user, q.session = acReq[r].session,
         UNCHANGED <<begun, ended, forked>>,
         \/ q.pc = "rotate" /\ q.token = acReq[r].token /\ UNCHANGED tokens
         \/ q.pc = "store" /\ tokens' = Revoked({acReq[r].token})
  PROVE  SessionsSound'
<1>1. PICK s \in Sessions, x \in Tokens :
        s = acReq[r].session /\ x = acReq[r].token /\ Carries(acReq[r], s)
  BY DEF RefreshReq, Carries
<1>2. Carries(q, s) /\ s \in begun' \ ended
  BY <1>1 DEF Carries, Carrying, SessionsSound, OnlyBegunSessions
<1>3. PICK f \in [Sessions -> Users] : OwnedBy(f, tokens, acReq) /\ q.user = f[s]
  BY <1>1 DEF SessionsSound, OneUserPerSession, OwnedBy
<1>4. \A y \in Requests \ {r} : Carries(acReq[y], s) => s \in forked'
  BY <1>1 DEF SessionsSound, CarriedOnce
<1>5. \A t \in Tokens : LiveIn(tokens, t) /\ tokens[t].session = s
        => t = x \/ s \in forked
  BY <1>1 DEF SessionsSound, CarrierReplaces
<1>6. /\ \A t \in Tokens : tokens'[t] # NoRow =>
           /\ tokens[t] # NoRow
           /\ tokens'[t].user = tokens[t].user
           /\ tokens'[t].session = tokens[t].session
           /\ tokens'[t].state = "live" => tokens[t].state = "live"
      /\ \A t \in Tokens : LiveIn(tokens', t) /\ tokens[t].session = s
           => (q.pc # "store" /\ q.token = t) \/ s \in forked'
  <2>1. CASE q.pc = "rotate"
    BY <1>1, <1>5, <2>1 DEF LiveIn
  <2>2. CASE q.pc = "store"
    <3>1. \A t \in Tokens :
            /\ tokens'[t] = NoRow <=> tokens[t] = NoRow
            /\ tokens[t] # NoRow => /\ tokens'[t].user = tokens[t].user
                                    /\ tokens'[t].session = tokens[t].session
            /\ tokens[t] # NoRow /\ tokens'[t].state = "live" => t # x /\ Live(t)
      BY <1>1, <2>2, RevokedTokens
    <3> QED BY <1>5, <3>1 DEF LiveIn, Live
  <2> QED BY <2>1, <2>2
<1> QED BY <1>2, <1>3, <1>4, <1>6, CarryingKeepsSessions

LEMMA StoreKeepsSessions ==
  ASSUME AcTypeOK, SessionsSound, NEW r \in Requests, NEW t \in Tokens,
         StoreToken(r, t)
  PROVE  SessionsSound'
<1>1. acReq[r] \in StoreReq
  BY AccountRequestKinds DEF StoreToken, AcTypeOK
<1>2a. PICK s \in Sessions, u \in Users : s = acReq[r].session /\ u = acReq[r].user
  BY <1>1 DEF StoreReq
<1>2b. [user |-> u, session |-> s, state |-> "live"] \in TokenRow
  BY DEF TokenRow
<1>2. PICK row \in TokenRow :
        /\ row = [user |-> acReq[r].user, session |-> s, state |-> "live"]
        /\ s = acReq[r].session /\ Carries(acReq[r], s)
  BY <1>2a, <1>2b DEF StoreToken, Carries, Carrying
<1>3. /\ tokens'[t] = row /\ \A x \in Tokens \ {t} : tokens'[x] = tokens[x]
      /\ UNCHANGED <<begun, ended, forked>> /\ tokens[t] = NoRow
  BY <1>2 DEF StoreToken, AcTypeOK
<1>4. acReq'[r] = Idle /\ \A x \in Requests \ {r} : acReq'[x] = acReq[x]
  BY DEF StoreToken, Go, AcTypeOK
<1>5. /\ row # NoRow /\ row.session = s /\ s \in begun \ ended
      /\ \A x \in Tokens : Live(x) /\ tokens[x].session = s => s \in forked
  BY <1>1, <1>2, NoAccountRowAssumption
     DEF SessionsSound, OnlyBegunSessions, CarrierReplaces, Live, LiveIn, StoreToken, Carries
<1>6. EndedSessionsStayEnded'
  BY <1>3, <1>5 DEF SessionsSound, EndedSessionsStayEnded, Live
<1>7. OneTokenPerSession'
  BY <1>3, <1>5 DEF SessionsSound, OneTokenPerSession, Live
<1>8. OnlyBegunSessions'
  BY <1>3, <1>4, <1>5 DEF SessionsSound, OnlyBegunSessions, Idle, Carrying
<1>9. OneUserPerSession'
  <2>1. PICK f \in [Sessions -> Users] : OwnedBy(f, tokens, acReq)
    BY DEF SessionsSound, OneUserPerSession
  <2>2. OwnedBy(f, tokens', acReq')
    BY <1>2, <1>3, <1>4, <2>1 DEF OwnedBy, Carries, Idle, Carrying
  <2> QED BY <2>2 DEF OneUserPerSession
<1>10. CarriedOnce'
  BY <1>3, <1>4 DEF SessionsSound, CarriedOnce, Carries, Idle, Carrying
<1>11. CarrierReplaces'
  <2> SUFFICES ASSUME NEW x \in Requests, NEW y \in Tokens, NEW z \in Sessions,
                      Carries(acReq'[x], z), LiveIn(tokens', y), tokens'[y].session = z
               PROVE  (acReq'[x].pc # "store" /\ acReq'[x].token = y) \/ z \in forked'
    BY DEF CarrierReplaces, Carries, LiveIn
  <2>1. x # r /\ acReq'[x] = acReq[x]
    BY <1>4 DEF Carries, Idle, Carrying
  <2>2. CASE y # t
    BY <1>3, <2>1, <2>2 DEF SessionsSound, CarrierReplaces, LiveIn
  <2>3. CASE y = t
    BY <1>2, <1>3, <1>5, <2>1, <2>3 DEF SessionsSound, CarriedOnce
  <2> QED BY <2>2, <2>3
<1> QED BY <1>6, <1>7, <1>8, <1>9, <1>10, <1>11 DEF SessionsSound

(* Whoever is logged out everywhere keeps no live token in a session that  *)
(* ended with it.                                                          *)
LEMMA RevokeAllKeepsSessions ==
  ASSUME AcTypeOK, SessionsSound, NEW u, RevokeAll(u), UNCHANGED <<begun, forked>>,
         \A x \in Requests : acReq'[x].pc \in Carrying => acReq'[x] = acReq[x]
  PROVE  SessionsSound'
<1>1. ended' \subseteq begun
  BY DEF SessionsOf, TokensOf, SessionsSound, OnlyBegunSessions, RevokeAll
<1>2. ASSUME NEW t \in Tokens, tokens[t] # NoRow, tokens[t].session \in ended',
             tokens[t].state = "live"
      PROVE  t \in TokensOf(u)
  <2>1. tokens[t].session \in SessionsOf(u)
    BY <1>2 DEF SessionsSound, EndedSessionsStayEnded, RevokeAll, Live
  <2>2. PICK x \in TokensOf(u) : tokens[x].session = tokens[t].session
    BY <2>1 DEF SessionsOf
  <2> QED BY <1>2, <2>2 DEF TokensOf, SessionsSound, OneUserPerSession, OwnedBy
<1>3. \A t \in Tokens : tokens'[t] # NoRow =>
        /\ tokens[t] # NoRow
        /\ tokens'[t].user = tokens[t].user
        /\ tokens'[t].session = tokens[t].session
        /\ tokens'[t].state = "live" =>
             tokens[t].state = "live" /\ tokens[t].session \notin ended'
  <2>1. TokensOf(u) \in SUBSET Tokens /\ tokens' = Revoked(TokensOf(u))
    BY DEF TokensOf, RevokeAll
  <2> QED BY <1>2, <2>1, RevokedTokens DEF Live
<1>4. ASSUME NEW x \in Requests, acReq'[x].pc \in Carrying
      PROVE  acReq'[x] = acReq[x] /\ acReq[x].session \notin ended'
  <2>1. acReq'[x] = acReq[x] /\ acReq[x].pc \in Carrying
    BY <1>4
  <2>2. acReq[x].session \notin ended /\ Carried(acReq[x].session)
    BY <2>1 DEF SessionsSound, OnlyBegunSessions, Carried
  <2> QED BY <2>1, <2>2 DEF RevokeAll
<1> QED BY <1>1, <1>3, <1>4, NarrowingKeepsSessions

LEMMA SessionsInductive ==
  ASSUME AcTypeOK, SessionsSound, [AcNext]_acVars
  PROVE  SessionsSound'
<1>1. CASE UNCHANGED acVars
  BY <1>1 DEF acVars, SessionsSound, EndedSessionsStayEnded, OneTokenPerSession, Live,
              OnlyBegunSessions, OneUserPerSession, CarriedOnce, CarrierReplaces, Carries
<1>2. ASSUME UNCHANGED <<begun, ended, forked>>,
             \A t \in Tokens : tokens'[t] # NoRow =>
               /\ tokens[t] # NoRow
               /\ tokens'[t].user = tokens[t].user
               /\ tokens'[t].session = tokens[t].session
               /\ tokens'[t].state = "live" => tokens[t].state = "live",
             \A x \in Requests : acReq'[x].pc \in Carrying => acReq'[x] = acReq[x]
      PROVE  SessionsSound'
  <2>1. /\ ended' \subseteq begun
        /\ \A t \in Tokens : tokens[t] # NoRow /\ tokens[t].state = "live"
             => tokens[t].session \notin ended'
        /\ \A x \in Requests : acReq[x].pc \in Carrying => acReq[x].session \notin ended'
    BY <1>2 DEF SessionsSound, OnlyBegunSessions, EndedSessionsStayEnded, Live
  <2> QED BY <1>2, <2>1, NarrowingKeepsSessions
<1>3. ASSUME NEW r \in Requests, NEW q, Go(r, q), q.pc \notin Carrying,
             UNCHANGED <<tokens, begun, ended, forked>>
      PROVE  SessionsSound'
  <2>1. \A x \in Requests : acReq'[x] = q \/ acReq'[x] = acReq[x]
    BY <1>3 DEF Go, AcTypeOK
  <2> QED BY <1>2, <1>3, <2>1
<1>4. ASSUME NEW r \in Requests, AcStart(r) PROVE SessionsSound'
  <2>1. ASSUME NEW u \in Users, NEW role \in Roles,
               Register(r, u, role) \/ SocialLogin(r, u, role)
        PROVE  SessionsSound'
    BY <1>3, <2>1 DEF Register, SocialLogin, Carrying
  <2>2. ASSUME NEW u \in Users, ForgotPassword(r, u) \/ ChangePassword(r, u)
        PROVE  SessionsSound'
    BY <1>3, <2>2 DEF ForgotPassword, ChangePassword, Carrying
  <2>3. ASSUME NEW a \in Users, NEW u \in Users, NEW role \in Roles \cup {NoInput},
               NEW status \in Statuses \cup {NoInput}, UpdateUser(r, a, u, role, status)
        PROVE  SessionsSound'
    BY <1>3, <2>3 DEF UpdateUser, Carrying
  <2>4. ASSUME NEW k \in Codes, Redeem(r, k) PROVE SessionsSound'
    BY <1>3, <2>4 DEF Redeem, Carrying
  <2>5. ASSUME NEW u \in Users, NEW s \in Sessions, Login(r, u, s) PROVE SessionsSound'
    BY <2>5, BeginningKeepsSessions DEF Login
  <2>6. ASSUME NEW t \in Tokens, Logout(r, t) PROVE SessionsSound'
    <3>1. /\ \A x \in Tokens : tokens'[x] # NoRow =>
               /\ tokens[x] # NoRow
               /\ tokens'[x].user = tokens[x].user
               /\ tokens'[x].session = tokens[x].session
               /\ tokens'[x].state = "live" => x # t /\ Live(x)
          /\ UNCHANGED <<acReq, begun, forked>>
      BY <2>6, RevokedTokens DEF Logout
    <3>2. ended' \subseteq begun
      BY <2>6 DEF Logout, SessionsSound, OnlyBegunSessions
    <3>3. ASSUME NEW x \in Tokens, x # t, Live(x) PROVE tokens[x].session \notin ended'
      BY <2>6, <3>3 DEF Logout, SessionsSound, EndedSessionsStayEnded, OneTokenPerSession
    <3>4. ASSUME NEW x \in Requests, acReq'[x].pc \in Carrying
          PROVE  acReq'[x] = acReq[x] /\ acReq[x].session \notin ended'
      BY <2>6, <3>4 DEF Logout, SessionsSound, OnlyBegunSessions, Carried
    <3> QED BY <3>1, <3>2, <3>3, <3>4, NarrowingKeepsSessions DEF Live
  <2>7. ASSUME NEW u \in Users, LogoutAll(r, u) PROVE SessionsSound'
    BY <2>7, RevokeAllKeepsSessions DEF LogoutAll
  <2>8. CASE Cleanup(r)
    <3>1. /\ \A t \in Tokens : tokens'[t] # NoRow => tokens'[t] = tokens[t]
          /\ UNCHANGED <<acReq, begun, ended, forked>>
      BY <2>8 DEF Cleanup
    <3> QED BY <1>2, <3>1
  <2> QED BY <1>4, <2>1, <2>2, <2>3, <2>4, <2>5, <2>6, <2>7, <2>8, RefreshKeepsSessions
             DEF AcStart
<1>5. ASSUME NEW r \in Requests, AcContinue(r) PROVE SessionsSound'
  <2>1. CASE \/ CreateUser(r) \/ \E k \in Codes : CreateCode(r, k)
             \/ FindOwner(r) \/ CountAdmins(r) \/ AcRequestFails(r)
    BY <1>3, <2>1 DEF CreateUser, CreateCode, FindOwner, CountAdmins, AcRequestFails, Idle,
                      Carrying
  <2>2. CASE MarkUsed(r)
    BY <1>3, <2>2 DEF MarkUsed, Carrying
  <2>3. CASE Save(r)
    BY <1>3, <2>3 DEF Save, Idle, Carrying
  <2>4. ASSUME NEW s \in Sessions, LoadUser(r, s) PROVE SessionsSound'
    <3>1. CASE ~ IsActive(acReq[r].user)
      BY <1>3, <2>4, <3>1 DEF LoadUser, Idle, Carrying
    <3>2. CASE IsActive(acReq[r].user)
      <4>1. acReq[r].user \in Users
        BY <2>4, AccountRequestKinds DEF LoadUser, AcTypeOK, LoadReq
      <4> QED BY <2>4, <3>2, <4>1, BeginningKeepsSessions DEF LoadUser
    <3> QED BY <3>1, <3>2
  <2>5. CASE RevokeSessions(r)
    <3>1. \A x \in Requests : acReq'[x].pc \in Carrying => acReq'[x] = acReq[x]
      BY <2>5 DEF RevokeSessions, Go, Idle, Carrying, AcTypeOK
    <3> QED BY <2>5, <3>1, RevokeAllKeepsSessions DEF RevokeSessions
  <2>6. CASE RefreshUser(r)
    <3>1. CASE ~ IsActive(acReq[r].user)
      BY <1>3, <2>6, <3>1 DEF RefreshUser, Idle, Carrying
    <3>2. CASE IsActive(acReq[r].user)
      <4>1. acReq[r] \in RefreshReq /\ acReq[r].pc \in Carrying
        BY <2>6, AccountRequestKinds DEF RefreshUser, AcTypeOK, Carrying
      <4>2. PICK q : Go(r, q) /\ q = [acReq[r] EXCEPT !.pc = "rotate"]
        BY <2>6, <3>2 DEF RefreshUser
      <4>3. /\ q.pc = "rotate" /\ q.token = acReq[r].token
            /\ q.user = acReq[r].user /\ q.session = acReq[r].session
        BY <4>1, <4>2 DEF RefreshReq
      <4> QED BY <2>6, <4>1, <4>2, <4>3, GoingOnKeepsSessions DEF RefreshUser
    <3> QED BY <3>1, <3>2
  <2>7. CASE Rotate(r)
    <3>1. acReq[r] \in RefreshReq /\ acReq[r].pc \in Carrying
      BY <2>7, AccountRequestKinds DEF Rotate, AcTypeOK, Carrying
    <3>2. PICK q : /\ Go(r, q) /\ q.pc = "store"
                   /\ q.user = acReq[r].user /\ q.session = acReq[r].session
      BY <2>7 DEF Rotate, ToStore
    <3> QED BY <2>7, <3>1, <3>2, GoingOnKeepsSessions DEF Rotate
  <2> QED BY <1>5, <2>1, <2>2, <2>3, <2>4, <2>5, <2>6, <2>7, StoreKeepsSessions DEF AcContinue
<1>6. ASSUME NEW t \in Tokens, TokenExpires(t) PROVE SessionsSound'
  <2>1. tokens[t] \in TokenRow
    BY <1>6 DEF TokenExpires, AcTypeOK
  <2>2. \A x \in Tokens : tokens'[x] # NoRow =>
          /\ tokens[x] # NoRow
          /\ tokens'[x].user = tokens[x].user
          /\ tokens'[x].session = tokens[x].session
          /\ tokens'[x].state = "live" => tokens[x].state = "live"
    BY <1>6, <2>1 DEF TokenExpires, AcTypeOK, TokenRow
  <2> QED BY <1>2, <1>6, <2>2 DEF TokenExpires
<1>7. ASSUME NEW k \in Codes, CodeExpires(k) PROVE SessionsSound'
  BY <1>2, <1>7 DEF CodeExpires
<1> QED BY <1>1, <1>4, <1>5, <1>6, <1>7 DEF AcNext

LEMMA SessionsInit == AcInit => SessionsSound
<1> SUFFICES ASSUME AcInit PROVE SessionsSound
  OBVIOUS
<1>1. EndedSessionsStayEnded /\ OneTokenPerSession /\ OnlyBegunSessions
  BY DEF AcInit, EndedSessionsStayEnded, OneTokenPerSession, OnlyBegunSessions, Live, Idle,
         Carrying
<1>2. OneUserPerSession
  <2>1. PICK u \in Users : TRUE
    BY AdminAssumption
  <2>2. [s \in Sessions |-> u] \in [Sessions -> Users]
    OBVIOUS
  <2>3. OwnedBy([s \in Sessions |-> u], tokens, acReq)
    BY DEF AcInit, OwnedBy, Idle, Carrying
  <2> QED BY <2>2, <2>3 DEF OneUserPerSession
<1>3. CarriedOnce /\ CarrierReplaces
  BY DEF AcInit, CarriedOnce, CarrierReplaces, Carries, Idle, Carrying
<1> QED BY <1>1, <1>2, <1>3 DEF SessionsSound

LEMMA SessionsInvariant == AcSpec => []SessionsSound
<1>1. AcInit => AcTypeOK /\ AcLinked /\ SessionsSound
  BY AcTypesInit, SessionsInit
<1>2. AcTypeOK /\ AcLinked /\ SessionsSound /\ [AcNext]_acVars
        => (AcTypeOK /\ AcLinked /\ SessionsSound)'
  BY AcTypesInductive, SessionsInductive
<1> QED BY <1>1, <1>2, PTL DEF AcSpec

(* A session that ended while no request was carrying it on has no live    *)
(* token, however requests overlap and break off.                          *)
THEOREM SessionsEnd == AcSpec => []EndedSessionsStayEnded
<1>1. SessionsSound => EndedSessionsStayEnded
  BY DEF SessionsSound
<1> QED BY <1>1, SessionsInvariant, PTL

(* Only a session that two requests refreshed at once has two live tokens. *)
THEOREM OneLiveToken == AcSpec => []OneTokenPerSession
<1>1. SessionsSound => OneTokenPerSession
  BY DEF SessionsSound
<1> QED BY <1>1, SessionsInvariant, PTL

-----------------------------------------------------------------------------
(* Admins.  A save that takes an active admin away has counted another.    *)
AdminRow(row) == row # NoRow /\ row.role = "ADMIN" /\ row.status = "ACTIVE"

SavesLeaveAdmin(q) ==
  /\ q.pc = "markUsed" /\ AdminRow(q.seen) => AdminRow(q.row)
  /\ q.pc = "save" /\ AdminRow(q.seen) /\ ~ AdminRow(q.row) =>
       \E v \in q.counted : v # q.user

AdminsSound == \A r \in Requests : SavesLeaveAdmin(acReq[r])

(* Of two active admins or more, one is not u.                             *)
LEMMA AnotherAdmin ==
  ASSUME ~ (Cardinality(ActiveAdmins) <= 1), NEW u
  PROVE  \E v \in {x \in Users : IsActiveAdmin(x)} : v # u
<1> SUFFICES ASSUME \A v \in {x \in Users : IsActiveAdmin(x)} : v = u
             PROVE  FALSE
  OBVIOUS
<1>1. ActiveAdmins \subseteq {u}
  BY DEF ActiveAdmins
<1>2. IsFiniteSet({u}) /\ Cardinality({u}) = 1
  BY FS_Singleton
<1>3. Cardinality(ActiveAdmins) <= 1
  BY <1>1, <1>2, FS_Subset
<1>4. Cardinality(ActiveAdmins) \in Nat
  BY <1>1, <1>2, FS_Subset, FS_CardinalityType
<1> QED BY <1>3, <1>4

LEMMA GoKeepsAdmins ==
  ASSUME AcTypeOK, AdminsSound, NEW r \in Requests, NEW q, Go(r, q), SavesLeaveAdmin(q)
  PROVE  AdminsSound'
<1>1. \A x \in Requests : acReq'[x] = q \/ acReq'[x] = acReq[x]
  BY DEF Go, AcTypeOK
<1> QED BY <1>1 DEF AdminsSound, SavesLeaveAdmin

LEMMA AdminsInductive ==
  ASSUME AcTypeOK, AcLinked, AdminsSound, [AcNext]_acVars
  PROVE  AdminsSound'
<1>1. ASSUME UNCHANGED acReq PROVE AdminsSound'
  BY <1>1 DEF AdminsSound, SavesLeaveAdmin
<1>2. ASSUME NEW r \in Requests, NEW q, Go(r, q), q.pc \notin {"markUsed", "save"}
      PROVE  AdminsSound'
  BY <1>2, GoKeepsAdmins DEF SavesLeaveAdmin
<1>3. ASSUME NEW r \in Requests, AcStart(r) PROVE AdminsSound'
  <2>1. ASSUME NEW u \in Users, NEW role \in Roles,
               Register(r, u, role) \/ SocialLogin(r, u, role)
        PROVE  AdminsSound'
    BY <1>2, <2>1 DEF Register, SocialLogin
  <2>2. ASSUME NEW u \in Users, ForgotPassword(r, u) PROVE AdminsSound'
    BY <1>2, <2>2 DEF ForgotPassword
  <2>3. ASSUME NEW u \in Users, ChangePassword(r, u) PROVE AdminsSound'
    <3>1. \E q : Go(r, q) /\ q.pc = "save" /\ q.seen = users[u] /\ q.row = users[u]
      BY <2>3 DEF ChangePassword
    <3> QED BY <3>1, GoKeepsAdmins DEF SavesLeaveAdmin
  <2>4. ASSUME NEW a \in Users, NEW u \in Users, NEW role \in Roles \cup {NoInput},
               NEW status \in Statuses \cup {NoInput}, UpdateUser(r, a, u, role, status)
        PROVE  AdminsSound'
    <3>1. CASE RemovesAdminAccess(users[u], role, status)
      BY <1>2, <2>4, <3>1 DEF UpdateUser
    <3>2. CASE ~ RemovesAdminAccess(users[u], role, status)
      <4>1. PICK row \in UserRow : row = Updated(users[u], role, status)
        BY <2>4 DEF UpdateUser, Registered, AcTypeOK, Updated, UserRow
      <4>2. AdminRow(users[u]) => row.role = "ADMIN" /\ row.status = "ACTIVE"
        BY <3>2, <4>1 DEF AdminRow, Updated, RemovesAdminAccess, Blocks
      <4>3. AdminRow(users[u]) => AdminRow(row)
        BY <4>2, NoAccountRowAssumption DEF AdminRow
      <4>4. \E q : Go(r, q) /\ q.pc = "save" /\ q.seen = users[u] /\ q.row = row
        BY <2>4, <3>2, <4>1 DEF UpdateUser
      <4> QED BY <4>3, <4>4, GoKeepsAdmins DEF SavesLeaveAdmin
    <3> QED BY <3>1, <3>2
  <2>5. ASSUME NEW k \in Codes, Redeem(r, k) PROVE AdminsSound'
    <3>1. \E q : /\ Go(r, q)
                 /\ \/ q.pc = "findOwner"
                    \/ q.pc = "markUsed" /\ q.seen = NoRow
      BY <2>5 DEF Redeem
    <3> QED BY <3>1, GoKeepsAdmins DEF SavesLeaveAdmin, AdminRow
  <2>6. ASSUME NEW u \in Users, NEW s \in Sessions, Login(r, u, s) PROVE AdminsSound'
    BY <1>2, <2>6 DEF Login
  <2>7. ASSUME NEW t \in Tokens, Refresh(r, t) PROVE AdminsSound'
    BY <1>2, <2>7 DEF Refresh
  <2> QED BY <1>1, <1>3, <2>1, <2>2, <2>3, <2>4, <2>5, <2>6, <2>7
             DEF AcStart, Logout, LogoutAll, Cleanup
<1>4. ASSUME NEW r \in Requests, AcContinue(r) PROVE AdminsSound'
  <2>1. acReq[r] \in AcRequest /\ Linked(acReq[r]) /\ SavesLeaveAdmin(acReq[r])
    BY DEF AcTypeOK, AcLinked, AdminsSound
  <2>2. CASE CreateUser(r) \/ \E k \in Codes : CreateCode(r, k)
    BY <1>2, <2>2 DEF CreateUser, CreateCode, Idle
  <2>3. CASE FindOwner(r)
    <3>1. acReq[r] \in RedeemReq /\ Registered(acReq[r].owner)
      BY <2>1, <2>3, AccountRequestKinds DEF FindOwner, Linked
    <3>2. users[acReq[r].owner] \in UserRow
      BY <3>1 DEF RedeemReq, Registered, AcTypeOK
    <3>3. PICK row \in UserRow :
            row = IF acReq[r].kind = "EMAIL_VERIFICATION"
                  THEN [users[acReq[r].owner] EXCEPT !.status = "ACTIVE"]
                  ELSE users[acReq[r].owner]
      BY <3>2 DEF UserRow, Statuses
    <3>3a. row.role = users[acReq[r].owner].role
           /\ row.status \in {"ACTIVE", users[acReq[r].owner].status}
      BY <3>2, <3>3 DEF UserRow
    <3>4. AdminRow(users[acReq[r].owner]) => AdminRow(row)
      BY <3>3a, NoAccountRowAssumption DEF AdminRow
    <3>5. \E q : /\ Go(r, q) /\ q.pc = "markUsed"
                 /\ q.seen = users[acReq[r].owner] /\ q.row = row
      BY <2>3, <3>3 DEF FindOwner
    <3> QED BY <3>4, <3>5, GoKeepsAdmins DEF SavesLeaveAdmin
  <2>4. CASE MarkUsed(r)
    <3>1. CASE acReq[r].kind = "SOCIAL_LOGIN"
      BY <1>2, <2>4, <3>1 DEF MarkUsed
    <3>2. CASE acReq[r].kind # "SOCIAL_LOGIN"
      <4>1. \E q : /\ Go(r, q) /\ q.pc = "save"
                   /\ q.seen = acReq[r].seen /\ q.row = acReq[r].row
        BY <2>4, <3>2 DEF MarkUsed
      <4> QED BY <2>1, <2>4, <4>1, GoKeepsAdmins DEF MarkUsed, SavesLeaveAdmin
    <3> QED BY <3>1, <3>2
  <2>5. ASSUME NEW s \in Sessions, LoadUser(r, s) PROVE AdminsSound'
    BY <1>2, <2>5 DEF LoadUser, Idle
  <2>6. CASE CountAdmins(r)
    <3>1. CASE Cardinality(ActiveAdmins) <= 1
      BY <1>2, <2>6, <3>1 DEF CountAdmins, Idle
    <3>2. CASE ~ (Cardinality(ActiveAdmins) <= 1)
      <4>1. \E q : /\ Go(r, q) /\ q.pc = "save" /\ q.user = acReq[r].user
                   /\ q.counted = {x \in Users : IsActiveAdmin(x)}
        BY <2>6, <3>2 DEF CountAdmins
      <4> QED BY <3>2, <4>1, AnotherAdmin, GoKeepsAdmins DEF SavesLeaveAdmin
    <3> QED BY <3>1, <3>2
  <2>7. CASE Save(r)
    BY <1>2, <2>7 DEF Save, Idle
  <2>8. CASE RevokeSessions(r) \/ AcRequestFails(r)
    BY <1>2, <2>8 DEF RevokeSessions, AcRequestFails, Idle
  <2>9. CASE RefreshUser(r)
    <3>1. \E q : Go(r, q) /\ q.pc \in {"idle", "rotate"}
      BY <2>1, <2>9, AccountRequestKinds DEF RefreshUser, RefreshReq, Idle
    <3> QED BY <1>2, <3>1
  <2>10. CASE Rotate(r) \/ \E t \in Tokens : StoreToken(r, t)
    BY <1>2, <2>10 DEF Rotate, ToStore, StoreToken, Idle
  <2> QED BY <1>4, <2>2, <2>3, <2>4, <2>5, <2>6, <2>7, <2>8, <2>9, <2>10 DEF AcContinue
<1> QED BY <1>1, <1>3, <1>4 DEF AcNext, TokenExpires, CodeExpires, acVars

(* An account is written by the two saves only.                            *)
LEMMA OthersKeepAccounts ==
  ASSUME AcTypeOK, [AcNext]_acVars, ~ \E r \in Requests : Save(r)
  PROVE  \A u \in Users : Registered(u) => users'[u] = users[u]
<1>1. CASE UNCHANGED users
  BY <1>1
<1>2. ASSUME NEW r \in Requests, CreateUser(r)
      PROVE  \A u \in Users : Registered(u) => users'[u] = users[u]
  <2>1. acReq[r] \in CreateReq
    BY <1>2, AccountRequestKinds DEF CreateUser, AcTypeOK
  <2> QED BY <1>2, <2>1 DEF CreateUser, CreateReq, AcTypeOK
<1>3. ASSUME NEW r \in Requests, AcStart(r) PROVE UNCHANGED users
  BY <1>3 DEF AcStart, Register, SocialLogin, ForgotPassword, ChangePassword, LogoutAll,
              Login, UpdateUser, Redeem, Refresh, Logout, Cleanup
<1>4. ASSUME NEW r \in Requests, AcContinue(r), ~ CreateUser(r) PROVE UNCHANGED users
  BY <1>4 DEF AcContinue, CreateCode, FindOwner, MarkUsed, LoadUser, CountAdmins,
              RevokeSessions, RefreshUser, Rotate, StoreToken, AcRequestFails
<1> QED BY <1>1, <1>2, <1>3, <1>4 DEF AcNext, TokenExpires, CodeExpires, acVars

LEMMA AdminsStep ==
  ASSUME AcTypeOK, AdminsSound, [AcNext]_acVars, \E u \in Users : IsActiveAdmin(u)
  PROVE  \/ \E u \in Users : users'[u] # NoRow /\ users'[u].status = "ACTIVE"
                                /\ users'[u].role = "ADMIN"
         \/ \E r \in Requests : Outdated(r)
<1> USE DEF IsActiveAdmin, IsActive, Registered
<1>1. CASE ~ \E r \in Requests : Save(r)
  BY <1>1, OthersKeepAccounts
<1>2. ASSUME NEW r \in Requests, Save(r), ~ Outdated(r)
      PROVE  \E u \in Users : users'[u] # NoRow /\ users'[u].status = "ACTIVE"
                              /\ users'[u].role = "ADMIN"
  <2>1. acReq[r] \in SaveReq /\ acReq[r].pc = "save"
    BY <1>2, AccountRequestKinds DEF Save, AcTypeOK
  <2>2. PICK w \in Users, row \in UserRow, seen \in UserRow :
          w = acReq[r].user /\ row = acReq[r].row /\ seen = acReq[r].seen
    BY <2>1 DEF SaveReq
  <2>3. users'[w] = row /\ \A v \in Users \ {w} : users'[v] = users[v]
    BY <1>2, <2>2 DEF Save, AcTypeOK
  <2>4. acReq'[r].pc \in {"idle", "revokeAll"}
    BY <1>2 DEF Save, Go, AcTypeOK, Idle
  <2>5. users[w] = seen /\ \A v \in acReq[r].counted : IsActiveAdmin(v)
    BY <1>2, <2>1, <2>2, <2>4 DEF Outdated
  <2>6. CASE IsActiveAdmin(w)
    <3>1. AdminRow(seen)
      BY <2>5, <2>6 DEF AdminRow
    <3>2. CASE AdminRow(row)
      BY <2>3, <3>2 DEF AdminRow
    <3>3. CASE ~ AdminRow(row)
      <4>1. PICK v \in acReq[r].counted : v # w
        BY <2>1, <2>2, <3>1, <3>3 DEF AdminsSound, SavesLeaveAdmin
      <4> QED BY <2>1, <2>3, <2>5, <4>1 DEF SaveReq
    <3> QED BY <3>2, <3>3
  <2>7. CASE ~ IsActiveAdmin(w)
    BY <2>3, <2>7
  <2> QED BY <2>6, <2>7
<1> QED BY <1>1, <1>2

(* The last active admin goes only with a save that is outdated.           *)
THEOREM AdminsStay == AcSpec => AnAdminStays
<1>1. AcInit => AcTypeOK /\ AcLinked /\ AdminsSound
  <2>1. AcInit => AdminsSound
    BY DEF AcInit, AdminsSound, SavesLeaveAdmin, Idle
  <2> QED BY <2>1, AcTypesInit
<1>2. AcTypeOK /\ AcLinked /\ AdminsSound /\ [AcNext]_acVars
        => (AcTypeOK /\ AcLinked /\ AdminsSound)'
  BY AcTypesInductive, AdminsInductive
<1>3. AcTypeOK /\ AdminsSound /\ [AcNext]_acVars
        => [(\E u \in Users : IsActiveAdmin(u)) =>
              \/ (\E u \in Users : IsActiveAdmin(u))'
              \/ \E r \in Requests : Outdated(r)]_acVars
  BY AdminsStep DEF IsActiveAdmin, IsActive, Registered
<1> QED BY <1>1, <1>2, <1>3, PTL DEF AcSpec, AnAdminStays

-----------------------------------------------------------------------------
(* Codes.  Unless two requests held it at once, a code that is valid has   *)
(* not taken effect, and neither has one that a request holds; past its    *)
(* mark a request holds a code that is not valid.                          *)
Holding == {"findOwner", "markUsed", "loadUser", "save", "store"}
Holds(q, k) == q.pc \in Holding /\ q.code = k
IsValid(cds, k) == cds[k] # NoRow /\ cds[k].state = "valid"

CodeSound(k) ==
  /\ redeemed[k] <= 1
  /\ IsValid(codes, k) => redeemed[k] = 0
  /\ \A r \in Requests : Holds(acReq[r], k) =>
       /\ redeemed[k] = 0
       /\ acReq[r].pc \in {"loadUser", "save", "store"} => ~ IsValid(codes, k)
       /\ \A x \in Requests : Holds(acReq[x], k) => x = r

CodesSound == \A k \in Codes : k \in shared \/ CodeSound(k)

LEMMA HeldDef ==
  ASSUME NEW k
  PROVE  Held(k) <=> \E x \in Requests : Holds(acReq[x], k)
BY DEF Held, Holds, Holding

(* A request that holds the code it held, or none.                         *)
LEMMA GoKeepsCodes ==
  ASSUME AcTypeOK, CodesSound, NEW r \in Requests, NEW q, Go(r, q),
         UNCHANGED <<redeemed, shared>>,
         \A k \in Codes : IsValid(codes', k) => IsValid(codes, k),
         \A k \in Codes : Holds(q, k) =>
           /\ Holds(acReq[r], k)
           /\ q.pc \in {"loadUser", "save", "store"} =>
                ~ IsValid(codes', k) \/ acReq[r].pc \in {"loadUser", "save", "store"}
  PROVE  CodesSound'
<1>1. acReq'[r] = q /\ \A x \in Requests \ {r} : acReq'[x] = acReq[x]
  BY DEF Go, AcTypeOK
<1>2. \A k \in Codes, x \in Requests : Holds(acReq'[x], k) =>
        /\ Holds(acReq[x], k)
        /\ acReq'[x].pc \in {"loadUser", "save", "store"} =>
             ~ IsValid(codes', k) \/ acReq[x].pc \in {"loadUser", "save", "store"}
  BY <1>1
<1>3. SUFFICES ASSUME NEW k \in Codes, k \notin shared PROVE CodeSound(k)'
  BY DEF CodesSound
<1>4. CodeSound(k)
  BY <1>3 DEF CodesSound
<1> QED BY <1>2, <1>4 DEF CodeSound, Holds, IsValid

(* Codes that expire or are deleted.                                       *)
LEMMA FewerCodesKeepCodes ==
  ASSUME CodesSound, UNCHANGED <<acReq, redeemed, shared>>,
         \A k \in Codes : IsValid(codes', k) => IsValid(codes, k)
  PROVE  CodesSound'
<1> SUFFICES ASSUME NEW k \in Codes, k \notin shared PROVE CodeSound(k)'
  BY DEF CodesSound
<1>1. CodeSound(k)
  BY DEF CodesSound
<1> QED BY <1>1 DEF CodeSound, Holds, IsValid

LEMMA RedeemKeepsCodes ==
  ASSUME AcTypeOK, CodesSound, NEW r \in Requests, NEW k \in Codes, Redeem(r, k)
  PROVE  CodesSound'
<1>1. /\ acReq'[r].pc \in {"findOwner", "markUsed"} /\ acReq'[r].code = k
      /\ \A x \in Requests \ {r} : acReq'[x] = acReq[x]
      /\ acReq[r] = Idle
      /\ UNCHANGED <<codes, redeemed>>
  BY DEF Redeem, Go, AcTypeOK
<1>2. IsValid(codes, k)
  BY DEF Redeem, Redeemable, IsValid
<1>3. shared \subseteq shared'
  BY DEF Redeem
<1> SUFFICES ASSUME NEW c \in Codes, c \notin shared' PROVE CodeSound(c)'
  BY DEF CodesSound
<1>4. CodeSound(c)
  BY <1>3 DEF CodesSound
<1>5. CASE c # k
  BY <1>1, <1>4, <1>5 DEF CodeSound, Holds, IsValid
<1>6. CASE c = k
  <2>1. \A x \in Requests : ~ Holds(acReq[x], k)
    BY <1>6, HeldDef DEF Redeem
  <2> QED BY <1>1, <1>2, <1>4, <1>6, <2>1 DEF CodeSound, Holds, IsValid
<1> QED BY <1>5, <1>6

LEMMA CreateCodeKeepsCodes ==
  ASSUME AcTypeOK, CodesSound, NEW r \in Requests, NEW k \in Codes, CreateCode(r, k)
  PROVE  CodesSound'
<1>1. /\ acReq'[r] = Idle /\ \A x \in Requests \ {r} : acReq'[x] = acReq[x]
      /\ redeemed'[k] = 0 /\ \A c \in Codes \ {k} : redeemed'[c] = redeemed[c]
      /\ \A c \in Codes \ {k} : codes'[c] = codes[c]
      /\ shared' = shared \ {k}
  BY DEF CreateCode, Go, AcTypeOK
<1>2. \A x \in Requests : ~ Holds(acReq[x], k)
  BY HeldDef DEF CreateCode
<1> SUFFICES ASSUME NEW c \in Codes, c \notin shared' PROVE CodeSound(c)'
  BY DEF CodesSound
<1>3. CASE c = k
  BY <1>1, <1>2, <1>3 DEF CodeSound, Holds, IsValid, Idle, Holding
<1>4. CASE c # k
  <2>1. CodeSound(c)
    BY <1>1, <1>4 DEF CodesSound
  <2> QED BY <1>1, <1>4, <2>1 DEF CodeSound, Holds, IsValid, Idle, Holding
<1> QED BY <1>3, <1>4

(* The effect of a code: Save and StoreToken.                              *)
LEMMA EffectKeepsCodes ==
  ASSUME AcTypeOK, CodesSound, NEW r \in Requests,
         acReq[r].pc \in {"save", "store"}, redeemed' = Redeeming(acReq[r].code),
         UNCHANGED <<codes, shared>>, NEW q, Go(r, q), q.pc \notin Holding
  PROVE  CodesSound'
<1>1. PICK k \in Codes \cup {NoRow} : k = acReq[r].code
  BY AccountRequestKinds DEF AcTypeOK, SaveReq, StoreReq
<1>2. \A c \in Codes : redeemed'[c] = IF c = k THEN redeemed[c] + 1 ELSE redeemed[c]
  BY <1>1, RedeemingOnce
<1>3. acReq'[r] = q /\ \A x \in Requests \ {r} : acReq'[x] = acReq[x]
  BY DEF Go, AcTypeOK
<1> SUFFICES ASSUME NEW c \in Codes, c \notin shared PROVE CodeSound(c)'
  BY DEF CodesSound
<1>4. CodeSound(c)
  BY DEF CodesSound
<1>5. CASE c # k
  BY <1>2, <1>3, <1>4, <1>5 DEF CodeSound, Holds, IsValid
<1>6. CASE c = k
  <2>1. Holds(acReq[r], c)
    BY <1>1, <1>6 DEF Holds, Holding
  <2>2. /\ redeemed[c] = 0 /\ ~ IsValid(codes, c)
        /\ \A x \in Requests \ {r} : ~ Holds(acReq[x], c)
    BY <1>4, <2>1 DEF CodeSound
  <2>3. redeemed'[c] = 1
    BY <1>2, <1>6, <2>2
  <2>4. ~ IsValid(codes', c) /\ \A x \in Requests : ~ Holds(acReq'[x], c)
    BY <1>3, <2>2 DEF Holds
  <2> QED BY <2>3, <2>4 DEF CodeSound, Holds, IsValid
<1> QED BY <1>5, <1>6

LEMMA MarkUsedKeepsCodes ==
  ASSUME AcTypeOK, CodesSound, NEW r \in Requests, MarkUsed(r)
  PROVE  CodesSound'
<1>1. PICK k \in Codes : k = acReq[r].code
  BY AccountRequestKinds DEF MarkUsed, AcTypeOK, MarkReq
<1>2. PICK state \in {"used", "expired"} :
        state = IF codes[k].state = "expired" THEN "expired" ELSE "used"
  OBVIOUS
<1>3. codes[k] \in CodeRow /\ codes' = [codes EXCEPT ![k] = [codes[k] EXCEPT !.state = state]]
  BY <1>1, <1>2 DEF MarkUsed, AcTypeOK
<1>4. codes'[k].state # "valid" /\ \A x \in Codes \ {k} : codes'[x] = codes[x]
  BY <1>2, <1>3 DEF AcTypeOK, CodeRow
<1>5. PICK q : Go(r, q) /\ q.pc \in {"loadUser", "save"} /\ q.code = k
  <2>1. CASE acReq[r].kind = "SOCIAL_LOGIN"
    BY <1>1, <2>1 DEF MarkUsed
  <2>2. CASE acReq[r].kind # "SOCIAL_LOGIN"
    BY <1>1, <2>2 DEF MarkUsed
  <2> QED BY <2>1, <2>2
<1>6. Holds(acReq[r], k)
  BY <1>1 DEF MarkUsed, Holds, Holding
<1>7. UNCHANGED <<redeemed, shared>>
  BY DEF MarkUsed
<1>8. \A c \in Codes : IsValid(codes', c) => IsValid(codes, c) /\ c # k
  BY <1>4 DEF IsValid
<1>9. \A c \in Codes : Holds(q, c) => c = k
  BY <1>5 DEF Holds
<1> QED BY <1>5, <1>6, <1>7, <1>8, <1>9, GoKeepsCodes

LEMMA CodesInductive ==
  ASSUME AcTypeOK, CodesSound, [AcNext]_acVars
  PROVE  CodesSound'
<1> DEFINE Kept == UNCHANGED <<codes, redeemed, shared>>
<1>1. ASSUME Kept, UNCHANGED acReq PROVE CodesSound'
  BY <1>1, FewerCodesKeepCodes
<1>2. ASSUME NEW r \in Requests, NEW q, Go(r, q), Kept,
             \A k \in Codes : ~ Holds(q, k)
      PROVE  CodesSound'
  BY <1>2, GoKeepsCodes
<1>3. ASSUME NEW r \in Requests, NEW q, Go(r, q), Kept,
             q.pc \notin Holding \/ q.code = NoRow
      PROVE  CodesSound'
  BY <1>2, <1>3, NoAccountRowAssumption DEF Holds
<1>4. ASSUME NEW r \in Requests, AcStart(r) PROVE CodesSound'
  <2>1. ASSUME NEW u \in Users, NEW role \in Roles,
               Register(r, u, role) \/ SocialLogin(r, u, role)
        PROVE  CodesSound'
    BY <1>3, <2>1 DEF Register, SocialLogin, Holding
  <2>2. ASSUME NEW u \in Users, ForgotPassword(r, u) \/ ChangePassword(r, u)
        PROVE  CodesSound'
    BY <1>3, <2>2 DEF ForgotPassword, ChangePassword, Holding
  <2>3. ASSUME NEW u \in Users, NEW s \in Sessions, Login(r, u, s) PROVE CodesSound'
    BY <1>3, <2>3 DEF Login
  <2>4. ASSUME NEW a \in Users, NEW u \in Users, NEW role \in Roles \cup {NoInput},
               NEW status \in Statuses \cup {NoInput}, UpdateUser(r, a, u, role, status)
        PROVE  CodesSound'
    BY <1>3, <2>4 DEF UpdateUser, Holding
  <2>5. ASSUME NEW t \in Tokens, Refresh(r, t) PROVE CodesSound'
    BY <1>3, <2>5 DEF Refresh, Holding
  <2>6. CASE Cleanup(r)
    BY <2>6, FewerCodesKeepCodes DEF Cleanup, IsValid
  <2> QED BY <1>1, <1>4, <2>1, <2>2, <2>3, <2>4, <2>5, <2>6, RedeemKeepsCodes
             DEF AcStart, Logout, LogoutAll
<1>5. ASSUME NEW r \in Requests, AcContinue(r) PROVE CodesSound'
  <2>1. CASE CreateUser(r) \/ RevokeSessions(r) \/ AcRequestFails(r) \/ CountAdmins(r)
    BY <1>3, <2>1 DEF CreateUser, RevokeSessions, AcRequestFails, CountAdmins, Idle, Holding
  <2>2. CASE FindOwner(r)
    <3>1. \E q : Go(r, q) /\ q.pc = "markUsed" /\ q.code = acReq[r].code
      BY <2>2 DEF FindOwner
    <3> QED BY <2>2, <3>1, GoKeepsCodes DEF FindOwner, Holds, Holding
  <2>3. ASSUME NEW s \in Sessions, LoadUser(r, s) PROVE CodesSound'
    <3>1. \E q : Go(r, q) /\ (q.pc = "idle" \/ (q.pc = "store" /\ q.code = acReq[r].code))
      BY <2>3 DEF LoadUser, Idle
    <3> QED BY <2>3, <3>1, GoKeepsCodes DEF LoadUser, Holds, Holding
  <2>4. CASE Save(r)
    <3>1. PICK q : Go(r, q) /\ q.pc \in {"idle", "revokeAll"}
      BY <2>4 DEF Save, Idle
    <3> QED BY <2>4, <3>1, EffectKeepsCodes DEF Save, Holding
  <2>5. CASE RefreshUser(r)
    <3>1. \E q : Go(r, q) /\ q.pc \in {"idle", "rotate"}
      BY <2>5, AccountRequestKinds DEF RefreshUser, RefreshReq, Idle, AcTypeOK
    <3> QED BY <1>3, <2>5, <3>1 DEF RefreshUser, Holding
  <2>6. CASE Rotate(r)
    BY <1>3, <2>6 DEF Rotate, ToStore
  <2>7. ASSUME NEW t \in Tokens, StoreToken(r, t) PROVE CodesSound'
    BY <2>7, EffectKeepsCodes DEF StoreToken, Idle, Holding
  <2> QED BY <1>5, <2>1, <2>2, <2>3, <2>4, <2>5, <2>6, <2>7, MarkUsedKeepsCodes,
             CreateCodeKeepsCodes DEF AcContinue
<1>6. ASSUME NEW k \in Codes, CodeExpires(k) PROVE CodesSound'
  <2>1. \A x \in Codes : IsValid(codes', x) => IsValid(codes, x)
    BY <1>6 DEF CodeExpires, AcTypeOK, CodeRow, IsValid
  <2> QED BY <1>6, <2>1, FewerCodesKeepCodes DEF CodeExpires
<1> QED BY <1>1, <1>4, <1>5, <1>6 DEF AcNext, TokenExpires, acVars

(* Only a code that two requests held at once takes effect twice.          *)
THEOREM CodesOnce == AcSpec => []CodesWorkOnce
<1>1. AcInit => AcTypeOK /\ AcLinked /\ CodesSound
  <2>1. AcInit => CodesSound
    BY DEF AcInit, CodesSound, CodeSound, IsValid, Holds, Holding, Idle
  <2> QED BY <2>1, AcTypesInit
<1>2. AcTypeOK /\ AcLinked /\ CodesSound /\ [AcNext]_acVars
        => (AcTypeOK /\ AcLinked /\ CodesSound)'
  BY AcTypesInductive, CodesInductive
<1>3. CodesSound => CodesWorkOnce
  BY DEF CodesSound, CodeSound, CodesWorkOnce
<1> QED BY <1>1, <1>2, <1>3, PTL DEF AcSpec
=============================================================================
