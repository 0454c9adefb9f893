------------------------------- MODULE Accounts -------------------------------
(***************************************************************************)
(* Accounts and their sessions: the auth component, and the part of the    *)
(* user component by which an admin blocks an account or gives it another  *)
(* role.  A session begins with a login and is carried on by a chain of    *)
(* refresh tokens, each revoked when the next one is made.  Codes sent by  *)
(* mail verify an address or reset a password; a code in the redirect of a *)
(* social login is exchanged for a first refresh token.                    *)
(*                                                                         *)
(* A handler is a request that moves from one await to the next.  An       *)
(* account is known by its email.  Passwords, profiles and the ids of the  *)
(* social providers are left out, and so is the count of failed logins,    *)
(* which without Redis is not kept.  An access token is not looked up      *)
(* anywhere and says what its owner was some time ago, so that any account *)
(* may be the one that calls.                                              *)
(***************************************************************************)
EXTENDS FiniteSets, Naturals

CONSTANTS
  Users,
  FirstAdmins,                  \* made by hand: no operation makes the first one
  Sessions, Tokens, Codes,      \* sessions; ids of refresh tokens and of codes
  Requests,                     \* slots for requests in flight
  NoRow

ASSUME AdminAssumption ==
  FirstAdmins \subseteq Users /\ FirstAdmins # {}

VARIABLES
  users,                        \* [Users -> row, or NoRow]
  tokens,                       \* [Tokens -> row of refresh_tokens, or NoRow]
  codes,                        \* [Codes -> row of verification_tokens or of
                                \*           oauth_login_codes, or NoRow]
  acReq,                        \* [Requests -> what a handler holds]
  begun, ended,                 \* sessions begun; sessions answered to be over
  forked,                       \* sessions two requests refreshed at once
  redeemed,                     \* [Codes -> how often the code took effect]
  shared                        \* codes two requests held at once

acVars == <<users, tokens, codes, acReq, begun, ended, forked, redeemed, shared>>

Roles == {"CANDIDATE", "RECRUITER", "ADMIN"}
Statuses == {"PENDING", "ACTIVE", "BLOCKED"}
UserRow == [role : Roles, status : Statuses]
TokenRow == [user : Users, session : Sessions, state : {"live", "revoked", "expired"}]
Kinds == {"EMAIL_VERIFICATION", "PASSWORD_RESET", "SOCIAL_LOGIN"}
CodeRow == [user : Users, kind : Kinds, state : {"valid", "used", "expired"}]
ASSUME NoAccountRowAssumption ==
  NoRow \notin UserRow \cup TokenRow \cup CodeRow \cup Codes

Idle == [pc |-> "idle"]
CreateReq == [pc : {"createUser"}, user : Users, row : UserRow, kind : Kinds]
CodeReq == [pc : {"createCode"}, user : Users, kind : Kinds]
RedeemReq == [pc : {"findOwner"}, code : Codes, owner : Users, kind : Kinds]
MarkReq == [pc : {"markUsed"}, code : Codes, owner : Users, kind : Kinds,
            row : UserRow \cup {NoRow}, seen : UserRow \cup {NoRow}]
LoadReq == [pc : {"loadUser"}, user : Users, code : Codes]
CountReq == [pc : {"countAdmins"}, user : Users, row : UserRow, seen : UserRow,
             revoke : BOOLEAN]
SaveReq == [pc : {"save"}, user : Users, row : UserRow, seen : UserRow,
            counted : SUBSET Users, revoke : BOOLEAN, code : Codes \cup {NoRow}]
RevokeReq == [pc : {"revokeAll"}, user : Users]
RefreshReq == [pc : {"refreshUser", "rotate"}, token : Tokens, user : Users,
               session : Sessions]
StoreReq == [pc : {"store"}, user : Users, session : Sessions,
             code : Codes \cup {NoRow}]
AcRequest ==
  {Idle} \cup CreateReq \cup CodeReq \cup RedeemReq \cup MarkReq \cup LoadReq
    \cup CountReq \cup SaveReq \cup RevokeReq \cup RefreshReq \cup StoreReq

AcInit ==
  /\ users = [u \in Users |->
       IF u \in FirstAdmins THEN [role |-> "ADMIN", status |-> "ACTIVE"] ELSE NoRow]
  /\ tokens = [t \in Tokens |-> NoRow]
  /\ codes = [k \in Codes |-> NoRow]
  /\ acReq = [r \in Requests |-> Idle]
  /\ begun = {} /\ ended = {} /\ forked = {}
  /\ redeemed = [k \in Codes |-> 0] /\ shared = {}

Registered(u) == users[u] # NoRow
IsActive(u) == Registered(u) /\ users[u].status = "ACTIVE"
IsActiveAdmin(u) == IsActive(u) /\ users[u].role = "ADMIN"

Go(r, q) == acReq' = [acReq EXCEPT ![r] = q]

-----------------------------------------------------------------------------
(* RegisterHandler, ForgotPasswordHandler, SocialLoginHandler              *)

(* existsByEmail                                                           *)
Register(r, u, role) ==
  /\ acReq[r] = Idle
  /\ ~ Registered(u)
  /\ role \in {"CANDIDATE", "RECRUITER"}
  /\ Go(r, [pc |-> "createUser", user |-> u, kind |-> "EMAIL_VERIFICATION",
            row |-> [role |-> role, status |-> "PENDING"]])
  /\ UNCHANGED <<users, tokens, codes, begun, ended, forked, redeemed, shared>>

ForgotPassword(r, u) ==
  /\ acReq[r] = Idle
  /\ Registered(u)
  /\ Go(r, [pc |-> "createCode", user |-> u, kind |-> "PASSWORD_RESET"])
  /\ UNCHANGED <<users, tokens, codes, begun, ended, forked, redeemed, shared>>

(* An account that is there is linked and otherwise left as it is.         *)
SocialLogin(r, u, role) ==
  /\ acReq[r] = Idle
  /\ role \in {"CANDIDATE", "RECRUITER"}
  /\ IF Registered(u)
     THEN Go(r, [pc |-> "createCode", user |-> u, kind |-> "SOCIAL_LOGIN"])
     ELSE Go(r, [pc |-> "createUser", user |-> u, kind |-> "SOCIAL_LOGIN",
                 row |-> [role |-> role, status |-> "ACTIVE"]])
  /\ UNCHANGED <<users, tokens, codes, begun, ended, forked, redeemed, shared>>

(* The insert: refused by the unique email when the account exists by now. *)
CreateUser(r) ==
  /\ acReq[r].pc = "createUser"
  /\ LET q == acReq[r] IN
       IF Registered(q.user)
       THEN Go(r, Idle) /\ UNCHANGED users
       ELSE /\ users' = [users EXCEPT ![q.user] = q.row]
            /\ Go(r, [pc |-> "createCode", user |-> q.user, kind |-> q.kind])
  /\ UNCHANGED <<tokens, codes, begun, ended, forked, redeemed, shared>>

Held(k) ==
  \E q \in Requests :
    /\ acReq[q].pc \in {"findOwner", "markUsed", "loadUser", "save", "store"}
    /\ acReq[q].code = k

(* The code is stored under a new id, and mailed or put in the redirect; a *)
(* mail that fails is logged.                                              *)
CreateCode(r, k) ==
  /\ acReq[r].pc = "createCode"
  /\ codes[k] = NoRow /\ ~ Held(k)
  /\ codes' = [codes EXCEPT
       ![k] = [user |-> acReq[r].user, kind |-> acReq[r].kind, state |-> "valid"]]
  /\ redeemed' = [redeemed EXCEPT ![k] = 0]
  /\ shared' = shared \ {k}
  /\ Go(r, Idle)
  /\ UNCHANGED <<users, tokens, begun, ended, forked>>

-----------------------------------------------------------------------------
(* VerifyEmailHandler, ResetPasswordHandler, AuthService.exchangeSocialCode *)

(* Mutant: usedAt is not looked at.                                        *)
Redeemable_Used(k) == codes[k] # NoRow /\ codes[k].state \in {"valid", "used"}

(* findValidByHashAndType, findValidByHash                                 *)
Redeemable(k) == codes[k] # NoRow /\ codes[k].state = "valid"

(* A social code is marked used before its account is looked up.           *)
Redeem(r, k) ==
  /\ acReq[r] = Idle
  /\ Redeemable(k)
  /\ IF codes[k].kind = "SOCIAL_LOGIN"
     THEN Go(r, [pc |-> "markUsed", code |-> k, owner |-> codes[k].user,
                 kind |-> codes[k].kind, row |-> NoRow, seen |-> NoRow])
     ELSE Go(r, [pc |-> "findOwner", code |-> k, owner |-> codes[k].user,
                 kind |-> codes[k].kind])
  /\ shared' = shared \cup {x \in {k} : Held(x)}
  /\ UNCHANGED <<users, tokens, codes, begun, ended, forked, redeemed>>

(* The whole row is read, and written again below.                         *)
FindOwner(r) ==
  /\ acReq[r].pc = "findOwner"
  /\ LET q == acReq[r] IN
       Go(r, [pc |-> "markUsed", code |-> q.code, owner |-> q.owner, kind |-> q.kind,
              seen |-> users[q.owner],
              row  |-> IF q.kind = "EMAIL_VERIFICATION"
                       THEN [users[q.owner] EXCEPT !.status = "ACTIVE"]
                       ELSE users[q.owner]])
  /\ UNCHANGED <<users, tokens, codes, begun, ended, forked, redeemed, shared>>

(* An update of a row the nightly run has deleted is rejected.  The social *)
(* code's account is looked up next: it must be active.                    *)
MarkUsed(r) ==
  /\ acReq[r].pc = "markUsed"
  /\ LET q == acReq[r] IN
       /\ codes[q.code] # NoRow
       /\ codes' = [codes EXCEPT ![q.code].state =
                      IF @ = "expired" THEN "expired" ELSE "used"]
       /\ IF q.kind = "SOCIAL_LOGIN"
          THEN Go(r, [pc |-> "loadUser", user |-> q.owner, code |-> q.code])
          ELSE Go(r, [pc |-> "save", user |-> q.owner, row |-> q.row, seen |-> q.seen,
                      counted |-> {}, revoke |-> q.kind = "PASSWORD_RESET",
                      code |-> q.code])
  /\ UNCHANGED <<users, tokens, begun, ended, forked, redeemed, shared>>

Redeeming(k) == IF k = NoRow THEN redeemed ELSE [redeemed EXCEPT ![k] = @ + 1]

(* userRepository.save writes status and role as they were read.           *)
Save(r) ==
  /\ acReq[r].pc = "save"
  /\ LET q == acReq[r] IN
       /\ users' = [users EXCEPT ![q.user] = q.row]
       /\ redeemed' = Redeeming(q.code)
       /\ Go(r, IF q.revoke THEN [pc |-> "revokeAll", user |-> q.user] ELSE Idle)
  /\ UNCHANGED <<tokens, codes, begun, ended, forked, shared>>

TokensOf(u) == {t \in Tokens : tokens[t] # NoRow /\ tokens[t].user = u}
SessionsOf(u) == {tokens[t].session : t \in TokensOf(u)}
Live(t) == tokens[t] # NoRow /\ tokens[t].state = "live"
Revoked(T) == [t \in Tokens |->
  IF t \in T /\ Live(t) THEN [tokens[t] EXCEPT !.state = "revoked"] ELSE tokens[t]]

(* A request is about to store the next token of the session.              *)
Carrying == {"refreshUser", "rotate", "store"}
Carried(s) == \E q \in Requests : acReq[q].pc \in Carrying /\ acReq[q].session = s

(* revokeAllForUser, and the answer.  A token that is being made is not    *)
(* there yet and goes on.                                                  *)
RevokeAll(u) ==
  /\ tokens' = Revoked(TokensOf(u))
  /\ ended' = ended \cup {s \in SessionsOf(u) : ~ Carried(s)}

RevokeSessions(r) ==
  /\ acReq[r].pc = "revokeAll"
  /\ RevokeAll(acReq[r].user)
  /\ Go(r, Idle)
  /\ UNCHANGED <<users, codes, begun, forked, redeemed, shared>>

-----------------------------------------------------------------------------
(* ChangePasswordHandler and AdminUpdateUserStatusHandler                  *)

ChangePassword(r, u) ==
  /\ acReq[r] = Idle
  /\ Registered(u)
  /\ Go(r, [pc |-> "save", user |-> u, row |-> users[u], seen |-> users[u],
            counted |-> {}, revoke |-> TRUE, code |-> NoRow])
  /\ UNCHANGED <<users, tokens, codes, begun, ended, forked, redeemed, shared>>

(* What the input asks for; a field that is missing leaves the row's.      *)
NoInput == "none"

Updated(row, role, status) ==
  [role   |-> IF role = NoInput THEN row.role ELSE role,
   status |-> IF status = NoInput THEN row.status ELSE status]

Blocks(status) == status \notin {NoInput, "ACTIVE"}
ChangesRole(row, role) == role \notin {NoInput, row.role}
RemovesAdminAccess(row, role, status) ==
  row.role = "ADMIN" /\ (Blocks(status) \/ role \notin {NoInput, "ADMIN"})

(* Nobody blocks or demotes themselves; whether this takes an admin away   *)
(* is decided by the row that was read.                                    *)
UpdateUser(r, a, u, role, status) ==
  /\ acReq[r] = Idle
  /\ Registered(a) /\ Registered(u)
  /\ a = u => ~ Blocks(status) /\ ~ ChangesRole(users[u], role)
  /\ LET row    == Updated(users[u], role, status)
         revoke == status = "BLOCKED" \/ ChangesRole(users[u], role)
     IN  Go(r, IF RemovesAdminAccess(users[u], role, status)
               THEN [pc |-> "countAdmins", user |-> u, row |-> row, seen |-> users[u],
                     revoke |-> revoke]
               ELSE [pc |-> "save", user |-> u, row |-> row, seen |-> users[u],
                     counted |-> {}, revoke |-> revoke, code |-> NoRow])
  /\ UNCHANGED <<users, tokens, codes, begun, ended, forked, redeemed, shared>>

(* Mutant: blocked admins count.                                           *)
ActiveAdmins_AnyStatus == {u \in Users : Registered(u) /\ users[u].role = "ADMIN"}

(* countActiveAdmins                                                       *)
ActiveAdmins == {u \in Users : IsActiveAdmin(u)}

CountAdmins(r) ==
  /\ acReq[r].pc = "countAdmins"
  /\ LET q == acReq[r] IN
       Go(r, IF Cardinality(ActiveAdmins) <= 1 THEN Idle
             ELSE [pc |-> "save", user |-> q.user, row |-> q.row, seen |-> q.seen,
                   counted |-> {u \in Users : IsActiveAdmin(u)},
                   revoke |-> q.revoke, code |-> NoRow])
  /\ UNCHANGED <<users, tokens, codes, begun, ended, forked, redeemed, shared>>

-----------------------------------------------------------------------------
(* AuthService: login, refresh, logout                                     *)

(* LoginHandler: the password matches and the account is active.           *)
Login(r, u, s) ==
  /\ acReq[r] = Idle
  /\ IsActive(u)
  /\ s \notin begun
  /\ begun' = begun \cup {s}
  /\ Go(r, [pc |-> "store", user |-> u, session |-> s, code |-> NoRow])
  /\ UNCHANGED <<users, tokens, codes, ended, forked, redeemed, shared>>

LoadUser(r, s) ==
  /\ acReq[r].pc = "loadUser"
  /\ s \notin begun
  /\ LET q == acReq[r] IN
       IF IsActive(q.user)
       THEN /\ begun' = begun \cup {s}
            /\ Go(r, [pc |-> "store", user |-> q.user, session |-> s, code |-> q.code])
       ELSE Go(r, Idle) /\ UNCHANGED begun
  /\ UNCHANGED <<users, tokens, codes, ended, forked, redeemed, shared>>

(* storeRefreshToken, and the answer.                                      *)
StoreToken(r, t) ==
  /\ acReq[r].pc = "store"
  /\ tokens[t] = NoRow
  /\ tokens' = [tokens EXCEPT
       ![t] = [user |-> acReq[r].user, session |-> acReq[r].session, state |-> "live"]]
  /\ redeemed' = Redeeming(acReq[r].code)
  /\ Go(r, Idle)
  /\ UNCHANGED <<users, codes, begun, ended, forked, shared>>

(* Mutant: revokedAt is not looked at.                                     *)
Valid_Revoked(t) == tokens[t] # NoRow /\ tokens[t].state \in {"live", "revoked"}

(* findValidByHash                                                         *)
Valid(t) == tokens[t] # NoRow /\ tokens[t].state = "live"

Refresh(r, t) ==
  /\ acReq[r] = Idle
  /\ Valid(t)
  /\ Go(r, [pc |-> "refreshUser", token |-> t, user |-> tokens[t].user,
            session |-> tokens[t].session])
  /\ forked' = forked \cup {s \in {tokens[t].session} : Carried(s)}
  /\ UNCHANGED <<users, tokens, codes, begun, ended, redeemed, shared>>

RefreshUser(r) ==
  /\ acReq[r].pc = "refreshUser"
  /\ Go(r, IF IsActive(acReq[r].user) THEN [acReq[r] EXCEPT !.pc = "rotate"] ELSE Idle)
  /\ UNCHANGED <<users, tokens, codes, begun, ended, forked, redeemed, shared>>

ToStore(r) ==
  Go(r, [pc |-> "store", user |-> acReq[r].user, session |-> acReq[r].session,
         code |-> NoRow])

(* Mutant: the old token is left as it is.                                 *)
Rotate_Keep(r) ==
  /\ acReq[r].pc = "rotate"
  /\ ToStore(r)
  /\ UNCHANGED <<users, tokens, codes, begun, ended, forked, redeemed, shared>>

(* The old token is revoked before the new one is made.                    *)
Rotate(r) ==
  /\ acReq[r].pc = "rotate"
  /\ tokens' = Revoked({acReq[r].token})
  /\ ToStore(r)
  /\ UNCHANGED <<users, codes, begun, ended, forked, redeemed, shared>>

(* One query each, answered 200 whatever it finds: a logout with a token   *)
(* that is not live revokes nothing, and one of a session that was forked  *)
(* leaves it another.                                                      *)
Logout(r, t) ==
  /\ acReq[r] = Idle
  /\ tokens[t] # NoRow
  /\ tokens' = Revoked({t})
  /\ ended' = ended \cup {s \in {tokens[t].session} \ forked : Live(t) /\ ~ Carried(s)}
  /\ UNCHANGED <<users, codes, acReq, begun, forked, redeemed, shared>>

LogoutAll(r, u) ==
  /\ acReq[r] = Idle
  /\ Registered(u)
  /\ RevokeAll(u)
  /\ UNCHANGED <<users, codes, acReq, begun, forked, redeemed, shared>>

-----------------------------------------------------------------------------
(* CleanupExpiredTokensHandler, time and failures                          *)

Expired(t) == tokens[t] # NoRow /\ tokens[t].state = "expired"
Spent(k) ==
  /\ codes[k] # NoRow /\ codes[k].kind # "SOCIAL_LOGIN"
  /\ codes[k].state \in {"used", "expired"}

(* Two deletions at once; either may be rejected alone.                    *)
Cleanup(r) ==
  /\ acReq[r] = Idle
  /\ \E T \in {{}, {t \in Tokens : Expired(t)}}, K \in {{}, {k \in Codes : Spent(k)}} :
       /\ tokens' = [t \in Tokens |-> IF t \in T THEN NoRow ELSE tokens[t]]
       /\ codes' = [k \in Codes |-> IF k \in K THEN NoRow ELSE codes[k]]
  /\ UNCHANGED <<users, acReq, begun, ended, forked, redeemed, shared>>

TokenExpires(t) ==
  /\ tokens[t] # NoRow /\ tokens[t].state # "expired"
  /\ tokens' = [tokens EXCEPT ![t].state = "expired"]
  /\ UNCHANGED <<users, codes, acReq, begun, ended, forked, redeemed, shared>>

CodeExpires(k) ==
  /\ codes[k] # NoRow /\ codes[k].state # "expired"
  /\ codes' = [codes EXCEPT ![k].state = "expired"]
  /\ UNCHANGED <<users, tokens, acReq, begun, ended, forked, redeemed, shared>>

(* A query is rejected, or the process stops between two awaits.           *)
AcRequestFails(r) ==
  /\ acReq[r] # Idle
  /\ Go(r, Idle)
  /\ UNCHANGED <<users, tokens, codes, begun, ended, forked, redeemed, shared>>

AcStart(r) ==
  \/ \E u \in Users, role \in Roles : Register(r, u, role) \/ SocialLogin(r, u, role)
  \/ \E u \in Users : ForgotPassword(r, u) \/ ChangePassword(r, u) \/ LogoutAll(r, u)
  \/ \E u \in Users, s \in Sessions : Login(r, u, s)
  \/ \E a, u \in Users, role \in Roles \cup {NoInput}, status \in Statuses \cup {NoInput} :
       UpdateUser(r, a, u, role, status)
  \/ \E k \in Codes : Redeem(r, k)
  \/ \E t \in Tokens : Refresh(r, t) \/ Logout(r, t)
  \/ Cleanup(r)

AcContinue(r) ==
  \/ CreateUser(r) \/ \E k \in Codes : CreateCode(r, k)
  \/ FindOwner(r) \/ MarkUsed(r) \/ \E s \in Sessions : LoadUser(r, s)
  \/ CountAdmins(r) \/ Save(r) \/ RevokeSessions(r)
  \/ RefreshUser(r) \/ Rotate(r) \/ \E t \in Tokens : StoreToken(r, t)
  \/ AcRequestFails(r)

AcNext ==
  \/ \E r \in Requests : AcStart(r) \/ AcContinue(r)
  \/ \E t \in Tokens : TokenExpires(t)
  \/ \E k \in Codes : CodeExpires(k)

AcSpec == AcInit /\ [][AcNext]_acVars

-----------------------------------------------------------------------------
(* Properties                                                              *)

AcTypeOK ==
  /\ users \in [Users -> UserRow \cup {NoRow}]
  /\ tokens \in [Tokens -> TokenRow \cup {NoRow}]
  /\ codes \in [Codes -> CodeRow \cup {NoRow}]
  /\ acReq \in [Requests -> AcRequest]
  /\ begun \subseteq Sessions /\ ended \subseteq Sessions /\ forked \subseteq Sessions
  /\ redeemed \in [Codes -> Nat] /\ shared \subseteq Codes

(* r saves an account that is no longer what r read, or after one of the   *)
(* admins it counted is no active admin any more.                          *)
Outdated(r) ==
  /\ acReq[r].pc = "save" /\ acReq'[r] # acReq[r]
  /\ \/ users[acReq[r].user] # acReq[r].seen
     \/ \E u \in acReq[r].counted : ~ IsActiveAdmin(u)

(* "An admin demoting/blocking themselves can strand the platform with no  *)
(* one left who can reach this very endpoint" (admin-update-user-          *)
(* status.command.ts 56-58): whatever requests overlap, the last active    *)
(* admin goes only with a save that is outdated when it is made.           *)
AnAdminStays ==
  [][(\E u \in Users : IsActiveAdmin(u)) =>
       \/ (\E u \in Users : IsActiveAdmin(u))'
       \/ \E r \in Requests : Outdated(r)]_acVars

(* A session that ended (a logout with its token, a logout everywhere, a   *)
(* new password, a block, another role) while no request was carrying it   *)
(* on is never carried on again, and has no live token.                    *)
EndedSessionsStayEnded == \A t \in Tokens : Live(t) => tokens[t].session \notin ended

(* "The old refresh token is single-use" (auth.service.ts 165): however    *)
(* rotations end, a session has one live token at most, unless two         *)
(* requests refreshed it at once.                                          *)
OneTokenPerSession ==
  \A t, x \in Tokens :
    Live(t) /\ Live(x) /\ tokens[t].session = tokens[x].session
      => t = x \/ tokens[t].session \in forked

(* A code verifies, resets or logs in once, wherever a request breaks off  *)
(* and the client tries again ("invalid, expired, or already used",        *)
(* auth.exceptions.ts 98), unless two requests held it at once.            *)
CodesWorkOnce == \A k \in Codes : redeemed[k] <= 1 \/ k \in shared
=============================================================================
