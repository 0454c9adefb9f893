----------------------------- MODULE MCAccounts -----------------------------
(***************************************************************************)
(* An instance of Accounts for TLC.  Ids and slots are interchangeable.    *)
(* Requests that write accounts, that hold a session and that hold a code  *)
(* are three families.  Two requests overlap when they are of one family,  *)
(* with what that family is about in the tables; requests of different     *)
(* families follow each other with everything in the tables.               *)
(***************************************************************************)
EXTENDS Accounts, TLC

Symmetry ==
  Permutations(Sessions) \cup Permutations(Tokens) \cup Permutations(Requests)

Family(q) ==
  CASE q.pc \in {"save", "store"} /\ q.code # NoRow -> "code"
    [] q.pc \in {"createCode", "findOwner", "markUsed", "loadUser"} -> "code"
    [] q.pc \in {"refreshUser", "rotate", "store", "revokeAll"} -> "session"
    [] OTHER -> "account"

Busy == {r \in Requests : acReq[r] # Idle}
Only(family) == Cardinality(Busy) > 1 => \A r \in Busy : Family(acReq[r]) = family
NoTokens == \A t \in Tokens : tokens[t] = NoRow
NoCodes == \A k \in Codes : codes[k] = NoRow
AdminsAtWork == \A a \in FirstAdmins : IsActiveAdmin(a)
OthersApply ==
  /\ \A u \in Users \ FirstAdmins : users[u] # NoRow => users[u].role = "CANDIDATE"
  /\ \A k \in Codes : codes[k] # NoRow => codes[k].user \notin FirstAdmins

Focus ==
  /\ \A u \in Users : users[u] # NoRow => users[u].role # "RECRUITER"
  /\ \/ NoTokens /\ NoCodes /\ Only("account")
     \/ NoCodes /\ Only("session") /\ AdminsAtWork
     \/ NoTokens /\ Only("code") /\ AdminsAtWork /\ OthersApply /\ ended = {}
     \/ /\ Cardinality(Busy) <= 1 /\ AdminsAtWork /\ OthersApply
        /\ forked = {} /\ shared = {}
=============================================================================
