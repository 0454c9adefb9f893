----------------------- MODULE RoleAdministration_proofs -----------------------
(***************************************************************************)
(* Proofs about RoleAdministration, for any roles, permissions, defaults,  *)
(* slots and number of seeds and PUTs.                                     *)
(***************************************************************************)
EXTENDS RoleAdministration, TLAPS

(* A seed points at a role, a permission or a default that is there.       *)
SeedSound ==
  /\ seed.pc \in {"roles", "count", "wire"} => seed.at \in 1..Len(RoleOrder)
  /\ seed.pc = "permissions" => seed.at \in 1..Len(PermissionOrder)
  /\ seed.pc = "wire" => seed.next \in 1..Len(Defaults[RoleOrder[seed.at]])

RaTypes == RaTypeOK /\ SeedSound

LEMMA OrdersAreSound ==
  /\ Len(RoleOrder) \in Nat \ {0} /\ Len(PermissionOrder) \in Nat \ {0}
  /\ \A i \in 1..Len(RoleOrder) : RoleOrder[i] \in Roles
  /\ \A i \in 1..Len(PermissionOrder) : PermissionOrder[i] \in Permissions
  /\ \A r \in Roles :
       /\ Len(Defaults[r]) \in Nat \ {0}
       /\ \A i \in 1..Len(Defaults[r]) : Defaults[r][i] \in Permissions
<1>1. RoleOrder \in Seq(Roles) /\ RoleOrder # << >>
  BY RoleAdministrationAssumption
<1>2. PermissionOrder \in Seq(Permissions) /\ PermissionOrder # << >>
  BY RoleAdministrationAssumption
<1>3. ASSUME NEW r \in Roles
      PROVE  /\ Len(Defaults[r]) \in Nat \ {0}
             /\ \A i \in 1..Len(Defaults[r]) : Defaults[r][i] \in Permissions
  <2>1. Defaults[r] \in Seq(Permissions) /\ Defaults[r] # << >>
    BY <1>3, RoleAdministrationAssumption
  <2> QED BY <2>1
<1>4. /\ Len(RoleOrder) \in Nat \ {0}
      /\ \A i \in 1..Len(RoleOrder) : RoleOrder[i] \in Roles
  BY <1>1
<1>5. /\ Len(PermissionOrder) \in Nat \ {0}
      /\ \A i \in 1..Len(PermissionOrder) : PermissionOrder[i] \in Permissions
  BY <1>2
<1> QED BY <1>3, <1>4, <1>5

(* What a slot or the seed holds, by its pc.                               *)
LEMMA AdminKinds ==
  ASSUME RaTypeOK, NEW a \in Admins
  PROVE  /\ admin[a].pc \in {"idle", "guarded", "counted", "safe", "replaced",
                             "deleted"}
         /\ admin[a].pc = "idle" => admin[a] = Idle
         /\ admin[a].pc # "idle" =>
              admin[a].role \in Roles /\ admin[a].ids \in Payloads
         /\ admin[a].pc = "deleted" => admin[a].added \subseteq Permissions
BY DEF RaTypeOK, AdminState, Idle

LEMMA LookupKinds ==
  ASSUME RaTypeOK, NEW l \in Lookups
  PROVE  /\ lookup[l] # Idle => lookup[l].role \in Roles
         /\ lookup[l].pc = "asked" => lookup[l].role \in Roles
         /\ lookup[l].pc = "answered" =>
              lookup[l].role \in Roles /\ lookup[l].permissions \subseteq Permissions
BY DEF RaTypeOK, LookupState, Idle

LEMMA SeedKinds ==
  ASSUME RaTypes
  PROVE  /\ seed.pc \in {"off", "count", "roles", "permissions", "wire"}
         /\ seed.at \in Nat
         /\ seed.pc \in {"roles", "count", "wire"} => RoleOrder[seed.at] \in Roles
         /\ seed.pc = "permissions" => PermissionOrder[seed.at] \in Permissions
         /\ seed.pc = "wire" =>
              /\ seed.next \in Nat
              /\ Defaults[RoleOrder[seed.at]][seed.next] \in Permissions
<1>1. /\ seed.pc \in {"off", "count", "roles", "permissions", "wire"}
      /\ seed.at \in Nat /\ (seed.pc = "wire" => seed.next \in Nat)
  BY DEF RaTypes, RaTypeOK, SeedState
<1> QED BY <1>1, OrdersAreSound DEF RaTypes, SeedSound

(* The next role the seed looks at.                                        *)
LEMMA NextRoleTyped ==
  ASSUME NEW i \in 1..Len(RoleOrder)
  PROVE  /\ NextRole(i) \in SeedState
         /\ NextRole(i).pc \in {"off", "count"}
         /\ NextRole(i).pc = "off" <=> i = Len(RoleOrder)
         /\ NextRole(i).pc = "count" => NextRole(i).at = i + 1 /\ i + 1 \in 1..Len(RoleOrder)
BY OrdersAreSound DEF NextRole, Off, SeedState

-----------------------------------------------------------------------------
(* Types.                                                                  *)

LEMMA SeedTypes ==
  ASSUME RaTypes, SeedNext
  PROVE  RaTypes'
<1> USE DEF RaTypes, tables, ghosts
<1>1. CASE SeedStart
  <2>1. seed' \in SeedState /\ SeedSound' /\ started' \in 0..MaxStarts
    BY <1>1, OrdersAreSound, RoleAdministrationAssumption
       DEF SeedStart, RaTypeOK, SeedState, SeedSound
  <2> QED BY <1>1, <2>1 DEF SeedStart, RaTypeOK
<1>2. CASE SeedRole
  <2>1. RoleOrder[seed.at] \in Roles /\ seed.at \in 1..Len(RoleOrder)
        /\ seed.at \in Nat
    BY <1>2, SeedKinds DEF SeedRole, SeedSound
  <2>2. /\ [pc |-> "permissions", at |-> 1] \in SeedState
        /\ seed = [pc |-> "roles", at |-> seed.at]
    BY <1>2 DEF SeedRole, RaTypeOK, SeedState
  <2>3. [seed EXCEPT !.at = @ + 1] = [pc |-> "roles", at |-> seed.at + 1]
    BY <2>2
  <2>4. seed' \in SeedState /\ SeedSound'
    BY <1>2, <2>1, <2>2, <2>3, OrdersAreSound
       DEF SeedRole, SeedSound, SeedState
  <2> QED BY <1>2, <2>1, <2>4 DEF SeedRole, RaTypeOK
<1>3. CASE SeedPermission
  <2>1. PermissionOrder[seed.at] \in Permissions
        /\ seed.at \in 1..Len(PermissionOrder) /\ seed.at \in Nat
    BY <1>3, SeedKinds DEF SeedPermission, SeedSound
  <2>2. seed = [pc |-> "permissions", at |-> seed.at]
    BY <1>3 DEF SeedPermission, RaTypeOK, SeedState
  <2>3. [seed EXCEPT !.at = @ + 1] = [pc |-> "permissions", at |-> seed.at + 1]
    BY <2>2
  <2>4. seed' \in SeedState /\ SeedSound'
    BY <1>3, <2>1, <2>2, <2>3, OrdersAreSound
       DEF SeedPermission, SeedSound, SeedState
  <2> QED BY <1>3, <2>1, <2>4 DEF SeedPermission, RaTypeOK
<1>4. CASE SeedCount
  <2>1. seed.at \in 1..Len(RoleOrder) /\ RoleOrder[seed.at] \in Roles
    BY <1>4, SeedKinds DEF SeedCount, SeedSound
  <2>2. seed' \in SeedState /\ SeedSound'
    <3>1. CASE grants[RoleOrder[seed.at]] # {}
      <4>1. seed' = NextRole(seed.at)
        BY <1>4, <3>1 DEF SeedCount
      <4> QED BY <4>1, <2>1, NextRoleTyped DEF SeedSound
    <3>2. CASE ~ (grants[RoleOrder[seed.at]] # {})
      BY <1>4, <3>2, <2>1, OrdersAreSound DEF SeedCount, SeedSound, SeedState
    <3> QED BY <3>1, <3>2
  <2> QED BY <1>4, <2>2 DEF SeedCount, RaTypeOK
<1>5. CASE SeedWire
  <2> DEFINE r == RoleOrder[seed.at]
             p == Defaults[r][seed.next]
  <2>1. /\ seed.at \in 1..Len(RoleOrder) /\ r \in Roles /\ p \in Permissions
        /\ seed.next \in 1..Len(Defaults[r])
    BY <1>5, SeedKinds DEF SeedWire, SeedSound
  <2>2. seed = [pc |-> "wire", at |-> seed.at, next |-> seed.next]
    BY <1>5 DEF SeedWire, RaTypeOK, SeedState
  <2>3. [seed EXCEPT !.next = @ + 1]
          = [pc |-> "wire", at |-> seed.at, next |-> seed.next + 1]
    BY <2>2
  <2>4. seed' \in SeedState /\ SeedSound'
    <3>1. CASE seed.next = Len(Defaults[r])
      <4>1. seed' = NextRole(seed.at)
        BY <1>5, <3>1 DEF SeedWire
      <4> QED BY <4>1, <2>1, NextRoleTyped DEF SeedSound
    <3>2. CASE seed.next # Len(Defaults[r])
      BY <1>5, <3>2, <2>1, <2>3, OrdersAreSound DEF SeedWire, SeedSound, SeedState
    <3> QED BY <3>1, <3>2
  <2>5. admin' \in [Admins -> AdminState]
    <3>1. ASSUME NEW a \in Admins, admin[a].pc = "deleted"
          PROVE  [admin[a] EXCEPT !.added = @ \cup {p}] \in AdminState
      BY <3>1, <2>1 DEF RaTypeOK, AdminState, Idle
    <3> QED BY <1>5, <3>1 DEF SeedWire, Escapes, RaTypeOK
  <2>6. grants' \in [Roles -> SUBSET Permissions]
    BY <1>5, <2>1 DEF SeedWire, RaTypeOK
  <2> QED BY <1>5, <2>4, <2>5, <2>6 DEF SeedWire, RaTypeOK
<1>6. CASE SeedDies
  <2>1. seed' \in SeedState /\ SeedSound'
    BY <1>6 DEF SeedDies, Off, SeedState, SeedSound
  <2>2. cut' \subseteq Roles
    BY <1>6, SeedKinds DEF SeedDies, RaTypeOK
  <2> QED BY <1>6, <2>1, <2>2 DEF SeedDies, RaTypeOK
<1> QED
  BY <1>1, <1>2, <1>3, <1>4, <1>5, <1>6 DEF SeedNext

LEMMA LookupTypes ==
  ASSUME RaTypes, NEW l \in Lookups, LookupNext(l)
  PROVE  RaTypes'
<1> USE DEF RaTypes, tables, ghosts
<1>0. ASSUME UNCHANGED <<tables, admin, seed, started, ghosts>>,
             cache' \in [Roles -> CacheEntry \cup {None}],
             lookup' \in [Lookups -> LookupState]
      PROVE  RaTypes'
  BY <1>0 DEF RaTypeOK, SeedSound
<1>1. ASSUME NEW r \in Roles, LookupAsk(l, r)
      PROVE  RaTypes'
  BY <1>0, <1>1 DEF LookupAsk, RaTypeOK, LookupState
<1>2. CASE LookupRead(l)
  BY <1>0, <1>2, LookupKinds DEF LookupRead, RaTypeOK, LookupState
<1>3. CASE LookupReturn(l)
  <2>1. [permissions |-> lookup[l].permissions, left |-> TTL] \in CacheEntry
    BY <1>3, LookupKinds, RoleAdministrationAssumption
       DEF LookupReturn, CacheEntry
  <2>2. cache' \in [Roles -> CacheEntry \cup {None}]
    BY <1>3, <2>1, LookupKinds DEF LookupReturn, RaTypeOK
  <2> QED BY <1>0, <1>3, <2>2 DEF LookupReturn, RaTypeOK, LookupState
<1>4. CASE LookupFails(l)
  BY <1>0, <1>4 DEF LookupFails, RaTypeOK, LookupState
<1> QED BY <1>1, <1>2, <1>3, <1>4 DEF LookupNext

LEMMA AdminTypes ==
  ASSUME RaTypes, NEW a \in Admins, AdminNext(a)
  PROVE  RaTypes'
<1> USE DEF RaTypes, tables, ghosts
<1>0. ASSUME UNCHANGED <<tables, cache, lookup, seed, ghosts>>,
             started' \in 0..MaxStarts, admin' \in [Admins -> AdminState]
      PROVE  RaTypes'
  BY <1>0 DEF RaTypeOK, SeedSound
<1>r. started \in 0..MaxStarts
      /\ [admin EXCEPT ![a] = Idle] \in [Admins -> AdminState]
  BY DEF RaTypeOK, AdminState
<1>g. ASSUME NEW pc \in {"counted", "safe"}, admin[a].pc \in {"guarded", "counted"}
      PROVE  [admin EXCEPT ![a].pc = pc] \in [Admins -> AdminState]
  <2>1. [admin[a] EXCEPT !.pc = pc] \in AdminState
    BY <1>g DEF RaTypeOK, AdminState, Idle
  <2> QED BY <2>1 DEF RaTypeOK
<1>1. ASSUME NEW by \in Roles, NEW r \in Roles, NEW ids \in Payloads,
             UpdateAsk(a, by, r, ids)
      PROVE  RaTypes'
  <2>1. started' \in 0..MaxStarts
    BY <1>1, RoleAdministrationAssumption DEF UpdateAsk, RaTypeOK
  <2>2. admin' \in [Admins -> AdminState]
    BY <1>1 DEF UpdateAsk, RaTypeOK, AdminState
  <2> QED BY <1>0, <1>1, <2>1, <2>2 DEF UpdateAsk
<1>2. CASE UpdateReadHolds(a)
  BY <1>0, <1>r, <1>g, <1>2 DEF UpdateReadHolds, Goto
<1>3. CASE UpdateCountOthers(a)
  BY <1>0, <1>r, <1>g, <1>3 DEF UpdateCountOthers, Goto, Refuse
<1>4. CASE UpdateDelete(a)
  <2>1. admin' \in [Admins -> AdminState]
    BY <1>4, AdminKinds DEF UpdateDelete, RaTypeOK, AdminState
  <2> QED BY <1>0, <1>r, <1>4, <2>1 DEF UpdateDelete
<1>5. CASE UpdateCommit(a)
  <2> DEFINE r == admin[a].role
             ids == admin[a].ids
             kept == admin[a].added
  <2>1. /\ r \in Roles /\ ids \in Payloads /\ ids \subseteq Permissions
        /\ kept \subseteq Permissions
    BY <1>5, AdminKinds, RoleAdministrationAssumption DEF UpdateCommit
  <2>2. grants' \in [Roles -> SUBSET Permissions]
    BY <1>5, <2>1 DEF UpdateCommit, RaTypeOK
  <2>3. admin' \in [Admins -> AdminState]
    <3>1. PICK pc \in {"replaced", "idle"} : 
            admin' = [b \in Admins |->
              CASE b = a -> IF pc = "idle" THEN Idle
                            ELSE [pc |-> pc, role |-> r, ids |-> ids]
                [] b \in {c \in Admins \ {a} :
                            admin[c].pc = "deleted" /\ admin[c].role = r} ->
                     [admin[b] EXCEPT !.added = (@ \cap kept) \cup ids]
                [] OTHER -> admin[b]]
      BY <1>5 DEF UpdateCommit
    <3>2. [pc |-> "replaced", role |-> r, ids |-> ids] \in AdminState
          /\ Idle \in AdminState
      BY <2>1 DEF AdminState
    <3>3. ASSUME NEW b \in Admins, admin[b].pc = "deleted"
          PROVE  [admin[b] EXCEPT !.added = (@ \cap kept) \cup ids] \in AdminState
      BY <3>3, <2>1 DEF RaTypeOK, AdminState, Idle
    <3> QED BY <3>1, <3>2, <3>3 DEF RaTypeOK
  <2>4. chosen' \in [Roles -> SUBSET Payloads] /\ blurred' \subseteq Roles
        /\ overlapped' \in BOOLEAN
    BY <1>5, <2>1 DEF UpdateCommit, RaTypeOK
  <2> QED BY <1>5, <2>2, <2>3, <2>4 DEF UpdateCommit, RaTypeOK, SeedSound
<1>6. CASE UpdateInvalidate(a)
  BY <1>r, <1>6 DEF UpdateInvalidate, RaTypeOK, SeedSound
<1>7. CASE UpdateFails(a)
  BY <1>0, <1>r, <1>7 DEF UpdateFails, Refuse
<1> QED
  BY <1>1, <1>2, <1>3, <1>4, <1>5, <1>6, <1>7 DEF AdminNext

LEMMA RaTypesInit == RaInit => RaTypes
<1> SUFFICES ASSUME RaInit PROVE RaTypes
  OBVIOUS
<1>1. Off \in SeedState /\ 0 \in 0..MaxStarts
  BY RoleAdministrationAssumption DEF Off, SeedState
<1>2. RaTypeOK
  BY <1>1 DEF RaInit, RaTypeOK, LookupState, AdminState
<1>3. SeedSound
  BY DEF RaInit, SeedSound, Off
<1> QED BY <1>2, <1>3 DEF RaTypes

LEMMA RaTypesInductive ==
  ASSUME RaTypes, [RaNext]_raVars
  PROVE  RaTypes'
<1>1. CASE UNCHANGED raVars
  BY <1>1 DEF RaTypes, RaTypeOK, SeedSound, raVars, tables, ghosts
<1>2. CASE Tick
  <2>1. ASSUME NEW r \in Roles, cache[r] # None, cache[r].left # 1
        PROVE  [cache[r] EXCEPT !.left = @ - 1] \in CacheEntry
    <3>1. cache[r] \in CacheEntry
      BY <2>1 DEF RaTypes, RaTypeOK
    <3>2. cache[r].left \in 1..TTL /\ cache[r].permissions \subseteq Permissions
      BY <3>1 DEF CacheEntry
    <3>3. cache[r].left - 1 \in 1..TTL
      BY <2>1, <3>2, RoleAdministrationAssumption
    <3> QED BY <3>1, <3>2, <3>3 DEF CacheEntry
  <2> QED
    BY <1>2, <2>1 DEF Tick, RaTypes, RaTypeOK, SeedSound, tables, ghosts
<1>3. CASE Restart
  BY <1>3 DEF Restart, RaTypes, RaTypeOK, SeedSound, LookupState, AdminState,
              tables, ghosts
<1> QED
  BY <1>1, <1>2, <1>3, SeedTypes, LookupTypes, AdminTypes DEF RaNext

(* Rows, cache entries, handlers and the seed keep their shapes.           *)
THEOREM RaTypeCorrect == RaSpec => []RaTypeOK
<1>1. RaTypes => RaTypeOK
  BY DEF RaTypes
<1> QED BY <1>1, RaTypesInit, RaTypesInductive, PTL DEF RaSpec

-----------------------------------------------------------------------------
(* Administration survives.                                                *)

(* Whoever passes the guard of the PUT had the permission in the cache.    *)
LEMMA GuardAsksForManage ==
  ASSUME NEW r \in Roles, Passes(r, PutRoute)
  PROVE  cache[r] # None /\ Manage \in cache[r].permissions
<1>1. \E route \in RbacAdminRoutes : route.runs = "UpdateRolePermissions"
  BY DEF RbacAdminRoutes, Guarded
<1>2. PutRoute \in RbacAdminRoutes
  BY <1>1 DEF PutRoute
<1>0. ASSUME NEW route \in RbacAdminRoutes
      PROVE  route.needs = {"role:permission:manage"}
  <2>1. \E path, call :
          route = Guarded(path, "role:permission:manage", call)
    BY DEF RbacAdminRoutes
  <2>2. PICK path, call :
          route = Guarded(path, "role:permission:manage", call)
    BY <2>1
  <2> QED BY <2>2 DEF Guarded
<1>3. PutRoute.needs = {"role:permission:manage"}
  BY <1>0, <1>2
<1>4. Manage \in PutRoute.needs
  BY <1>3 DEF Manage
<1> QED BY <1>4 DEF Passes

(* Every grant is of a permission that has a row, and so is every          *)
(* permission once the seed grants.                                        *)
GrantsHaveRows ==
  /\ \A r \in Roles : grants[r] \subseteq permissionRows
  /\ seed.pc = "permissions" =>
       \A i \in 1..(seed.at - 1) : PermissionOrder[i] \in permissionRows
  /\ seed.pc \in {"count", "wire"} => Permissions \subseteq permissionRows
  /\ \A a \in Admins : admin[a].pc # "idle" => admin[a].ids \subseteq permissionRows
  /\ \A a \in Admins : admin[a].pc = "deleted" =>
                         admin[a].added \subseteq permissionRows

(* Somebody holds the permission whenever the server remembers that        *)
(* somebody did, in its cache, a look-up or a PUT that passed the guard.   *)
Remembered ==
  \/ \E r \in Roles : cache[r] # None /\ Manage \in cache[r].permissions
  \/ \E l \in Lookups : lookup[l].pc = "answered" /\ Manage \in lookup[l].permissions
  \/ \E a \in Admins : admin[a].pc # "idle"

(* A PUT past its checks leaves somebody who holds it.                     *)
LeavesHolder(a) ==
  /\ admin[a].pc \in {"guarded", "counted"} => Manage \notin admin[a].ids
  /\ admin[a].pc \in {"safe", "deleted"} =>
       Manage \in admin[a].ids \/ Holders \ {admin[a].role} # {}

AdministrationSafe ==
  /\ GrantsHaveRows
  /\ ~ overlapped => /\ Remembered => Holders # {}
                     /\ \A a \in Admins : LeavesHolder(a)

LEMMA RowsInductive ==
  ASSUME RaTypes, GrantsHaveRows, [RaNext]_raVars
  PROVE  GrantsHaveRows'
<1> USE DEF GrantsHaveRows, tables, ghosts
<1>0. ASSUME UNCHANGED <<permissionRows, grants, seed>>,
             \A a \in Admins : admin'[a] = admin[a] \/ admin'[a].pc = "idle"
      PROVE  GrantsHaveRows'
  BY <1>0
<1>s. ASSUME UNCHANGED <<grants, admin>>, permissionRows \subseteq permissionRows',
             seed'.pc \notin {"permissions", "count", "wire"}
      PROVE  GrantsHaveRows'
  BY <1>s
<1>1. CASE UNCHANGED raVars
  BY <1>0, <1>1 DEF raVars
<1>2. CASE SeedStart \/ SeedDies
  BY <1>s, <1>2 DEF SeedStart, SeedDies, Off
<1>3. CASE SeedRole
  <2>1. CASE seed.at = Len(RoleOrder)
    BY <1>3, <2>1 DEF SeedRole
  <2>2. CASE seed.at # Len(RoleOrder)
    <3>1. seed' = [seed EXCEPT !.at = @ + 1]
      BY <1>3, <2>2 DEF SeedRole
    <3>2. seed'.pc = "roles"
      BY <1>3, <3>1 DEF SeedRole, RaTypes, RaTypeOK, SeedState
    <3> QED BY <1>s, <1>3, <3>2 DEF SeedRole
  <2> QED BY <2>1, <2>2
<1>4. CASE SeedPermission
  <2>1. seed.at \in 1..Len(PermissionOrder) /\ seed.at \in Nat
        /\ Len(PermissionOrder) \in Nat
    BY <1>4, OrdersAreSound DEF SeedPermission, RaTypes, SeedSound
  <2>2. \A i \in 1..seed.at : PermissionOrder[i] \in permissionRows'
    BY <1>4, <2>1 DEF SeedPermission
  <2>3. CASE seed.at = Len(PermissionOrder)
    <3>1. Permissions \subseteq permissionRows'
      BY <2>1, <2>2, <2>3 DEF Permissions, Members
    <3> QED BY <1>4, <2>3, <3>1 DEF SeedPermission
  <2>4. CASE seed.at # Len(PermissionOrder)
    <3>1. seed' = [seed EXCEPT !.at = @ + 1]
      BY <1>4, <2>4 DEF SeedPermission
    <3>2. seed'.pc = "permissions" /\ seed'.at = seed.at + 1
      BY <1>4, <3>1 DEF SeedPermission, RaTypes, RaTypeOK, SeedState
    <3>3. \A i \in 1..(seed'.at - 1) : PermissionOrder[i] \in permissionRows'
      BY <2>1, <2>2, <3>2
    <3> QED BY <1>4, <3>2, <3>3 DEF SeedPermission
  <2> QED BY <2>3, <2>4
<1>5. CASE SeedCount
  <2>1. seed'.pc \in {"off", "count", "wire"}
    <3>1. seed.at \in 1..Len(RoleOrder)
      BY <1>5 DEF SeedCount, RaTypes, SeedSound
    <3> QED BY <1>5, <3>1, NextRoleTyped DEF SeedCount
  <2> QED BY <1>5, <2>1 DEF SeedCount
<1>6. CASE SeedWire
  <2> DEFINE r == RoleOrder[seed.at]
             p == Defaults[r][seed.next]
  <2>1. seed.at \in 1..Len(RoleOrder) /\ r \in Roles /\ p \in permissionRows
    BY <1>6, SeedKinds DEF SeedWire, RaTypes, SeedSound
  <2>2. seed'.pc \in {"off", "count", "wire"}
    <3>1. CASE seed.next = Len(Defaults[r])
      BY <1>6, <2>1, <3>1, NextRoleTyped DEF SeedWire
    <3>2. CASE seed.next # Len(Defaults[r])
      <4>1. seed' = [seed EXCEPT !.next = @ + 1]
        BY <1>6, <3>2 DEF SeedWire
      <4> QED BY <1>6, <4>1 DEF SeedWire, RaTypes, RaTypeOK, SeedState
    <3> QED BY <3>1, <3>2
  <2>3. \A q \in Roles : grants'[q] \subseteq permissionRows'
    BY <1>6, <2>1 DEF SeedWire, RaTypes, RaTypeOK
  <2>4. ASSUME NEW a \in Admins
        PROVE  /\ admin'[a].pc # "idle" => admin'[a].ids \subseteq permissionRows'
               /\ admin'[a].pc = "deleted" =>
                    admin'[a].added \subseteq permissionRows'
    <3>1. CASE admin[a].pc = "deleted" /\ admin[a].role = r
      <4>1. admin'[a] = [admin[a] EXCEPT !.added = @ \cup {p}]
        BY <1>6, <3>1 DEF SeedWire, Escapes
      <4>2. /\ admin'[a].ids = admin[a].ids
            /\ admin'[a].added = admin[a].added \cup {p}
        BY <3>1, <4>1 DEF RaTypes, RaTypeOK, AdminState, Idle
      <4> QED BY <1>6, <2>1, <3>1, <4>2 DEF SeedWire
    <3>2. CASE ~ (admin[a].pc = "deleted" /\ admin[a].role = r)
      <4>1. admin'[a] = admin[a]
        BY <1>6, <3>2 DEF SeedWire, Escapes
      <4> QED BY <1>6, <4>1 DEF SeedWire
    <3> QED BY <3>1, <3>2
  <2> QED BY <1>6, <2>2, <2>3, <2>4 DEF SeedWire
<1>7. ASSUME NEW l \in Lookups, LookupNext(l)
      PROVE  GrantsHaveRows'
  BY <1>0, <1>7
     DEF LookupNext, LookupAsk, LookupRead, LookupReturn, LookupFails
<1>8. ASSUME NEW a \in Admins, AdminNext(a)
      PROVE  GrantsHaveRows'
  <2>g. ASSUME NEW pc \in {"counted", "safe"}, admin[a].pc # "idle",
               UNCHANGED <<permissionRows, grants, seed>>, Goto(a, pc)
        PROVE  GrantsHaveRows'
    <3>1. admin'[a] = [admin[a] EXCEPT !.pc = pc]
          /\ \A b \in Admins \ {a} : admin'[b] = admin[b]
      BY <2>g DEF Goto, RaTypes, RaTypeOK
    <3>2. admin'[a].ids = admin[a].ids /\ admin'[a].pc = pc
      BY <2>g, <3>1 DEF RaTypes, RaTypeOK, AdminState, Idle
    <3> QED BY <2>g, <3>1, <3>2
  <2>r. ASSUME Refuse(a), UNCHANGED <<permissionRows, grants, seed>>
        PROVE  GrantsHaveRows'
    BY <1>0, <2>r DEF Refuse, Idle, RaTypes, RaTypeOK
  <2>1. ASSUME NEW by \in Roles, NEW r \in Roles, NEW ids \in Payloads,
               UpdateAsk(a, by, r, ids)
        PROVE  GrantsHaveRows'
    BY <2>1 DEF UpdateAsk, RaTypes, RaTypeOK
  <2>2. CASE UpdateReadHolds(a)
    BY <2>2, <2>g DEF UpdateReadHolds
  <2>3. CASE UpdateCountOthers(a)
    BY <2>3, <2>g, <2>r DEF UpdateCountOthers
  <2>4. CASE UpdateDelete(a)
    BY <2>4 DEF UpdateDelete, RaTypes, RaTypeOK
  <2>5. CASE UpdateCommit(a)
    <3> DEFINE r == admin[a].role
               ids == admin[a].ids
               kept == admin[a].added
    <3>1. r \in Roles /\ ids \subseteq permissionRows /\ kept \subseteq permissionRows
      BY <2>5, AdminKinds DEF UpdateCommit, RaTypes
    <3>2. \A q \in Roles : grants'[q] \subseteq permissionRows'
      BY <2>5, <3>1 DEF UpdateCommit, RaTypes, RaTypeOK
    <3>3. ASSUME NEW b \in Admins
          PROVE  /\ admin'[b].pc # "idle" =>
                      admin'[b].ids \subseteq permissionRows'
                 /\ admin'[b].pc = "deleted" =>
                      admin'[b].added \subseteq permissionRows'
      <4>1. CASE b = a
        BY <2>5, <3>1, <4>1 DEF UpdateCommit, Idle
      <4>2. CASE b # a /\ admin[b].pc = "deleted" /\ admin[b].role = r
        <5>1. admin'[b] = [admin[b] EXCEPT !.added = (@ \cap kept) \cup ids]
          BY <2>5, <4>2 DEF UpdateCommit
        <5>2. /\ admin'[b].ids = admin[b].ids
              /\ admin'[b].added = (admin[b].added \cap kept) \cup ids
          BY <4>2, <5>1 DEF RaTypes, RaTypeOK, AdminState, Idle
        <5> QED BY <2>5, <3>1, <4>2, <5>2 DEF UpdateCommit
      <4>3. CASE b # a /\ ~ (admin[b].pc = "deleted" /\ admin[b].role = r)
        <5>1. admin'[b] = admin[b]
          BY <2>5, <4>3 DEF UpdateCommit
        <5> QED BY <2>5, <5>1 DEF UpdateCommit
      <4> QED BY <4>1, <4>2, <4>3
    <3> QED BY <2>5, <3>2, <3>3 DEF UpdateCommit
  <2>6. CASE UpdateInvalidate(a)
    BY <1>0, <2>6 DEF UpdateInvalidate, Idle, RaTypes, RaTypeOK
  <2>7. CASE UpdateFails(a)
    BY <2>r, <2>7 DEF UpdateFails
  <2> QED
    BY <1>8, <2>1, <2>2, <2>3, <2>4, <2>5, <2>6, <2>7 DEF AdminNext
<1>9. CASE Tick \/ Restart
  BY <1>0, <1>9 DEF Tick, Restart, Idle
<1> QED
  BY <1>1, <1>2, <1>3, <1>4, <1>5, <1>6, <1>7, <1>8, <1>9 DEF RaNext, SeedNext

(* Only a commit takes the permission from anybody.                        *)
LEMMA HoldersGrow ==
  ASSUME RaTypes, [RaNext]_raVars, ~ \E a \in Admins : UpdateCommit(a)
  PROVE  Holders \subseteq Holders'
<1>1. CASE UNCHANGED grants
  BY <1>1 DEF Holders
<1>2. CASE SeedWire
  BY <1>2 DEF SeedWire, Holders, RaTypes, RaTypeOK
<1> QED
  BY <1>1, <1>2
     DEF RaNext, raVars, tables, SeedNext, SeedStart, SeedRole, SeedPermission,
         SeedCount, SeedDies, LookupNext, LookupAsk, LookupRead, LookupReturn,
         LookupFails, AdminNext, UpdateAsk, UpdateReadHolds, UpdateCountOthers,
         UpdateDelete, UpdateInvalidate, UpdateFails, Tick, Restart

LEMMA OverlapIsRemembered ==
  ASSUME RaTypes, [RaNext]_raVars, ~ overlapped'
  PROVE  ~ overlapped
<1>1. CASE UNCHANGED overlapped
  BY <1>1
<1>2. ASSUME NEW a \in Admins, UpdateCommit(a)
      PROVE  ~ overlapped
  BY <1>2 DEF UpdateCommit
<1> QED
  BY <1>1, <1>2
     DEF RaNext, raVars, ghosts, SeedNext, SeedStart, SeedRole, SeedPermission,
         SeedCount, SeedWire, SeedDies, LookupNext, LookupAsk, LookupRead,
         LookupReturn, LookupFails, AdminNext, UpdateAsk, UpdateReadHolds,
         UpdateCountOthers, UpdateDelete, UpdateInvalidate, UpdateFails, Tick,
         Restart

LEMMA HoldersStay ==
  ASSUME RaTypes, AdministrationSafe, [RaNext]_raVars,
         Holders # {}, ~ overlapped'
  PROVE  Holders' # {}
<1>1. ASSUME NEW a \in Admins, UpdateCommit(a)
      PROVE  Holders' # {}
  <2> DEFINE r == admin[a].role
             ids == admin[a].ids
  <2>1. r \in Roles /\ admin[a].pc = "deleted"
    BY <1>1, AdminKinds DEF UpdateCommit, RaTypes
  <2>2. Manage \in ids \/ Holders \ {r} # {}
    BY <2>1, OverlapIsRemembered DEF AdministrationSafe, LeavesHolder
  <2>3. grants' = [grants EXCEPT ![r] = admin[a].added \cup ids]
    BY <1>1 DEF UpdateCommit
  <2>4. CASE Manage \in ids
    <3>1. Manage \in grants'[r]
      BY <2>1, <2>3, <2>4 DEF RaTypes, RaTypeOK
    <3> QED BY <2>1, <3>1 DEF Holders
  <2>5. CASE Holders \ {r} # {}
    <3>1. PICK h \in Roles : h # r /\ Manage \in grants[h]
      BY <2>5 DEF Holders
    <3>2. Manage \in grants'[h]
      BY <2>3, <3>1 DEF RaTypes, RaTypeOK
    <3> QED BY <3>2 DEF Holders
  <2> QED BY <2>2, <2>4, <2>5
<1> QED BY <1>1, HoldersGrow

(* What is remembered comes from the table or from what was remembered.    *)
LEMMA RememberedComesFrom ==
  ASSUME RaTypes, [RaNext]_raVars, Remembered'
  PROVE  Remembered \/ Holders # {}
<1> USE DEF Remembered, tables, ghosts
<1>0. ASSUME cache' = cache \/ cache' = [r \in Roles |-> None],
             lookup' = lookup \/ lookup' = [l \in Lookups |-> Idle],
             \A a \in Admins : admin'[a].pc # "idle" => admin[a].pc # "idle"
      PROVE  Remembered
  BY <1>0 DEF Idle
<1>1. CASE UNCHANGED raVars
  BY <1>0, <1>1 DEF raVars
<1>2. CASE SeedNext
  <2>1. ASSUME NEW a \in Admins, SeedWire, admin'[a].pc # "idle"
        PROVE  admin[a].pc # "idle"
    <3>1. CASE admin[a].pc = "deleted"
      BY <3>1
    <3>2. CASE admin[a].pc # "deleted"
      <4>1. admin'[a] = admin[a]
        BY <2>1, <3>2 DEF SeedWire, Escapes
      <4> QED BY <2>1, <4>1
    <3> QED BY <3>1, <3>2
  <2>2. UNCHANGED <<cache, lookup>>
    BY <1>2 DEF SeedNext, SeedStart, SeedRole, SeedPermission, SeedCount,
                SeedWire, SeedDies
  <2>3. UNCHANGED admin \/ SeedWire
    BY <1>2 DEF SeedNext, SeedStart, SeedRole, SeedPermission, SeedCount,
                SeedDies
  <2> QED BY <1>0, <2>1, <2>2, <2>3
<1>3. ASSUME NEW l \in Lookups, NEW r \in Roles, LookupAsk(l, r)
      PROVE  Remembered
  BY <1>3 DEF LookupAsk, RaTypes, RaTypeOK
<1>4. ASSUME NEW l \in Lookups, LookupRead(l)
      PROVE  Remembered \/ Holders # {}
  <2>1. lookup[l].role \in Roles
    BY <1>4, LookupKinds DEF LookupRead, RaTypes
  <2>2. CASE Manage \in grants[lookup[l].role]
    BY <2>1, <2>2 DEF Holders
  <2>3. CASE Manage \notin grants[lookup[l].role]
    <3>1. lookup'[l].permissions = grants[lookup[l].role]
      BY <1>4 DEF LookupRead, RaTypes, RaTypeOK
    <3>2. \A m \in Lookups \ {l} : lookup'[m] = lookup[m]
      BY <1>4 DEF LookupRead, RaTypes, RaTypeOK
    <3> QED BY <1>4, <2>3, <3>1, <3>2 DEF LookupRead
  <2> QED BY <2>2, <2>3
<1>5. ASSUME NEW l \in Lookups, LookupReturn(l)
      PROVE  Remembered
  <2> DEFINE q == lookup[l].role
  <2>1. q \in Roles
    BY <1>5, LookupKinds DEF LookupReturn, RaTypes
  <2>2. cache'[q].permissions = lookup[l].permissions
        /\ \A r \in Roles \ {q} : cache'[r] = cache[r]
    BY <1>5, <2>1 DEF LookupReturn, RaTypes, RaTypeOK
  <2>3. lookup'[l] = Idle /\ \A m \in Lookups \ {l} : lookup'[m] = lookup[m]
    BY <1>5 DEF LookupReturn, RaTypes, RaTypeOK
  <2> QED BY <1>5, <2>1, <2>2, <2>3 DEF LookupReturn, Idle
<1>6. ASSUME NEW l \in Lookups, LookupFails(l)
      PROVE  Remembered
  BY <1>6 DEF LookupFails, Idle, RaTypes, RaTypeOK
<1>7. ASSUME NEW a \in Admins, NEW by \in Roles, NEW r \in Roles,
             NEW ids \in Payloads, UpdateAsk(a, by, r, ids)
      PROVE  Remembered
  BY <1>7, GuardAsksForManage DEF UpdateAsk
<1>8. ASSUME NEW a \in Admins, admin[a].pc # "idle"
      PROVE  Remembered
  BY <1>8
<1>9. CASE Tick
  <2>1. \A r \in Roles : cache'[r] # None =>
          cache[r] # None /\ cache'[r].permissions = cache[r].permissions
    <3>1. ASSUME NEW r \in Roles, cache'[r] # None
          PROVE  cache[r] # None /\ cache'[r].permissions = cache[r].permissions
      <4>1. cache[r] # None /\ cache'[r] = [cache[r] EXCEPT !.left = @ - 1]
        BY <1>9, <3>1 DEF Tick
      <4>2. cache[r] \in CacheEntry
        BY <4>1 DEF RaTypes, RaTypeOK
      <4> QED BY <4>1, <4>2 DEF CacheEntry
    <3> QED BY <3>1
  <2> QED BY <1>9, <2>1 DEF Tick
<1>10. CASE Restart
  BY <1>0, <1>10 DEF Restart, Idle
<1>11. ASSUME NEW a \in Admins, AdminNext(a)
       PROVE  Remembered
  <2>1. admin[a].pc # "idle" \/ \E by, r \in Roles, ids \in Payloads :
                                   UpdateAsk(a, by, r, ids)
    BY <1>11 DEF AdminNext, UpdateReadHolds, UpdateCountOthers, UpdateDelete,
                 UpdateCommit, UpdateInvalidate, UpdateFails
  <2> QED BY <2>1, <1>7, <1>8
<1> QED
  BY <1>1, <1>2, <1>3, <1>4, <1>5, <1>6, <1>9, <1>10, <1>11
     DEF RaNext, LookupNext

LEMMA HolderIsLeft ==
  ASSUME RaTypes, AdministrationSafe, [RaNext]_raVars, ~ overlapped',
         NEW b \in Admins
  PROVE  LeavesHolder(b)'
<1> USE DEF LeavesHolder, tables, ghosts
<1>0. ~ overlapped /\ LeavesHolder(b) /\ (Remembered => Holders # {})
  BY OverlapIsRemembered DEF AdministrationSafe
<1>k. ASSUME admin'[b] = admin[b], Holders \subseteq Holders'
      PROVE  LeavesHolder(b)'
  BY <1>0, <1>k
<1>i. ASSUME admin'[b].pc \in {"idle", "replaced"}
      PROVE  LeavesHolder(b)'
  BY <1>i
<1>c. ASSUME NEW a \in Admins, UpdateCommit(a)
      PROVE  LeavesHolder(b)'
  <2>1. CASE a = b
    BY <1>c, <1>i, <2>1 DEF UpdateCommit, Idle
  <2>2. CASE a # b
    <3>1. admin[b].pc \notin {"counted", "safe", "deleted"}
      BY <1>c, <2>2 DEF UpdateCommit
    <3>2. admin'[b] = admin[b]
      BY <1>c, <2>2, <3>1 DEF UpdateCommit
    <3> QED BY <1>0, <3>1, <3>2
  <2> QED BY <2>1, <2>2
<1>1. CASE \E a \in Admins : UpdateCommit(a)
  BY <1>1, <1>c
<1>2. CASE ~ \E a \in Admins : UpdateCommit(a)
  <2>0. Holders \subseteq Holders'
    BY <1>2, HoldersGrow
  <2>1. CASE SeedWire
    <3> DEFINE r == RoleOrder[seed.at]
               p == Defaults[r][seed.next]
    <3>1. CASE admin[b].pc = "deleted" /\ admin[b].role = r
      <4>1. admin'[b] = [admin[b] EXCEPT !.added = @ \cup {p}]
        BY <2>1, <3>1 DEF SeedWire, Escapes
      <4>2. /\ admin'[b].pc = admin[b].pc /\ admin'[b].role = admin[b].role
            /\ admin'[b].ids = admin[b].ids
        BY <3>1, <4>1 DEF RaTypes, RaTypeOK, AdminState, Idle
      <4> QED BY <1>0, <2>0, <4>2
    <3>2. CASE ~ (admin[b].pc = "deleted" /\ admin[b].role = r)
      <4>1. admin'[b] = admin[b]
        BY <2>1, <3>2 DEF SeedWire, Escapes
      <4> QED BY <1>k, <2>0, <4>1
    <3> QED BY <3>1, <3>2
  <2>2. CASE UNCHANGED admin
    BY <1>k, <2>0, <2>2
  <2>3. CASE Restart
    BY <1>i, <2>3 DEF Restart, Idle
  <2>4. ASSUME NEW a \in Admins, AdminNext(a)
        PROVE  LeavesHolder(b)'
    <3>1. CASE a # b
      <4>1. admin'[b] = admin[b]
        BY <1>2, <2>4, <3>1
           DEF AdminNext, UpdateAsk, UpdateReadHolds, UpdateCountOthers,
               UpdateDelete, UpdateInvalidate, UpdateFails, Goto, Refuse,
               RaTypes, RaTypeOK
      <4> QED BY <1>k, <2>0, <4>1
    <3>2. CASE a = b
      <4>g. ASSUME NEW pc \in {"counted", "safe"}, Goto(b, pc),
                   admin[b].pc # "idle"
            PROVE  /\ admin'[b].pc = pc /\ admin'[b].role = admin[b].role
                   /\ admin'[b].ids = admin[b].ids
        <5>1. admin'[b] = [admin[b] EXCEPT !.pc = pc]
          BY <4>g DEF Goto, RaTypes, RaTypeOK
        <5> QED BY <4>g, <5>1 DEF RaTypes, RaTypeOK, AdminState, Idle
      <4>1. ASSUME NEW by \in Roles, NEW r \in Roles, NEW ids \in Payloads,
                   UpdateAsk(b, by, r, ids)
            PROVE  LeavesHolder(b)'
        <5>1. Holders # {}
          BY <1>0, <4>1, GuardAsksForManage DEF UpdateAsk, Remembered
        <5>2. Manage \in permissionRows
          BY <5>1 DEF Holders, AdministrationSafe, GrantsHaveRows
        <5>3. admin'[b] = [pc |-> IF Manage \in permissionRows \ ids
                                  THEN "guarded" ELSE "safe",
                           role |-> r, ids |-> ids]
          BY <4>1 DEF UpdateAsk, RaTypes, RaTypeOK
        <5> QED BY <5>2, <5>3
      <4>2. CASE UpdateReadHolds(b)
        <5>1. admin[b].pc = "guarded" /\ Manage \notin admin[b].ids
              /\ Holders # {}
          BY <1>0, <4>2 DEF UpdateReadHolds, Remembered
        <5>2. CASE admin[b].role \in Holders
          BY <4>2, <4>g, <5>1, <5>2 DEF UpdateReadHolds
        <5>3. CASE admin[b].role \notin Holders
          <6>1. /\ admin'[b].pc = "safe" /\ admin'[b].role = admin[b].role
                /\ admin'[b].ids = admin[b].ids
            BY <4>2, <4>g, <5>1, <5>3 DEF UpdateReadHolds
          <6> QED BY <2>0, <5>1, <5>3, <6>1
        <5> QED BY <5>2, <5>3
      <4>3. CASE UpdateCountOthers(b)
        <5>1. CASE Holders \ {admin[b].role} = {}
          BY <1>i, <4>3, <5>1 DEF UpdateCountOthers, Refuse, Idle, RaTypes,
                                  RaTypeOK
        <5>2. CASE Holders \ {admin[b].role} # {}
          <6>1. /\ admin'[b].pc = "safe" /\ admin'[b].role = admin[b].role
            BY <4>3, <4>g, <5>2 DEF UpdateCountOthers
          <6> QED BY <2>0, <5>2, <6>1
        <5> QED BY <5>1, <5>2
      <4>4. CASE UpdateDelete(b)
        <5>1. /\ admin'[b].pc = "deleted" /\ admin'[b].role = admin[b].role
              /\ admin'[b].ids = admin[b].ids
          BY <4>4 DEF UpdateDelete, RaTypes, RaTypeOK
        <5> QED BY <1>0, <2>0, <4>4, <5>1 DEF UpdateDelete
      <4>5. CASE UpdateInvalidate(b) \/ UpdateFails(b)
        BY <1>i, <4>5 DEF UpdateInvalidate, UpdateFails, Refuse, Idle, RaTypes,
                          RaTypeOK
      <4> QED
        BY <1>2, <2>4, <3>2, <4>1, <4>2, <4>3, <4>4, <4>5 DEF AdminNext
    <3> QED BY <3>1, <3>2
  <2> QED
    BY <2>1, <2>2, <2>3, <2>4
       DEF RaNext, raVars, SeedNext, SeedStart, SeedRole, SeedPermission,
           SeedCount, SeedDies, LookupNext, LookupAsk, LookupRead,
           LookupReturn, LookupFails, Tick
<1> QED BY <1>1, <1>2

LEMMA AdministrationInductive ==
  ASSUME RaTypes, AdministrationSafe, [RaNext]_raVars
  PROVE  AdministrationSafe'
<1>1. GrantsHaveRows'
  BY RowsInductive DEF AdministrationSafe
<1>2. ASSUME ~ overlapped', Remembered'
      PROVE  Holders' # {}
  BY <1>2, RememberedComesFrom, OverlapIsRemembered, HoldersStay
     DEF AdministrationSafe
<1> QED BY <1>1, <1>2, HolderIsLeft DEF AdministrationSafe

LEMMA AdministrationInit == RaInit => AdministrationSafe
BY DEF RaInit, AdministrationSafe, GrantsHaveRows, Remembered, LeavesHolder,
       Holders, Idle, Off

(* Whatever PUTs, seeds, look-ups and restarts do, once a role may         *)
(* administer permissions some role may, unless a PUT wrote between        *)
(* another's check and its write.                                          *)
THEOREM AdministrationStays == RaSpec => AdministrationSurvives
<1> DEFINE Step == Holders # {} /\ ~ overlapped' => Holders' # {}
<1>1. RaTypes /\ AdministrationSafe /\ [RaNext]_raVars => [Step]_raVars
  <2>1. RaTypes /\ AdministrationSafe /\ [RaNext]_raVars => Step
    BY HoldersStay
  <2> QED BY <2>1
<1>2. RaTypes /\ AdministrationSafe /\ [RaNext]_raVars
        => RaTypes' /\ AdministrationSafe'
  BY RaTypesInductive, AdministrationInductive
<1>3. AdministrationSurvives <=> [][Step]_raVars
  BY DEF AdministrationSurvives
<1> QED
  BY <1>1, <1>2, <1>3, RaTypesInit, AdministrationInit, PTL DEF RaSpec

-----------------------------------------------------------------------------
(* What an administrator stored.                                           *)

(* The seed wires no role for which a set other than nothing was stored.   *)
WiresOnlyUnset ==
  seed.pc = "wire" /\ RoleOrder[seed.at] \notin blurred =>
    \A ids \in chosen[RoleOrder[seed.at]] : ids = {}

ChosenSafe == ChosenIsKept /\ WiresOnlyUnset

LEMMA ChosenInductive ==
  ASSUME RaTypes, ChosenSafe, [RaNext]_raVars
  PROVE  ChosenSafe'
<1> USE DEF ChosenSafe, tables, ghosts
<1>0. ASSUME UNCHANGED <<grants, chosen, blurred>>,
             seed'.pc # "wire" \/ UNCHANGED seed
      PROVE  ChosenSafe'
  BY <1>0 DEF ChosenIsKept, WiresOnlyUnset
<1>1. CASE UNCHANGED raVars
  BY <1>0, <1>1 DEF raVars
<1>2. CASE SeedStart \/ SeedDies
  BY <1>0, <1>2 DEF SeedStart, SeedDies, Off
<1>3. CASE SeedRole \/ SeedPermission
  <2>1. [seed EXCEPT !.at = @ + 1].pc = seed.pc
    BY DEF RaTypes, RaTypeOK, SeedState
  <2>2. seed'.pc # "wire"
    <3>1. CASE SeedRole
      BY <2>1, <3>1 DEF SeedRole
    <3>2. CASE SeedPermission
      BY <2>1, <3>2 DEF SeedPermission
    <3> QED BY <1>3, <3>1, <3>2
  <2> QED BY <1>0, <1>3, <2>2 DEF SeedRole, SeedPermission
<1>4. CASE SeedCount
  <2> DEFINE r == RoleOrder[seed.at]
  <2>1. seed.at \in 1..Len(RoleOrder) /\ r \in Roles
    BY <1>4, SeedKinds DEF SeedCount, RaTypes, SeedSound
  <2>2. CASE grants[r] # {}
    <3>1. seed' = NextRole(seed.at)
      BY <1>4, <2>2 DEF SeedCount
    <3>2. seed'.pc # "wire"
      BY <2>1, <3>1, NextRoleTyped
    <3> QED BY <1>0, <1>4, <3>2 DEF SeedCount
  <2>3. CASE grants[r] = {}
    <3>1. seed' = [pc |-> "wire", at |-> seed.at, next |-> 1]
      BY <1>4, <2>3 DEF SeedCount
    <3>2. ASSUME NEW ids \in chosen[r], r \notin blurred
          PROVE  ids = {}
      BY <2>1, <2>3, <3>2 DEF ChosenIsKept
    <3>3. WiresOnlyUnset'
      BY <1>4, <3>1, <3>2 DEF SeedCount, WiresOnlyUnset
    <3>4. ChosenIsKept'
      BY <1>4 DEF SeedCount, ChosenIsKept
    <3> QED BY <3>3, <3>4
  <2> QED BY <2>2, <2>3
<1>5. CASE SeedWire
  <2> DEFINE r == RoleOrder[seed.at]
             p == Defaults[r][seed.next]
  <2>1. /\ seed.pc = "wire" /\ seed.at \in 1..Len(RoleOrder) /\ r \in Roles
        /\ UNCHANGED <<chosen, blurred>>
    BY <1>5, SeedKinds DEF SeedWire, RaTypes, SeedSound
  <2>2. \A q \in Roles \ {r} : grants'[q] = grants[q]
    BY <1>5 DEF SeedWire, RaTypes, RaTypeOK
  <2>3. ChosenIsKept'
    BY <2>1, <2>2 DEF ChosenIsKept, WiresOnlyUnset
  <2>4. WiresOnlyUnset'
    <3>1. CASE seed.next = Len(Defaults[r])
      <4>1. seed'.pc # "wire"
        BY <1>5, <2>1, <3>1, NextRoleTyped DEF SeedWire
      <4> QED BY <4>1 DEF WiresOnlyUnset
    <3>2. CASE seed.next # Len(Defaults[r])
      <4>1. seed' = [seed EXCEPT !.next = @ + 1]
        BY <1>5, <3>2 DEF SeedWire
      <4>2. seed'.at = seed.at
        BY <2>1, <4>1 DEF RaTypes, RaTypeOK, SeedState
      <4> QED BY <2>1, <4>2 DEF WiresOnlyUnset
    <3> QED BY <3>1, <3>2
  <2> QED BY <2>3, <2>4
<1>6. ASSUME NEW l \in Lookups, LookupNext(l)
      PROVE  ChosenSafe'
  BY <1>0, <1>6
     DEF LookupNext, LookupAsk, LookupRead, LookupReturn, LookupFails
<1>7. ASSUME NEW a \in Admins, UpdateCommit(a)
      PROVE  ChosenSafe'
  <2> DEFINE r == admin[a].role
             ids == admin[a].ids
  <2>1. r \in Roles
    BY <1>7, AdminKinds DEF UpdateCommit, RaTypes
  <2>2. /\ grants' = [grants EXCEPT ![r] = admin[a].added \cup ids]
        /\ chosen' = [chosen EXCEPT ![r] = {ids}]
        /\ seed' = seed
    BY <1>7 DEF UpdateCommit
  <2>3. \A q \in Roles \ {r} :
          /\ grants'[q] = grants[q] /\ chosen'[q] = chosen[q]
          /\ q \in blurred' <=> q \in blurred
    BY <1>7 DEF UpdateCommit, RaTypes, RaTypeOK
  <2>4. /\ grants'[r] = admin[a].added \cup ids /\ chosen'[r] = {ids}
        /\ r \notin blurred' => admin[a].added = {} /\ ~ Wiring(r)
    BY <1>7, <2>1 DEF UpdateCommit, RaTypes, RaTypeOK
  <2>5. ChosenIsKept'
    <3>1. ASSUME NEW q \in Roles, q \notin blurred',
                 NEW sent \in chosen'[q], sent # {}
          PROVE  grants'[q] = sent
      <4>1. CASE q = r
        BY <2>4, <3>1, <4>1
      <4>2. CASE q # r
        BY <2>3, <3>1, <4>2 DEF ChosenIsKept
      <4> QED BY <4>1, <4>2
    <3> QED BY <3>1 DEF ChosenIsKept
  <2>6. WiresOnlyUnset'
    <3>1. seed.pc = "wire" => RoleOrder[seed.at] \in Roles
      BY SeedKinds
    <3> QED BY <2>2, <2>3, <2>4, <3>1 DEF WiresOnlyUnset, Wiring
  <2> QED BY <2>5, <2>6
<1>8. ASSUME NEW a \in Admins, AdminNext(a)
      PROVE  ChosenSafe'
  BY <1>0, <1>7, <1>8
     DEF AdminNext, UpdateAsk, UpdateReadHolds, UpdateCountOthers,
         UpdateDelete, UpdateInvalidate, UpdateFails
<1>9. CASE Tick \/ Restart
  BY <1>0, <1>9 DEF Tick, Restart
<1> QED
  BY <1>1, <1>2, <1>3, <1>4, <1>5, <1>6, <1>8, <1>9 DEF RaNext, SeedNext

(* No seed touches what an administrator stored, unless it is nothing or   *)
(* writes of that role overlapped.                                         *)
THEOREM ChosenSetsStay == RaSpec => []ChosenIsKept
<1>1. RaInit => ChosenSafe
  BY DEF RaInit, ChosenSafe, ChosenIsKept, WiresOnlyUnset, Off
<1>2. ChosenSafe => ChosenIsKept
  BY DEF ChosenSafe
<1> QED
  BY <1>1, <1>2, RaTypesInit, RaTypesInductive, ChosenInductive, PTL DEF RaSpec

-----------------------------------------------------------------------------
(* A seed that has run to its end.                                         *)

(* No administrator has set the role and no seed has died in it.           *)
Untouched(r) == chosen[r] = {} /\ r \notin cut

Wired(r, n) == {Defaults[r][i] : i \in 1..n}

SeedingSafe ==
  /\ \A r \in Roles : Untouched(r) =>
       IF Wiring(r) THEN grants[r] = Wired(r, seed.next - 1)
       ELSE grants[r] \in {{}, Members(Defaults[r])}
  /\ seed.pc \in {"count", "wire"} =>
       \A i \in 1..(seed.at - 1) :
         LET r == RoleOrder[i]
         IN  Untouched(r) => grants[r] = Members(Defaults[r])

(* Grants, ghosts and a seed that wires nothing leave SeedingSafe as it is. *)
LEMMA SeedingKept ==
  ASSUME RaTypes, SeedingSafe, UNCHANGED <<grants, chosen, cut>>,
         \/ UNCHANGED seed
         \/ seed.pc # "wire" /\ seed'.pc \notin {"count", "wire"}
  PROVE  SeedingSafe'
<1>1. CASE UNCHANGED seed
  BY <1>1 DEF SeedingSafe, Untouched, Wiring, Wired
<1>2. CASE seed.pc # "wire" /\ seed'.pc \notin {"count", "wire"}
  BY <1>2 DEF SeedingSafe, Untouched, Wiring
<1> QED BY <1>1, <1>2

(* The role at seed.at is done: the seed goes on with the next one.        *)
LEMMA SeedingMovesOn ==
  ASSUME RaTypes, NEW k \in 1..Len(RoleOrder), seed' = NextRole(k),
         \A r \in Roles : Untouched(r)' => grants'[r] \in {{}, Members(Defaults[r])},
         \A i \in 1..k : Untouched(RoleOrder[i])' =>
           grants'[RoleOrder[i]] = Members(Defaults[RoleOrder[i]])
  PROVE  /\ SeedingSafe'
         /\ seed'.pc = "off" =>
              \A r \in Roles : Untouched(r)' => grants'[r] = Members(Defaults[r])
<1>1. seed'.pc \in {"off", "count"}
      /\ (seed'.pc = "count" => seed'.at = k + 1)
      /\ (seed'.pc = "off" <=> k = Len(RoleOrder))
  BY NextRoleTyped
<1>2. \A r \in Roles : Untouched(r)' =>
        IF Wiring(r)' THEN grants'[r] = Wired(r, seed.next - 1)'
        ELSE grants'[r] \in {{}, Members(Defaults[r])}
  BY <1>1 DEF Wiring
<1>3. seed'.pc = "count" => \A i \in 1..(seed'.at - 1) : i \in 1..k
  BY <1>1
<1>4. SeedingSafe'
  BY <1>1, <1>2, <1>3 DEF SeedingSafe
<1>5. ASSUME seed'.pc = "off", NEW r \in Roles, Untouched(r)'
      PROVE  grants'[r] = Members(Defaults[r])
  <2>1. PICK i \in 1..Len(RoleOrder) : RoleOrder[i] = r
    BY DEF Roles, Members
  <2> QED BY <1>1, <1>5, <2>1
<1> QED BY <1>4, <1>5

LEMMA SeedCountSafe ==
  ASSUME RaTypes, SeedingSafe, SeedCount
  PROVE  /\ SeedingSafe'
         /\ seed'.pc = "off" =>
              \A r \in Roles : Untouched(r)' => grants'[r] = Members(Defaults[r])
<1> DEFINE k == seed.at
           q == RoleOrder[k]
<1>1. /\ k \in 1..Len(RoleOrder) /\ k \in Nat /\ q \in Roles /\ seed.pc = "count"
      /\ UNCHANGED <<grants, chosen, cut>>
  BY SeedKinds DEF SeedCount, RaTypes, SeedSound, tables, ghosts
<1>2. \A r \in Roles : Untouched(r) => grants[r] \in {{}, Members(Defaults[r])}
  BY <1>1 DEF SeedingSafe, Wiring
<1>3. \A i \in 1..(k - 1) : Untouched(RoleOrder[i]) =>
        grants[RoleOrder[i]] = Members(Defaults[RoleOrder[i]])
  BY <1>1 DEF SeedingSafe
<1>4. CASE grants[q] # {}
  <2>1. seed' = NextRole(k)
    BY <1>4 DEF SeedCount
  <2>2. \A r \in Roles : Untouched(r)' =>
          grants'[r] \in {{}, Members(Defaults[r])}
    BY <1>1, <1>2 DEF Untouched
  <2>3. ASSUME NEW i \in 1..k, Untouched(RoleOrder[i])'
        PROVE  grants'[RoleOrder[i]] = Members(Defaults[RoleOrder[i]])
    <3>1. Untouched(RoleOrder[i])
      BY <1>1, <2>3 DEF Untouched
    <3>2. CASE i = k
      BY <1>1, <1>2, <1>4, <3>1, <3>2
    <3>3. CASE i # k
      <4>1. i \in 1..(k - 1)
        BY <1>1, <3>3
      <4> QED BY <1>1, <1>3, <3>1, <4>1
    <3> QED BY <3>2, <3>3
  <2> QED BY <1>1, <2>1, <2>2, <2>3, SeedingMovesOn
<1>5. CASE grants[q] = {}
  <2>1. seed' = [pc |-> "wire", at |-> k, next |-> 1]
    BY <1>5 DEF SeedCount
  <2>2. Wired(q, 0) = {}
    BY DEF Wired
  <2>3. ASSUME NEW r \in Roles, Untouched(r)'
        PROVE  IF Wiring(r)' THEN grants'[r] = Wired(r, seed.next - 1)'
               ELSE grants'[r] \in {{}, Members(Defaults[r])}
    <3>1. Untouched(r)
      BY <1>1, <2>3 DEF Untouched
    <3>2. CASE r = q
      <4>1. Wired(r, seed.next - 1)' = Wired(q, 0)
        BY <2>1, <3>2 DEF Wired
      <4> QED BY <1>1, <1>5, <2>1, <2>2, <3>2, <4>1 DEF Wiring
    <3>3. CASE r # q
      BY <1>1, <1>2, <2>1, <3>1, <3>3 DEF Wiring
    <3> QED BY <3>2, <3>3
  <2>4. \A i \in 1..(k - 1) : Untouched(RoleOrder[i])' =>
          grants'[RoleOrder[i]] = Members(Defaults[RoleOrder[i]])
    BY <1>1, <1>3 DEF Untouched
  <2> QED BY <2>1, <2>3, <2>4 DEF SeedingSafe
<1> QED BY <1>4, <1>5

LEMMA SeedWireSafe ==
  ASSUME RaTypes, SeedingSafe, SeedWire
  PROVE  /\ SeedingSafe'
         /\ seed'.pc = "off" =>
              \A r \in Roles : Untouched(r)' => grants'[r] = Members(Defaults[r])
<1> DEFINE k == seed.at
           q == RoleOrder[k]
           n == seed.next
           p == Defaults[q][n]
<1>1. /\ k \in 1..Len(RoleOrder) /\ k \in Nat /\ q \in Roles /\ seed.pc = "wire"
      /\ n \in 1..Len(Defaults[q]) /\ n \in Nat
      /\ UNCHANGED <<chosen, cut>>
  BY SeedKinds DEF SeedWire, RaTypes, SeedSound, ghosts
<1>2. /\ grants'[q] = grants[q] \cup {p}
      /\ \A r \in Roles \ {q} : grants'[r] = grants[r]
  BY <1>1 DEF SeedWire, RaTypes, RaTypeOK
<1>3. \A r \in Roles \ {q} :
        Untouched(r) => grants[r] \in {{}, Members(Defaults[r])}
  BY <1>1 DEF SeedingSafe, Wiring
<1>4. Untouched(q) => grants'[q] = Wired(q, n)
  <2>1. Untouched(q) => grants[q] = Wired(q, n - 1)
    BY <1>1 DEF SeedingSafe, Wiring
  <2>2. Wired(q, n - 1) \cup {p} = Wired(q, n)
    BY <1>1 DEF Wired
  <2> QED BY <1>2, <2>1, <2>2
<1>5. ASSUME NEW i \in 1..(k - 1), Untouched(RoleOrder[i])
      PROVE  grants'[RoleOrder[i]] = Members(Defaults[RoleOrder[i]])
  <2>1. i \in 1..Len(RoleOrder) /\ i # k
    BY <1>1, OrdersAreSound
  <2>2. RoleOrder[i] \in Roles \ {q}
    BY <1>1, <2>1, OrdersAreSound, RoleAdministrationAssumption
  <2>3. grants[RoleOrder[i]] = Members(Defaults[RoleOrder[i]])
    BY <1>1, <1>5 DEF SeedingSafe
  <2> QED BY <1>2, <2>2, <2>3
<1>6. \A r \in Roles : Untouched(r)' <=> Untouched(r)
  BY <1>1 DEF Untouched
<1>7. CASE n = Len(Defaults[q])
  <2>1. seed' = NextRole(k)
    BY <1>7 DEF SeedWire
  <2>2. Wired(q, n) = Members(Defaults[q])
    BY <1>7 DEF Wired, Members
  <2>3. \A r \in Roles : Untouched(r)' =>
          grants'[r] \in {{}, Members(Defaults[r])}
    BY <1>2, <1>3, <1>4, <1>6, <2>2
  <2>4. ASSUME NEW i \in 1..k, Untouched(RoleOrder[i])'
        PROVE  grants'[RoleOrder[i]] = Members(Defaults[RoleOrder[i]])
    <3>1. Untouched(RoleOrder[i])
      BY <1>1, <2>4 DEF Untouched
    <3>2. CASE i = k
      BY <1>4, <2>2, <3>1, <3>2
    <3>3. CASE i # k
      <4>1. i \in 1..(k - 1)
        BY <1>1, <3>3
      <4> QED BY <1>5, <3>1, <4>1
    <3> QED BY <3>2, <3>3
  <2> QED BY <1>1, <2>1, <2>3, <2>4, SeedingMovesOn
<1>8. CASE n # Len(Defaults[q])
  <2>1. seed' = [seed EXCEPT !.next = @ + 1]
    BY <1>8 DEF SeedWire
  <2>2. seed'.pc = "wire" /\ seed'.at = k /\ seed'.next = n + 1
    BY <1>1, <2>1 DEF RaTypes, RaTypeOK, SeedState
  <2>3. ASSUME NEW r \in Roles, Untouched(r)'
        PROVE  IF Wiring(r)' THEN grants'[r] = Wired(r, seed.next - 1)'
               ELSE grants'[r] \in {{}, Members(Defaults[r])}
    <3>1. CASE r = q
      <4>1. Wired(r, seed.next - 1)' = Wired(q, n)
        BY <1>1, <2>2, <3>1 DEF Wired
      <4> QED BY <1>4, <1>6, <2>2, <2>3, <3>1, <4>1 DEF Wiring
    <3>2. CASE r # q
      BY <1>2, <1>3, <1>6, <2>2, <2>3, <3>2 DEF Wiring
    <3> QED BY <3>1, <3>2
  <2>4. ASSUME NEW i \in 1..(k - 1), Untouched(RoleOrder[i])'
        PROVE  grants'[RoleOrder[i]] = Members(Defaults[RoleOrder[i]])
    <3>1. Untouched(RoleOrder[i])
      BY <1>1, <2>4 DEF Untouched
    <3> QED BY <1>5, <3>1
  <2> QED BY <2>2, <2>3, <2>4 DEF SeedingSafe
<1> QED BY <1>7, <1>8

LEMMA SeedingInductive ==
  ASSUME RaTypes, SeedingSafe, [RaNext]_raVars
  PROVE  SeedingSafe'
<1> USE DEF tables, ghosts
<1>1. CASE UNCHANGED raVars
  BY <1>1, SeedingKept DEF raVars
<1>2. CASE SeedStart
  BY <1>2, SeedingKept DEF SeedStart
<1>3. CASE SeedRole
  <2>1. [seed EXCEPT !.at = @ + 1].pc = seed.pc
    BY DEF RaTypes, RaTypeOK, SeedState
  <2>2. seed.pc # "wire" /\ seed'.pc \notin {"count", "wire"}
    BY <1>3, <2>1 DEF SeedRole
  <2> QED BY <1>3, <2>2, SeedingKept DEF SeedRole
<1>4. CASE SeedPermission
  <2>1. CASE seed.at = Len(PermissionOrder)
    <3>1. seed'.pc = "count" /\ seed'.at = 1
      BY <1>4, <2>1 DEF SeedPermission
    <3> QED
      BY <1>4, <3>1 DEF SeedPermission, SeedingSafe, Untouched, Wiring
  <2>2. CASE seed.at # Len(PermissionOrder)
    <3>1. [seed EXCEPT !.at = @ + 1].pc = seed.pc
      BY DEF RaTypes, RaTypeOK, SeedState
    <3>2. seed.pc # "wire" /\ seed'.pc \notin {"count", "wire"}
      BY <1>4, <2>2, <3>1 DEF SeedPermission
    <3> QED BY <1>4, <3>2, SeedingKept DEF SeedPermission
  <2> QED BY <2>1, <2>2
<1>5. CASE SeedCount \/ SeedWire
  BY <1>5, SeedCountSafe, SeedWireSafe
<1>6. CASE SeedDies
  <2>1. \A r \in Roles : Untouched(r)' => Untouched(r) /\ ~ Wiring(r)
    BY <1>6 DEF SeedDies, Untouched, Wiring
  <2>2. seed'.pc = "off" /\ UNCHANGED grants
    BY <1>6 DEF SeedDies, Off
  <2> QED BY <2>1, <2>2 DEF SeedingSafe, Wiring
<1>7. ASSUME NEW l \in Lookups, LookupNext(l)
      PROVE  SeedingSafe'
  BY <1>7, SeedingKept
     DEF LookupNext, LookupAsk, LookupRead, LookupReturn, LookupFails
<1>8. ASSUME NEW a \in Admins, UpdateCommit(a)
      PROVE  SeedingSafe'
  <2> DEFINE q == admin[a].role
  <2>1. q \in Roles
    BY <1>8, AdminKinds DEF UpdateCommit, RaTypes
  <2>2. /\ \A r \in Roles \ {q} :
             grants'[r] = grants[r] /\ chosen'[r] = chosen[r]
        /\ chosen'[q] # {} /\ UNCHANGED <<seed, cut>>
    BY <1>8, <2>1 DEF UpdateCommit, RaTypes, RaTypeOK
  <2>3. \A r \in Roles : Untouched(r)' => r # q /\ Untouched(r)
    BY <2>2 DEF Untouched
  <2>4. \A r \in Roles : Wiring(r)' <=> Wiring(r)
    BY <2>2 DEF Wiring
  <2>5. ASSUME seed.pc \in {"count", "wire"}, NEW i \in 1..(seed.at - 1),
               Untouched(RoleOrder[i])'
        PROVE  grants'[RoleOrder[i]] = Members(Defaults[RoleOrder[i]])
    <3>1. seed.at \in 1..Len(RoleOrder) /\ i \in 1..Len(RoleOrder)
      BY <2>5, OrdersAreSound DEF RaTypes, SeedSound
    <3>2. RoleOrder[i] \in Roles
      BY <3>1, OrdersAreSound
    <3> QED BY <2>2, <2>3, <2>5, <3>2 DEF SeedingSafe
  <2>6. ASSUME NEW r \in Roles, Untouched(r)'
        PROVE  IF Wiring(r)' THEN grants'[r] = Wired(r, seed.next - 1)'
               ELSE grants'[r] \in {{}, Members(Defaults[r])}
    BY <2>2, <2>3, <2>4, <2>6 DEF SeedingSafe, Wired
  <2> QED BY <2>2, <2>5, <2>6 DEF SeedingSafe
<1>9. ASSUME NEW a \in Admins, AdminNext(a)
      PROVE  SeedingSafe'
  BY <1>8, <1>9, SeedingKept
     DEF AdminNext, UpdateAsk, UpdateReadHolds, UpdateCountOthers,
         UpdateDelete, UpdateInvalidate, UpdateFails
<1>10. CASE Tick \/ Restart
  BY <1>10, SeedingKept DEF Tick, Restart
<1> QED
  BY <1>1, <1>2, <1>3, <1>4, <1>5, <1>6, <1>7, <1>9, <1>10
     DEF RaNext, SeedNext

(* When a seed has run to its end, every role that no administrator has    *)
(* set and no seed died in has its defaults and nothing else.              *)
THEOREM SeedsComplete == RaSpec => SeedCompletes
<1> DEFINE Step == (SeedCount \/ SeedWire) /\ seed'.pc = "off"
                   => \A r \in Roles \ cut :
                        chosen[r] = {} => grants'[r] = Members(Defaults[r])
<1>1. RaTypes /\ SeedingSafe => [Step]_raVars
  <2> SUFFICES ASSUME RaTypes, SeedingSafe, SeedCount \/ SeedWire,
                      seed'.pc = "off", NEW r \in Roles \ cut, chosen[r] = {}
               PROVE  grants'[r] = Members(Defaults[r])
    OBVIOUS
  <2>1. Untouched(r)'
    BY DEF SeedCount, SeedWire, Untouched, ghosts
  <2> QED BY <2>1, SeedCountSafe, SeedWireSafe
<1>2. RaInit => SeedingSafe
  BY DEF RaInit, SeedingSafe, Wiring, Off
<1>3. SeedCompletes <=> [][Step]_raVars
  BY DEF SeedCompletes
<1> QED
  BY <1>1, <1>2, <1>3, RaTypesInit, RaTypesInductive, SeedingInductive, PTL
     DEF RaSpec
=============================================================================
