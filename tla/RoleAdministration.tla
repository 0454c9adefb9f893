------------------------- MODULE RoleAdministration -------------------------
(***************************************************************************)
(* Roles and permissions: the tables roles, permissions and                *)
(* role_permissions, the cache PermissionGuard decides from, the PUT by    *)
(* which an administrator replaces a role's permissions, and the seed that *)
(* every deployment runs beside the server.                                *)
(*                                                                         *)
(* A look-up is what getPermissionsForRole does on a cache miss.  A        *)
(* replacement is a transaction of deleteMany and createMany: at READ      *)
(* COMMITTED the delete does not see the rows other transactions add after *)
(* it has begun, so those survive it.                                      *)
(***************************************************************************)
EXTENDS RouteTable, FiniteSets

CONSTANTS
  RoleOrder,                    \* the role names, in the seed's order
  PermissionOrder,              \* the permission names, in the seed's order
  Defaults,                     \* role name -> sequence of permissions
  Payloads,                     \* the permission sets administrators send
  Admins,                       \* slots for PUT requests in flight
  Lookups,                      \* slots for look-ups in flight
  TTL,                          \* CACHE_TTL_MS, in ticks
  MaxStarts,                    \* bound: seed runs and PUTs together
  None                          \* no cache entry

Roles == Members(RoleOrder)
Permissions == Members(PermissionOrder)
PutRoute == CHOOSE r \in RbacAdminRoutes : r.runs = "UpdateRolePermissions"
Manage == CHOOSE p \in PutRoute.needs : TRUE

ASSUME RoleAdministrationAssumption ==
  /\ TTL \in Nat \ {0} /\ MaxStarts \in Nat
  /\ Payloads \subseteq SUBSET Permissions
  /\ RoleOrder \in Seq(Roles) /\ RoleOrder # << >>
  /\ PermissionOrder \in Seq(Permissions) /\ PermissionOrder # << >>
  /\ \A i, j \in 1..Len(RoleOrder) : RoleOrder[i] = RoleOrder[j] => i = j
  /\ \A r \in Roles : Defaults[r] \in Seq(Permissions) /\ Defaults[r] # << >>

VARIABLES
  roleRows,                     \* rows of roles
  permissionRows,               \* rows of permissions
  grants,                       \* rows of role_permissions, by role
  cache,                        \* PermissionsService.cache
  lookup,                       \* [Lookups -> a look-up]
  admin,                        \* [Admins -> what a PUT handler holds]
  seed,                         \* where the seed is
  started,                      \* how many seeds and PUTs have begun
  chosen,                       \* ghost: {what an administrator last stored}
  blurred,                      \* ghost: roles whose last writes overlapped
  overlapped,                   \* ghost: a PUT wrote between another's check
                                \* and its write
  cut                           \* ghost: roles a seed died in the middle of

tables == <<roleRows, permissionRows, grants>>
ghosts == <<chosen, blurred, overlapped, cut>>
raVars == <<tables, cache, lookup, admin, seed, started, ghosts>>

Idle == [pc |-> "idle"]
CacheEntry == [permissions : SUBSET Permissions, left : 1..TTL]
ASSUME NoEntryAssumption == None \notin CacheEntry

LookupState ==
  {Idle} \cup [pc : {"asked"}, role : Roles]
  \cup [pc : {"answered"}, role : Roles, permissions : SUBSET Permissions]
AdminState ==
  {Idle}
  \cup [pc : {"guarded", "counted", "safe", "replaced"},
        role : Roles, ids : Payloads]
  \cup [pc : {"deleted"}, role : Roles, ids : Payloads,
        added : SUBSET Permissions]
SeedState ==
  [pc : {"off", "count"}, at : Nat] \cup [pc : {"roles", "permissions"}, at : Nat]
  \cup [pc : {"wire"}, at : Nat, next : Nat]

Off == [pc |-> "off", at |-> 0]
Wiring(r) == seed.pc = "wire" /\ RoleOrder[seed.at] = r
Holders == {r \in Roles : Manage \in grants[r]}

RaInit ==
  /\ roleRows = {} /\ permissionRows = {}
  /\ grants = [r \in Roles |-> {}]
  /\ cache = [r \in Roles |-> None]
  /\ lookup = [l \in Lookups |-> Idle]
  /\ admin = [a \in Admins |-> Idle]
  /\ seed = Off /\ started = 0
  /\ chosen = [r \in Roles |-> {}]
  /\ blurred = {} /\ overlapped = FALSE /\ cut = {}

-----------------------------------------------------------------------------
(* prisma/seed.ts.                                                         *)

SeedStart ==
  /\ seed.pc = "off" /\ started < MaxStarts
  /\ seed' = [pc |-> "roles", at |-> 1]
  /\ started' = started + 1
  /\ UNCHANGED <<tables, cache, lookup, admin, ghosts>>

SeedRole ==
  /\ seed.pc = "roles"
  /\ roleRows' = roleRows \cup {RoleOrder[seed.at]}
  /\ seed' = IF seed.at = Len(RoleOrder)
             THEN [pc |-> "permissions", at |-> 1]
             ELSE [seed EXCEPT !.at = @ + 1]
  /\ UNCHANGED <<permissionRows, grants, cache, lookup, admin, started,
                 ghosts>>

SeedPermission ==
  /\ seed.pc = "permissions"
  /\ permissionRows' = permissionRows \cup {PermissionOrder[seed.at]}
  /\ seed' = IF seed.at = Len(PermissionOrder)
             THEN [pc |-> "count", at |-> 1]
             ELSE [seed EXCEPT !.at = @ + 1]
  /\ UNCHANGED <<roleRows, grants, cache, lookup, admin, started,
                 ghosts>>

NextRole(i) ==
  IF i = Len(RoleOrder) THEN Off ELSE [pc |-> "count", at |-> i + 1]

(* Mutant: the earlier seed, which granted the defaults at every run.      *)
SeedCount_Always ==
  /\ seed.pc = "count"
  /\ seed' = [pc |-> "wire", at |-> seed.at, next |-> 1]
  /\ UNCHANGED <<tables, cache, lookup, admin, started, ghosts>>

(* Only a role without a single permission is wired.                       *)
SeedCount ==
  /\ seed.pc = "count"
  /\ seed' = IF grants[RoleOrder[seed.at]] # {} THEN NextRole(seed.at)
             ELSE [pc |-> "wire", at |-> seed.at, next |-> 1]
  /\ UNCHANGED <<tables, cache, lookup, admin, started, ghosts>>

(* A row added to role r escapes the deletes that have begun.              *)
Escapes(r, p) ==
  admin' = [a \in Admins |->
    IF admin[a].pc = "deleted" /\ admin[a].role = r
    THEN [admin[a] EXCEPT !.added = @ \cup {p}] ELSE admin[a]]

(* Mutant: the wiring stops one permission short.                          *)
SeedWire_Short ==
  LET r == RoleOrder[seed.at]
      p == Defaults[r][seed.next]
  IN  /\ seed.pc = "wire"
      /\ p \notin grants[r]
      /\ grants' = [grants EXCEPT ![r] = @ \cup {p}]
      /\ Escapes(r, p)
      /\ seed' = IF seed.next + 1 >= Len(Defaults[r]) THEN NextRole(seed.at)
                 ELSE [seed EXCEPT !.next = @ + 1]
      /\ UNCHANGED <<roleRows, permissionRows, cache, lookup, started,
                     ghosts>>

SeedWire ==
  LET r == RoleOrder[seed.at]
      p == Defaults[r][seed.next]
  IN  /\ seed.pc = "wire"
      /\ p \notin grants[r]
      /\ grants' = [grants EXCEPT ![r] = @ \cup {p}]
      /\ Escapes(r, p)
      /\ seed' = IF seed.next = Len(Defaults[r]) THEN NextRole(seed.at)
                 ELSE [seed EXCEPT !.next = @ + 1]
      /\ UNCHANGED <<roleRows, permissionRows, cache, lookup, started,
                     ghosts>>

(* The seed dies, or its create meets a row that is already there.         *)
SeedDies ==
  /\ seed.pc # "off"
  /\ seed' = Off
  /\ cut' = IF seed.pc = "wire" THEN cut \cup {RoleOrder[seed.at]} ELSE cut
  /\ UNCHANGED <<tables, cache, lookup, admin, started, chosen, blurred,
                 overlapped>>

-----------------------------------------------------------------------------
(* PermissionsService.getPermissionsForRole and PermissionGuard.           *)

(* A guard whose look-up is answered from the cache, or has just filled it. *)
Passes(r, route) == cache[r] # None /\ route.needs \subseteq cache[r].permissions

LookupAsk(l, r) ==
  /\ lookup[l] = Idle /\ cache[r] = None
  /\ lookup' = [lookup EXCEPT ![l] = [pc |-> "asked", role |-> r]]
  /\ UNCHANGED <<tables, cache, admin, seed, started, ghosts>>

(* findPermissionNamesByRoleName: a role without a row has no permission.  *)
LookupRead(l) ==
  /\ lookup[l].pc = "asked"
  /\ lookup' = [lookup EXCEPT ![l] =
       [pc |-> "answered", role |-> @.role, permissions |-> grants[@.role]]]
  /\ UNCHANGED <<tables, cache, admin, seed, started, ghosts>>

LookupReturn(l) ==
  /\ lookup[l].pc = "answered"
  /\ cache' = [cache EXCEPT ![lookup[l].role] =
       [permissions |-> lookup[l].permissions, left |-> TTL]]
  /\ lookup' = [lookup EXCEPT ![l] = Idle]
  /\ UNCHANGED <<tables, admin, seed, started, ghosts>>

LookupFails(l) ==
  /\ lookup[l] # Idle
  /\ lookup' = [lookup EXCEPT ![l] = Idle]
  /\ UNCHANGED <<tables, cache, admin, seed, started, ghosts>>

(* Mutant: entries do not age.                                             *)
Tick_Ageless ==
  /\ \E r \in Roles : cache[r] # None
  /\ cache' = cache
  /\ UNCHANGED <<tables, lookup, admin, seed, started, ghosts>>

(* Time passes: an entry past expiresAt is as good as none.                *)
Tick ==
  /\ \E r \in Roles : cache[r] # None
  /\ cache' = [r \in Roles |->
       IF cache[r] = None \/ cache[r].left = 1 THEN None
       ELSE [cache[r] EXCEPT !.left = @ - 1]]
  /\ UNCHANGED <<tables, lookup, admin, seed, started, ghosts>>

-----------------------------------------------------------------------------
(* UpdateRolePermissionsHandler.execute                                    *)

Goto(a, pc) == admin' = [admin EXCEPT ![a].pc = pc]
Refuse(a) == admin' = [admin EXCEPT ![a] = Idle]

(* The guard, findById, findExistingIds and findIdByName.  Rows of roles   *)
(* and permissions are only ever added, and all before the first grant, so *)
(* that whoever passes the guard finds every one of them.                  *)
UpdateAsk(a, by, r, ids) ==
  /\ admin[a] = Idle /\ started < MaxStarts
  /\ Passes(by, PutRoute)
  /\ r \in roleRows /\ ids \subseteq permissionRows
  /\ admin' = [admin EXCEPT ![a] =
       [pc |-> IF Manage \in permissionRows \ ids THEN "guarded" ELSE "safe",
        role |-> r, ids |-> ids]]
  /\ started' = started + 1
  /\ UNCHANGED <<tables, cache, lookup, seed, ghosts>>

(* roleGrantsPermissionId.                                                 *)
UpdateReadHolds(a) ==
  /\ admin[a].pc = "guarded"
  /\ Goto(a, IF admin[a].role \in Holders THEN "counted" ELSE "safe")
  /\ UNCHANGED <<tables, cache, lookup, seed, started, ghosts>>

(* Mutant: the role itself is counted among the other holders.             *)
UpdateCountOthers_Self(a) ==
  /\ admin[a].pc = "counted"
  /\ IF Holders = {} THEN Refuse(a) ELSE Goto(a, "safe")
  /\ UNCHANGED <<tables, cache, lookup, seed, started, ghosts>>

(* countOtherRolesGrantingPermissionId.                                    *)
UpdateCountOthers(a) ==
  /\ admin[a].pc = "counted"
  /\ IF Holders \ {admin[a].role} = {} THEN Refuse(a) ELSE Goto(a, "safe")
  /\ UNCHANGED <<tables, cache, lookup, seed, started, ghosts>>

(* The transaction begins: its deleteMany sees the rows of this moment.    *)
UpdateDelete(a) ==
  /\ admin[a].pc = "safe"
  /\ admin' = [admin EXCEPT ![a] =
       [pc |-> "deleted", role |-> @.role, ids |-> @.ids, added |-> {}]]
  /\ UNCHANGED <<tables, cache, lookup, seed, started, ghosts>>

(* createMany and the commit.  A row added meanwhile that is also sent     *)
(* breaks the primary key and the whole transaction.                       *)
UpdateCommit(a) ==
  LET r == admin[a].role
      ids == admin[a].ids
      kept == admin[a].added
      others == {b \in Admins \ {a} :
                   admin[b].pc = "deleted" /\ admin[b].role = r}
  IN  /\ admin[a].pc = "deleted"
      /\ kept \cap ids = {}
      /\ grants' = [grants EXCEPT ![r] = kept \cup ids]
      /\ \E pc \in {"replaced", "idle"} :      \* idle: the answer is lost
           admin' = [b \in Admins |->
             CASE b = a -> IF pc = "idle" THEN Idle
                           ELSE [pc |-> pc, role |-> r, ids |-> ids]
               [] b \in others ->
                    [admin[b] EXCEPT !.added = (@ \cap kept) \cup ids]
               [] OTHER -> admin[b]]
      /\ chosen' = [chosen EXCEPT ![r] = {ids}]
      /\ blurred' = IF others # {} \/ kept # {} \/ Wiring(r)
                    THEN blurred \cup {r} ELSE blurred \ {r}
      /\ overlapped' = (overlapped \/ \E b \in Admins \ {a} :
                          admin[b].pc \in {"counted", "safe", "deleted"})
      /\ UNCHANGED <<roleRows, permissionRows, cache, lookup, seed, started,
                     cut>>

(* invalidateCache, then the answer.                                       *)
UpdateInvalidate(a) ==
  /\ admin[a].pc = "replaced"
  /\ cache' = [r \in Roles |-> None]
  /\ admin' = [admin EXCEPT ![a] = Idle]
  /\ UNCHANGED <<tables, lookup, seed, started, ghosts>>

UpdateFails(a) ==
  /\ admin[a].pc \notin {"idle", "replaced"}
  /\ Refuse(a)
  /\ UNCHANGED <<tables, cache, lookup, seed, started, ghosts>>

(* A deployment: the process ends, and with it the cache and the handlers. *)
Restart ==
  /\ cache' = [r \in Roles |-> None]
  /\ lookup' = [l \in Lookups |-> Idle]
  /\ admin' = [a \in Admins |-> Idle]
  /\ UNCHANGED <<tables, seed, started, ghosts>>

-----------------------------------------------------------------------------
SeedNext ==
  SeedStart \/ SeedRole \/ SeedPermission \/ SeedCount \/ SeedWire \/ SeedDies
LookupNext(l) ==
  \/ \E r \in Roles : LookupAsk(l, r)
  \/ LookupRead(l) \/ LookupReturn(l) \/ LookupFails(l)
AdminNext(a) ==
  \/ \E by, r \in Roles, ids \in Payloads : UpdateAsk(a, by, r, ids)
  \/ UpdateReadHolds(a) \/ UpdateCountOthers(a)
  \/ UpdateDelete(a) \/ UpdateCommit(a) \/ UpdateInvalidate(a)
  \/ UpdateFails(a)

RaNext ==
  \/ SeedNext
  \/ \E l \in Lookups : LookupNext(l)
  \/ \E a \in Admins : AdminNext(a)
  \/ Tick \/ Restart

(* Time passes, and queries are answered: with a result or an error.       *)
RaFairness ==
  /\ WF_raVars(Tick)
  /\ \A l \in Lookups : WF_raVars(LookupRead(l) \/ LookupReturn(l))

RaSpec == RaInit /\ [][RaNext]_raVars /\ RaFairness

-----------------------------------------------------------------------------
(* Rows, entries and handlers keep their shapes.                           *)
RaTypeOK ==
  /\ roleRows \subseteq Roles /\ permissionRows \subseteq Permissions
  /\ grants \in [Roles -> SUBSET Permissions]
  /\ cache \in [Roles -> CacheEntry \cup {None}]
  /\ lookup \in [Lookups -> LookupState]
  /\ admin \in [Admins -> AdminState]
  /\ seed \in SeedState /\ started \in 0..MaxStarts
  /\ chosen \in [Roles -> SUBSET Payloads]
  /\ blurred \subseteq Roles /\ cut \subseteq Roles /\ overlapped \in BOOLEAN

(* "RBAC self-lockout guard" (update-role-permissions.command.ts): once a  *)
(* role may administer permissions, some role always may, unless one PUT   *)
(* wrote after another had made its check and before that one wrote.       *)
AdministrationSurvives ==
  [][Holders # {} /\ ~ overlapped' => Holders' # {}]_raVars

(* "Replace the role's full permission set": what an administrator stored  *)
(* is the role's set until the next one stores another, whatever seeds run *)
(* meanwhile.  Not promised: a role left with nothing, which the seed      *)
(* takes for a fresh one, and writes of one role that overlap.             *)
ChosenIsKept ==
  \A r \in Roles \ blurred : \A ids \in chosen[r] :
    ids # {} => grants[r] = ids

(* When a seed has run to its end, a role that no administrator has set    *)
(* and no earlier seed died in has all its defaults and nothing else.      *)
SeedCompletes ==
  [][((SeedCount \/ SeedWire) /\ seed'.pc = "off")
     => \A r \in Roles \ cut :
          chosen[r] = {} => grants'[r] = Members(Defaults[r])]_raVars

(* The cache "self-expires": a permission that is gone from a role for     *)
(* good is, from some time on, never again honoured for it, even when a    *)
(* look-up that read it earlier stored it after the invalidation.          *)
RevocationsLand ==
  \A r \in Roles : \A p \in Permissions :
    <>[](p \notin grants[r])
      => <>[](cache[r] # None => p \notin cache[r].permissions)
=============================================================================
