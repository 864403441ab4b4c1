-------------------------------- MODULE Rbac --------------------------------
(***************************************************************************)
(* Roles of administrators and the permissions they grant: assignments,    *)
(* the permissions of a role, the seed, and the effective permissions that *)
(* PermissionGuard reads before each handler, cached in Redis for 300 s    *)
(* (rbac.service.ts, permissions.guard.ts, admin.service.ts).  A role may  *)
(* be given to any user, but only an administrator passes RolesGuard.      *)
(*                                                                         *)
(* A request is a guard followed by a handler, cut at every await that     *)
(* another request can be seen in.  createRole and deleteRole always       *)
(* refuse, since the role codes are an enum of the system roles.           *)
(***************************************************************************)
EXTENDS AdminRoutes, FiniteSets, Naturals

CONSTANTS
  Clients,      \* concurrent requests
  Users,        \* ids of the users table
  Roles,        \* ROLE_DEFINITIONS
  Grants,       \* bound: the permission sets that setRolePermissions is called with
  MaxChanges,   \* bound: changes asked for
  MaxFaults     \* bound: stopped requests, lost deletions of a cached entry

SuperAdmin == "SUPER_ADMIN"
Nobody == "nobody"

\* The catalog, cut down to the permissions these operations ask for and one
\* that every role has.
Catalog == {"audit.read", "roles.update", "roles.manage", "permissions.manage",
            "admins.assign_role", "admins.create", "users.suspend", "permissions.read"}

ASSUME UsersAssumption == IsFiniteSet(Users)
ASSUME RolesAssumption == SuperAdmin \in Roles
ASSUME GrantsAssumption == Grants \subseteq SUBSET Catalog
ASSUME BoundsAssumption == MaxChanges \in Nat /\ MaxFaults \in Nat

VARIABLES
  status,     \* the user row: "new" before it exists, then its legacy role, or "gone"
  assigned,   \* AdminUserRole: the roles of a user
  perms,      \* AdminRolePermission: the permissions of a role
  cache,      \* Redis rbac:perms:<id>: no entry, or the one that it holds
  pc,         \* pc[c]: the section that request c runs next
  job,        \* job[c]: what that section uses of what c was asked and read
  changes,    \* changes asked for so far
  faults,     \* faults so far
  stale,      \* history: whose entry may be wrong with nothing left to evict it
  bypassed    \* history: a SUPER_ADMIN was taken away past the check for the last

vars == <<status, assigned, perms, cache, pc, job, changes, faults, stale, bypassed>>

rows == <<status, assigned, perms>>

NoJob == [actor |-> Nobody, may |-> {}, user |-> Nobody, role |-> SuperAdmin,
          list |-> {}, evict |-> {}]

\* ROLE_DEFINITIONS: only SUPER_ADMIN has the permissions to administer.
Definition(r) == IF r = SuperAdmin THEN Catalog ELSE {"audit.read"}

\* RolesGuard lets an administrator in; a foreign key asks for a user of any role.
Live(a) == status[a] \in {"ADMIN", "SUPERADMIN"}
There(a) == Live(a) \/ status[a] = "USER"

\* Administrators that hold SUPER_ADMIN, ordinary users, and ids still to come.
Init ==
  /\ status \in [Users -> {"new", "USER", "ADMIN", "SUPERADMIN"}]
  /\ \E a \in Users : Live(a)
  /\ assigned = [a \in Users |-> IF Live(a) THEN {SuperAdmin} ELSE {}]
  /\ perms = [r \in Roles |-> Definition(r)]
  /\ cache = [a \in Users |-> {}]
  /\ pc = [c \in Clients |-> "idle"]
  /\ job = [c \in Clients |-> NoJob]
  /\ changes = 0
  /\ faults = 0
  /\ stale = {}
  /\ bypassed = FALSE

-----------------------------------------------------------------------------
\* Who has the role, and who of them can use it.
Supers == {a \in Users : SuperAdmin \in assigned[a]}
SuperAdmins == {a \in Supers : Live(a)}
OrdinaryHolder == Supers # SuperAdmins
Granted(a) == UNION {perms[r] : r \in assigned[a]}

\* Request c goes on with section next, on what k holds.
Go(c, next, k) ==
  /\ pc' = [pc EXCEPT ![c] = next]
  /\ job' = [job EXCEPT ![c] = k]

End(c) == Go(c, "idle", NoJob)

\* A handler that changes something, and the permissions of its route, any one
\* of which is enough.
Handle(c, any) ==
  /\ pc[c] = "handle"
  /\ any \cap job[c].may # {}
  /\ changes < MaxChanges
  /\ changes' = changes + 1

\* c is between the check for the last SUPER_ADMIN and the delete.
Removing(c) ==
  \/ pc[c] \in {"count", "clear"}
  \/ pc[c] = "remove" /\ job[c].role = SuperAdmin

Overlapping(c) == \E d \in Clients \ {c} : Removing(d)

-----------------------------------------------------------------------------
(* The guard: getEffectivePermissions.                                     *)

\* A request of a, and the cached permissions if there are any.
Begin(c, a) ==
  /\ pc[c] = "idle"
  /\ Live(a)
  /\ \/ /\ cache[a] = {}
        /\ Go(c, "load", [NoJob EXCEPT !.actor = a])
     \/ \E p \in cache[a] : Go(c, "handle", [NoJob EXCEPT !.actor = a, !.may = p])
  /\ UNCHANGED <<rows, cache, changes, faults, stale, bypassed>>

\* Whose permissions are asked for: of the actor by the guard, of another user
\* by the route getEffectivePermissions.
Subject(c) == IF job[c].user = Nobody THEN job[c].actor ELSE job[c].user

\* They are p: the guard goes on to the handler, the route is answered.
Answer(c, p) ==
  IF job[c].user = Nobody THEN Go(c, "handle", [job[c] EXCEPT !.may = p]) ELSE End(c)

\* The route: the permissions of u, cached as the guard caches them.
GetEffectivePermissions(c, u) ==
  /\ pc[c] = "handle"
  /\ RbacRoutes.getEffectivePermissions \cap job[c].may # {}
  /\ status[u] # "new"
  /\ IF cache[u] = {} THEN Go(c, "load", [NoJob EXCEPT !.user = u]) ELSE End(c)
  /\ UNCHANGED <<rows, cache, changes, faults, stale, bypassed>>

\* Mutant: the fallback of an administrator without roles is cached as well.
LoadCachingFallback(c) ==
  LET a == Subject(c)
      p == IF assigned[a] = {} /\ Live(a) THEN Catalog ELSE Granted(a)
  IN /\ pc[c] = "load"
     /\ Go(c, "fill", [job[c] EXCEPT !.may = p])
     /\ UNCHANGED <<rows, cache, changes, faults, stale, bypassed>>

\* The roles with their permissions, in one query.  An administrator without
\* roles has the whole catalog by his legacy role, and nothing is cached.
Load(c) ==
  LET a == Subject(c)
  IN /\ pc[c] = "load"
     /\ IF assigned[a] = {} /\ Live(a)
        THEN Answer(c, Catalog)
        ELSE Go(c, "fill", [job[c] EXCEPT !.may = Granted(a)])
     /\ UNCHANGED <<rows, cache, changes, faults, stale, bypassed>>

\* The entry of a may hold p: an administrator without roles has none.
IsRight(a, p) == (Live(a) => assigned[a] # {}) /\ p = Granted(a)

\* What was loaded is cached, however old it is by now.
Fill(c) ==
  LET a == Subject(c)
  IN /\ pc[c] = "fill"
     /\ cache' = [cache EXCEPT ![a] = {job[c].may}]
     /\ stale' = IF IsRight(a, job[c].may) THEN stale \ {a} ELSE stale \cup {a}
     /\ Answer(c, job[c].may)
     /\ UNCHANGED <<rows, changes, faults, bypassed>>

\* A handler that changes nothing here, or the guard or a check refuses.
Leave(c) ==
  /\ pc[c] = "handle"
  /\ End(c)
  /\ UNCHANGED <<rows, cache, changes, faults, stale, bypassed>>

\* The TTL of the entry.
Expire(a) ==
  /\ cache[a] # {}
  /\ cache' = [cache EXCEPT ![a] = {}]
  /\ stale' = stale \ {a}
  /\ UNCHANGED <<rows, pc, job, changes, faults, bypassed>>

-----------------------------------------------------------------------------
(* Assignment of roles.                                                    *)

\* assignRoleToAdmin up to the insert: u is any user but the actor.
Assign(c, u, r) ==
  /\ Handle(c, RbacRoutes.assignRoleToAdmin)
  /\ There(u)
  /\ u # job[c].actor
  /\ r = SuperAdmin => "roles.manage" \in job[c].may
  /\ r \notin assigned[u]
  /\ Go(c, "assign", [NoJob EXCEPT !.user = u, !.role = r])
  /\ UNCHANGED <<rows, cache, faults, stale, bypassed>>

\* Mutant: the permissions cached for the user are left alone.
AssignWritesKeepingCache(c) ==
  LET u == job[c].user
  IN /\ pc[c] = "assign"
     /\ IF There(u) THEN assigned' = [assigned EXCEPT ![u] = @ \cup {job[c].role}]
        ELSE UNCHANGED assigned
     /\ End(c)
     /\ UNCHANGED <<status, perms, cache, changes, faults, stale, bypassed>>

\* The insert, which the unique key or the foreign key may refuse.
AssignWrites(c) ==
  LET u == job[c].user
  IN /\ pc[c] = "assign"
     /\ IF There(u) /\ job[c].role \notin assigned[u]
        THEN /\ assigned' = [assigned EXCEPT ![u] = @ \cup {job[c].role}]
             /\ Go(c, "evict", [NoJob EXCEPT !.evict = {u}])
        ELSE UNCHANGED assigned /\ End(c)
     /\ UNCHANGED <<status, perms, cache, changes, faults, stale, bypassed>>

\* removeRoleFromAdmin finds the assignment.
Remove(c, u, r) ==
  /\ Handle(c, RbacRoutes.removeRoleFromAdmin)
  /\ r \in assigned[u]
  /\ Go(c, IF r = SuperAdmin THEN "count" ELSE "remove",
        [NoJob EXCEPT !.user = u, !.role = r])
  /\ bypassed' = (bypassed \/ (r = SuperAdmin /\ Overlapping(c)))
  /\ UNCHANGED <<rows, cache, faults, stale>>

\* Mutant: one that is left is enough.
RemoveCountsOne(c) ==
  /\ pc[c] = "count"
  /\ IF Cardinality(Supers) < 1 THEN End(c) /\ UNCHANGED bypassed
     ELSE Go(c, "remove", job[c]) /\ bypassed' = (bypassed \/ OrdinaryHolder)
  /\ UNCHANGED <<rows, cache, changes, faults, stale>>

\* The count of SUPER_ADMIN assignments, of whatever users: the last is kept.
RemoveCounts(c) ==
  /\ pc[c] = "count"
  /\ IF Cardinality(Supers) <= 1 THEN End(c) /\ UNCHANGED bypassed
     ELSE Go(c, "remove", job[c]) /\ bypassed' = (bypassed \/ OrdinaryHolder)
  /\ UNCHANGED <<rows, cache, changes, faults, stale>>

\* The delete; Prisma throws if the assignment is gone.
RemoveWrites(c) ==
  LET u == job[c].user
  IN /\ pc[c] = "remove"
     /\ assigned' = [assigned EXCEPT ![u] = @ \ {job[c].role}]
     /\ IF job[c].role \in assigned[u]
        THEN Go(c, "evict", [NoJob EXCEPT !.evict = {u}])
        ELSE End(c)
     /\ UNCHANGED <<status, perms, cache, changes, faults, stale, bypassed>>

\* setAdminRoles of any user: some holder of SUPER_ADMIN is read, and if it is
\* this user the call is refused.  A list that holds a role code in place of an id skips the check,
\* and its insert will fail.
SetAdminRoles(c, u, list, hasCode) ==
  /\ Handle(c, RbacRoutes.setAdminRoles)
  /\ There(u)
  /\ hasCode \/ Supers = {} \/ Supers \ {u} # {}
  /\ Go(c, "clear", [NoJob EXCEPT !.user = u, !.list = IF hasCode THEN {Nobody} ELSE list])
  /\ bypassed' = (bypassed \/ Overlapping(c) \/ hasCode \/ OrdinaryHolder)
  /\ UNCHANGED <<rows, cache, faults, stale>>

\* deleteMany, in no transaction with the insert.
ClearRoles(c) ==
  LET u == job[c].user
  IN /\ pc[c] = "clear"
     /\ assigned' = [assigned EXCEPT ![u] = {}]
     /\ IF job[c].list = {} THEN Go(c, "evict", [NoJob EXCEPT !.evict = {u}])
        ELSE Go(c, "insert", job[c])
     /\ UNCHANGED <<status, perms, cache, changes, faults, stale, bypassed>>

\* createMany: an unknown id, a deleted user or a role that another request
\* gave meanwhile fails it, and what follows is not run.
InsertRoles(c) ==
  LET u == job[c].user
  IN /\ pc[c] = "insert"
     /\ IF There(u) /\ job[c].list \subseteq Roles \ assigned[u]
        THEN /\ assigned' = [assigned EXCEPT ![u] = @ \cup job[c].list]
             /\ Go(c, "evict", [NoJob EXCEPT !.evict = {u}])
             /\ UNCHANGED stale
        ELSE /\ UNCHANGED assigned
             /\ End(c)
             /\ stale' = stale \cup {u}
     /\ UNCHANGED <<status, perms, cache, changes, faults, bypassed>>

-----------------------------------------------------------------------------
(* Permissions of a role, and the seed.                                    *)

\* The old permissions go and the new ones come in one transaction.
SetRolePermissions(c, r, p) ==
  /\ Handle(c, RbacRoutes.setRolePermissions)
  /\ perms' = [perms EXCEPT ![r] = p]
  /\ Go(c, "find", [NoJob EXCEPT !.role = r])
  /\ UNCHANGED <<status, assigned, cache, faults, stale, bypassed>>

\* A name or a description changes, and the users of the role are evicted.
UpdateRole(c, r) ==
  /\ Handle(c, RbacRoutes.updateRole)
  /\ Go(c, "find", [NoJob EXCEPT !.role = r])
  /\ UNCHANGED <<rows, cache, faults, stale, bypassed>>

\* invalidateRolePermissions reads who has the role now.
FindUsers(c) ==
  LET users == {a \in Users : job[c].role \in assigned[a]}
  IN /\ pc[c] = "find"
     /\ IF users = {} THEN End(c) ELSE Go(c, "evict", [NoJob EXCEPT !.evict = users])
     /\ UNCHANGED <<rows, cache, changes, faults, stale, bypassed>>

\* invalidateUserPermissions, for one of those left; an error of Redis is
\* swallowed.
Evict(c, a) ==
  LET left == job[c].evict \ {a}
  IN /\ pc[c] = "evict"
     /\ a \in job[c].evict
     /\ \/ /\ cache' = [cache EXCEPT ![a] = {}]
           /\ stale' = stale \ {a}
           /\ UNCHANGED faults
        \/ /\ faults < MaxFaults
           /\ faults' = faults + 1
           /\ stale' = stale \cup {a}
           /\ UNCHANGED cache
     /\ IF left = {} THEN End(c) ELSE Go(c, "evict", [NoJob EXCEPT !.evict = left])
     /\ UNCHANGED <<rows, changes, bypassed>>

\* The seed, when the module starts or when asked for.  It goes through the
\* roles and evicts nobody.
Seed(c) ==
  /\ \/ pc[c] = "idle" /\ changes < MaxChanges /\ changes' = changes + 1
     \/ Handle(c, RbacRoutes.seedRbac) /\ status[job[c].actor] = "SUPERADMIN"
  /\ Go(c, "seed", [NoJob EXCEPT !.list = Roles])
  /\ UNCHANGED <<rows, cache, faults, stale, bypassed>>

UsersOf(r) == {a \in Users : r \in assigned[a]}

\* The permissions of the next role are deleted ...
SeedClears(c, r) ==
  /\ pc[c] = "seed"
  /\ r \in job[c].list
  /\ perms' = [perms EXCEPT ![r] = {}]
  /\ stale' = stale \cup UsersOf(r)
  /\ Go(c, "seed role", [job[c] EXCEPT !.role = r, !.list = @ \ {r}])
  /\ UNCHANGED <<status, assigned, cache, changes, faults, bypassed>>

\* ... and created again; one that is there already fails the seed.
SeedCreates(c) ==
  LET r == job[c].role
  IN /\ pc[c] = "seed role"
     /\ IF perms[r] \cap Definition(r) = {}
        THEN /\ perms' = [perms EXCEPT ![r] = @ \cup Definition(r)]
             /\ stale' = stale \cup UsersOf(r)
             /\ IF job[c].list = {} THEN End(c) ELSE Go(c, "seed", job[c])
        ELSE UNCHANGED <<perms, stale>> /\ End(c)
     /\ UNCHANGED <<status, assigned, cache, changes, faults, bypassed>>

-----------------------------------------------------------------------------
(* Users (admin.service.ts), and a process that stops.                     *)

\* createAdmin stores the user with the legacy role ADMIN, and with the role r
\* unless 'admin' was asked for.  SUPER_ADMIN is always refused: the check
\* compares the actor's role, 'SUPERADMIN', with 'superadmin'.
CreateAdmin(c, u, r) ==
  /\ Handle(c, AdminUserRoutes.createAdmin)
  /\ status[job[c].actor] = "SUPERADMIN"
  /\ status[u] = "new"
  /\ r # SuperAdmin
  /\ status' = [status EXCEPT ![u] = "ADMIN"]
  /\ Go(c, "enrol", [NoJob EXCEPT !.user = u, !.role = r]) \/ End(c)
  /\ UNCHANGED <<assigned, perms, cache, faults, stale, bypassed>>

\* Mutant: the user may be gone by then.
EnrolAnyway(c) ==
  LET u == job[c].user
  IN /\ pc[c] = "enrol"
     /\ assigned' = [assigned EXCEPT ![u] = @ \cup {job[c].role}]
     /\ stale' = IF cache[u] = {} THEN stale ELSE stale \cup {u}
     /\ End(c)
     /\ UNCHANGED <<status, perms, cache, changes, faults, bypassed>>

\* The assignment that goes with it, and no eviction: nothing is cached for an
\* administrator without roles, unless somebody gave him another one first.
Enrol(c) ==
  LET u == job[c].user
  IN /\ pc[c] = "enrol"
     /\ assigned' = IF There(u) /\ job[c].role \notin assigned[u]
                    THEN [assigned EXCEPT ![u] = @ \cup {job[c].role}] ELSE assigned
     /\ stale' = IF cache[u] = {} THEN stale ELSE stale \cup {u}
     /\ End(c)
     /\ UNCHANGED <<status, perms, cache, changes, faults, bypassed>>

\* deleteUser, and deleteAdmin, which differs in the permission it asks for; the
\* assignments go with the user.
DeleteUser(c, u) ==
  /\ Handle(c, AdminUserRoutes.deleteUser)
  /\ u # job[c].actor
  /\ status[u] \in {"USER", "ADMIN"}
  /\ status' = [status EXCEPT ![u] = "gone"]
  /\ assigned' = [assigned EXCEPT ![u] = {}]
  /\ bypassed' = (bypassed \/ u \in Supers)
  /\ End(c)
  /\ UNCHANGED <<perms, cache, faults, stale>>

\* Whose entry c would still evict.
Owed(c) ==
  {a \in Users : \/ pc[c] = "evict" /\ a \in job[c].evict
                 \/ pc[c] = "find" /\ job[c].role \in assigned[a]
                 \/ pc[c] = "insert" /\ a = job[c].user}

\* The process stops, or a query fails, between two sections.
Stop(c) ==
  /\ pc[c] # "idle"
  /\ faults < MaxFaults
  /\ faults' = faults + 1
  /\ stale' = stale \cup Owed(c)
  /\ End(c)
  /\ UNCHANGED <<rows, cache, changes, bypassed>>

-----------------------------------------------------------------------------
\* The sections that follow by themselves once a request has begun.
Section(c) ==
  \/ Load(c) \/ Fill(c) \/ Leave(c)
  \/ AssignWrites(c) \/ RemoveCounts(c) \/ RemoveWrites(c) \/ ClearRoles(c)
  \/ InsertRoles(c) \/ FindUsers(c) \/ SeedCreates(c) \/ Enrol(c)
  \/ \E a \in Users : Evict(c, a)
  \/ \E r \in Roles : SeedClears(c, r)

Change(c) ==
  \/ \E u \in Users, r \in Roles : Assign(c, u, r) \/ Remove(c, u, r) \/ CreateAdmin(c, u, r)
  \/ \E u \in Users, list \in SUBSET Roles, hasCode \in BOOLEAN :
       SetAdminRoles(c, u, list, hasCode)
  \/ \E r \in Roles, p \in Grants : SetRolePermissions(c, r, p)
  \/ \E r \in Roles : UpdateRole(c, r)
  \/ \E u \in Users : DeleteUser(c, u)
  \/ Seed(c)

Next ==
  \/ \E c \in Clients : Section(c) \/ Change(c) \/ Stop(c)
  \/ \E c \in Clients, a \in Users : Begin(c, a) \/ GetEffectivePermissions(c, a)
  \/ \E a \in Users : Expire(a)

Spec == Init /\ [][Next]_vars

\* A request that has begun goes on, and Redis drops an entry after its TTL.
FairSpec ==
  /\ Spec
  /\ \A c \in Clients : WF_vars(Section(c))
  /\ \A a \in Users : WF_vars(Expire(a))

-----------------------------------------------------------------------------
(* Properties.                                                             *)

Steps == {"idle", "load", "fill", "handle", "assign", "count", "remove", "clear",
          "insert", "evict", "find", "seed", "seed role", "enrol"}

Jobs == [actor : Users \cup {Nobody}, may : SUBSET Catalog,
         user : Users \cup {Nobody}, role : Roles,
         list : SUBSET (Roles \cup {Nobody}), evict : SUBSET Users]

\* Types, and only users that exist hold roles: a delete cascades.
TypeOK ==
  /\ status \in [Users -> {"new", "USER", "ADMIN", "SUPERADMIN", "gone"}]
  /\ assigned \in [Users -> SUBSET Roles]
  /\ \A a \in Users : assigned[a] # {} => There(a)
  /\ perms \in [Roles -> SUBSET Catalog]
  /\ cache \in [Users -> SUBSET SUBSET Catalog]
  /\ pc \in [Clients -> Steps]
  /\ job \in [Clients -> Jobs]
  /\ changes \in 0..MaxChanges
  /\ faults \in 0..MaxFaults
  /\ stale \subseteq Users
  /\ bypassed \in BOOLEAN

\* "At least one SUPER_ADMIN must remain" (rbac.service.ts:376): an administrator
\* who can use the role is left, whatever assignments, grants, seeds and stops
\* are interleaved with the removals, so long as no two removals of it
\* overlapped, no list held a code, no user with the role was deleted, and none
\* was removed while an ordinary user, whom RolesGuard refuses, was counted too.
SuperAdminRemains == ~bypassed => SuperAdmins # {}

\* An entry that differs from what the roles grant is about to be evicted by
\* the request that caused it, unless it was filled late or its eviction was
\* left out or lost (the seed, a role given while createAdmin runs, an error of
\* Redis, a failed insert, a stop).
CacheExplained ==
  \A a \in Users :
    There(a) /\ (\E p \in cache[a] : ~IsRight(a, p)) =>
      a \in stale \/ \E c \in Clients : a \in Owed(c)

\* Whatever was filled late or not evicted: once changes end, the guard answers
\* everybody with what his roles grant (the 300 s of the entry).
PermissionsCatchUp ==
  \A a \in Users : <>[](There(a) => \A p \in cache[a] : IsRight(a, p))
=============================================================================
