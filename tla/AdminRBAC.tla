----------------------------- MODULE AdminRBAC -----------------------------
(***************************************************************************)
(* The administration of roles and permissions (AdminHandler), the tables  *)
(* it works on and the caches it invalidates.                              *)
(*                                                                         *)
(* A request reads the row it is about, looks up the permissions its body  *)
(* names, asks whether the mutation would lock its caller out, writes,     *)
(* reads the row back and invalidates; other requests run between any two  *)
(* of these.  An association is replaced in two steps: the rows to link    *)
(* are read, and then gorm inserts them again, ON CONFLICT DO NOTHING, and *)
(* replaces the links; a row that was deleted in between comes back.  The  *)
(* cache of negative look-ups is left out: a hit is confirmed by the same  *)
(* FindByID that follows a miss, so it decides nothing.                    *)
(*                                                                         *)
(* A Google sign-in writes to the same tables: it reads the user with the  *)
(* roles and their permissions, and saves them all back with the new name  *)
(* and picture.                                                            *)
(*                                                                         *)
(* New rows get keys that were never used.  The join tables have no        *)
(* foreign keys: links to deleted rows stay and no query shows them.       *)
(***************************************************************************)
EXTENDS Naturals, FiniteSets

CONSTANTS
  Users,
  Callers,         \* users whose requests are modelled
  RoleIds, PermIds,  \* primary keys of roles and permissions
  Names,           \* names of roles, the empty one of a row that AddRole inserts included
  Tokens,          \* resource:action pairs
  ProtectedRoles, ProtectedPermissions,  \* the configuration
  Defaults,        \* defaultPermissions
  Synced,          \* pairs with a resource that SeedSync grants to the admin role
  Bootstrap,       \* the user with the bootstrap e-mail, Nil if there is none
  RoleInputs,      \* sets of roles that SetUserRoles is called with
  PermInputs,      \* sets of pairs that bodies name
  Admins,          \* requests in progress at the same time
  MaxRequests,     \* bound on the number of requests
  Nil, Gone,       \* a key that was never used; the key of a deleted row
  Failures         \* TRUE: statements and invalidations may fail

SeedRoles == {"admin", "user"}
Blank == ""
RolesWrite == "roles:write"
PermissionsWrite == "permissions:write"

ASSUME NamesAssumption ==
  /\ SeedRoles \cup {Blank} \subseteq Names /\ ProtectedRoles \subseteq Names
  /\ Names \cap {Nil, Gone} = {}
ASSUME TokensAssumption ==
  /\ {RolesWrite, PermissionsWrite} \subseteq Defaults /\ Defaults \subseteq Synced
  /\ Synced \subseteq Tokens /\ Tokens \cap {Nil, Gone} = {}
ASSUME KeysAssumption ==
  /\ {1, 2, 3} \subseteq RoleIds /\ Cardinality(Defaults) <= Cardinality(PermIds)
  /\ Nil \notin RoleIds \cup PermIds
ASSUME InputsAssumption ==
  /\ Callers \subseteq Users
  /\ RoleInputs \subseteq SUBSET RoleIds /\ PermInputs \subseteq SUBSET Tokens
  /\ \A ts \in PermInputs : IsFiniteSet(ts)
  /\ Bootstrap \in Users \cup {Nil} /\ Failures \in BOOLEAN /\ Nil # Gone
  /\ MaxRequests \in Nat

VARIABLES
  name,     \* name[r]: roles.name
  perms,    \* perms[r]: role_permissions
  token,    \* token[p]: permissions.resource and action
  roles,    \* roles[u]: user_roles
  req,      \* requests in progress
  started,  \* number of requests so far
  dirty,    \* caches whose source changed and which were not invalidated since
  revived,  \* history: those that changed when a request brought deleted rows back, or
            \* when a sign-in added links
  failed    \* history: a statement or an invalidation has failed

vars == <<name, perms, token, roles, req, started, dirty, revived, failed>>
tables == <<name, perms, token, roles>>

-----------------------------------------------------------------------------
(* What the tables say.                                                    *)

RoleExists(r) == name[r] \in Names
PermExists(p) == token[p] \in Tokens
Granted(r) == {token[p] : p \in {q \in perms[r] : PermExists(q)}}
RolesOf(u) == {r \in roles[u] : RoleExists(r)}

\* PermissionsFromRoles.
PermissionsOf(u) == UNION {Granted(r) : r \in RolesOf(u)}

\* The caches: the resolved permissions of each user, and the three lists.  The list of
\* users shows the roles of each but not their permissions.
Lists == {"users", "roles", "permissions"}
Caches == Users \cup Lists
ASSUME CachesAssumption == Users \cap Lists = {}
View(c) ==
  CASE c = "users" -> [u \in Users |-> {<<r, name[r]>> : r \in RolesOf(u)}]
    [] c = "roles" -> [r \in RoleIds |-> IF RoleExists(r) THEN <<name[r], Granted(r)>> ELSE Nil]
    [] c = "permissions" -> [p \in PermIds |-> IF PermExists(p) THEN token[p] ELSE Nil]
    [] c \in Users -> PermissionsOf(c)

\* requiredPermissionForPath.
Required(op) == IF op \in {"update_role", "delete_role"} THEN RolesWrite ELSE PermissionsWrite

\* Faulty: what the role grants so far is not taken away.
LockOutAdditive(u, r, required, next) ==
  /\ required \in PermissionsOf(u)
  /\ required \notin PermissionsOf(u) \cup next

WouldLockOutRoleMutation(u, r, required, next) ==
  /\ required \in PermissionsOf(u)
  /\ required \notin UNION {IF s = r THEN next ELSE Granted(s) : s \in RolesOf(u)}

WouldLockOutRoleDeletion(u, r, required) == WouldLockOutRoleMutation(u, r, required, {})

WouldLockOutPermissionMutation(u, before, after, required) ==
  required \notin (PermissionsOf(u) \ {before}) \cup {after}

WouldLockOutPermissionDeletion(u, tok, required) == required \notin PermissionsOf(u) \ {tok}

-----------------------------------------------------------------------------
(* Requests.                                                               *)

RoleOps == {"create_role", "update_role", "delete_role"}
PermOps == {"create_perm", "update_perm", "delete_perm"}
Ops == RoleOps \cup PermOps \cup {"set_roles", "sync", "sign_in"}

\* Faulty: a permission is thought to show only in the list of permissions.
InvalidatesOwnList(op, u) ==
  CASE op = "set_roles" -> {u, "users"}
    [] op \in RoleOps -> Users \cup {"roles", "users"}
    [] op \in PermOps -> Users \cup {"permissions"}
    [] op = "sync" -> Caches

Invalidates(op, u) ==
  CASE op = "set_roles" -> {u, "users"}
    [] op \in RoleOps -> Users \cup {"roles", "users"}
    [] op \in PermOps -> Users \cup {"permissions", "roles"}
    [] op = "sync" -> Caches

\* body fields are Nil when the body does not have them; raced (history): another request
\* has written since this one began to read; open (history): the guard could not read.
Request ==
  [pc    : {"idle", "find", "pairs", "guard", "write", "select", "replace", "reread",
            "sync_perms", "sync_roles", "sync_user", "sync_append", "invalidate",
            "save", "bootstrap", "add_role"},
   op    : Ops \cup {Nil},
   user  : Users \cup {Nil},                  \* the caller, or whose roles are set
   id    : RoleIds \cup PermIds \cup {Nil},
   name  : Names \cup {Nil},
   tok   : Tokens \cup {Nil},
   seen  : Names \cup Tokens \cup {Nil},      \* name or token of the row that was found
   body  : (SUBSET Tokens) \cup {Nil},        \* permissions in the body
   next  : SUBSET Tokens,                     \* tokens to grant, or still to seed
   ids   : SUBSET (RoleIds \cup PermIds),     \* keys to link
   rows  : SUBSET (RoleIds \X Names),         \* roles that were read and will be saved
   pairs : SUBSET (PermIds \X Tokens),        \* permissions likewise
   links : SUBSET (RoleIds \X PermIds),       \* and the links between them
   raced : BOOLEAN,
   open  : BOOLEAN]

Idle ==
  [pc |-> "idle", op |-> Nil, user |-> Nil, id |-> Nil, name |-> Nil, tok |-> Nil, seen |-> Nil,
   body |-> Nil, next |-> {}, ids |-> {}, rows |-> {}, pairs |-> {}, links |-> {},
   raced |-> FALSE, open |-> FALSE]

\* The database after SeedSync, perhaps a third role, and users with any roles.
Init ==
  LET key == CHOOSE f \in [Defaults -> PermIds] : \A s, t \in Defaults : s # t => f[s] # f[t] IN
  /\ token = [p \in PermIds |-> IF \E t \in Defaults : key[t] = p
                                THEN CHOOSE t \in Defaults : key[t] = p ELSE Nil]
  /\ \E other \in {Nil} \cup (Names \ (SeedRoles \cup {Blank})), granted \in PermInputs :
       /\ name = [r \in RoleIds |-> CASE r = 1 -> "admin" [] r = 2 -> "user" [] r = 3 -> other
                                      [] OTHER -> Nil]
       /\ perms = [r \in RoleIds |->
            CASE r = 1 -> {p \in PermIds : token[p] # Nil}
              [] r = 3 /\ other # Nil -> {p \in PermIds : token[p] \in granted}
              [] OTHER -> {}]
  /\ \E rs \in [Users -> RoleInputs] : roles = [u \in Users |-> {r \in rs[u] : name[r] # Nil}]
  /\ req = [a \in Admins |-> Idle]
  /\ started = 0 /\ dirty = {} /\ revived = {} /\ failed = FALSE

-----------------------------------------------------------------------------
(* Steps.                                                                  *)

\* The request goes on as q without touching the tables.
Proceed(a, q) ==
  req' = [req EXCEPT ![a] = q] /\ UNCHANGED <<tables, started, dirty, revived, failed>>

\* An error response, or a panic.
Reject(a) == Proceed(a, Idle)

\* A request ends with part of its work done.
Fail(a) ==
  /\ req' = [req EXCEPT ![a] = Idle]
  /\ failed' = TRUE
  /\ UNCHANGED <<tables, started, dirty, revived>>

\* The rest of a statement that writes: every cache whose source it changes is dirty.
Changed == {c \in Caches : View(c)' # View(c)}
Change(a, q) ==
  /\ dirty' = dirty \cup Changed
  /\ req' = [b \in Admins |->
       IF b = a THEN q ELSE [req[b] EXCEPT !.raced = @ \/ req[b].pc # "idle"]]
  /\ UNCHANGED <<started, failed>>
Write(a, q) == Change(a, q) /\ UNCHANGED revived

\* INSERT ... ON CONFLICT DO NOTHING of rows that were read before: those deleted since come
\* back, unless their name or pair was taken meanwhile.
Upserted(table, rows) ==
  [k \in DOMAIN table |->
     IF /\ table[k] \in {Nil, Gone}
        /\ \E x \in rows : x[1] = k /\ \A j \in DOMAIN table : table[j] # x[2]
     THEN (CHOOSE x \in rows : x[1] = k)[2] ELSE table[k]]

\* The rest of an association's Replace, after which the request goes on as q.
Replaced(a, q, back) ==
  Change(a, q) /\ revived' = IF back THEN revived \cup Changed ELSE revived

RoleRows(rs) == {<<r, name[r]>> : r \in {s \in rs : RoleExists(s)}}
PermRows(ps) == {<<p, token[p]>> : p \in {q \in ps : PermExists(q)}}
Keys(rows) == {x[1] : x \in rows}

Begin(a, r) ==
  /\ req[a].pc = "idle" /\ started < MaxRequests
  /\ started' = started + 1
  /\ req' = [req EXCEPT ![a] = r]
  /\ UNCHANGED <<tables, dirty, revived, failed>>

\* A request whose caller passed RequirePermission, on the strength of cached permissions.
Arrive(a) ==
  \/ \E u \in Users, rs \in RoleInputs :
       Begin(a, [Idle EXCEPT !.pc = "select", !.op = "set_roles", !.user = u, !.ids = rs])
  \/ \E u \in Callers :
    \/ \E n \in Names \ {Blank}, ts \in PermInputs :
         Begin(a, [Idle EXCEPT !.pc = "pairs", !.op = "create_role", !.user = u, !.name = n,
                               !.body = ts])
    \/ \E r \in RoleIds, n \in (Names \ {Blank}) \cup {Nil}, ts \in PermInputs \cup {Nil} :
         Begin(a, [Idle EXCEPT !.pc = "find", !.op = "update_role", !.user = u, !.id = r,
                               !.name = n, !.body = ts])
    \/ \E r \in RoleIds :
         Begin(a, [Idle EXCEPT !.pc = "find", !.op = "delete_role", !.user = u, !.id = r])
    \/ \E t \in Tokens :
         Begin(a, [Idle EXCEPT !.pc = "write", !.op = "create_perm", !.user = u, !.tok = t])
    \/ \E p \in PermIds, t \in Tokens :
         Begin(a, [Idle EXCEPT !.pc = "find", !.op = "update_perm", !.user = u, !.id = p,
                               !.tok = t])
    \/ \E p \in PermIds :
         Begin(a, [Idle EXCEPT !.pc = "find", !.op = "delete_perm", !.user = u, !.id = p])
    \/ Begin(a, [Idle EXCEPT !.pc = "sync_perms", !.op = "sync", !.user = u, !.next = Defaults])

-----------------------------------------------------------------------------
(* Reads before a write.                                                   *)

\* What a request knows of the role it has found; what the body leaves out is taken
\* from there.
Found(q) ==
  [q EXCEPT !.pc   = IF q.op = "update_role" /\ q.body # Nil THEN "pairs" ELSE "guard",
            !.seen = name[q.id],
            !.next = Granted(q.id),
            !.ids  = {p \in perms[q.id] : PermExists(p)}]

\* Faulty: a protected role may be updated, though not deleted.
FindRoleUnprotected(a) ==
  LET q == req[a] IN
  /\ q.pc = "find" /\ q.op \in {"update_role", "delete_role"}
  /\ IF RoleExists(q.id) /\ (q.op = "update_role" \/ name[q.id] \notin ProtectedRoles)
     THEN Proceed(a, Found(q)) ELSE Reject(a)

FindRole(a) ==
  LET q == req[a] IN
  /\ q.pc = "find" /\ q.op \in {"update_role", "delete_role"}
  /\ IF RoleExists(q.id) /\ name[q.id] \notin ProtectedRoles
     THEN Proceed(a, Found(q)) ELSE Reject(a)

\* Every pair the body names must exist.
FindByPairs(a) ==
  LET q == req[a]
      found == {p \in PermIds : token[p] \in q.body}
  IN /\ q.pc = "pairs"
     /\ IF Cardinality(found) = Cardinality(q.body)
        THEN Proceed(a, [q EXCEPT !.pc   = IF q.op = "create_role" THEN "write" ELSE "guard",
                                  !.next = q.body, !.ids = found])
        ELSE Reject(a)

FindPermission(a) ==
  LET q == req[a] IN
  /\ q.pc = "find" /\ q.op \in {"update_perm", "delete_perm"}
  /\ IF PermExists(q.id) /\ token[q.id] \notin ProtectedPermissions
     THEN Proceed(a, [q EXCEPT !.pc = "guard", !.seen = token[q.id]]) ELSE Reject(a)

WouldLockOut(q) ==
  CASE q.op = "update_role" -> WouldLockOutRoleMutation(q.user, q.id, Required(q.op), q.next)
    [] q.op = "delete_role" -> WouldLockOutRoleDeletion(q.user, q.id, Required(q.op))
    [] q.op = "update_perm" ->
         WouldLockOutPermissionMutation(q.user, q.seen, q.tok, Required(q.op))
    [] q.op = "delete_perm" -> WouldLockOutPermissionDeletion(q.user, q.seen, Required(q.op))

Guarding(q) == [q EXCEPT !.pc = IF q.op = "update_role" THEN "select" ELSE "write"]

Guard(a) ==
  LET q == req[a] IN
  /\ q.pc = "guard"
  /\ IF WouldLockOut(q) THEN Reject(a) ELSE Proceed(a, Guarding(q))

\* When the caller cannot be read the guard lets the mutation pass.
GuardFails(a) ==
  /\ Failures /\ req[a].pc = "guard"
  /\ Proceed(a, [Guarding(req[a]) EXCEPT !.open = TRUE])

-----------------------------------------------------------------------------
(* Writes.  The unique indexes refuse a name or a pair that is taken.      *)

NameTaken(n, self) == \E r \in RoleIds : r # self /\ name[r] = n
TokenTaken(t, self) == \E p \in PermIds : p # self /\ token[p] = t

Writes(a, op) ==
  /\ req[a].pc = IF op \in {"set_roles", "update_role"} THEN "replace" ELSE "write"
  /\ req[a].op = op
Invalidating(a) == [req[a] EXCEPT !.pc = "invalidate"]
Rereading(a) == [req[a] EXCEPT !.pc = "reread"]

\* SetRoles: the roles are read, and the user's replaced by them.
FindRoles(a) ==
  LET q == req[a] IN
  /\ q.pc = "select" /\ q.op = "set_roles"
  /\ Proceed(a, [q EXCEPT !.pc = "replace", !.rows = RoleRows(q.ids)])

SetUserRoles(a) ==
  LET q == req[a] IN
  /\ Writes(a, "set_roles")
  /\ name' = Upserted(name, q.rows)
  /\ roles' = [roles EXCEPT ![q.user] = Keys(q.rows)]
  /\ UNCHANGED <<perms, token>>
  /\ Replaced(a, Invalidating(a), name' # name)

\* Create inserts the role and then, without a transaction, links its permissions.
CreateRole(a) ==
  LET q == req[a] IN
  /\ Writes(a, "create_role")
  /\ \/ NameTaken(q.name, Nil) /\ Reject(a)
     \/ /\ ~NameTaken(q.name, Nil)
        /\ \E r \in RoleIds :
             /\ name[r] = Nil
             /\ name' = [name EXCEPT ![r] = q.name]
             /\ UNCHANGED <<perms, token, roles>>
             /\ Write(a, [q EXCEPT !.pc = IF q.ids = {} THEN "invalidate" ELSE "select",
                                   !.id = r])

\* Create and Update read the permissions to link.
FindPermissions(a) ==
  LET q == req[a] IN
  /\ q.pc = "select" /\ q.op \in {"create_role", "update_role"}
  /\ Proceed(a, [q EXCEPT !.pc = "replace", !.pairs = PermRows(q.ids)])

Attach(a) ==
  LET q == req[a] IN
  /\ q.pc = "replace" /\ q.op = "create_role"
  /\ token' = Upserted(token, q.pairs)
  /\ perms' = [perms EXCEPT ![q.id] = Keys(q.pairs)]
  /\ UNCHANGED <<name, roles>>
  /\ Replaced(a, Invalidating(a), token' # token)

\* Update is a transaction that commits here.  Its UPDATE of the role comes before the
\* SELECT, but the row and its name stay locked until the commit, so that they are still
\* as the UPDATE found them.
UpdateRole(a) ==
  LET q == req[a]
      n == IF q.name = Nil THEN q.seen ELSE q.name
      refused == ~RoleExists(q.id) \/ NameTaken(n, q.id)
  IN /\ Writes(a, "update_role")
     /\ \/ refused /\ Reject(a)
        \/ /\ ~refused
           /\ name' = [name EXCEPT ![q.id] = n]
           /\ token' = Upserted(token, q.pairs)
           /\ perms' = [perms EXCEPT ![q.id] = Keys(q.pairs)]
           /\ UNCHANGED roles
           /\ Replaced(a, Rereading(a), token' # token)

DeleteRole(a) ==
  LET r == req[a].id IN
  /\ Writes(a, "delete_role")
  /\ \/ ~RoleExists(r) /\ Reject(a)
     \/ /\ RoleExists(r)
        /\ name' = [name EXCEPT ![r] = Gone]
        /\ UNCHANGED <<perms, token, roles>>
        /\ Write(a, Invalidating(a))

CreatePermission(a) ==
  LET t == req[a].tok IN
  /\ Writes(a, "create_perm")
  /\ \/ TokenTaken(t, Nil) /\ Reject(a)
     \/ /\ ~TokenTaken(t, Nil)
        /\ \E p \in PermIds : token[p] = Nil /\ token' = [token EXCEPT ![p] = t]
        /\ UNCHANGED <<name, perms, roles>>
        /\ Write(a, Invalidating(a))

UpdatePermission(a) ==
  LET q == req[a]
      refused == ~PermExists(q.id) \/ TokenTaken(q.tok, q.id)
  IN /\ Writes(a, "update_perm")
     /\ \/ refused /\ Reject(a)
        \/ /\ ~refused
           /\ token' = [token EXCEPT ![q.id] = q.tok]
           /\ UNCHANGED <<name, perms, roles>>
           /\ Write(a, Rereading(a))

DeletePermission(a) ==
  LET p == req[a].id IN
  /\ Writes(a, "delete_perm")
  /\ \/ ~PermExists(p) /\ Reject(a)
     \/ /\ PermExists(p)
        /\ token' = [token EXCEPT ![p] = Gone]
        /\ UNCHANGED <<name, perms, roles>>
        /\ Write(a, Invalidating(a))

\* The row is read back for the audit record; if it is gone the handler panics.
Reread(a) ==
  LET q == req[a] IN
  /\ q.pc = "reread"
  /\ IF (q.op = "update_role" /\ RoleExists(q.id)) \/ (q.op = "update_perm" /\ PermExists(q.id))
     THEN Proceed(a, Invalidating(a)) ELSE Reject(a)

-----------------------------------------------------------------------------
(* SyncRBAC.                                                               *)

\* FirstOrCreate of the default permissions, one after the other.
SyncPermission(a) ==
  LET q == req[a]
      t == CHOOSE s \in q.next : TRUE
      rest == q.next \ {t}
      then == [q EXCEPT !.pc = IF rest = {} THEN "sync_roles" ELSE "sync_perms", !.next = rest]
  IN /\ q.pc = "sync_perms"
     /\ \/ TokenTaken(t, Nil) /\ Proceed(a, then)
        \/ /\ ~TokenTaken(t, Nil)
           /\ \E p \in PermIds : token[p] = Nil /\ token' = [token EXCEPT ![p] = t]
           /\ UNCHANGED <<name, perms, roles>>
           /\ Write(a, then)

\* FirstOrCreate of the two roles.
SyncRoles(a) ==
  LET missing == {n \in SeedRoles : ~NameTaken(n, Nil)} IN
  /\ req[a].pc = "sync_roles"
  /\ \E new \in [missing -> {r \in RoleIds : name[r] = Nil}] :
       /\ Cardinality({new[n] : n \in missing}) = Cardinality(missing)
       /\ name' = [r \in RoleIds |-> IF \E n \in missing : new[n] = r
                                     THEN CHOOSE n \in missing : new[n] = r ELSE name[r]]
  /\ UNCHANGED <<perms, token, roles>>
  /\ Write(a, [req[a] EXCEPT !.pc = "select", !.id = CHOOSE r \in RoleIds : name'[r] = "admin"])

\* The permissions of the synced resources and, if there are any, the admin role are read.
\* When the role is gone the sync ends, and what it has changed is not invalidated.
SyncFind(a) ==
  LET q == req[a]
      found == PermRows({p \in PermIds : token[p] \in Synced})
  IN /\ q.pc = "select" /\ q.op = "sync"
     /\ CASE found = {} -> Proceed(a, [q EXCEPT !.pc = "sync_user"])
          [] found # {} /\ RoleExists(q.id) ->
               Proceed(a, [q EXCEPT !.pc = "replace", !.pairs = found])
          [] OTHER -> Fail(a)

\* The admin role gets them.
SyncBind(a) ==
  LET q == req[a] IN
  /\ q.pc = "replace" /\ q.op = "sync"
  /\ token' = Upserted(token, q.pairs)
  /\ perms' = [perms EXCEPT ![q.id] = Keys(q.pairs)]
  /\ UNCHANGED <<name, roles>>
  /\ Write(a, [q EXCEPT !.pc = "sync_user"])

\* And the bootstrap administrator gets the admin role, if a count finds no link to it.
SyncUser(a) ==
  LET q == req[a] IN
  /\ q.pc = "sync_user"
  /\ Proceed(a, [q EXCEPT !.pc = IF Bootstrap # Nil /\ q.id \notin roles[Bootstrap]
                                 THEN "sync_append" ELSE "invalidate"])

SyncAppend(a) ==
  LET q == req[a] IN
  /\ q.pc = "sync_append"
  /\ name' = Upserted(name, {<<q.id, "admin">>})
  /\ roles' = [roles EXCEPT ![Bootstrap] = @ \cup {q.id}]
  /\ UNCHANGED <<perms, token>>
  /\ Write(a, Invalidating(a))

-----------------------------------------------------------------------------
(* HandleGoogleCallback for a user who exists, and what follows it.  It    *)
(* invalidates nothing.                                                    *)

\* FindByID or FindByEmail, which preload Roles.Permissions.
SignIn(a, u) ==
  LET links == {x \in RolesOf(u) \X PermIds : x[2] \in perms[x[1]] /\ PermExists(x[2])} IN
  Begin(a, [Idle EXCEPT !.pc = "save", !.op = "sign_in", !.user = u,
                        !.rows = RoleRows(RolesOf(u)), !.links = links,
                        !.pairs = PermRows({x[2] : x \in links})])

\* userRepo.Update: gorm's Save updates the user and, in the same transaction, inserts the
\* roles, the permissions and the links it was given.
Update(a) ==
  LET q == req[a] IN
  /\ q.pc = "save"
  /\ name' = Upserted(name, q.rows)
  /\ token' = Upserted(token, q.pairs)
  /\ perms' = [r \in RoleIds |-> perms[r] \cup {x[2] : x \in {y \in q.links : y[1] = r}}]
  /\ roles' = [roles EXCEPT ![q.user] = @ \cup Keys(q.rows)]
  /\ Replaced(a, IF q.user = Bootstrap THEN [q EXCEPT !.pc = "bootstrap"] ELSE Idle, q.raced)

\* assignBootstrapAdminIfNeeded: FindByName, an error of which ends the sign-in.
AssignBootstrapAdmin(a) ==
  LET q == req[a] IN
  /\ q.pc = "bootstrap"
  /\ \/ ~NameTaken("admin", Nil) /\ Reject(a)
     \/ \E r \in RoleIds :
          name[r] = "admin" /\ Proceed(a, [q EXCEPT !.pc = "add_role", !.id = r])

\* AddRole appends a role of which it has only the key: one that was deleted meanwhile comes
\* back without a name.
AddRole(a) ==
  LET q == req[a] IN
  /\ q.pc = "add_role"
  /\ name' = Upserted(name, {<<q.id, Blank>>})
  /\ roles' = [roles EXCEPT ![Bootstrap] = @ \cup {q.id}]
  /\ UNCHANGED <<perms, token>>
  /\ Replaced(a, Idle, TRUE)

-----------------------------------------------------------------------------
Invalidate(a) ==
  /\ req[a].pc = "invalidate"
  /\ dirty' = dirty \ Invalidates(req[a].op, req[a].user)
  /\ revived' = revived \ Invalidates(req[a].op, req[a].user)
  /\ req' = [req EXCEPT ![a] = Idle]
  /\ UNCHANGED <<tables, started, failed>>

\* A statement or an invalidation fails, or the process dies.
RequestFails(a) ==
  /\ Failures /\ req[a].pc # "idle"
  /\ Fail(a)

Next ==
  \E a \in Admins :
    \/ Arrive(a)
    \/ FindRole(a) \/ FindByPairs(a) \/ FindPermission(a) \/ Guard(a) \/ GuardFails(a)
    \/ FindRoles(a) \/ SetUserRoles(a)
    \/ CreateRole(a) \/ FindPermissions(a) \/ Attach(a) \/ UpdateRole(a) \/ DeleteRole(a)
    \/ CreatePermission(a) \/ UpdatePermission(a) \/ DeletePermission(a) \/ Reread(a)
    \/ SyncPermission(a) \/ SyncRoles(a) \/ SyncFind(a) \/ SyncBind(a) \/ SyncUser(a)
    \/ SyncAppend(a)
    \/ (\E u \in Users : SignIn(a, u)) \/ Update(a) \/ AssignBootstrapAdmin(a) \/ AddRole(a)
    \/ Invalidate(a) \/ RequestFails(a)

Spec == Init /\ [][Next]_vars

-----------------------------------------------------------------------------
(* Properties.                                                             *)

\* The tables and requests are well typed, and no two roles share a name and no two
\* permissions a pair.
TypeOK ==
  /\ name \in [RoleIds -> Names \cup {Nil, Gone}]
  /\ perms \in [RoleIds -> SUBSET PermIds]
  /\ token \in [PermIds -> Tokens \cup {Nil, Gone}]
  /\ roles \in [Users -> SUBSET RoleIds]
  /\ \A a \in Admins : req[a] \in Request
  /\ started \in 0 .. MaxRequests /\ dirty \cup revived \subseteq Caches /\ failed \in BOOLEAN
  /\ \A r \in RoleIds : RoleExists(r) => ~NameTaken(name[r], r)
  /\ \A p \in PermIds : PermExists(p) => ~TokenTaken(token[p], p)

\* A guarded mutation never takes from its caller the permission its own path requires,
\* unless another request wrote while it was under way or the guard could not read the
\* caller (wouldLockOutRoleMutation and its siblings).
GuardPreventsLockOut ==
  [][\A a \in Admins :
       \A op \in {"update_role", "delete_role", "update_perm", "delete_perm"}, u \in Users :
         /\ Writes(a, op) /\ req[a].user = u /\ ~req[a].raced /\ ~req[a].open
         /\ req'[a].pc # req[a].pc /\ Required(op) \in PermissionsOf(u)
         => Required(op) \in PermissionsOf(u)']_vars

\* Whatever requests race, a seeded role that the configuration protects keeps its name,
\* is never deleted, and its links change only through SyncRBAC (isProtectedRole); but a
\* sign-in may add links back that it has read.
ProtectedRolesStay ==
  [][\A r \in RoleIds :
       name[r] \in SeedRoles \cap ProtectedRoles =>
         /\ name'[r] = name[r]
         /\ perms'[r] # perms[r] =>
              \E a \in Admins :
                \/ req[a].pc = "replace" /\ req[a].op = "sync"
                \/ req[a].pc = "save" /\ perms[r] \subseteq perms'[r]]_vars

\* When all requests have ended and nothing failed, no cache was left with what a
\* mutation has changed.  It holds although a handler panics before it invalidates
\* when its row was deleted meanwhile, because whoever deleted it invalidates as much.
\* The exceptions are known: a request that links rows it has read re-inserts those that
\* were deleted in between, of which it invalidates only what it meant to change; a sign-in
\* that others raced adds back links too; the bootstrap administrator's new admin role; and
\* a sync that finds the admin role gone, which counts as a failure.
NoCacheLeftBehind ==
  (\A a \in Admins : req[a].pc = "idle") /\ ~failed => dirty \subseteq revived
=============================================================================
