-------------------------- MODULE AdminRBACProofs --------------------------
(***************************************************************************)
(* Proofs about AdminRBAC for any users, roles, permissions, protected     *)
(* names and any number of requests under way.                             *)
(***************************************************************************)
EXTENDS AdminRBAC, TLAPS, FiniteSetTheorems

Guarded == {"update_role", "delete_role", "update_perm", "delete_perm"}

\* The rows of the seeded roles that the configuration protects.
Seed(r) ==
  \/ r = 1 /\ "admin" \in ProtectedRoles
  \/ r = 2 /\ "user" \in ProtectedRoles

\* Names and pairs are unique, and the protected seeds are in place: so nobody can take
\* their names.
TablesOK ==
  /\ name \in [RoleIds -> Names \cup {Nil, Gone}]
  /\ perms \in [RoleIds -> SUBSET PermIds]
  /\ token \in [PermIds -> Tokens \cup {Nil, Gone}]
  /\ roles \in [Users -> SUBSET RoleIds]
  /\ \A r, s \in RoleIds : RoleExists(r) /\ name[r] = name[s] => r = s
  /\ \A p, q \in PermIds : PermExists(p) /\ token[p] = token[q] => p = q
  /\ "admin" \in ProtectedRoles => name[1] = "admin"
  /\ "user" \in ProtectedRoles => name[2] = "user"

\* Where a request can be.
Pcs ==
  {"idle", "find", "pairs", "guard", "write", "select", "replace", "reread", "sync_perms",
   "sync_roles", "sync_user", "sync_append", "invalidate", "save", "bootstrap", "add_role"}

\* The steps that a request of each kind goes through.
Steps(op) ==
  CASE op = "set_roles" -> {"select", "replace", "invalidate"}
    [] op = "create_perm" -> {"write", "invalidate"}
    [] op = "create_role" -> {"pairs", "write", "select", "replace", "invalidate"}
    [] op = "update_role" -> {"find", "pairs", "guard", "select", "replace", "reread", "invalidate"}
    [] op = "update_perm" -> {"find", "guard", "write", "reread", "invalidate"}
    [] op \in {"delete_role", "delete_perm"} -> {"find", "guard", "write", "invalidate"}
    [] op = "sync" -> {"sync_perms", "sync_roles", "select", "replace", "sync_user",
                       "sync_append", "invalidate"}
    [] op = "sign_in" -> {"save", "bootstrap", "add_role"}

\* A request of SyncRBAC or one that creates a role, between two of its writes.
Linking(q) == q.pc \in {"select", "replace"} /\ q.op \in {"create_role", "sync"}

\* What a request under way holds; a role that is about to be changed is no protected seed.
RequestOK(q) ==
  q.pc # "idle" =>
    /\ q.op \in Ops /\ q.user \in Users /\ q.pc \in Steps(q.op)
    /\ q.op = "set_roles" => q.ids \subseteq RoleIds
    /\ q.op = "create_role" => q.name \in Names
    /\ q.pc = "pairs" => q.body \in PermInputs
    /\ q.op = "update_role" => q.body \in PermInputs \cup {Nil}
    /\ /\ q.op \in {"create_role", "update_role"}
       /\ q.pc \in {"guard", "write", "select", "replace"}
       => q.ids \subseteq PermIds
    /\ q.op \in {"update_role", "delete_role"} => q.id \in RoleIds
    /\ q.op \in {"update_perm", "delete_perm"} => q.id \in PermIds
    /\ q.op \in {"create_perm", "update_perm"} => q.tok \in Tokens
    /\ q.op = "update_role" /\ q.pc \in {"pairs", "guard", "select", "replace"} => q.seen \in Names
    /\ q.pc = "sync_perms" => q.next # {}
    /\ q.pc \in {"sync_user", "sync_append", "add_role"} \/ Linking(q) => q.id \in RoleIds
    /\ q.op \in {"update_role", "delete_role"} /\ q.pc # "find" => ~Seed(q.id)
    /\ q.op = "create_role" /\ Linking(q) => ~Seed(q.id)

\* What a guarded request has read is current unless it is raced; past the guard, it locks
\* nobody out.
GuardOK(q) ==
  q.op \in Guarded /\ ~q.raced =>
    /\ q.op = "update_role" /\ q.pc \in {"guard", "select", "replace"} =>
         q.next = {token[p] : p \in {i \in q.ids : PermExists(i)}}
    /\ q.op = "update_role" /\ q.pc = "replace" => q.pairs = PermRows(q.ids)
    /\ q.op \in {"update_perm", "delete_perm"} /\ q.pc \in {"guard", "write"} =>
         q.seen = token[q.id]
    /\ q.pc \in {"write", "select", "replace"} /\ ~q.open => ~WouldLockOut(q)

\* Rows of a table with a unique column.
Distinct(rows) == \A x, y \in rows : x[1] = y[1] \/ x[2] = y[2] => x = y

\* A request has read rows with unique names and pairs; unless a sign-in is raced they are
\* all still there.
SawOK(q) ==
  /\ q.pc = "save" \/ (q.pc = "replace" /\ q.op = "set_roles") => Distinct(q.rows)
  /\ q.pc = "save" \/ (q.pc = "replace" /\ q.op # "set_roles") => Distinct(q.pairs)
  /\ q.pc = "save" /\ ~q.raced =>
       /\ \A x \in q.rows : x[1] \in RolesOf(q.user)
       /\ \A x \in q.pairs : PermExists(x[1])
       /\ \A x \in q.links : x[2] \in perms[x[1]]

\* The request will invalidate cache c, unless it fails: a request that reads its row
\* back does only if the row is there.
Owes(q, c) ==
  /\ \/ q.pc \in {"invalidate", "sync_perms", "sync_roles", "sync_user", "sync_append"}
     \/ Linking(q)
     \/ q.pc = "reread" /\ q.op = "update_role" /\ RoleExists(q.id)
     \/ q.pc = "reread" /\ q.op = "update_perm" /\ PermExists(q.id)
  /\ c \in Invalidates(q.op, q.user)

OwedOK == ~failed => \A c \in dirty \ revived : \E a \in Admins : Owes(req[a], c)

AdminInv ==
  /\ TablesOK
  /\ req \in [Admins -> Request]
  /\ started \in 0 .. MaxRequests /\ dirty \cup revived \subseteq Caches /\ failed \in BOOLEAN
  /\ \A a \in Admins : RequestOK(req[a]) /\ GuardOK(req[a]) /\ SawOK(req[a])
  /\ OwedOK

-----------------------------------------------------------------------------
(* Steps in general.                                                       *)

\* A well-typed request stays so when one of its fields changes.
LEMMA FieldTyped ==
  ASSUME NEW o \in Request
  PROVE  /\ \A x \in Pcs : [o EXCEPT !.pc = x] \in Request
         /\ \A x \in RoleIds \cup PermIds : [o EXCEPT !.id = x] \in Request
         /\ \A x \in Names \cup Tokens : [o EXCEPT !.seen = x] \in Request
         /\ \A x \in SUBSET Tokens : [o EXCEPT !.next = x] \in Request
         /\ \A x \in SUBSET (RoleIds \cup PermIds) : [o EXCEPT !.ids = x] \in Request
         /\ \A x \in SUBSET (RoleIds \X Names) : [o EXCEPT !.rows = x] \in Request
         /\ \A x \in SUBSET (PermIds \X Tokens) : [o EXCEPT !.pairs = x] \in Request
         /\ \A x \in SUBSET (RoleIds \X PermIds) : [o EXCEPT !.links = x] \in Request
         /\ \A x \in BOOLEAN : [o EXCEPT !.open = x] \in Request
         /\ \A x \in Ops : [o EXCEPT !.op = x] \in Request
         /\ \A x \in Users : [o EXCEPT !.user = x] \in Request
<1>1. \A x \in Pcs : [o EXCEPT !.pc = x] \in Request
  BY DEF Request, Pcs
<1>2. \A x \in RoleIds \cup PermIds : [o EXCEPT !.id = x] \in Request
  BY DEF Request
<1>3. \A x \in Names \cup Tokens : [o EXCEPT !.seen = x] \in Request
  BY DEF Request
<1>4. \A x \in SUBSET Tokens : [o EXCEPT !.next = x] \in Request
  BY DEF Request
<1>5. \A x \in SUBSET (RoleIds \cup PermIds) : [o EXCEPT !.ids = x] \in Request
  BY DEF Request
<1>6. \A x \in SUBSET (RoleIds \X Names) : [o EXCEPT !.rows = x] \in Request
  BY DEF Request
<1>7. \A x \in SUBSET (PermIds \X Tokens) : [o EXCEPT !.pairs = x] \in Request
  BY DEF Request
<1>8. \A x \in SUBSET (RoleIds \X PermIds) : [o EXCEPT !.links = x] \in Request
  BY DEF Request
<1>9. \A x \in BOOLEAN : [o EXCEPT !.open = x] \in Request
  BY DEF Request
<1>10. \A x \in Ops : [o EXCEPT !.op = x] \in Request
  BY DEF Request
<1>11. \A x \in Users : [o EXCEPT !.user = x] \in Request
  BY DEF Request
<1> QED BY <1>1, <1>2, <1>3, <1>4, <1>5, <1>6, <1>7, <1>8, <1>9, <1>10, <1>11

\* And when several change.
LEMMA FieldsTyped ==
  ASSUME NEW o \in Request, NEW pc \in Pcs
  PROVE  /\ \A x \in RoleIds \cup PermIds : [o EXCEPT !.pc = pc, !.id = x] \in Request
         /\ \A x \in Names \cup Tokens : [o EXCEPT !.pc = pc, !.seen = x] \in Request
         /\ \A x \in SUBSET Tokens : [o EXCEPT !.pc = pc, !.next = x] \in Request
         /\ \A x \in SUBSET (RoleIds \X Names) : [o EXCEPT !.pc = pc, !.rows = x] \in Request
         /\ \A x \in SUBSET (PermIds \X Tokens) : [o EXCEPT !.pc = pc, !.pairs = x] \in Request
         /\ \A x \in BOOLEAN : [o EXCEPT !.pc = pc, !.open = x] \in Request
         /\ \A x \in SUBSET Tokens, y \in SUBSET (RoleIds \cup PermIds) :
              [o EXCEPT !.pc = pc, !.next = x, !.ids = y] \in Request
         /\ \A x \in SUBSET Tokens, y \in SUBSET (RoleIds \cup PermIds), z \in Names \cup Tokens :
              [o EXCEPT !.pc = pc, !.seen = z, !.next = x, !.ids = y] \in Request
<1>1. PICK q \in Request : q = [o EXCEPT !.pc = pc]
  BY FieldTyped
<1>2. /\ \A x : [o EXCEPT !.pc = pc, !.id = x] = [q EXCEPT !.id = x]
      /\ \A x : [o EXCEPT !.pc = pc, !.seen = x] = [q EXCEPT !.seen = x]
      /\ \A x : [o EXCEPT !.pc = pc, !.next = x] = [q EXCEPT !.next = x]
      /\ \A x : [o EXCEPT !.pc = pc, !.rows = x] = [q EXCEPT !.rows = x]
      /\ \A x : [o EXCEPT !.pc = pc, !.pairs = x] = [q EXCEPT !.pairs = x]
      /\ \A x : [o EXCEPT !.pc = pc, !.open = x] = [q EXCEPT !.open = x]
  BY <1>1 DEF Request
<1>3. \A x, y : [o EXCEPT !.pc = pc, !.next = x, !.ids = y] = [[q EXCEPT !.next = x] EXCEPT !.ids = y]
  BY <1>1 DEF Request
<1>4. \A x, y, z : [o EXCEPT !.pc = pc, !.seen = z, !.next = x, !.ids = y]
                     = [[[q EXCEPT !.seen = z] EXCEPT !.next = x] EXCEPT !.ids = y]
  BY <1>1 DEF Request
<1>5. \A x \in RoleIds \cup PermIds : [o EXCEPT !.pc = pc, !.id = x] \in Request
  BY <1>2, FieldTyped
<1>6. \A x \in SUBSET Tokens : [o EXCEPT !.pc = pc, !.next = x] \in Request
  BY <1>2, FieldTyped
<1>7. \A x \in SUBSET (RoleIds \X Names) : [o EXCEPT !.pc = pc, !.rows = x] \in Request
  BY <1>2, FieldTyped
<1>8. \A x \in SUBSET (PermIds \X Tokens) : [o EXCEPT !.pc = pc, !.pairs = x] \in Request
  BY <1>2, FieldTyped
<1>9. \A x \in BOOLEAN : [o EXCEPT !.pc = pc, !.open = x] \in Request
  BY <1>2, FieldTyped
<1>10. \A x \in SUBSET Tokens, y \in SUBSET (RoleIds \cup PermIds) :
              [o EXCEPT !.pc = pc, !.next = x, !.ids = y] \in Request
  BY <1>3, FieldTyped
<1>11. \A x \in SUBSET Tokens, y \in SUBSET (RoleIds \cup PermIds), z \in Names \cup Tokens :
              [o EXCEPT !.pc = pc, !.seen = z, !.next = x, !.ids = y] \in Request
  BY <1>4, FieldTyped
<1>12. \A x \in Names \cup Tokens : [o EXCEPT !.pc = pc, !.seen = x] \in Request
  BY <1>2, FieldTyped
<1> QED BY <1>5, <1>6, <1>7, <1>8, <1>9, <1>10, <1>11, <1>12

\* An idle request is well typed.
LEMMA IdleTyped ==
  Idle \in Request /\ Idle.pc = "idle"
BY DEF Idle, Request

\* An idle request promises nothing and owes nothing.
LEMMA IdlePromises ==
  ASSUME NEW q, q.pc = "idle"
  PROVE  RequestOK(q) /\ GuardOK(q) /\ SawOK(q) /\ \A c : ~Owes(q, c)
BY DEF RequestOK, GuardOK, SawOK, Owes, Linking

\* What a request promises depends on the tables alone.
LEMMA SameTables ==
  ASSUME UNCHANGED tables, NEW q
  PROVE  /\ TablesOK => TablesOK'
         /\ GuardOK(q) => GuardOK(q)'
         /\ SawOK(q) => SawOK(q)'
         /\ RequestOK(q) => RequestOK(q)'
         /\ \A c : Owes(q, c) => Owes(q, c)'
<1>1. name' = name /\ perms' = perms /\ token' = token /\ roles' = roles
  BY DEF tables
<1>2. \A r : RoleExists(r)' <=> RoleExists(r)
  BY <1>1 DEF RoleExists
<1>3. \A p : PermExists(p)' <=> PermExists(p)
  BY <1>1 DEF PermExists
<1>4. \A u : RolesOf(u)' = RolesOf(u)
  BY <1>1 DEF RolesOf, RoleExists
<1>5. \A r : Granted(r)' = Granted(r)
  BY <1>1, <1>3 DEF Granted
<1>6. \A u : PermissionsOf(u)' = PermissionsOf(u)
  BY <1>4, <1>5 DEF PermissionsOf
<1>7. TablesOK => TablesOK'
  BY <1>1 DEF TablesOK, RoleExists, PermExists
<1>8. WouldLockOut(q)' <=> WouldLockOut(q)
  BY <1>4, <1>5, <1>6 DEF WouldLockOut, WouldLockOutRoleMutation, WouldLockOutRoleDeletion,
     WouldLockOutPermissionMutation, WouldLockOutPermissionDeletion
<1>9. GuardOK(q) => GuardOK(q)'
  <2>1. \A ps : PermRows(ps)' = PermRows(ps)
    BY <1>1, <1>3 DEF PermRows
  <2> QED BY <1>1, <1>3, <1>8, <2>1 DEF GuardOK
<1>10. SawOK(q) => SawOK(q)'
  BY <1>1, <1>3, <1>4 DEF SawOK, Distinct
<1>11. RequestOK(q) => RequestOK(q)'
  BY DEF RequestOK, Linking
<1>12. \A c : Owes(q, c) => Owes(q, c)'
  BY <1>2, <1>3 DEF Owes, Linking
<1> QED BY <1>7, <1>9, <1>10, <1>11, <1>12

\* A step of a request that leaves the tables alone, if it still owes what it owed.
LEMMA ProceedStep ==
  ASSUME AdminInv, NEW a \in Admins, NEW q \in Request,
         req' = [req EXCEPT ![a] = q], UNCHANGED <<tables, dirty, revived>>,
         started' \in 0 .. MaxRequests, failed' \in BOOLEAN, failed => failed',
         RequestOK(q), GuardOK(q), SawOK(q),
         failed' \/ \A c : Owes(req[a], c) => Owes(q, c)
  PROVE  AdminInv'
<1>1. UNCHANGED tables
  OBVIOUS
<1>2. \A b \in Admins : req'[b] = IF b = a THEN q ELSE req[b]
  BY DEF AdminInv
<1>3. TablesOK'
  BY <1>1, SameTables DEF AdminInv
<1>4. req' \in [Admins -> Request] /\ (dirty \cup revived \subseteq Caches)'
  BY DEF AdminInv, Caches
<1>5. ASSUME NEW b \in Admins PROVE RequestOK(req[b])' /\ GuardOK(req[b])' /\ SawOK(req[b])'
  <2>1. PICK n : n = req'[b]
    OBVIOUS
  <2>2. RequestOK(n) /\ GuardOK(n) /\ SawOK(n)
    BY <1>2, <2>1 DEF AdminInv
  <2>3. RequestOK(n)' /\ GuardOK(n)' /\ SawOK(n)'
    BY <1>1, <2>2, SameTables
  <2> QED BY <2>1, <2>3
<1>6. OwedOK'
  <2> SUFFICES ASSUME ~failed', NEW c \in (dirty \ revived)'
               PROVE  \E b \in Admins : Owes(req[b], c)'
    BY DEF OwedOK
  <2>1. PICK b \in Admins : Owes(req[b], c)
    BY DEF AdminInv, OwedOK
  <2>2. PICK n : n = req'[b]
    OBVIOUS
  <2>3. Owes(n, c)
    BY <1>2, <2>1, <2>2
  <2>4. Owes(n, c)'
    BY <1>1, <2>3, SameTables
  <2>5. Owes(req[b], c)'
    BY <2>2, <2>4
  <2> QED BY <2>5
<1> QED BY <1>3, <1>4, <1>5, <1>6 DEF AdminInv

\* Marking a request as raced changes nothing else of it.
LEMMA MarkRaced ==
  ASSUME NEW o \in Request, NEW b \in BOOLEAN, NEW n, n = [o EXCEPT !.raced = b]
  PROVE  /\ n \in Request /\ n.raced = b
         /\ n.pc = o.pc /\ n.op = o.op /\ n.user = o.user /\ n.id = o.id /\ n.name = o.name
         /\ n.tok = o.tok /\ n.seen = o.seen /\ n.body = o.body /\ n.next = o.next
         /\ n.ids = o.ids /\ n.rows = o.rows /\ n.pairs = o.pairs /\ n.links = o.links
         /\ n.open = o.open
BY DEF Request

\* A step that writes: all that others have read may be out of date, and the request that
\* writes owes the caches that it has changed.
LEMMA ChangeStep ==
  ASSUME AdminInv, NEW a \in Admins, NEW q \in Request, Change(a, q), TablesOK',
         RequestOK(q), q.pc \notin {"guard", "write", "replace", "save"},
         q.pc = "select" => q.op \notin Guarded,
         revived \subseteq revived', revived' \subseteq Caches,
         \A c \in Changed : c \in revived' \/ Owes(q, c)',
         \A c : Owes(req[a], c) => Owes(q, c)',
         \A n \in Request : \A c : RequestOK(n) /\ Owes(n, c) => Owes(n, c)' \/ Owes(q, c)'
  PROVE  AdminInv'
<1>1. ASSUME NEW b \in Admins, b # a, NEW n, n = req'[b]
      PROVE  /\ n \in Request /\ (n.pc # "idle" => n.raced)
             /\ RequestOK(n)
             /\ SawOK(req[b]) => SawOK(n)'
             /\ \A c : Owes(req[b], c) => Owes(n, c)
             /\ n.pc = req[b].pc
  <2>1. PICK o \in Request : o = req[b]
    BY DEF AdminInv
  <2>2. PICK r \in BOOLEAN : r <=> (o.raced \/ o.pc # "idle")
    OBVIOUS
  <2>3. n = [o EXCEPT !.raced = r]
    <3>1. r = (o.raced \/ o.pc # "idle")
      BY <2>2
    <3> QED BY <1>1, <2>1, <3>1 DEF Change
  <2>4. /\ n \in Request /\ n.raced = r
        /\ n.pc = o.pc /\ n.op = o.op /\ n.user = o.user /\ n.id = o.id /\ n.name = o.name
        /\ n.tok = o.tok /\ n.seen = o.seen /\ n.body = o.body /\ n.next = o.next
        /\ n.ids = o.ids /\ n.rows = o.rows /\ n.pairs = o.pairs /\ n.links = o.links
        /\ n.open = o.open
    BY <2>3, MarkRaced
  <2>5. RequestOK(o)
    BY <2>1 DEF AdminInv
  <2>6. RequestOK(n)
    BY <2>4, <2>5 DEF RequestOK, Linking
  <2>7. SawOK(req[b]) => SawOK(n)'
    BY <2>1, <2>2, <2>4 DEF SawOK, Distinct
  <2>8. \A c : Owes(req[b], c) => Owes(n, c)
    BY <2>1, <2>4 DEF Owes, Linking
  <2> QED BY <2>1, <2>2, <2>4, <2>6, <2>7, <2>8
<1>2. req'[a] = q
  BY DEF Change
<1>3. req' \in [Admins -> Request]
  <2>1. req' = [b \in Admins |-> req'[b]]
    BY DEF Change
  <2>2. \A b \in Admins : req'[b] \in Request
    BY <1>1, <1>2
  <2> QED BY <2>1, <2>2
<1>4. (started \in 0 .. MaxRequests /\ dirty \cup revived \subseteq Caches /\ failed \in BOOLEAN)'
  BY DEF AdminInv, Change, Changed
<1>5. ASSUME NEW b \in Admins PROVE RequestOK(req[b])' /\ GuardOK(req[b])' /\ SawOK(req[b])'
  <2>1. PICK n : n = req'[b]
    OBVIOUS
  <2>2. CASE b = a
    <3>1. RequestOK(n)' /\ GuardOK(n)' /\ SawOK(n)'
      BY <1>2, <2>1, <2>2 DEF RequestOK, Linking, GuardOK, SawOK
    <3> QED BY <2>1, <3>1
  <2>3. CASE b # a
    <3>1. RequestOK(n) /\ SawOK(n)' /\ (n.pc # "idle" => n.raced)
      BY <1>1, <2>1, <2>3 DEF AdminInv
    <3>2. RequestOK(n)' /\ GuardOK(n)' /\ SawOK(n)'
      BY <3>1 DEF RequestOK, Linking, GuardOK
    <3> QED BY <2>1, <3>2
  <2> QED BY <2>2, <2>3
<1>6. OwedOK'
  <2> SUFFICES ASSUME ~failed', NEW c \in (dirty \ revived)'
               PROVE  \E b \in Admins : Owes(req[b], c)'
    BY DEF OwedOK
  <2>1. CASE Owes(q, c)'
    <3>1. Owes(req[a], c)'
      BY <1>2, <2>1
    <3> QED BY <3>1
  <2>2. CASE ~Owes(q, c)'
    <3>1. c \in dirty \ revived /\ ~failed
      BY <2>2 DEF Change
    <3>2. PICK b \in Admins : Owes(req[b], c)
      BY <3>1 DEF AdminInv, OwedOK
    <3>3. b # a
      BY <2>2, <3>2
    <3>4. PICK n : n = req'[b]
      OBVIOUS
    <3>5. n \in Request /\ RequestOK(n) /\ Owes(n, c)
      BY <1>1, <3>2, <3>3, <3>4
    <3>6. Owes(n, c)'
      BY <2>2, <3>5
    <3>7. Owes(req[b], c)'
      BY <3>4, <3>6
    <3> QED BY <3>7
  <2> QED BY <2>1, <2>2
<1> QED BY <1>3, <1>4, <1>5, <1>6 DEF AdminInv

-----------------------------------------------------------------------------
(* Requests arrive and read.                                               *)

\* A request that has written nothing may be refused.
LEMMA RejectStep ==
  ASSUME AdminInv, NEW a \in Admins, Reject(a), \A c : ~Owes(req[a], c)
  PROVE  AdminInv'
<1>1. PICK q : q = Idle
  OBVIOUS
<1>2. q \in Request /\ RequestOK(q) /\ GuardOK(q) /\ SawOK(q)
  BY <1>1, IdleTyped, IdlePromises
<1>3. /\ req' = [req EXCEPT ![a] = q] /\ UNCHANGED <<tables, dirty, revived>>
      /\ started' \in 0 .. MaxRequests /\ failed' \in BOOLEAN /\ failed' = failed
  BY <1>1 DEF Reject, Proceed, AdminInv
<1> QED BY <1>2, <1>3, ProceedStep

\* A request that arrives has read nothing, or is a sign-in that has just read.
LEMMA BeginStep ==
  ASSUME AdminInv, NEW a \in Admins, NEW q \in Request, Begin(a, q), RequestOK(q), SawOK(q),
         q.op \in Guarded => q.pc = "find"
  PROVE  AdminInv'
<1>1. GuardOK(q)
  BY DEF GuardOK
<1>2. \A c : ~Owes(req[a], c)
  BY DEF Owes, Linking, Begin
<1>3. /\ req' = [req EXCEPT ![a] = q] /\ UNCHANGED <<tables, dirty, revived>>
      /\ failed' \in BOOLEAN /\ failed' = failed
  BY DEF Begin, AdminInv
<1>4. started' \in 0 .. MaxRequests
  BY InputsAssumption DEF Begin, AdminInv
<1> QED BY <1>1, <1>2, <1>3, <1>4, ProceedStep

\* Every kind of request arrives with what its handler takes from the path and the body.
LEMMA ArriveStep ==
  ASSUME AdminInv, NEW a \in Admins, Arrive(a)
  PROVE  AdminInv'
<1>1. ASSUME NEW u \in Users, NEW rs \in RoleInputs, NEW q,
             q = [Idle EXCEPT !.pc = "select", !.op = "set_roles", !.user = u, !.ids = rs],
             Begin(a, q)
      PROVE  AdminInv'
  <2>1. q \in Request
    BY <1>1, InputsAssumption, ZenonT(60) DEF Idle, Request, Ops
  <2>2. q.pc = "select" /\ q.op = "set_roles" /\ q.user = u /\ q.ids = rs
    BY <1>1 DEF Idle
  <2>3. RequestOK(q) /\ SawOK(q) /\ q.op \notin Guarded
    BY <2>2, InputsAssumption DEF RequestOK, Linking, SawOK, Guarded, Steps, Ops
  <2> QED BY <1>1, <2>1, <2>3, BeginStep
<1>2. ASSUME NEW u \in Users, NEW n \in Names, NEW ts \in PermInputs, NEW q,
             q = [Idle EXCEPT !.pc = "pairs", !.op = "create_role", !.user = u, !.name = n,
                              !.body = ts],
             Begin(a, q)
      PROVE  AdminInv'
  <2>1. q \in Request
    BY <1>2, InputsAssumption, ZenonT(60) DEF Idle, Request, Ops, RoleOps
  <2>2. q.pc = "pairs" /\ q.op = "create_role" /\ q.user = u /\ q.name = n /\ q.body = ts
    BY <1>2 DEF Idle
  <2>3. RequestOK(q) /\ SawOK(q) /\ q.op \notin Guarded
    BY <2>2 DEF RequestOK, Linking, SawOK, Guarded, Steps, Ops, RoleOps
  <2> QED BY <1>2, <2>1, <2>3, BeginStep
<1>3. ASSUME NEW u \in Users, NEW r \in RoleIds, NEW n \in Names \cup {Nil},
             NEW ts \in PermInputs \cup {Nil}, NEW q,
             q = [Idle EXCEPT !.pc = "find", !.op = "update_role", !.user = u, !.id = r,
                              !.name = n, !.body = ts],
             Begin(a, q)
      PROVE  AdminInv'
  <2>1. q \in Request
    BY <1>3, InputsAssumption, ZenonT(60) DEF Idle, Request, Ops, RoleOps
  <2>2. q.pc = "find" /\ q.op = "update_role" /\ q.user = u /\ q.id = r /\ q.body = ts
    BY <1>3 DEF Idle
  <2>3. RequestOK(q) /\ SawOK(q)
    BY <2>2 DEF RequestOK, Linking, SawOK, Steps, Ops, RoleOps
  <2> QED BY <1>3, <2>1, <2>2, <2>3, BeginStep
<1>4. ASSUME NEW u \in Users, NEW r \in RoleIds, NEW q,
             q = [Idle EXCEPT !.pc = "find", !.op = "delete_role", !.user = u, !.id = r],
             Begin(a, q)
      PROVE  AdminInv'
  <2>1. q \in Request
    BY <1>4 DEF Idle, Request, Ops, RoleOps
  <2>2. q.pc = "find" /\ q.op = "delete_role" /\ q.user = u /\ q.id = r
    BY <1>4 DEF Idle
  <2>3. RequestOK(q) /\ SawOK(q)
    BY <2>2 DEF RequestOK, Linking, SawOK, Steps, Ops, RoleOps
  <2> QED BY <1>4, <2>1, <2>2, <2>3, BeginStep
<1>5. ASSUME NEW u \in Users, NEW t \in Tokens, NEW q,
             q = [Idle EXCEPT !.pc = "write", !.op = "create_perm", !.user = u, !.tok = t],
             Begin(a, q)
      PROVE  AdminInv'
  <2>1. q \in Request
    BY <1>5 DEF Idle, Request, Ops, PermOps
  <2>2. q.pc = "write" /\ q.op = "create_perm" /\ q.user = u /\ q.tok = t
    BY <1>5 DEF Idle
  <2>3. RequestOK(q) /\ SawOK(q) /\ q.op \notin Guarded
    BY <2>2 DEF RequestOK, Linking, SawOK, Guarded, Steps, Ops, PermOps
  <2> QED BY <1>5, <2>1, <2>3, BeginStep
<1>6. ASSUME NEW u \in Users, NEW p \in PermIds, NEW t \in Tokens, NEW q,
             q = [Idle EXCEPT !.pc = "find", !.op = "update_perm", !.user = u, !.id = p,
                              !.tok = t],
             Begin(a, q)
      PROVE  AdminInv'
  <2>1. q \in Request
    BY <1>6 DEF Idle, Request, Ops, PermOps
  <2>2. q.pc = "find" /\ q.op = "update_perm" /\ q.user = u /\ q.id = p /\ q.tok = t
    BY <1>6 DEF Idle
  <2>3. RequestOK(q) /\ SawOK(q)
    BY <2>2 DEF RequestOK, Linking, SawOK, Steps, Ops, PermOps
  <2> QED BY <1>6, <2>1, <2>2, <2>3, BeginStep
<1>7. ASSUME NEW u \in Users, NEW p \in PermIds, NEW q,
             q = [Idle EXCEPT !.pc = "find", !.op = "delete_perm", !.user = u, !.id = p],
             Begin(a, q)
      PROVE  AdminInv'
  <2>1. q \in Request
    BY <1>7 DEF Idle, Request, Ops, PermOps
  <2>2. q.pc = "find" /\ q.op = "delete_perm" /\ q.user = u /\ q.id = p
    BY <1>7 DEF Idle
  <2>3. RequestOK(q) /\ SawOK(q)
    BY <2>2 DEF RequestOK, Linking, SawOK, Steps, Ops, PermOps
  <2> QED BY <1>7, <2>1, <2>2, <2>3, BeginStep
<1>8. ASSUME NEW u \in Users, NEW q,
             q = [Idle EXCEPT !.pc = "sync_perms", !.op = "sync", !.user = u, !.next = Defaults],
             Begin(a, q)
      PROVE  AdminInv'
  <2>1. q \in Request
    BY <1>8, TokensAssumption, ZenonT(60) DEF Idle, Request, Ops
  <2>2. q.pc = "sync_perms" /\ q.op = "sync" /\ q.user = u /\ q.next = Defaults
    BY <1>8 DEF Idle
  <2>3. RequestOK(q) /\ SawOK(q) /\ q.op \notin Guarded
    BY <2>2, TokensAssumption DEF RequestOK, Linking, SawOK, Guarded, Steps, Ops
  <2> QED BY <1>8, <2>1, <2>3, BeginStep
<1>9. \A u \in Callers : u \in Users
  BY InputsAssumption
<1> QED BY <1>1, <1>2, <1>3, <1>4, <1>5, <1>6, <1>7, <1>8, <1>9, ZenonT(60) DEF Arrive

\* A request that goes on after a read, not having written yet.
LEMMA ReadStep ==
  ASSUME AdminInv, NEW a \in Admins, NEW q \in Request, Proceed(a, q),
         RequestOK(q), GuardOK(q), SawOK(q), \A c : ~Owes(req[a], c)
  PROVE  AdminInv'
<1>1. /\ req' = [req EXCEPT ![a] = q] /\ UNCHANGED <<tables, dirty, revived>>
      /\ started' \in 0 .. MaxRequests /\ failed' \in BOOLEAN /\ failed' = failed
  BY DEF Proceed, AdminInv
<1> QED BY <1>1, ProceedStep

\* A request that finds a role knows what it grants, and that it is no protected seed.
LEMMA FindRoleStep ==
  ASSUME AdminInv, NEW a \in Admins, FindRole(a)
  PROVE  AdminInv'
<1>1. PICK o \in Request : o = req[a]
  BY DEF AdminInv
<1>2. o.pc = "find" /\ o.op \in {"update_role", "delete_role"} /\ RequestOK(o)
  BY <1>1 DEF FindRole, AdminInv
<1>3. \A c : ~Owes(req[a], c)
  BY <1>1, <1>2 DEF Owes, Linking
<1>4. CASE Reject(a)
  BY <1>3, <1>4, RejectStep
<1>5. CASE RoleExists(o.id) /\ name[o.id] \notin ProtectedRoles /\ Proceed(a, Found(o))
  <2>1. PICK ids : ids = {p \in perms[o.id] : PermExists(p)}
    OBVIOUS
  <2>2. PICK next : next = Granted(o.id)
    OBVIOUS
  <2>3. PICK pc : pc = IF o.op = "update_role" /\ o.body # Nil THEN "pairs" ELSE "guard"
    OBVIOUS
  <2>4. PICK q : q = Found(o)
    OBVIOUS
  <2>5. o.id \in RoleIds /\ o.user \in Users /\ o.op \in Ops
    BY <1>2 DEF RequestOK, Linking
  <2>6. ids \subseteq PermIds /\ next \subseteq Tokens /\ name[o.id] \in Names
    BY <1>5, <2>1, <2>2, <2>5 DEF AdminInv, TablesOK, Granted, PermExists, RoleExists
  <2>7. q = [o EXCEPT !.pc = pc, !.seen = name[o.id], !.next = next, !.ids = ids]
    BY <2>1, <2>2, <2>3, <2>4 DEF Found
  <2>8. pc \in {"pairs", "guard"} /\ (pc = "pairs" => o.op = "update_role" /\ o.body # Nil)
    BY <2>3
  <2>9. q \in Request
    BY <2>6, <2>7, <2>8, FieldsTyped DEF Pcs
  <2>10. /\ q.pc = pc /\ q.seen = name[o.id] /\ q.next = next /\ q.ids = ids /\ q.op = o.op
         /\ q.user = o.user /\ q.id = o.id /\ q.body = o.body
    BY <2>7 DEF Request
  <2>11. ~Seed(q.id)
    BY <1>5, <2>10 DEF Seed, AdminInv, TablesOK
  <2>12. q.pc = "pairs" => q.body \in PermInputs
    BY <1>2, <2>8, <2>10 DEF RequestOK, Linking
  <2>13. q.pc \in Steps(q.op)
    BY <1>2, <2>8, <2>10 DEF Steps
  <2>14. RequestOK(q)
    BY <1>2, <2>5, <2>6, <2>8, <2>10, <2>11, <2>12, <2>13 DEF RequestOK, Linking
  <2>15. next = {token[p] : p \in {i \in ids : PermExists(i)}}
    BY <2>1, <2>2 DEF Granted
  <2>16. GuardOK(q) /\ SawOK(q)
    BY <1>2, <2>8, <2>10, <2>15 DEF GuardOK, SawOK
  <2> QED BY <1>3, <1>5, <2>4, <2>9, <2>14, <2>16, ReadStep
<1> QED BY <1>1, <1>4, <1>5 DEF FindRole

\* If as many rows are found as pairs were named, they are exactly the pairs, because no
\* two rows have the same pair.
LEMMA AllPairsFound ==
  ASSUME TablesOK, NEW body \in SUBSET Tokens, IsFiniteSet(body),
         NEW found, found = {p \in PermIds : token[p] \in body},
         Cardinality(found) = Cardinality(body)
  PROVE  body = {token[p] : p \in {i \in found : PermExists(i)}}
<1>1. PICK f : f = [p \in found |-> token[p]]
  OBVIOUS
<1>2. \A p \in found : PermExists(p) /\ f[p] = token[p] /\ token[p] \in body
  BY <1>1 DEF PermExists
<1>3. f \in [found -> body]
  BY <1>1
<1>4. IsInjective(f)
  BY <1>1, <1>2 DEF IsInjective, TablesOK
<1>5. f \in Injection(found, body)
  BY <1>3, <1>4 DEF Injection
<1>6. f \in Surjection(found, body)
  BY <1>5, FS_Injection
<1>7. \A t \in body : \E p \in found : f[p] = t
  BY <1>6 DEF Surjection
<1> QED BY <1>2, <1>7

\* The pairs of a body are looked up: the rows to link are the ones that grant them.
LEMMA FindByPairsStep ==
  ASSUME AdminInv, NEW a \in Admins, FindByPairs(a)
  PROVE  AdminInv'
<1>1. PICK o \in Request : o = req[a]
  BY DEF AdminInv
<1>2. o.pc = "pairs" /\ RequestOK(o)
  BY <1>1 DEF FindByPairs, AdminInv
<1>3. \A c : ~Owes(req[a], c)
  BY <1>1, <1>2 DEF Owes, Linking
<1>4. CASE Reject(a)
  BY <1>3, <1>4, RejectStep
<1>5. PICK found : found = {p \in PermIds : token[p] \in o.body}
  OBVIOUS
<1>6. PICK pc : pc = IF o.op = "create_role" THEN "write" ELSE "guard"
  OBVIOUS
<1>7. PICK q : q = [o EXCEPT !.pc = pc, !.next = o.body, !.ids = found]
  OBVIOUS
<1>8. CASE Cardinality(found) = Cardinality(o.body) /\ Proceed(a, q)
  <2>1. o.op \in {"create_role", "update_role"} /\ o.op \in Ops
    BY <1>2 DEF RequestOK, Linking, Steps, Ops, RoleOps, PermOps
  <2>2. o.body \in SUBSET Tokens /\ IsFiniteSet(o.body)
    BY <1>2, InputsAssumption DEF RequestOK, Linking
  <2>3. pc \in {"write", "guard"} /\ (pc = "write" <=> o.op = "create_role")
    BY <1>6
  <2>4. q \in Request
    <3>1. o.body \in SUBSET Tokens /\ found \in SUBSET (RoleIds \cup PermIds)
      BY <1>5, <2>2
    <3>2. PICK next \in SUBSET Tokens : next = o.body
      BY <3>1
    <3>3. q = [o EXCEPT !.pc = pc, !.next = next, !.ids = found]
      BY <1>7, <3>2
    <3> QED BY <2>3, <3>1, <3>3, FieldsTyped DEF Pcs
  <2>5. /\ q.pc = pc /\ q.next = o.body /\ q.ids = found /\ q.op = o.op /\ q.user = o.user
        /\ q.id = o.id /\ q.name = o.name /\ q.seen = o.seen /\ q.body = o.body
    BY <1>7 DEF Request
  <2>6. q.pc \in Steps(q.op)
    BY <2>1, <2>3, <2>5 DEF Steps
  <2>7. RequestOK(q)
    BY <1>2, <1>5, <2>1, <2>3, <2>5, <2>6 DEF RequestOK, Linking
  <2>8. o.body = {token[p] : p \in {i \in found : PermExists(i)}}
    BY <1>5, <1>8, <2>2, AllPairsFound DEF AdminInv
  <2>9. GuardOK(q) /\ SawOK(q)
    BY <2>1, <2>3, <2>5, <2>8 DEF GuardOK, SawOK, Guarded
  <2> QED BY <1>3, <1>8, <2>4, <2>7, <2>9, ReadStep
<1> QED BY <1>1, <1>4, <1>5, <1>6, <1>7, <1>8 DEF FindByPairs

\* A request that finds a permission knows its pair.
LEMMA FindPermissionStep ==
  ASSUME AdminInv, NEW a \in Admins, FindPermission(a)
  PROVE  AdminInv'
<1>1. PICK o \in Request : o = req[a]
  BY DEF AdminInv
<1>2. o.pc = "find" /\ o.op \in {"update_perm", "delete_perm"} /\ RequestOK(o)
  BY <1>1 DEF FindPermission, AdminInv
<1>3. \A c : ~Owes(req[a], c)
  BY <1>1, <1>2 DEF Owes, Linking
<1>4. CASE Reject(a)
  BY <1>3, <1>4, RejectStep
<1>5. PICK q : q = [o EXCEPT !.pc = "guard", !.seen = token[o.id]]
  OBVIOUS
<1>6. CASE PermExists(o.id) /\ Proceed(a, q)
  <2>1. token[o.id] \in Tokens
    BY <1>6 DEF PermExists
  <2>2. q \in Request
    <3>1. "guard" \in Pcs
      BY DEF Pcs
    <3> QED BY <1>5, <2>1, <3>1, FieldsTyped
  <2>3. /\ q.pc = "guard" /\ q.seen = token[o.id] /\ q.op = o.op /\ q.user = o.user
        /\ q.id = o.id /\ q.tok = o.tok
    BY <1>5 DEF Request
  <2>4. q.pc \in Steps(q.op)
    BY <1>2, <2>3 DEF Steps
  <2>5. RequestOK(q)
    BY <1>2, <2>3, <2>4 DEF RequestOK, Linking
  <2>6. GuardOK(q) /\ SawOK(q)
    BY <1>2, <2>3 DEF GuardOK, SawOK
  <2> QED BY <1>3, <1>6, <2>2, <2>5, <2>6, ReadStep
<1> QED BY <1>1, <1>4, <1>5, <1>6 DEF FindPermission

\* Past the guard, with or without its answer.
LEMMA GuardSteps ==
  ASSUME AdminInv, NEW a \in Admins, Guard(a) \/ GuardFails(a)
  PROVE  AdminInv'
<1>1. PICK o \in Request : o = req[a]
  BY DEF AdminInv
<1>2. o.pc = "guard" /\ RequestOK(o) /\ GuardOK(o)
  BY <1>1 DEF Guard, GuardFails, AdminInv
<1>3. \A c : ~Owes(req[a], c)
  BY <1>1, <1>2 DEF Owes, Linking
<1>4. CASE Reject(a)
  BY <1>3, <1>4, RejectStep
<1>5. PICK pc : pc = IF o.op = "update_role" THEN "select" ELSE "write"
  OBVIOUS
<1>6. ASSUME NEW b \in BOOLEAN, NEW q, q = [o EXCEPT !.pc = pc, !.open = b],
             Proceed(a, q), b \/ ~WouldLockOut(o)
      PROVE  AdminInv'
  <2>1. pc \in {"select", "write"} /\ (pc = "select" <=> o.op = "update_role")
    BY <1>5
  <2>2. q \in Request
    BY <1>6, <2>1, FieldsTyped DEF Pcs
  <2>3. /\ q.pc = pc /\ q.open = b /\ q.op = o.op /\ q.user = o.user /\ q.id = o.id
        /\ q.tok = o.tok /\ q.seen = o.seen /\ q.next = o.next /\ q.ids = o.ids
        /\ q.raced = o.raced /\ q.body = o.body /\ q.name = o.name
    BY <1>6 DEF Request
  <2>4. o.op \in Guarded
    BY <1>2 DEF RequestOK, Linking, Steps, Ops, RoleOps, PermOps, Guarded
  <2>5. q.pc \in Steps(q.op)
    BY <2>1, <2>3, <2>4 DEF Steps, Guarded
  <2>6. RequestOK(q)
    BY <1>2, <2>1, <2>3, <2>4, <2>5 DEF RequestOK, Linking, Guarded
  <2>7. WouldLockOut(q) <=> WouldLockOut(o)
    BY <2>3 DEF WouldLockOut
  <2>8. GuardOK(q) /\ SawOK(q)
    BY <1>2, <1>6, <2>1, <2>3, <2>7 DEF GuardOK, SawOK
  <2> QED BY <1>3, <1>6, <2>2, <2>6, <2>8, ReadStep
<1>7. CASE Guard(a) /\ ~Reject(a)
  <2>1. PICK q : q = Guarding(o)
    OBVIOUS
  <2>2. Proceed(a, q) /\ ~WouldLockOut(o)
    BY <1>1, <1>7, <2>1 DEF Guard
  <2>3. q = [o EXCEPT !.pc = pc]
    BY <1>5, <2>1 DEF Guarding
  <2>4. q = [o EXCEPT !.pc = pc, !.open = o.open] /\ o.open \in BOOLEAN
    BY <2>3 DEF Request
  <2> QED BY <1>6, <2>2, <2>4
<1>8. CASE GuardFails(a)
  <2>1. PICK q : q = [Guarding(o) EXCEPT !.open = TRUE]
    OBVIOUS
  <2>2. Proceed(a, q)
    BY <1>1, <1>8, <2>1 DEF GuardFails
  <2>3. q = [o EXCEPT !.pc = pc, !.open = TRUE]
    BY <1>5, <2>1 DEF Guarding
  <2> QED BY <1>6, <2>2, <2>3
<1> QED BY <1>4, <1>7, <1>8

\* The row is read back: a handler whose row is gone panics, and somebody else owes what
\* it would have invalidated.
LEMMA RereadStep ==
  ASSUME AdminInv, NEW a \in Admins, Reread(a)
  PROVE  AdminInv'
<1>1. PICK o \in Request : o = req[a]
  BY DEF AdminInv
<1>2. o.pc = "reread" /\ RequestOK(o)
  BY <1>1 DEF Reread, AdminInv
<1> DEFINE there == \/ o.op = "update_role" /\ RoleExists(o.id)
                    \/ o.op = "update_perm" /\ PermExists(o.id)
<1>3. CASE ~there
  <2>1. Reject(a)
    BY <1>1, <1>3 DEF Reread
  <2>2. \A c : ~Owes(req[a], c)
    BY <1>1, <1>2, <1>3 DEF Owes, Linking
  <2> QED BY <2>1, <2>2, RejectStep
<1>4. CASE there
  <2>1. PICK q : q = [o EXCEPT !.pc = "invalidate"]
    OBVIOUS
  <2>2. Proceed(a, q)
    BY <1>1, <1>4, <2>1 DEF Reread, Invalidating
  <2>3. q \in Request
    BY <2>1 DEF Request
  <2>4. /\ q.pc = "invalidate" /\ q.op = o.op /\ q.user = o.user /\ q.id = o.id /\ q.tok = o.tok
        /\ q.body = o.body
    BY <2>1 DEF Request
  <2>5. RequestOK(q)
    BY <1>2, <1>4, <2>4 DEF RequestOK, Linking, Steps
  <2>6. GuardOK(q) /\ SawOK(q)
    BY <2>4 DEF GuardOK, SawOK
  <2>7. \A c : Owes(req[a], c) => Owes(q, c)
    BY <1>1, <2>4 DEF Owes, Linking
  <2>8. /\ req' = [req EXCEPT ![a] = q] /\ UNCHANGED <<tables, dirty, revived>>
        /\ started' \in 0 .. MaxRequests /\ failed' \in BOOLEAN /\ failed' = failed
    BY <2>2 DEF Proceed, AdminInv
  <2> QED BY <2>3, <2>5, <2>6, <2>7, <2>8, ProceedStep
<1> QED BY <1>3, <1>4

\* A failure is recorded.
LEMMA FailStep ==
  ASSUME AdminInv, NEW a \in Admins, Fail(a)
  PROVE  AdminInv'
<1>1. PICK q : q = Idle
  OBVIOUS
<1>2. q \in Request /\ RequestOK(q) /\ GuardOK(q) /\ SawOK(q)
  BY <1>1, IdleTyped, IdlePromises
<1>3. /\ req' = [req EXCEPT ![a] = q] /\ UNCHANGED <<tables, dirty, revived>>
      /\ started' \in 0 .. MaxRequests /\ failed' = TRUE
  BY <1>1 DEF Fail, AdminInv
<1> QED BY <1>2, <1>3, ProceedStep

\* An invalidation clears what its request owes, and no other request owes less.
LEMMA InvalidateStep ==
  ASSUME AdminInv, NEW a \in Admins, Invalidate(a)
  PROVE  AdminInv'
<1>1. UNCHANGED tables /\ failed' = failed /\ started' = started
  BY DEF Invalidate
<1>2. \A b \in Admins : req'[b] = IF b = a THEN Idle ELSE req[b]
  BY DEF AdminInv, Invalidate
<1>3. TablesOK'
  BY <1>1, SameTables DEF AdminInv
<1>4. req' \in [Admins -> Request] /\ (dirty \cup revived \subseteq Caches)'
  BY IdleTyped DEF AdminInv, Invalidate
<1>5. ASSUME NEW b \in Admins PROVE RequestOK(req[b])' /\ GuardOK(req[b])' /\ SawOK(req[b])'
  <2>1. PICK n : n = req'[b]
    OBVIOUS
  <2>2. RequestOK(n) /\ GuardOK(n) /\ SawOK(n)
    BY <1>2, <2>1, IdleTyped, IdlePromises DEF AdminInv
  <2>3. RequestOK(n)' /\ GuardOK(n)' /\ SawOK(n)'
    BY <1>1, <2>2, SameTables
  <2> QED BY <2>1, <2>3
<1>6. OwedOK'
  <2> SUFFICES ASSUME ~failed', NEW c \in (dirty \ revived)'
               PROVE  \E b \in Admins : Owes(req[b], c)'
    BY DEF OwedOK
  <2>1. c \in dirty \ revived /\ c \notin Invalidates(req[a].op, req[a].user)
    BY DEF Invalidate
  <2>2. PICK b \in Admins : Owes(req[b], c)
    BY <1>1, <2>1 DEF AdminInv, OwedOK
  <2>3. b # a
    BY <2>1, <2>2 DEF Owes, Linking
  <2>4. PICK n : n = req'[b]
    OBVIOUS
  <2>5. Owes(n, c)'
    <3>1. Owes(n, c)
      BY <1>2, <2>2, <2>3, <2>4
    <3> QED BY <1>1, <3>1, SameTables
  <2>6. Owes(req[b], c)'
    BY <2>4, <2>5
  <2> QED BY <2>6
<1> QED BY <1>1, <1>3, <1>4, <1>5, <1>6 DEF AdminInv

-----------------------------------------------------------------------------
(* Requests write.                                                         *)

\* What each cache shows.
LEMMA Views ==
  /\ View("users") = [u \in Users |-> {<<r, name[r]>> : r \in RolesOf(u)}]
  /\ View("roles") = [r \in RoleIds |-> IF RoleExists(r) THEN <<name[r], Granted(r)>> ELSE Nil]
  /\ View("permissions") = [p \in PermIds |-> IF PermExists(p) THEN token[p] ELSE Nil]
  /\ \A u \in Users : View(u) = PermissionsOf(u)
BY CachesAssumption DEF View, Lists

\* A change of roles does not show in the list of permissions.
LEMMA RoleChange ==
  ASSUME UNCHANGED token
  PROVE  Changed \subseteq Users \cup {"roles", "users"}
<1>1. View("permissions")' = View("permissions")
  <2>1. \A p : PermExists(p)' <=> PermExists(p)
    BY DEF PermExists
  <2>2. View("permissions")' = [p \in PermIds |-> IF PermExists(p)' THEN token'[p] ELSE Nil]
    BY CachesAssumption DEF View, Lists
  <2> QED BY <2>1, <2>2, Views
<1> QED BY <1>1 DEF Changed, Caches, Lists

\* A change of permissions does not show in the list of users.
LEMMA PermissionChange ==
  ASSUME UNCHANGED <<name, roles>>
  PROVE  Changed \subseteq Users \cup {"permissions", "roles"}
<1>1. View("users")' = View("users")
  <2>1. \A u : RolesOf(u)' = RolesOf(u)
    BY DEF RolesOf, RoleExists
  <2>2. View("users")' = [u \in Users |-> {<<r, name'[r]>> : r \in RolesOf(u)'}]
    BY CachesAssumption DEF View, Lists
  <2> QED BY <2>1, <2>2, Views
<1> QED BY <1>1 DEF Changed, Caches, Lists

\* A change of one user's roles shows in that user's permissions and in the list of users.
LEMMA AssignmentChange ==
  ASSUME UNCHANGED <<name, perms, token>>, NEW u, NEW rs, roles' = [roles EXCEPT ![u] = rs],
         roles \in [Users -> SUBSET RoleIds]
  PROVE  Changed \subseteq {u, "users"}
<1>1. \A r : RoleExists(r)' <=> RoleExists(r)
  BY DEF RoleExists
<1>2. \A p : PermExists(p)' <=> PermExists(p)
  BY DEF PermExists
<1>3. \A r : Granted(r)' = Granted(r)
  BY <1>2 DEF Granted
<1>4. View("permissions")' = View("permissions")
  <2>1. View("permissions")' = [p \in PermIds |-> IF PermExists(p)' THEN token'[p] ELSE Nil]
    BY CachesAssumption DEF View, Lists
  <2> QED BY <1>2, <2>1, Views
<1>5. View("roles")' = View("roles")
  <2>1. View("roles")' =
          [r \in RoleIds |-> IF RoleExists(r)' THEN <<name'[r], Granted(r)'>> ELSE Nil]
    BY CachesAssumption DEF View, Lists
  <2> QED BY <1>1, <1>3, <2>1, Views
<1>6. ASSUME NEW v \in Users, v # u PROVE View(v)' = View(v)
  <2>1. RolesOf(v)' = RolesOf(v)
    BY <1>1, <1>6 DEF RolesOf
  <2>2. PermissionsOf(v)' = PermissionsOf(v)
    BY <1>3, <2>1 DEF PermissionsOf
  <2>3. View(v)' = PermissionsOf(v)'
    BY CachesAssumption DEF View, Lists
  <2> QED BY <2>2, <2>3, Views
<1> QED BY <1>4, <1>5, <1>6 DEF Changed, Caches, Lists

\* As long as no row goes, every request owes what it owed.
LEMMA RowsStay ==
  ASSUME \A r \in RoleIds : RoleExists(r) => RoleExists(r)',
         \A p \in PermIds : PermExists(p) => PermExists(p)',
         NEW n, RequestOK(n), NEW c, Owes(n, c)
  PROVE  Owes(n, c)'
BY DEF Owes, Linking, RequestOK

\* A statement after which its request owes every cache it has changed.
LEMMA WriteStep ==
  ASSUME AdminInv, NEW a \in Admins, NEW q \in Request, Write(a, q), TablesOK',
         RequestOK(q), q.pc \notin {"guard", "write", "replace", "save"},
         q.pc = "select" => q.op \notin Guarded,
         \A c \in Changed : Owes(q, c)',
         \A c : Owes(req[a], c) => Owes(q, c)',
         \A n \in Request : \A c : RequestOK(n) /\ Owes(n, c) => Owes(n, c)' \/ Owes(q, c)'
  PROVE  AdminInv'
<1>1. Change(a, q) /\ revived' = revived /\ revived' \subseteq Caches
  BY DEF Write, AdminInv
<1> QED BY <1>1, ChangeStep

\* The same when rows may have come back: what that changes is revived.
LEMMA ReplacedStep ==
  ASSUME AdminInv, NEW a \in Admins, NEW q \in Request, NEW back \in BOOLEAN,
         Replaced(a, q, back), TablesOK',
         RequestOK(q), q.pc \notin {"guard", "write", "replace", "save"},
         q.pc = "select" => q.op \notin Guarded,
         \A r \in RoleIds : RoleExists(r) => RoleExists(r)',
         \A p \in PermIds : PermExists(p) => PermExists(p)',
         ~back => \A c \in Changed : Owes(q, c)',
         \A c : Owes(req[a], c) => Owes(q, c)'
  PROVE  AdminInv'
<1>1. Change(a, q) /\ revived' = IF back THEN revived \cup Changed ELSE revived
  BY DEF Replaced
<1>2. revived \subseteq revived' /\ revived' \subseteq Caches
  BY <1>1 DEF AdminInv, Changed
<1>3. \A c \in Changed : c \in revived' \/ Owes(q, c)'
  BY <1>1
<1>4. \A n \in Request : \A c : RequestOK(n) /\ Owes(n, c) => Owes(n, c)'
  BY RowsStay
<1> QED BY <1>1, <1>2, <1>3, <1>4, ChangeStep

-----------------------------------------------------------------------------
(* Rows are read, and inserted again.                                      *)

\* Rows that were read are rows of the table.
LEMMA RolesRead ==
  ASSUME TablesOK, NEW rs \in SUBSET RoleIds
  PROVE  /\ RoleRows(rs) \in SUBSET (RoleIds \X Names) /\ Distinct(RoleRows(rs))
         /\ \A x \in RoleRows(rs) : x[1] \in rs /\ RoleExists(x[1])
<1>1. ASSUME NEW x \in RoleRows(rs)
      PROVE  /\ x = <<x[1], name[x[1]]>> /\ x[2] = name[x[1]]
             /\ x[1] \in rs /\ RoleExists(x[1]) /\ name[x[1]] \in Names
  <2>1. PICK r \in rs : RoleExists(r) /\ x = <<r, name[r]>>
    BY <1>1 DEF RoleRows
  <2> QED BY <2>1 DEF RoleExists
<1>2. RoleRows(rs) \in SUBSET (RoleIds \X Names)
  BY <1>1
<1>3. Distinct(RoleRows(rs))
  <2> SUFFICES ASSUME NEW x \in RoleRows(rs), NEW y \in RoleRows(rs), x[1] = y[1] \/ x[2] = y[2]
               PROVE  x = y
    BY DEF Distinct
  <2>1. x[1] = y[1]
    BY <1>1 DEF TablesOK
  <2> QED BY <1>1, <2>1
<1> QED BY <1>1, <1>2, <1>3

LEMMA PermsRead ==
  ASSUME TablesOK, NEW ps \in SUBSET PermIds
  PROVE  /\ PermRows(ps) \in SUBSET (PermIds \X Tokens) /\ Distinct(PermRows(ps))
         /\ \A x \in PermRows(ps) : x[1] \in ps /\ PermExists(x[1])
         /\ Keys(PermRows(ps)) = {p \in ps : PermExists(p)}
<1>1. ASSUME NEW x \in PermRows(ps)
      PROVE  /\ x = <<x[1], token[x[1]]>> /\ x[2] = token[x[1]]
             /\ x[1] \in ps /\ PermExists(x[1]) /\ token[x[1]] \in Tokens
  <2>1. PICK p \in ps : PermExists(p) /\ x = <<p, token[p]>>
    BY <1>1 DEF PermRows
  <2> QED BY <2>1 DEF PermExists
<1>2. PermRows(ps) \in SUBSET (PermIds \X Tokens)
  BY <1>1
<1>3. Distinct(PermRows(ps))
  <2> SUFFICES ASSUME NEW x \in PermRows(ps), NEW y \in PermRows(ps), x[1] = y[1] \/ x[2] = y[2]
               PROVE  x = y
    BY DEF Distinct
  <2>1. x[1] = y[1]
    BY <1>1 DEF TablesOK
  <2> QED BY <1>1, <2>1
<1>4. Keys(PermRows(ps)) = {p \in ps : PermExists(p)}
  <2>1. ASSUME NEW p \in ps, PermExists(p) PROVE p \in Keys(PermRows(ps))
    <3>1. <<p, token[p]>> \in PermRows(ps) /\ <<p, token[p]>>[1] = p
      BY <2>1 DEF PermRows
    <3> QED BY <3>1 DEF Keys
  <2>2. \A p \in Keys(PermRows(ps)) : p \in ps /\ PermExists(p)
    BY <1>1 DEF Keys
  <2> QED BY <2>1, <2>2
<1> QED BY <1>1, <1>2, <1>3, <1>4

\* The keys of rows.
LEMMA KeysTyped ==
  /\ \A rows \in SUBSET (RoleIds \X Names) : Keys(rows) \in SUBSET RoleIds
  /\ \A rows \in SUBSET (PermIds \X Tokens) : Keys(rows) \in SUBSET PermIds
BY DEF Keys

\* Rows that are inserted again leave those that are there alone, and the column unique.
LEMMA UpsertedTable ==
  ASSUME NEW K, NEW V, Nil \notin V, Gone \notin V, NEW table \in [K -> V \cup {Nil, Gone}],
         \A j, k \in K : table[j] \in V /\ table[j] = table[k] => j = k,
         NEW rows \in SUBSET (K \X V), Distinct(rows), NEW new, new = Upserted(table, rows)
  PROVE  /\ new \in [K -> V \cup {Nil, Gone}]
         /\ \A k \in K : table[k] \in V => new[k] = table[k]
         /\ \A j, k \in K : new[j] \in V /\ new[j] = new[k] => j = k
         /\ (\A x \in rows : table[x[1]] \in V) => new = table
<1>1. DOMAIN table = K /\ new = [k \in K |-> new[k]]
  BY DEF Upserted
<1>2. ASSUME NEW k \in K
      PROVE  \/ new[k] = table[k]
             \/ /\ table[k] \notin V
                /\ \E x \in rows : x[1] = k /\ new[k] = x[2] /\ \A j \in K : table[j] # x[2]
  <2>1. CASE table[k] \in {Nil, Gone} /\ \E x \in rows : x[1] = k /\ \A j \in K : table[j] # x[2]
    <3>1. PICK x \in rows : x[1] = k /\ \A j \in K : table[j] # x[2]
      BY <2>1
    <3>2. PICK y : y = CHOOSE z \in rows : z[1] = k
      OBVIOUS
    <3>3. y \in rows /\ y[1] = k
      BY <3>1, <3>2
    <3>4. y = x
      BY <3>1, <3>3 DEF Distinct
    <3>5. new[k] = y[2]
      BY <1>1, <2>1, <3>2 DEF Upserted
    <3> QED BY <2>1, <3>1, <3>4, <3>5
  <2>2. CASE ~(table[k] \in {Nil, Gone} /\ \E x \in rows : x[1] = k /\ \A j \in K : table[j] # x[2])
    BY <1>1, <2>2 DEF Upserted
  <2> QED BY <2>1, <2>2
<1>3. \A x \in rows : x[1] \in K /\ x[2] \in V
  OBVIOUS
<1>4. new \in [K -> V \cup {Nil, Gone}]
  <2>1. \A k \in K : new[k] \in V \cup {Nil, Gone}
    BY <1>2, <1>3
  <2> QED BY <1>1, <2>1
<1>5. \A k \in K : table[k] \in V => new[k] = table[k]
  BY <1>2
<1>6. ASSUME NEW j \in K, NEW k \in K, new[j] \in V, new[j] = new[k] PROVE j = k
  <2>1. CASE new[j] = table[j] /\ new[k] = table[k]
    BY <1>6, <2>1
  <2>2. CASE new[j] = table[j] /\ new[k] # table[k]
    <3>1. PICK x \in rows : new[k] = x[2] /\ \A i \in K : table[i] # x[2]
      BY <1>2, <2>2
    <3> QED BY <1>6, <2>2, <3>1
  <2>3. CASE new[j] # table[j] /\ new[k] = table[k]
    BY <1>2, <1>6, <2>3
  <2>4. CASE new[j] # table[j] /\ new[k] # table[k]
    BY <1>2, <1>6, <2>4 DEF Distinct
  <2> QED BY <2>1, <2>2, <2>3, <2>4
<1>7. ASSUME \A x \in rows : table[x[1]] \in V PROVE new = table
  <2>1. \A k \in K : new[k] = table[k]
    BY <1>2, <1>7
  <2> QED BY <1>1, <2>1
<1> QED BY <1>4, <1>5, <1>6, <1>7

\* Roles that come back.
LEMMA RolesBack ==
  ASSUME TablesOK, NEW rows \in SUBSET (RoleIds \X Names), Distinct(rows),
         name' = Upserted(name, rows)
  PROVE  /\ name' \in [RoleIds -> Names \cup {Nil, Gone}]
         /\ \A r \in RoleIds : RoleExists(r) => RoleExists(r)' /\ name'[r] = name[r]
         /\ \A r, s \in RoleIds : RoleExists(r)' /\ name'[r] = name'[s] => r = s
         /\ "admin" \in ProtectedRoles => name'[1] = "admin"
         /\ "user" \in ProtectedRoles => name'[2] = "user"
         /\ (\A x \in rows : RoleExists(x[1])) => name' = name
<1>1. /\ Nil \notin Names /\ Gone \notin Names /\ name \in [RoleIds -> Names \cup {Nil, Gone}]
      /\ \A j, k \in RoleIds : name[j] \in Names /\ name[j] = name[k] => j = k
  BY NamesAssumption DEF TablesOK, RoleExists
<1>2. /\ name' \in [RoleIds -> Names \cup {Nil, Gone}]
      /\ \A r \in RoleIds : name[r] \in Names => name'[r] = name[r]
      /\ \A r, s \in RoleIds : name'[r] \in Names /\ name'[r] = name'[s] => r = s
      /\ (\A x \in rows : name[x[1]] \in Names) => name' = name
  BY <1>1, UpsertedTable
<1>3. /\ "admin" \in ProtectedRoles => name'[1] = "admin"
      /\ "user" \in ProtectedRoles => name'[2] = "user"
  BY <1>2, NamesAssumption, KeysAssumption DEF TablesOK, SeedRoles
<1> QED BY <1>2, <1>3 DEF RoleExists

\* Permissions that come back.
LEMMA PermsBack ==
  ASSUME TablesOK, NEW rows \in SUBSET (PermIds \X Tokens), Distinct(rows),
         token' = Upserted(token, rows)
  PROVE  /\ token' \in [PermIds -> Tokens \cup {Nil, Gone}]
         /\ \A p \in PermIds : PermExists(p) => PermExists(p)' /\ token'[p] = token[p]
         /\ \A p, q \in PermIds : PermExists(p)' /\ token'[p] = token'[q] => p = q
         /\ (\A x \in rows : PermExists(x[1])) => token' = token
<1>1. /\ Nil \notin Tokens /\ Gone \notin Tokens /\ token \in [PermIds -> Tokens \cup {Nil, Gone}]
      /\ \A j, k \in PermIds : token[j] \in Tokens /\ token[j] = token[k] => j = k
  BY TokensAssumption DEF TablesOK, PermExists
<1>2. /\ token' \in [PermIds -> Tokens \cup {Nil, Gone}]
      /\ \A p \in PermIds : token[p] \in Tokens => token'[p] = token[p]
      /\ \A p, q \in PermIds : token'[p] \in Tokens /\ token'[p] = token'[q] => p = q
      /\ (\A x \in rows : token[x[1]] \in Tokens) => token' = token
  BY <1>1, UpsertedTable
<1> QED BY <1>2 DEF PermExists

\* A request that goes on after a read, and owes what it owed.
LEMMA SelectStep ==
  ASSUME AdminInv, NEW a \in Admins, NEW q \in Request, Proceed(a, q),
         RequestOK(q), GuardOK(q), SawOK(q), \A c : Owes(req[a], c) => Owes(q, c)
  PROVE  AdminInv'
<1>1. /\ req' = [req EXCEPT ![a] = q] /\ UNCHANGED <<tables, dirty, revived>>
      /\ started' \in 0 .. MaxRequests /\ failed' \in BOOLEAN /\ failed' = failed
  BY DEF Proceed, AdminInv
<1> QED BY <1>1, ProceedStep

\* SetRoles reads the roles.
LEMMA FindRolesStep ==
  ASSUME AdminInv, NEW a \in Admins, FindRoles(a)
  PROVE  AdminInv'
<1>1. PICK o \in Request : o = req[a]
  BY DEF AdminInv
<1>2. o.pc = "select" /\ o.op = "set_roles" /\ RequestOK(o) /\ TablesOK
  BY <1>1 DEF FindRoles, AdminInv
<1>3. PICK rows : rows = RoleRows(o.ids)
  OBVIOUS
<1>4. rows \in SUBSET (RoleIds \X Names) /\ Distinct(rows)
  BY <1>2, <1>3, RolesRead DEF RequestOK, Linking
<1>5. PICK q : q = [o EXCEPT !.pc = "replace", !.rows = rows]
  OBVIOUS
<1>6. Proceed(a, q)
  BY <1>1, <1>3, <1>5 DEF FindRoles
<1>7. q \in Request
  BY <1>4, <1>5, FieldsTyped DEF Pcs
<1>8. q.pc = "replace" /\ q.op = o.op /\ q.user = o.user /\ q.ids = o.ids /\ q.rows = rows
  BY <1>5 DEF Request
<1>9. RequestOK(q)
  BY <1>2, <1>8 DEF RequestOK, Linking, Steps
<1>10. GuardOK(q) /\ SawOK(q)
  BY <1>2, <1>4, <1>8 DEF GuardOK, Guarded, SawOK
<1>11. \A c : ~Owes(req[a], c)
  BY <1>1, <1>2 DEF Owes, Linking
<1> QED BY <1>6, <1>7, <1>9, <1>10, <1>11, ReadStep

\* SetUserRoles replaces the roles of one user.
LEMMA SetUserRolesStep ==
  ASSUME AdminInv, NEW a \in Admins, SetUserRoles(a)
  PROVE  AdminInv'
<1>1. PICK o \in Request : o = req[a]
  BY DEF AdminInv
<1>2. o.pc = "replace" /\ o.op = "set_roles" /\ RequestOK(o) /\ SawOK(o) /\ TablesOK
  BY <1>1 DEF SetUserRoles, Writes, AdminInv
<1>3. PICK rs : rs = Keys(o.rows)
  OBVIOUS
<1>4. /\ roles' = [roles EXCEPT ![o.user] = rs] /\ UNCHANGED <<perms, token>>
      /\ name' = Upserted(name, o.rows)
  BY <1>1, <1>3 DEF SetUserRoles
<1>5. PICK q : q = [o EXCEPT !.pc = "invalidate"]
  OBVIOUS
<1>6. PICK back \in BOOLEAN : back = (name' # name)
  OBVIOUS
<1>7. Replaced(a, q, back)
  BY <1>1, <1>5, <1>6 DEF SetUserRoles, Invalidating
<1>8. q \in Request
  BY <1>5 DEF Request
<1>9. q.pc = "invalidate" /\ q.op = o.op /\ q.user = o.user /\ q.ids = o.ids
  BY <1>5 DEF Request
<1>10. RequestOK(q)
  BY <1>2, <1>9 DEF RequestOK, Linking, Steps
<1>11. o.rows \in SUBSET (RoleIds \X Names) /\ Distinct(o.rows)
  BY <1>2 DEF Request, SawOK
<1>12. rs \in SUBSET RoleIds /\ roles \in [Users -> SUBSET RoleIds]
  BY <1>2, <1>3, <1>11, KeysTyped DEF TablesOK
<1>13. /\ name' \in [RoleIds -> Names \cup {Nil, Gone}]
       /\ \A r \in RoleIds : RoleExists(r) => RoleExists(r)' /\ name'[r] = name[r]
       /\ \A r, s \in RoleIds : RoleExists(r)' /\ name'[r] = name'[s] => r = s
       /\ "admin" \in ProtectedRoles => name'[1] = "admin"
       /\ "user" \in ProtectedRoles => name'[2] = "user"
  BY <1>2, <1>4, <1>11, RolesBack
<1>14. \A p \in PermIds : PermExists(p) => PermExists(p)'
  BY <1>4 DEF PermExists
<1>15. TablesOK'
  BY <1>2, <1>4, <1>12, <1>13 DEF TablesOK, PermExists
<1>16. ~back => Changed \subseteq {o.user, "users"}
  BY <1>4, <1>6, <1>12, AssignmentChange
<1>17. \A c \in {o.user, "users"} : Owes(q, c)'
  BY <1>2, <1>9 DEF Owes, Linking, Invalidates, RoleOps, PermOps
<1>18. \A c : ~Owes(req[a], c)
  BY <1>1, <1>2 DEF Owes, Linking
<1> QED BY <1>7, <1>8, <1>9, <1>10, <1>13, <1>14, <1>15, <1>16, <1>17, <1>18, ReplacedStep

\* The tables after one role has a new name, and perhaps new permissions, some of which came
\* back.
LEMMA RoleWritten ==
  ASSUME TablesOK, NEW r \in RoleIds, ~Seed(r), NEW n \in Names \cup {Gone},
         n \in Names => \A s \in RoleIds : s # r => name[s] # n,
         name' = [name EXCEPT ![r] = n],
         NEW ps \in SUBSET PermIds, perms' = [perms EXCEPT ![r] = ps] \/ perms' = perms,
         token' \in [PermIds -> Tokens \cup {Nil, Gone}],
         \A p, q \in PermIds : PermExists(p)' /\ token'[p] = token'[q] => p = q,
         UNCHANGED roles
  PROVE  /\ TablesOK'
         /\ \A s \in RoleIds : s # r \/ n \in Names => (RoleExists(s) => RoleExists(s)')
<1>1. \A s \in RoleIds : name'[s] = IF s = r THEN n ELSE name[s]
  BY DEF TablesOK
<1>2. name' \in [RoleIds -> Names \cup {Nil, Gone}]
  BY DEF TablesOK
<1>3. perms' \in [RoleIds -> SUBSET PermIds]
  BY DEF TablesOK
<1>4. \A s \in RoleIds : RoleExists(s)' <=> (IF s = r THEN n \in Names ELSE RoleExists(s))
  BY <1>1 DEF RoleExists
<1>5. ASSUME NEW s \in RoleIds, NEW t \in RoleIds, RoleExists(s)', name'[s] = name'[t] PROVE s = t
  <2>1. name'[s] \in Names
    BY <1>5 DEF RoleExists
  <2>2. CASE s = r \/ t = r
    BY <1>1, <1>5, <2>1, <2>2
  <2>3. CASE s # r /\ t # r
    BY <1>1, <1>5, <2>1, <2>3 DEF TablesOK, RoleExists
  <2> QED BY <2>2, <2>3
<1>6. ("admin" \in ProtectedRoles => name'[1] = "admin") /\ ("user" \in ProtectedRoles => name'[2] = "user")
  BY <1>1, KeysAssumption DEF TablesOK, Seed
<1>7. TablesOK'
  BY <1>2, <1>3, <1>5, <1>6 DEF TablesOK
<1> QED BY <1>4, <1>7

\* Permissions that nobody writes stay as they are.
LEMMA TokensStay ==
  ASSUME TablesOK, UNCHANGED token
  PROVE  /\ token' \in [PermIds -> Tokens \cup {Nil, Gone}]
         /\ \A p, q \in PermIds : PermExists(p)' /\ token'[p] = token'[q] => p = q
         /\ \A p \in PermIds : PermExists(p) => PermExists(p)'
BY DEF TablesOK, PermExists

\* A role that does not exist is no protected seed.
LEMMA SeedsExist ==
  ASSUME TablesOK, NEW r \in RoleIds, Seed(r)
  PROVE  RoleExists(r) /\ name[r] \in SeedRoles \cap ProtectedRoles
BY NamesAssumption DEF TablesOK, Seed, RoleExists, SeedRoles

\* What the requests of each kind invalidate.
LEMMA InvalidatesKinds ==
  ASSUME NEW u
  PROVE  /\ Invalidates("set_roles", u) = {u, "users"}
         /\ \A op \in RoleOps : Invalidates(op, u) = Users \cup {"roles", "users"}
         /\ \A op \in PermOps : Invalidates(op, u) = Users \cup {"permissions", "roles"}
         /\ Invalidates("sync", u) = Caches
BY DEF Invalidates, RoleOps, PermOps

\* A request that has written a role owes the caches that show roles.
LEMMA RoleRequestOwes ==
  ASSUME NEW q, q.op \in RoleOps, q.pc = "invalidate" \/ Linking(q)
  PROVE  \A c \in Users \cup {"roles", "users"} : Owes(q, c)'
<1>1. Invalidates(q.op, q.user) = Users \cup {"roles", "users"}
  BY InvalidatesKinds
<1> QED BY <1>1 DEF Owes, Linking

\* A new role takes a name that nobody has.
LEMMA CreateRoleStep ==
  ASSUME AdminInv, NEW a \in Admins, CreateRole(a)
  PROVE  AdminInv'
<1>1. PICK o \in Request : o = req[a]
  BY DEF AdminInv
<1>2. o.pc = "write" /\ o.op = "create_role" /\ RequestOK(o)
  BY <1>1 DEF CreateRole, Writes, AdminInv
<1>3. \A c : ~Owes(req[a], c)
  BY <1>1, <1>2 DEF Owes, Linking
<1>4. CASE Reject(a)
  BY <1>3, <1>4, RejectStep
<1>5. PICK pc : pc = IF o.ids = {} THEN "invalidate" ELSE "select"
  OBVIOUS
<1>6. ASSUME NEW r \in RoleIds, ~NameTaken(o.name, Nil), name[r] = Nil,
             name' = [name EXCEPT ![r] = o.name], UNCHANGED <<perms, token, roles>>,
             NEW q, q = [o EXCEPT !.pc = pc, !.id = r], Write(a, q)
      PROVE  AdminInv'
  <2>1. pc \in {"invalidate", "select"}
    BY <1>5
  <2>2. q \in Request
    BY <1>6, <2>1, FieldsTyped DEF Pcs
  <2>3. /\ q.pc = pc /\ q.id = r /\ q.op = o.op /\ q.user = o.user /\ q.name = o.name
        /\ q.ids = o.ids
    BY <1>6 DEF Request
  <2>4. ~Seed(r)
    BY <1>6, SeedsExist, NamesAssumption DEF RoleExists, AdminInv
  <2>5. RequestOK(q)
    BY <1>2, <2>1, <2>3, <2>4 DEF RequestOK, Linking, Steps
  <2>6. o.name \in Names /\ \A s \in RoleIds : name[s] # o.name
    BY <1>2, <1>6, KeysAssumption DEF NameTaken, RequestOK, Linking
  <2>7. /\ TablesOK'
        /\ \A p \in PermIds : PermExists(p) => PermExists(p)'
        /\ \A s \in RoleIds : RoleExists(s) => RoleExists(s)'
    <3>1. TablesOK /\ o.name \in Names \cup {Gone} /\ {} \in SUBSET PermIds
      BY <2>6 DEF AdminInv
    <3> QED BY <1>6, <2>4, <2>6, <3>1, TokensStay, RoleWritten
  <2>8. \A c \in Changed : Owes(q, c)'
    <3>1. q.op \in RoleOps /\ (q.pc = "invalidate" \/ Linking(q))
      BY <1>2, <2>1, <2>3 DEF RoleOps, Linking
    <3>2. Changed \subseteq Users \cup {"roles", "users"}
      BY <1>6, RoleChange
    <3> QED BY <3>1, <3>2, RoleRequestOwes
  <2>9. \A n \in Request : \A c : RequestOK(n) /\ Owes(n, c) => Owes(n, c)'
    BY <2>7, RowsStay
  <2>10. q.pc \notin {"guard", "write", "replace", "save"} /\ q.op \notin Guarded
    BY <1>2, <2>1, <2>3 DEF Guarded
  <2> QED BY <1>3, <1>6, <2>2, <2>5, <2>7, <2>8, <2>9, <2>10, WriteStep
<1> QED BY <1>1, <1>4, <1>5, <1>6 DEF CreateRole

\* The permissions to link are read.
LEMMA FindPermissionsStep ==
  ASSUME AdminInv, NEW a \in Admins, FindPermissions(a)
  PROVE  AdminInv'
<1>1. PICK o \in Request : o = req[a]
  BY DEF AdminInv
<1>2. /\ o.pc = "select" /\ o.op \in {"create_role", "update_role"} /\ RequestOK(o) /\ GuardOK(o)
      /\ TablesOK
  BY <1>1 DEF FindPermissions, AdminInv
<1>3. PICK pairs : pairs = PermRows(o.ids)
  OBVIOUS
<1>4. pairs \in SUBSET (PermIds \X Tokens) /\ Distinct(pairs)
  BY <1>2, <1>3, PermsRead DEF RequestOK
<1>5. PICK q : q = [o EXCEPT !.pc = "replace", !.pairs = pairs]
  OBVIOUS
<1>6. Proceed(a, q)
  BY <1>1, <1>3, <1>5 DEF FindPermissions
<1>7. q \in Request
  BY <1>4, <1>5, FieldsTyped DEF Pcs
<1>8. /\ q.pc = "replace" /\ q.pairs = pairs /\ q.op = o.op /\ q.user = o.user /\ q.id = o.id
      /\ q.name = o.name /\ q.seen = o.seen /\ q.next = o.next /\ q.ids = o.ids /\ q.body = o.body
      /\ q.raced = o.raced /\ q.open = o.open /\ q.tok = o.tok
  BY <1>5 DEF Request
<1>9. RequestOK(q)
  BY <1>2, <1>8 DEF RequestOK, Linking, Steps
<1>10. GuardOK(q)
  <2>1. WouldLockOut(q) <=> WouldLockOut(o)
    BY <1>8 DEF WouldLockOut
  <2> QED BY <1>2, <1>3, <1>8, <2>1 DEF GuardOK
<1>11. SawOK(q)
  BY <1>2, <1>4, <1>8 DEF SawOK
<1>12. \A c : Owes(req[a], c) => Owes(q, c)
  BY <1>1, <1>2, <1>8 DEF Owes, Linking
<1> QED BY <1>6, <1>7, <1>9, <1>10, <1>11, <1>12, SelectStep

\* Then they are linked to the new role.
LEMMA AttachStep ==
  ASSUME AdminInv, NEW a \in Admins, Attach(a)
  PROVE  AdminInv'
<1>1. PICK o \in Request : o = req[a]
  BY DEF AdminInv
<1>2. o.pc = "replace" /\ o.op = "create_role" /\ RequestOK(o) /\ SawOK(o) /\ TablesOK
  BY <1>1 DEF Attach, AdminInv
<1>3. o.pairs \in SUBSET (PermIds \X Tokens) /\ Distinct(o.pairs) /\ o.id \in RoleIds
  BY <1>2 DEF Request, SawOK, RequestOK, Linking
<1>4. PICK ps : ps = Keys(o.pairs)
  OBVIOUS
<1>5. ps \in SUBSET PermIds
  BY <1>3, <1>4, KeysTyped
<1>6. /\ perms' = [perms EXCEPT ![o.id] = ps] /\ UNCHANGED <<name, roles>>
      /\ token' = Upserted(token, o.pairs)
  BY <1>1, <1>4 DEF Attach
<1>7. PICK q : q = [o EXCEPT !.pc = "invalidate"]
  OBVIOUS
<1>8. PICK back \in BOOLEAN : back = (token' # token)
  OBVIOUS
<1>9. Replaced(a, q, back)
  BY <1>1, <1>7, <1>8 DEF Attach, Invalidating
<1>10. q \in Request
  BY <1>7 DEF Request
<1>11. /\ q.pc = "invalidate" /\ q.op = o.op /\ q.user = o.user /\ q.name = o.name
  BY <1>7 DEF Request
<1>12. RequestOK(q)
  BY <1>2, <1>11 DEF RequestOK, Linking, Steps
<1>13. /\ token' \in [PermIds -> Tokens \cup {Nil, Gone}]
       /\ \A p \in PermIds : PermExists(p) => PermExists(p)' /\ token'[p] = token[p]
       /\ \A p, i \in PermIds : PermExists(p)' /\ token'[p] = token'[i] => p = i
  BY <1>2, <1>3, <1>6, PermsBack
<1>14. TablesOK'
  BY <1>2, <1>5, <1>6, <1>13 DEF TablesOK, RoleExists
<1>15. ~back => \A c \in Changed : Owes(q, c)'
  <2>1. \A c \in Users \cup {"roles", "users"} : Owes(q, c)'
    BY <1>2, <1>11, RoleRequestOwes DEF RoleOps
  <2>2. ~back => Changed \subseteq Users \cup {"roles", "users"}
    BY <1>8, RoleChange
  <2> QED BY <2>1, <2>2
<1>16. \A r \in RoleIds : RoleExists(r) => RoleExists(r)'
  BY <1>6 DEF RoleExists
<1>17. \A c : Owes(req[a], c) => Owes(q, c)'
  <2>1. \A c : Owes(o, c) => c \in Users \cup {"roles", "users"}
    BY <1>2, InvalidatesKinds DEF Owes, Linking, RoleOps
  <2>2. \A c \in Users \cup {"roles", "users"} : Owes(q, c)'
    BY <1>2, <1>11, RoleRequestOwes DEF RoleOps
  <2> QED BY <1>1, <2>1, <2>2
<1> QED BY <1>9, <1>10, <1>11, <1>12, <1>13, <1>14, <1>15, <1>16, <1>17, ReplacedStep

\* A role is renamed and its permissions are replaced.
LEMMA UpdateRoleStep ==
  ASSUME AdminInv, NEW a \in Admins, UpdateRole(a)
  PROVE  AdminInv'
<1>1. PICK o \in Request : o = req[a]
  BY DEF AdminInv
<1>2. o.pc = "replace" /\ o.op = "update_role" /\ RequestOK(o) /\ SawOK(o) /\ TablesOK
  BY <1>1 DEF UpdateRole, Writes, AdminInv
<1>3. \A c : ~Owes(req[a], c)
  BY <1>1, <1>2 DEF Owes, Linking
<1>4. CASE Reject(a)
  BY <1>3, <1>4, RejectStep
<1>5. PICK n : n = IF o.name = Nil THEN o.seen ELSE o.name
  OBVIOUS
<1>6. PICK ps : ps = Keys(o.pairs)
  OBVIOUS
<1>7. PICK q : q = [o EXCEPT !.pc = "reread"]
  OBVIOUS
<1>8. PICK back \in BOOLEAN : back = (token' # token)
  OBVIOUS
<1>9. CASE /\ RoleExists(o.id) /\ ~NameTaken(n, o.id) /\ name' = [name EXCEPT ![o.id] = n]
           /\ perms' = [perms EXCEPT ![o.id] = ps] /\ token' = Upserted(token, o.pairs)
           /\ UNCHANGED roles /\ Replaced(a, q, back)
  <2>1. q \in Request
    BY <1>7 DEF Request
  <2>2. q.pc = "reread" /\ q.op = o.op /\ q.user = o.user /\ q.id = o.id /\ q.body = o.body
    BY <1>7 DEF Request
  <2>3. n \in Names
    BY <1>2, <1>5 DEF Request, RequestOK
  <2>4. /\ o.pairs \in SUBSET (PermIds \X Tokens) /\ Distinct(o.pairs)
        /\ o.id \in RoleIds /\ ~Seed(o.id)
    BY <1>2 DEF Request, SawOK, RequestOK
  <2>5. ps \in SUBSET PermIds
    BY <1>6, <2>4, KeysTyped
  <2>6. RequestOK(q)
    BY <1>2, <2>2, <2>4 DEF RequestOK, Linking, Steps
  <2>7. \A s \in RoleIds : s # o.id => name[s] # n
    BY <1>9 DEF NameTaken
  <2>8. /\ token' \in [PermIds -> Tokens \cup {Nil, Gone}]
        /\ \A p \in PermIds : PermExists(p) => PermExists(p)' /\ token'[p] = token[p]
        /\ \A p, i \in PermIds : PermExists(p)' /\ token'[p] = token'[i] => p = i
    BY <1>2, <1>9, <2>4, PermsBack
  <2>9. TablesOK' /\ \A s \in RoleIds : RoleExists(s) => RoleExists(s)'
    <3>1. TablesOK /\ n \in Names \cup {Gone}
      BY <1>2, <2>3
    <3> QED BY <1>9, <2>3, <2>4, <2>5, <2>7, <2>8, <3>1, RoleWritten
  <2>10. \A c \in Users \cup {"roles", "users"} : Owes(q, c)'
    <3>1. Invalidates(q.op, q.user) = Users \cup {"roles", "users"}
      BY <1>2, <2>2, InvalidatesKinds DEF RoleOps
    <3>2. q.op = "update_role" /\ RoleExists(q.id)'
      BY <1>2, <1>9, <2>2, <2>4, <2>9
    <3> QED BY <2>2, <3>1, <3>2 DEF Owes, Linking
  <2>11. ~back => \A c \in Changed : Owes(q, c)'
    BY <1>8, <2>10, RoleChange
  <2> QED BY <1>3, <1>9, <2>1, <2>2, <2>6, <2>8, <2>9, <2>11, ReplacedStep
<1> QED BY <1>1, <1>4, <1>5, <1>6, <1>7, <1>8, <1>9 DEF UpdateRole, Rereading

\* A role is deleted; who was about to read it back is spared, because the deletion owes
\* the same caches.
LEMMA DeleteRoleStep ==
  ASSUME AdminInv, NEW a \in Admins, DeleteRole(a)
  PROVE  AdminInv'
<1>1. PICK o \in Request : o = req[a]
  BY DEF AdminInv
<1>2. o.pc = "write" /\ o.op = "delete_role" /\ RequestOK(o)
  BY <1>1 DEF DeleteRole, Writes, AdminInv
<1>3. \A c : ~Owes(req[a], c)
  BY <1>1, <1>2 DEF Owes, Linking
<1>4. CASE Reject(a)
  BY <1>3, <1>4, RejectStep
<1>5. PICK q : q = [o EXCEPT !.pc = "invalidate"]
  OBVIOUS
<1>6. CASE /\ RoleExists(o.id) /\ name' = [name EXCEPT ![o.id] = Gone]
           /\ UNCHANGED <<perms, token, roles>> /\ Write(a, q)
  <2>1. q \in Request
    BY <1>5 DEF Request
  <2>2. q.pc = "invalidate" /\ q.op = o.op /\ q.user = o.user /\ q.id = o.id
    BY <1>5 DEF Request
  <2>3. o.id \in RoleIds /\ ~Seed(o.id)
    BY <1>2 DEF RequestOK, Linking
  <2>4. RequestOK(q)
    BY <1>2, <2>2, <2>3 DEF RequestOK, Linking, Steps
  <2>5. /\ TablesOK'
        /\ \A p \in PermIds : PermExists(p) => PermExists(p)'
    <3>1. TablesOK /\ Gone \in Names \cup {Gone} /\ Gone \notin Names /\ {} \in SUBSET PermIds
      BY NamesAssumption DEF AdminInv
    <3> QED BY <1>6, <2>3, <3>1, TokensStay, RoleWritten
  <2>6. \A c \in Users \cup {"roles", "users"} : Owes(q, c)'
    BY <1>2, <2>2, RoleRequestOwes DEF RoleOps
  <2>7. \A c \in Changed : Owes(q, c)'
    BY <1>6, <2>6, RoleChange
  <2>8. ASSUME NEW n \in Request, NEW c, RequestOK(n), Owes(n, c)
        PROVE  Owes(n, c)' \/ Owes(q, c)'
    <3>1. CASE n.pc = "reread" /\ n.op = "update_role"
      <4>1. c \in Users \cup {"roles", "users"}
        BY <2>8, <3>1, InvalidatesKinds DEF Owes, Linking, RoleOps
      <4> QED BY <2>6, <4>1
    <3>2. CASE ~(n.pc = "reread" /\ n.op = "update_role")
      BY <2>5, <2>8, <3>2 DEF Owes, Linking, RequestOK
    <3> QED BY <3>1, <3>2
  <2> QED BY <1>3, <1>6, <2>1, <2>2, <2>4, <2>5, <2>7, <2>8, WriteStep
<1> QED BY <1>1, <1>4, <1>5, <1>6 DEF DeleteRole, Invalidating

\* The tables after one permission has a new pair.
LEMMA PermissionWritten ==
  ASSUME TablesOK, NEW p \in PermIds, NEW t \in Tokens \cup {Gone},
         t \in Tokens => \A s \in PermIds : s # p => token[s] # t,
         token' = [token EXCEPT ![p] = t], UNCHANGED <<name, perms, roles>>
  PROVE  /\ TablesOK'
         /\ \A r \in RoleIds : RoleExists(r) => RoleExists(r)'
         /\ \A s \in PermIds : s # p \/ t \in Tokens => (PermExists(s) => PermExists(s)')
<1>1. \A s \in PermIds : token'[s] = IF s = p THEN t ELSE token[s]
  BY DEF TablesOK
<1>2. token' \in [PermIds -> Tokens \cup {Nil, Gone}]
  BY DEF TablesOK
<1>3. \A r : RoleExists(r)' <=> RoleExists(r)
  BY DEF RoleExists
<1>4. \A s \in PermIds : PermExists(s)' <=> (IF s = p THEN t \in Tokens ELSE PermExists(s))
  BY <1>1 DEF PermExists
<1>5. ASSUME NEW s \in PermIds, NEW u \in PermIds, PermExists(s)', token'[s] = token'[u] PROVE s = u
  <2>1. token'[s] \in Tokens
    BY <1>5 DEF PermExists
  <2>2. CASE s = p \/ u = p
    BY <1>1, <1>5, <2>1, <2>2
  <2>3. CASE s # p /\ u # p
    BY <1>1, <1>5, <2>1, <2>3 DEF TablesOK, PermExists
  <2> QED BY <2>2, <2>3
<1>6. (\A r, s \in RoleIds : RoleExists(r) /\ name[r] = name[s] => r = s)'
  BY <1>3 DEF TablesOK
<1>7. TablesOK'
  BY <1>2, <1>5, <1>6 DEF TablesOK
<1> QED BY <1>3, <1>4, <1>7

\* A new permission takes a pair that nobody has.
LEMMA CreatePermissionStep ==
  ASSUME AdminInv, NEW a \in Admins, CreatePermission(a)
  PROVE  AdminInv'
<1>1. PICK o \in Request : o = req[a]
  BY DEF AdminInv
<1>2. o.pc = "write" /\ o.op = "create_perm" /\ RequestOK(o)
  BY <1>1 DEF CreatePermission, Writes, AdminInv
<1>3. \A c : ~Owes(req[a], c)
  BY <1>1, <1>2 DEF Owes, Linking
<1>4. CASE Reject(a)
  BY <1>3, <1>4, RejectStep
<1>5. PICK q : q = [o EXCEPT !.pc = "invalidate"]
  OBVIOUS
<1>6. ASSUME NEW p \in PermIds, ~TokenTaken(o.tok, Nil), token' = [token EXCEPT ![p] = o.tok],
             UNCHANGED <<name, perms, roles>>, Write(a, q)
      PROVE  AdminInv'
  <2>1. q \in Request
    BY <1>5 DEF Request
  <2>2. q.pc = "invalidate" /\ q.op = o.op /\ q.user = o.user /\ q.tok = o.tok
    BY <1>5 DEF Request
  <2>3. RequestOK(q)
    BY <1>2, <2>2 DEF RequestOK, Linking, Steps
  <2>4. o.tok \in Tokens /\ \A s \in PermIds : token[s] # o.tok
    BY <1>2, <1>6, KeysAssumption DEF TokenTaken, RequestOK, Linking
  <2>5. /\ TablesOK'
        /\ \A r \in RoleIds : RoleExists(r) => RoleExists(r)'
        /\ \A s \in PermIds : PermExists(s) => PermExists(s)'
    <3>1. TablesOK /\ o.tok \in Tokens \cup {Gone}
      BY <2>4 DEF AdminInv
    <3> QED BY <1>6, <2>4, <3>1, PermissionWritten
  <2>6. \A c \in Users \cup {"permissions", "roles"} : Owes(q, c)'
    BY <1>2, <2>2, InvalidatesKinds DEF Owes, Linking, PermOps
  <2>7. \A c \in Changed : Owes(q, c)'
    BY <1>6, <2>6, PermissionChange
  <2>8. \A n \in Request : \A c : RequestOK(n) /\ Owes(n, c) => Owes(n, c)'
    BY <2>5, RowsStay
  <2> QED BY <1>3, <1>6, <2>1, <2>2, <2>3, <2>5, <2>7, <2>8, WriteStep
<1> QED BY <1>1, <1>4, <1>5, <1>6 DEF CreatePermission, Invalidating

\* A permission gets another pair that nobody has.
LEMMA UpdatePermissionStep ==
  ASSUME AdminInv, NEW a \in Admins, UpdatePermission(a)
  PROVE  AdminInv'
<1>1. PICK o \in Request : o = req[a]
  BY DEF AdminInv
<1>2. o.pc = "write" /\ o.op = "update_perm" /\ RequestOK(o)
  BY <1>1 DEF UpdatePermission, Writes, AdminInv
<1>3. \A c : ~Owes(req[a], c)
  BY <1>1, <1>2 DEF Owes, Linking
<1>4. CASE Reject(a)
  BY <1>3, <1>4, RejectStep
<1>5. PICK q : q = [o EXCEPT !.pc = "reread"]
  OBVIOUS
<1>6. CASE /\ PermExists(o.id) /\ ~TokenTaken(o.tok, o.id)
           /\ token' = [token EXCEPT ![o.id] = o.tok]
           /\ UNCHANGED <<name, perms, roles>> /\ Write(a, q)
  <2>1. q \in Request
    BY <1>5 DEF Request
  <2>2. q.pc = "reread" /\ q.op = o.op /\ q.user = o.user /\ q.tok = o.tok /\ q.id = o.id
    BY <1>5 DEF Request
  <2>3. RequestOK(q)
    BY <1>2, <2>2 DEF RequestOK, Linking, Steps
  <2>4. o.tok \in Tokens /\ o.id \in PermIds /\ \A s \in PermIds : s # o.id => token[s] # o.tok
    BY <1>2, <1>6 DEF TokenTaken, RequestOK, Linking
  <2>5. /\ TablesOK'
        /\ \A r \in RoleIds : RoleExists(r) => RoleExists(r)'
        /\ \A s \in PermIds : PermExists(s) => PermExists(s)'
    <3>1. TablesOK /\ o.tok \in Tokens \cup {Gone}
      BY <2>4 DEF AdminInv
    <3> QED BY <1>6, <2>4, <3>1, PermissionWritten
  <2>6. \A c \in Users \cup {"permissions", "roles"} : Owes(q, c)'
    <3>1. Invalidates(q.op, q.user) = Users \cup {"permissions", "roles"}
      BY <1>2, <2>2, InvalidatesKinds DEF PermOps
    <3>2. q.op = "update_perm" /\ PermExists(q.id)'
      BY <1>2, <1>6, <2>2, <2>4, <2>5
    <3> QED BY <2>2, <3>1, <3>2 DEF Owes, Linking
  <2>7. \A c \in Changed : Owes(q, c)'
    BY <1>6, <2>6, PermissionChange
  <2>8. \A n \in Request : \A c : RequestOK(n) /\ Owes(n, c) => Owes(n, c)'
    BY <2>5, RowsStay
  <2> QED BY <1>3, <1>6, <2>1, <2>2, <2>3, <2>5, <2>7, <2>8, WriteStep
<1> QED BY <1>1, <1>4, <1>5, <1>6 DEF UpdatePermission, Rereading

\* A permission is deleted; the deletion owes what those would who read it back.
LEMMA DeletePermissionStep ==
  ASSUME AdminInv, NEW a \in Admins, DeletePermission(a)
  PROVE  AdminInv'
<1>1. PICK o \in Request : o = req[a]
  BY DEF AdminInv
<1>2. o.pc = "write" /\ o.op = "delete_perm" /\ RequestOK(o)
  BY <1>1 DEF DeletePermission, Writes, AdminInv
<1>3. \A c : ~Owes(req[a], c)
  BY <1>1, <1>2 DEF Owes, Linking
<1>4. CASE Reject(a)
  BY <1>3, <1>4, RejectStep
<1>5. PICK q : q = [o EXCEPT !.pc = "invalidate"]
  OBVIOUS
<1>6. CASE /\ PermExists(o.id) /\ token' = [token EXCEPT ![o.id] = Gone]
           /\ UNCHANGED <<name, perms, roles>> /\ Write(a, q)
  <2>1. q \in Request
    BY <1>5 DEF Request
  <2>2. q.pc = "invalidate" /\ q.op = o.op /\ q.user = o.user /\ q.id = o.id
    BY <1>5 DEF Request
  <2>3. o.id \in PermIds
    BY <1>2 DEF RequestOK, Linking
  <2>4. RequestOK(q)
    BY <1>2, <2>2, <2>3 DEF RequestOK, Linking, Steps
  <2>5. /\ TablesOK'
        /\ \A r \in RoleIds : RoleExists(r) => RoleExists(r)'
    <3>1. TablesOK /\ Gone \in Tokens \cup {Gone} /\ Gone \notin Tokens
      BY TokensAssumption DEF AdminInv
    <3> QED BY <1>6, <2>3, <3>1, PermissionWritten
  <2>6. \A c \in Users \cup {"permissions", "roles"} : Owes(q, c)'
    BY <1>2, <2>2, InvalidatesKinds DEF Owes, Linking, PermOps
  <2>7. \A c \in Changed : Owes(q, c)'
    BY <1>6, <2>6, PermissionChange
  <2>8. ASSUME NEW n \in Request, NEW c, RequestOK(n), Owes(n, c)
        PROVE  Owes(n, c)' \/ Owes(q, c)'
    <3>1. CASE n.pc = "reread" /\ n.op = "update_perm"
      <4>1. c \in Users \cup {"permissions", "roles"}
        BY <2>8, <3>1, InvalidatesKinds DEF Owes, Linking, PermOps
      <4> QED BY <2>6, <4>1
    <3>2. CASE ~(n.pc = "reread" /\ n.op = "update_perm")
      BY <2>5, <2>8, <3>2 DEF Owes, Linking, RequestOK
    <3> QED BY <3>1, <3>2
  <2> QED BY <1>3, <1>6, <2>1, <2>2, <2>4, <2>5, <2>7, <2>8, WriteStep
<1> QED BY <1>1, <1>4, <1>5, <1>6 DEF DeletePermission, Invalidating

-----------------------------------------------------------------------------
(* SyncRBAC.                                                               *)

\* While SyncRBAC is under way it owes every cache.
LEMMA SyncOwes ==
  ASSUME NEW q, q.op = "sync",
         \/ q.pc \in {"sync_perms", "sync_roles", "sync_user", "sync_append", "invalidate"}
         \/ Linking(q)
  PROVE  /\ \A c : Owes(q, c) => c \in Caches
         /\ \A c \in Caches : Owes(q, c) /\ Owes(q, c)'
BY InvalidatesKinds DEF Owes, Linking

\* A statement of SyncRBAC.
LEMMA SyncStep ==
  ASSUME AdminInv, NEW a \in Admins, NEW q \in Request, Write(a, q), TablesOK', RequestOK(q),
         req[a].op = "sync", q.op = "sync",
         req[a].pc \in {"sync_perms", "sync_roles", "replace", "sync_append"},
         q.pc \in {"sync_perms", "sync_roles", "select", "sync_user", "invalidate"},
         \A r \in RoleIds : RoleExists(r) => RoleExists(r)',
         \A p \in PermIds : PermExists(p) => PermExists(p)'
  PROVE  AdminInv'
<1>1. \A c \in Changed : Owes(q, c)'
  BY SyncOwes DEF Changed, Linking
<1>2. \A c : Owes(req[a], c) => Owes(q, c)'
  <2>1. PICK o : o = req[a]
    OBVIOUS
  <2>2. \A c : Owes(o, c) => c \in Caches
    BY <2>1, SyncOwes DEF Linking
  <2> QED BY <2>1, <2>2, SyncOwes DEF Linking
<1>3. \A n \in Request : \A c : RequestOK(n) /\ Owes(n, c) => Owes(n, c)'
  BY RowsStay
<1> QED BY <1>1, <1>2, <1>3, WriteStep DEF Guarded

\* FirstOrCreate of a default permission.
LEMMA SyncPermissionStep ==
  ASSUME AdminInv, NEW a \in Admins, SyncPermission(a)
  PROVE  AdminInv'
<1>1. PICK o \in Request : o = req[a]
  BY DEF AdminInv
<1>2. o.pc = "sync_perms" /\ RequestOK(o)
  BY <1>1 DEF SyncPermission, AdminInv
<1>3. o.op = "sync" /\ o.user \in Users /\ o.next # {} /\ o.next \in SUBSET Tokens
  BY <1>2 DEF RequestOK, Linking, Steps, Ops, RoleOps, PermOps, Request
<1>4. PICK t : t = CHOOSE s \in o.next : TRUE
  OBVIOUS
<1>5. t \in Tokens
  BY <1>3, <1>4
<1>6. PICK rest \in SUBSET Tokens : rest = o.next \ {t}
  BY <1>3
<1>7. PICK pc : pc = IF rest = {} THEN "sync_roles" ELSE "sync_perms"
  OBVIOUS
<1>8. PICK q : q = [o EXCEPT !.pc = pc, !.next = rest]
  OBVIOUS
<1>9. pc \in {"sync_roles", "sync_perms"} /\ (pc = "sync_perms" => rest # {})
  BY <1>7
<1>10. q \in Request
  BY <1>8, <1>9, FieldsTyped DEF Pcs
<1>11. q.pc = pc /\ q.next = rest /\ q.op = o.op /\ q.user = o.user
  BY <1>8 DEF Request
<1>12. RequestOK(q)
  BY <1>3, <1>9, <1>11 DEF RequestOK, Linking, Steps, Ops
<1>13. CASE Proceed(a, q)
  <2>1. GuardOK(q) /\ SawOK(q)
    BY <1>9, <1>11 DEF GuardOK, SawOK
  <2>2. \A c : Owes(req[a], c) => Owes(q, c)
    BY <1>1, <1>2, <1>3, <1>9, <1>11 DEF Owes, Linking
  <2>3. /\ req' = [req EXCEPT ![a] = q] /\ UNCHANGED <<tables, dirty, revived>>
        /\ started' \in 0 .. MaxRequests /\ failed' \in BOOLEAN /\ failed' = failed
    BY <1>13 DEF Proceed, AdminInv
  <2> QED BY <1>10, <1>12, <2>1, <2>2, <2>3, ProceedStep
<1>14. ASSUME NEW p \in PermIds, ~TokenTaken(t, Nil), token' = [token EXCEPT ![p] = t],
              UNCHANGED <<name, perms, roles>>, Write(a, q)
       PROVE  AdminInv'
  <2>1. \A s \in PermIds : token[s] # t
    BY <1>14, KeysAssumption DEF TokenTaken
  <2>2. /\ TablesOK'
        /\ \A r \in RoleIds : RoleExists(r) => RoleExists(r)'
        /\ \A s \in PermIds : PermExists(s) => PermExists(s)'
    <3>1. TablesOK /\ t \in Tokens \cup {Gone}
      BY <1>5 DEF AdminInv
    <3> QED BY <1>5, <1>14, <2>1, <3>1, PermissionWritten
  <2>3. /\ req[a].op = "sync" /\ q.op = "sync" /\ req[a].pc = "sync_perms"
        /\ q.pc \in {"sync_perms", "sync_roles"}
    BY <1>1, <1>2, <1>3, <1>9, <1>11
  <2> QED BY <1>10, <1>12, <1>14, <2>2, <2>3, SyncStep
<1> QED BY <1>1, <1>4, <1>6, <1>7, <1>8, <1>13, <1>14 DEF SyncPermission

\* FirstOrCreate of the seeded roles: afterwards there is an admin role.
LEMMA SyncRolesStep ==
  ASSUME AdminInv, NEW a \in Admins, SyncRoles(a)
  PROVE  AdminInv'
<1>1. PICK o \in Request : o = req[a]
  BY DEF AdminInv
<1>2. o.pc = "sync_roles" /\ RequestOK(o)
  BY <1>1 DEF SyncRoles, AdminInv
<1>3. o.op = "sync" /\ o.user \in Users
  BY <1>2 DEF RequestOK, Linking, Steps, Ops, RoleOps, PermOps
<1> DEFINE missing == {n \in SeedRoles : ~NameTaken(n, Nil)}
<1>4. missing = {n \in SeedRoles : ~NameTaken(n, Nil)}
  OBVIOUS
<1>5. PICK new \in [missing -> {r \in RoleIds : name[r] = Nil}] :
        /\ Cardinality({new[n] : n \in missing}) = Cardinality(missing)
        /\ name' = [r \in RoleIds |-> IF \E n \in missing : new[n] = r
                                      THEN CHOOSE n \in missing : new[n] = r ELSE name[r]]
  BY DEF SyncRoles
<1> HIDE DEF missing
<1>6. UNCHANGED <<perms, token, roles>>
  BY DEF SyncRoles
<1>7. ASSUME NEW r \in RoleIds
      PROVE  \/ name'[r] = name[r]
             \/ name[r] = Nil /\ name'[r] \in missing /\ new[name'[r]] = r
  <2>1. CASE \E n \in missing : new[n] = r
    <3>1. name'[r] = CHOOSE n \in missing : new[n] = r
      BY <1>5, <2>1
    <3>2. name'[r] \in missing /\ new[name'[r]] = r
      BY <2>1, <3>1
    <3>3. name[r] = Nil
      BY <1>5, <3>2
    <3> QED BY <3>2, <3>3
  <2>2. CASE ~\E n \in missing : new[n] = r
    BY <1>5, <2>2
  <2> QED BY <2>1, <2>2
<1>8. missing \subseteq Names /\ \A n \in missing, r \in RoleIds : name[r] # n
  BY <1>4, NamesAssumption, KeysAssumption DEF NameTaken
<1>9. Nil \notin Names /\ Gone \notin Names
  BY NamesAssumption
<1>10. TablesOK
  BY DEF AdminInv
<1>11. \A r \in RoleIds : RoleExists(r) => RoleExists(r)' /\ name'[r] = name[r]
  BY <1>7, <1>9 DEF RoleExists
<1>12. \A p : PermExists(p)' <=> PermExists(p)
  BY <1>6 DEF PermExists
<1>13. TablesOK'
  <2>1. name' \in [RoleIds -> Names \cup {Nil, Gone}]
    <3>1. \A r \in RoleIds : name'[r] \in Names \cup {Nil, Gone}
      BY <1>7, <1>8, <1>10 DEF TablesOK
    <3>2. name' = [r \in RoleIds |-> name'[r]]
      BY <1>5
    <3> QED BY <3>1, <3>2
  <2>2. ASSUME NEW r \in RoleIds, NEW s \in RoleIds, RoleExists(r)', name'[r] = name'[s]
        PROVE  r = s
    <3>1. name'[r] \in Names
      BY <2>2 DEF RoleExists
    <3>2. CASE name'[r] = name[r] /\ name'[s] = name[s]
      BY <1>10, <2>2, <3>1, <3>2 DEF TablesOK, RoleExists
    <3>3. CASE name'[r] \in missing /\ new[name'[r]] = r
      BY <1>7, <1>8, <2>2, <3>3
    <3>4. CASE name'[s] \in missing /\ new[name'[s]] = s
      BY <1>7, <1>8, <2>2, <3>4
    <3> QED BY <1>7, <3>2, <3>3, <3>4
  <2>3. ("admin" \in ProtectedRoles => name'[1] = "admin")
        /\ ("user" \in ProtectedRoles => name'[2] = "user")
    BY <1>9, <1>10, <1>11, KeysAssumption, NamesAssumption DEF TablesOK, RoleExists, SeedRoles
  <2>4. (\A p, q \in PermIds : PermExists(p) /\ token[p] = token[q] => p = q)'
    BY <1>6, <1>10, <1>12 DEF TablesOK
  <2> QED BY <1>6, <1>10, <2>1, <2>2, <2>3, <2>4 DEF TablesOK
<1>14. \E r \in RoleIds : name'[r] = "admin"
  <2>1. CASE "admin" \notin missing
    <3>1. PICK r \in RoleIds : name[r] = "admin"
      BY <1>4, <2>1 DEF NameTaken, SeedRoles
    <3>2. RoleExists(r)
      BY <3>1, NamesAssumption DEF RoleExists, SeedRoles
    <3> QED BY <1>11, <3>1, <3>2
  <2>2. CASE "admin" \in missing
    <3>1. PICK r \in RoleIds : r = new["admin"]
      BY <1>5, <2>2
    <3>2. CASE name'[r] = "admin"
      BY <3>2
    <3>3. CASE name'[r] # "admin"
      <4>1. name'[r] \in missing /\ new[name'[r]] = r
        <5>1. \E n \in missing : new[n] = r
          BY <2>2, <3>1
        <5>2. name'[r] = CHOOSE n \in missing : new[n] = r
          BY <1>5, <5>1
        <5> QED BY <5>1, <5>2
      <4>2. name'[r] = "user" /\ missing = {"admin", "user"} /\ new["user"] = r
        BY <1>4, <2>2, <3>3, <4>1 DEF SeedRoles
      <4>3. {new[n] : n \in missing} = {r}
        BY <3>1, <4>2
      <4>4. Cardinality({r}) = 1
        BY FS_Singleton
      <4>5. Cardinality({"admin", "user"}) = 2
        <5>1. PICK S : S = {"admin"}
          OBVIOUS
        <5>2. IsFiniteSet(S) /\ Cardinality(S) = 1
          BY <5>1, FS_Singleton
        <5>3. {"admin", "user"} = S \cup {"user"} /\ "user" \notin S
          BY <5>1
        <5>4. Cardinality(S \cup {"user"}) = Cardinality(S) + 1
          BY <5>2, <5>3, FS_AddElement
        <5> QED BY <5>2, <5>3, <5>4
      <4> QED BY <1>5, <4>2, <4>3, <4>4, <4>5
    <3> QED BY <3>2, <3>3
  <2> QED BY <2>1, <2>2
<1>15. PICK id : id = CHOOSE r \in RoleIds : name'[r] = "admin"
  OBVIOUS
<1>16. id \in RoleIds
  BY <1>14, <1>15
<1>17. PICK q : q = [o EXCEPT !.pc = "select", !.id = id]
  OBVIOUS
<1>18. Write(a, q)
  BY <1>1, <1>15, <1>17 DEF SyncRoles
<1>19. q \in Request
  BY <1>16, <1>17, FieldsTyped DEF Pcs
<1>20. q.pc = "select" /\ q.id = id /\ q.op = o.op /\ q.user = o.user
  BY <1>17 DEF Request
<1>21. RequestOK(q)
  BY <1>3, <1>16, <1>20 DEF RequestOK, Linking, Steps, Ops
<1>22. req[a].op = "sync" /\ q.op = "sync" /\ req[a].pc = "sync_roles"
  BY <1>1, <1>2, <1>3, <1>20
<1> QED BY <1>11, <1>12, <1>13, <1>18, <1>19, <1>20, <1>21, <1>22, SyncStep

\* The permissions are read, and the admin role is looked up.
LEMMA SyncFindStep ==
  ASSUME AdminInv, NEW a \in Admins, SyncFind(a)
  PROVE  AdminInv'
<1>1. PICK o \in Request : o = req[a]
  BY DEF AdminInv
<1>2. o.pc = "select" /\ o.op = "sync" /\ RequestOK(o) /\ TablesOK
  BY <1>1 DEF SyncFind, AdminInv
<1>3. o.user \in Users /\ o.id \in RoleIds
  BY <1>2 DEF RequestOK, Linking
<1>4. PICK found : found = PermRows({p \in PermIds : token[p] \in Synced})
  OBVIOUS
<1>5. found \in SUBSET (PermIds \X Tokens) /\ Distinct(found)
  BY <1>2, <1>4, PermsRead
<1>6. CASE Fail(a)
  BY <1>6, FailStep
<1>7. ASSUME NEW q \in Request, q.op = o.op, q.user = o.user, q.id = o.id, q.pc \in {"sync_user", "replace"},
             SawOK(q), Proceed(a, q)
      PROVE  AdminInv'
  <2>1. RequestOK(q)
    BY <1>2, <1>3, <1>7 DEF RequestOK, Linking, Steps, Ops
  <2>2. GuardOK(q)
    BY <1>2, <1>7 DEF GuardOK, Guarded
  <2>3. \A c : Owes(req[a], c) => Owes(q, c)
    BY <1>1, <1>2, <1>7 DEF Owes, Linking
  <2> QED BY <1>7, <2>1, <2>2, <2>3, SelectStep
<1>8. ASSUME NEW q, q = [o EXCEPT !.pc = "sync_user"], Proceed(a, q) PROVE AdminInv'
  <2>1. q \in Request
    BY <1>8 DEF Request
  <2>2. q.pc = "sync_user" /\ q.op = o.op /\ q.user = o.user /\ q.id = o.id
    BY <1>8 DEF Request
  <2>3. SawOK(q)
    BY <2>2 DEF SawOK
  <2> QED BY <1>7, <1>8, <2>1, <2>2, <2>3
<1>9. ASSUME NEW q, q = [o EXCEPT !.pc = "replace", !.pairs = found], Proceed(a, q) PROVE AdminInv'
  <2>1. q \in Request
    BY <1>5, <1>9, FieldsTyped DEF Pcs
  <2>2. q.pc = "replace" /\ q.op = o.op /\ q.user = o.user /\ q.id = o.id /\ q.pairs = found
    BY <1>9 DEF Request
  <2>3. SawOK(q)
    BY <1>2, <1>5, <2>2 DEF SawOK
  <2> QED BY <1>7, <1>9, <2>1, <2>2, <2>3
<1> QED BY <1>1, <1>4, <1>6, <1>8, <1>9 DEF SyncFind

\* The admin role gets its permissions.
LEMMA SyncBindStep ==
  ASSUME AdminInv, NEW a \in Admins, SyncBind(a)
  PROVE  AdminInv'
<1>1. PICK o \in Request : o = req[a]
  BY DEF AdminInv
<1>2. o.pc = "replace" /\ o.op = "sync" /\ RequestOK(o) /\ SawOK(o) /\ TablesOK
  BY <1>1 DEF SyncBind, AdminInv
<1>3. /\ o.user \in Users /\ o.id \in RoleIds
      /\ o.pairs \in SUBSET (PermIds \X Tokens) /\ Distinct(o.pairs)
  BY <1>2 DEF RequestOK, Linking, SawOK, Request
<1>4. PICK ps : ps = Keys(o.pairs)
  OBVIOUS
<1>5. ps \in SUBSET PermIds
  BY <1>3, <1>4, KeysTyped
<1>6. /\ perms' = [perms EXCEPT ![o.id] = ps] /\ UNCHANGED <<name, roles>>
      /\ token' = Upserted(token, o.pairs)
  BY <1>1, <1>4 DEF SyncBind
<1>7. PICK q : q = [o EXCEPT !.pc = "sync_user"]
  OBVIOUS
<1>8. Write(a, q)
  BY <1>1, <1>7 DEF SyncBind
<1>9. q \in Request
  BY <1>7 DEF Request
<1>10. q.pc = "sync_user" /\ q.id = o.id /\ q.op = o.op /\ q.user = o.user
  BY <1>7 DEF Request
<1>11. RequestOK(q)
  BY <1>2, <1>3, <1>10 DEF RequestOK, Linking, Steps, Ops
<1>12. /\ token' \in [PermIds -> Tokens \cup {Nil, Gone}]
       /\ \A p \in PermIds : PermExists(p) => PermExists(p)' /\ token'[p] = token[p]
       /\ \A p, i \in PermIds : PermExists(p)' /\ token'[p] = token'[i] => p = i
  BY <1>2, <1>3, <1>6, PermsBack
<1>13. TablesOK'
  BY <1>2, <1>5, <1>6, <1>12 DEF TablesOK, RoleExists
<1>14. \A r \in RoleIds : RoleExists(r) => RoleExists(r)'
  BY <1>6 DEF RoleExists
<1>15. req[a].op = "sync" /\ q.op = "sync" /\ req[a].pc = "replace"
  BY <1>1, <1>2, <1>10
<1> QED BY <1>8, <1>9, <1>10, <1>11, <1>12, <1>13, <1>14, <1>15, SyncStep

\* The link of the bootstrap administrator is looked up.
LEMMA SyncUserStep ==
  ASSUME AdminInv, NEW a \in Admins, SyncUser(a)
  PROVE  AdminInv'
<1>1. PICK o \in Request : o = req[a]
  BY DEF AdminInv
<1>2. o.pc = "sync_user" /\ RequestOK(o)
  BY <1>1 DEF SyncUser, AdminInv
<1>3. o.op = "sync" /\ o.user \in Users /\ o.id \in RoleIds
  BY <1>2 DEF RequestOK, Steps, Ops, RoleOps, PermOps
<1>4. PICK pc : pc = IF Bootstrap # Nil /\ o.id \notin roles[Bootstrap]
                     THEN "sync_append" ELSE "invalidate"
  OBVIOUS
<1>5. PICK q : q = [o EXCEPT !.pc = pc]
  OBVIOUS
<1>6. Proceed(a, q) /\ pc \in {"sync_append", "invalidate"}
  BY <1>1, <1>4, <1>5 DEF SyncUser
<1>7. q \in Request
  BY <1>5, <1>6 DEF Request
<1>8. q.pc = pc /\ q.id = o.id /\ q.op = o.op /\ q.user = o.user
  BY <1>5 DEF Request
<1>9. RequestOK(q)
  BY <1>3, <1>6, <1>8 DEF RequestOK, Linking, Steps, Ops
<1>10. GuardOK(q) /\ SawOK(q)
  BY <1>3, <1>6, <1>8 DEF GuardOK, Guarded, SawOK
<1>11. \A c : Owes(req[a], c) => Owes(q, c)
  BY <1>1, <1>3, <1>6, <1>8 DEF Owes
<1> QED BY <1>6, <1>7, <1>9, <1>10, <1>11, SelectStep

\* The tables after a user has got a role that perhaps came back.
LEMMA RoleAdded ==
  ASSUME TablesOK, NEW r \in RoleIds, NEW n \in Names, name' = Upserted(name, {<<r, n>>}),
         NEW u, roles' = [roles EXCEPT ![u] = @ \cup {r}], UNCHANGED <<perms, token>>
  PROVE  /\ TablesOK'
         /\ \A s \in RoleIds : RoleExists(s) => RoleExists(s)'
         /\ \A p \in PermIds : PermExists(p) => PermExists(p)'
<1>1. PICK rows : rows = {<<r, n>>}
  OBVIOUS
<1>2. rows \in SUBSET (RoleIds \X Names) /\ Distinct(rows)
  BY <1>1 DEF Distinct
<1>3. /\ name' \in [RoleIds -> Names \cup {Nil, Gone}]
      /\ \A s \in RoleIds : RoleExists(s) => RoleExists(s)' /\ name'[s] = name[s]
      /\ \A s, t \in RoleIds : RoleExists(s)' /\ name'[s] = name'[t] => s = t
      /\ "admin" \in ProtectedRoles => name'[1] = "admin"
      /\ "user" \in ProtectedRoles => name'[2] = "user"
  BY <1>1, <1>2, RolesBack
<1>4. roles' \in [Users -> SUBSET RoleIds]
  BY DEF TablesOK
<1>5. TablesOK'
  BY <1>3, <1>4 DEF TablesOK, PermExists
<1> QED BY <1>3, <1>5 DEF PermExists

\* The bootstrap administrator gets the admin role.
LEMMA SyncAppendStep ==
  ASSUME AdminInv, NEW a \in Admins, SyncAppend(a)
  PROVE  AdminInv'
<1>1. PICK o \in Request : o = req[a]
  BY DEF AdminInv
<1>2. o.pc = "sync_append" /\ RequestOK(o) /\ TablesOK
  BY <1>1 DEF SyncAppend, AdminInv
<1>3. o.op = "sync" /\ o.user \in Users /\ o.id \in RoleIds
  BY <1>2 DEF RequestOK, Steps, Ops, RoleOps, PermOps
<1>4. PICK q : q = [o EXCEPT !.pc = "invalidate"]
  OBVIOUS
<1>5. Write(a, q)
  BY <1>1, <1>4 DEF SyncAppend, Invalidating
<1>6. q \in Request
  BY <1>4 DEF Request
<1>7. q.pc = "invalidate" /\ q.op = o.op /\ q.user = o.user
  BY <1>4 DEF Request
<1>8. RequestOK(q)
  BY <1>3, <1>7 DEF RequestOK, Linking, Steps, Ops
<1>9. /\ TablesOK'
      /\ \A s \in RoleIds : RoleExists(s) => RoleExists(s)'
      /\ \A p \in PermIds : PermExists(p) => PermExists(p)'
  <2>1. /\ name' = Upserted(name, {<<o.id, "admin">>}) /\ UNCHANGED <<perms, token>>
        /\ roles' = [roles EXCEPT ![Bootstrap] = @ \cup {o.id}]
    BY <1>1 DEF SyncAppend
  <2>2. "admin" \in Names
    BY NamesAssumption DEF SeedRoles
  <2> QED BY <1>2, <1>3, <2>1, <2>2, RoleAdded
<1>10. req[a].op = "sync" /\ q.op = "sync" /\ req[a].pc = "sync_append"
  BY <1>1, <1>2, <1>3, <1>7
<1> QED BY <1>5, <1>6, <1>7, <1>8, <1>9, <1>10, SyncStep

-----------------------------------------------------------------------------
(* Google sign-in.                                                         *)

\* The user is read with the roles and the permissions as they are.
LEMMA SignInStep ==
  ASSUME AdminInv, NEW a \in Admins, NEW u \in Users, SignIn(a, u)
  PROVE  AdminInv'
<1>1. PICK links :
        links = {x \in RolesOf(u) \X PermIds : x[2] \in perms[x[1]] /\ PermExists(x[2])}
  OBVIOUS
<1>2. PICK rows : rows = RoleRows(RolesOf(u))
  OBVIOUS
<1>3. PICK pairs : pairs = PermRows({x[2] : x \in links})
  OBVIOUS
<1>4. PICK q : q = [Idle EXCEPT !.pc = "save", !.op = "sign_in", !.user = u,
                                !.rows = rows, !.links = links, !.pairs = pairs]
  OBVIOUS
<1>5. Begin(a, q)
  BY <1>1, <1>2, <1>3, <1>4 DEF SignIn
<1>6. TablesOK /\ RolesOf(u) \in SUBSET RoleIds
  BY DEF AdminInv, TablesOK, RolesOf
<1>7. links \in SUBSET (RoleIds \X PermIds) /\ \A x \in links : x[2] \in perms[x[1]]
  BY <1>1, <1>6
<1>8. {x[2] : x \in links} \in SUBSET PermIds
  BY <1>7
<1>9. /\ rows \in SUBSET (RoleIds \X Names) /\ Distinct(rows)
      /\ \A x \in rows : x[1] \in RolesOf(u)
  BY <1>2, <1>6, RolesRead
<1>10. /\ pairs \in SUBSET (PermIds \X Tokens) /\ Distinct(pairs)
       /\ \A x \in pairs : PermExists(x[1])
  BY <1>3, <1>6, <1>8, PermsRead
<1>11. q \in Request
  <2>1. PICK q0 : q0 = [[[Idle EXCEPT !.pc = "save"] EXCEPT !.op = "sign_in"] EXCEPT !.user = u]
    OBVIOUS
  <2>2. q0 \in Request
    <3>1. "save" \in Pcs /\ "sign_in" \in Ops /\ Idle \in Request
      BY IdleTyped DEF Pcs, Ops
    <3> QED BY <2>1, <3>1, FieldTyped
  <2>3. q = [[[q0 EXCEPT !.rows = rows] EXCEPT !.links = links] EXCEPT !.pairs = pairs]
    BY <1>4, <2>1 DEF Idle
  <2> QED BY <1>7, <1>9, <1>10, <2>2, <2>3, FieldTyped
<1>12. /\ q.pc = "save" /\ q.op = "sign_in" /\ q.user = u /\ q.rows = rows /\ q.links = links
       /\ q.pairs = pairs
  BY <1>4 DEF Idle
<1>13. RequestOK(q) /\ q.op \notin Guarded
  BY <1>12 DEF RequestOK, Linking, Steps, Ops, Guarded
<1>14. SawOK(q)
  BY <1>7, <1>9, <1>10, <1>12 DEF SawOK
<1> QED BY <1>5, <1>11, <1>13, <1>14, BeginStep

\* What has not changed does not show.
LEMMA NothingChanged ==
  ASSUME UNCHANGED tables, roles \in [Users -> SUBSET RoleIds]
  PROVE  Changed = {}
<1>1. UNCHANGED <<name, perms, token>> /\ UNCHANGED <<name, roles>> /\ token' = token
  BY DEF tables
<1>2. roles' = [roles EXCEPT !["permissions"] = {}]
  BY <1>1, CachesAssumption DEF Lists
<1>3. Changed \subseteq {"permissions", "users"}
  BY <1>1, <1>2, AssignmentChange
<1>4. Changed \subseteq Users \cup {"permissions", "roles"}
  BY <1>1, PermissionChange
<1>5. Changed \subseteq Users \cup {"roles", "users"}
  BY <1>1, RoleChange
<1> QED BY <1>3, <1>4, <1>5, CachesAssumption DEF Lists

\* The saved user's rows come back where they are gone and nobody has taken their place.
LEMMA UpdateStep ==
  ASSUME AdminInv, NEW a \in Admins, Update(a)
  PROVE  AdminInv'
<1>1. PICK o \in Request : o = req[a]
  BY DEF AdminInv
<1>2. o.pc = "save" /\ RequestOK(o) /\ SawOK(o) /\ TablesOK
  BY <1>1 DEF Update, AdminInv
<1>3. o.op = "sign_in" /\ o.user \in Users
  BY <1>2 DEF RequestOK, Steps, Ops, RoleOps, PermOps
<1>4. PICK rs : rs = roles[o.user] \cup Keys(o.rows)
  OBVIOUS
<1>5. /\ name' = Upserted(name, o.rows)
      /\ token' = Upserted(token, o.pairs)
      /\ perms' = [r \in RoleIds |-> perms[r] \cup {x[2] : x \in {y \in o.links : y[1] = r}}]
      /\ roles' = [roles EXCEPT ![o.user] = rs]
  BY <1>1, <1>4 DEF Update
<1>6. /\ o.rows \in SUBSET (RoleIds \X Names) /\ Distinct(o.rows)
      /\ o.pairs \in SUBSET (PermIds \X Tokens) /\ Distinct(o.pairs)
      /\ o.links \in SUBSET (RoleIds \X PermIds)
  BY <1>2 DEF Request, SawOK
<1>7. /\ name' \in [RoleIds -> Names \cup {Nil, Gone}]
      /\ \A r \in RoleIds : RoleExists(r) => RoleExists(r)' /\ name'[r] = name[r]
      /\ \A r, s \in RoleIds : RoleExists(r)' /\ name'[r] = name'[s] => r = s
      /\ "admin" \in ProtectedRoles => name'[1] = "admin"
      /\ "user" \in ProtectedRoles => name'[2] = "user"
      /\ (\A x \in o.rows : RoleExists(x[1])) => name' = name
  BY <1>2, <1>5, <1>6, RolesBack
<1>8. /\ token' \in [PermIds -> Tokens \cup {Nil, Gone}]
      /\ \A p \in PermIds : PermExists(p) => PermExists(p)' /\ token'[p] = token[p]
      /\ \A p, i \in PermIds : PermExists(p)' /\ token'[p] = token'[i] => p = i
      /\ (\A x \in o.pairs : PermExists(x[1])) => token' = token
  BY <1>2, <1>5, <1>6, PermsBack
<1>9. TablesOK'
  <2>1. perms' \in [RoleIds -> SUBSET PermIds]
    <3>1. \A r \in RoleIds : perms[r] \in SUBSET PermIds
      BY <1>2 DEF TablesOK
    <3>2. \A r \in RoleIds : perms'[r] \in SUBSET PermIds
      BY <1>5, <1>6, <3>1
    <3>3. perms' = [r \in RoleIds |-> perms'[r]]
      BY <1>5
    <3> QED BY <3>2, <3>3
  <2>2. roles' \in [Users -> SUBSET RoleIds]
    <3>1. Keys(o.rows) \in SUBSET RoleIds
      BY <1>6, KeysTyped
    <3>2. rs \in SUBSET RoleIds
      BY <1>2, <1>3, <1>4, <3>1 DEF TablesOK
    <3> QED BY <1>2, <1>5, <3>2 DEF TablesOK
  <2> QED BY <1>7, <1>8, <2>1, <2>2 DEF TablesOK
<1>10. ASSUME ~o.raced PROVE Changed = {}
  <2>1. /\ \A x \in o.rows : x[1] \in RolesOf(o.user)
        /\ \A x \in o.pairs : PermExists(x[1])
        /\ \A x \in o.links : x[2] \in perms[x[1]]
    BY <1>2, <1>10 DEF SawOK
  <2>2. \A x \in o.rows : RoleExists(x[1]) /\ x[1] \in roles[o.user]
    BY <2>1 DEF RolesOf
  <2>3. name' = name /\ token' = token
    BY <1>7, <1>8, <2>1, <2>2
  <2>4. perms' = perms
    <3>1. ASSUME NEW r \in RoleIds PROVE perms'[r] = perms[r]
      <4>1. {x[2] : x \in {y \in o.links : y[1] = r}} \subseteq perms[r]
        BY <2>1
      <4> QED BY <1>5, <4>1
    <3> QED BY <1>2, <1>5, <3>1 DEF TablesOK
  <2>5. roles' = roles
    <3>1. Keys(o.rows) \subseteq roles[o.user]
      BY <2>2 DEF Keys
    <3>2. rs = roles[o.user]
      BY <1>4, <3>1
    <3> QED BY <1>2, <1>3, <1>5, <3>2 DEF TablesOK
  <2> QED BY <1>2, <2>3, <2>4, <2>5, NothingChanged DEF tables, TablesOK
<1>11. PICK q : q = IF o.user = Bootstrap THEN [o EXCEPT !.pc = "bootstrap"] ELSE Idle
  OBVIOUS
<1>12. Replaced(a, q, o.raced) /\ o.raced \in BOOLEAN
  BY <1>1, <1>11 DEF Update, Request
<1>13. q \in Request /\ RequestOK(q) /\ q.pc \in {"idle", "bootstrap"}
  <2>1. CASE q = Idle
    BY <2>1, IdleTyped, IdlePromises
  <2>2. CASE q = [o EXCEPT !.pc = "bootstrap"]
    <3>1. q \in Request
      BY <2>2 DEF Request
    <3>2. q.pc = "bootstrap" /\ q.op = o.op /\ q.user = o.user
      BY <2>2 DEF Request
    <3> QED BY <1>3, <3>1, <3>2 DEF RequestOK, Linking, Steps, Ops
  <2> QED BY <1>11, <2>1, <2>2
<1>14. \A c : ~Owes(req[a], c)
  BY <1>1, <1>2 DEF Owes, Linking
<1> QED BY <1>7, <1>8, <1>9, <1>10, <1>12, <1>13, <1>14, ReplacedStep

\* The admin role is looked up for the bootstrap administrator.
LEMMA AssignBootstrapAdminStep ==
  ASSUME AdminInv, NEW a \in Admins, AssignBootstrapAdmin(a)
  PROVE  AdminInv'
<1>1. PICK o \in Request : o = req[a]
  BY DEF AdminInv
<1>2. o.pc = "bootstrap" /\ RequestOK(o)
  BY <1>1 DEF AssignBootstrapAdmin, AdminInv
<1>3. \A c : ~Owes(req[a], c)
  BY <1>1, <1>2 DEF Owes, Linking
<1>4. CASE Reject(a)
  BY <1>3, <1>4, RejectStep
<1>5. ASSUME NEW r \in RoleIds, NEW q, q = [o EXCEPT !.pc = "add_role", !.id = r], Proceed(a, q)
      PROVE  AdminInv'
  <2>1. q \in Request
    BY <1>5, FieldsTyped DEF Pcs
  <2>2. q.pc = "add_role" /\ q.id = r /\ q.op = o.op /\ q.user = o.user
    BY <1>5 DEF Request
  <2>3. o.op = "sign_in" /\ o.user \in Users
    BY <1>2 DEF RequestOK, Steps, Ops, RoleOps, PermOps
  <2>4. RequestOK(q)
    BY <2>2, <2>3 DEF RequestOK, Linking, Steps, Ops
  <2>5. GuardOK(q) /\ SawOK(q)
    BY <2>2, <2>3 DEF GuardOK, Guarded, SawOK
  <2> QED BY <1>3, <1>5, <2>1, <2>4, <2>5, ReadStep
<1> QED BY <1>1, <1>4, <1>5 DEF AssignBootstrapAdmin

\* And given to them again.
LEMMA AddRoleStep ==
  ASSUME AdminInv, NEW a \in Admins, AddRole(a)
  PROVE  AdminInv'
<1>1. PICK o \in Request : o = req[a]
  BY DEF AdminInv
<1>2. o.pc = "add_role" /\ RequestOK(o) /\ TablesOK
  BY <1>1 DEF AddRole, AdminInv
<1>3. o.id \in RoleIds /\ Blank \in Names
  BY <1>2, NamesAssumption DEF RequestOK
<1>4. /\ name' = Upserted(name, {<<o.id, Blank>>}) /\ UNCHANGED <<perms, token>>
      /\ roles' = [roles EXCEPT ![Bootstrap] = @ \cup {o.id}]
  BY <1>1 DEF AddRole
<1>5. /\ TablesOK'
      /\ \A s \in RoleIds : RoleExists(s) => RoleExists(s)'
      /\ \A p \in PermIds : PermExists(p) => PermExists(p)'
  BY <1>2, <1>3, <1>4, RoleAdded
<1>6. PICK q : q = Idle
  OBVIOUS
<1>7. q \in Request /\ RequestOK(q) /\ q.pc = "idle" /\ Replaced(a, q, TRUE)
  BY <1>6, IdleTyped, IdlePromises DEF AddRole
<1>8. \A c : ~Owes(req[a], c)
  BY <1>1, <1>2 DEF Owes, Linking
<1> QED BY <1>5, <1>7, <1>8, ReplacedStep

-----------------------------------------------------------------------------
(* The invariant holds.                                                    *)

\* The database after SeedSync.
LEMMA AdminInit ==
  ASSUME Init PROVE AdminInv
<1> DEFINE key == CHOOSE f \in [Defaults -> PermIds] : \A s, t \in Defaults : s # t => f[s] # f[t]
<1>1. token = [p \in PermIds |-> IF \E t \in Defaults : key[t] = p
                                 THEN CHOOSE t \in Defaults : key[t] = p ELSE Nil]
  BY DEF Init
<1> HIDE DEF key
<1>2. PICK other \in {Nil} \cup (Names \ (SeedRoles \cup {Blank})), granted \in PermInputs :
        /\ name = [r \in RoleIds |-> CASE r = 1 -> "admin" [] r = 2 -> "user" [] r = 3 -> other
                                       [] OTHER -> Nil]
        /\ perms = [r \in RoleIds |->
             CASE r = 1 -> {p \in PermIds : token[p] # Nil}
               [] r = 3 /\ other # Nil -> {p \in PermIds : token[p] \in granted}
               [] OTHER -> {}]
  BY DEF Init
<1>3. PICK rs \in [Users -> RoleInputs] : roles = [u \in Users |-> {r \in rs[u] : name[r] # Nil}]
  BY DEF Init
<1>4. /\ req = [a \in Admins |-> Idle]
      /\ started = 0 /\ dirty = {} /\ revived = {} /\ failed = FALSE
  BY DEF Init
<1>5. ASSUME NEW p \in PermIds
      PROVE  token[p] = Nil \/ (token[p] \in Defaults /\ key[token[p]] = p)
  <2>1. CASE \E t \in Defaults : key[t] = p
    <3>1. token[p] = CHOOSE t \in Defaults : key[t] = p
      BY <1>1, <2>1
    <3> QED BY <2>1, <3>1
  <2>2. CASE ~\E t \in Defaults : key[t] = p
    BY <1>1, <2>2
  <2> QED BY <2>1, <2>2
<1>6. /\ token \in [PermIds -> Tokens \cup {Nil, Gone}]
      /\ \A p, q \in PermIds : PermExists(p) /\ token[p] = token[q] => p = q
  <2>1. \A p \in PermIds : token[p] \in Tokens \cup {Nil, Gone}
    BY <1>5, TokensAssumption
  <2>2. token = [p \in PermIds |-> token[p]]
    BY <1>1
  <2> QED BY <1>5, <2>1, <2>2, TokensAssumption DEF PermExists
<1>7. ASSUME NEW r \in RoleIds
      PROVE  /\ r = 1 => name[r] = "admin"
             /\ r = 2 => name[r] = "user"
             /\ r = 3 => name[r] = other
             /\ r \notin {1, 2, 3} => name[r] = Nil
  BY <1>2, SMT
<1>8. /\ name \in [RoleIds -> Names \cup {Nil, Gone}]
      /\ \A r, s \in RoleIds : RoleExists(r) /\ name[r] = name[s] => r = s
  <2>1. \A r \in RoleIds : name[r] \in Names \cup {Nil, Gone}
    BY <1>2, <1>7, NamesAssumption DEF SeedRoles
  <2>2. name = [r \in RoleIds |-> name[r]]
    BY <1>2
  <2>3. "admin" # Nil /\ "user" # Nil /\ Nil \notin Names
    BY NamesAssumption DEF SeedRoles
  <2>4. other \notin {"admin", "user"}
    BY <1>2, <2>3 DEF SeedRoles
  <2>5. ASSUME NEW r \in RoleIds, NEW s \in RoleIds, RoleExists(r), name[r] = name[s]
        PROVE  r = s
    <3>1. name[r] # Nil /\ name[s] # Nil
      BY <2>3, <2>5 DEF RoleExists
    <3>2. r \in {1, 2, 3} /\ s \in {1, 2, 3}
      BY <1>7, <3>1
    <3> QED BY <1>7, <2>4, <2>5, <3>2
  <2> QED BY <2>1, <2>2, <2>5
<1>9. perms \in [RoleIds -> SUBSET PermIds]
  <2>1. ASSUME NEW r \in RoleIds PROVE perms[r] \in SUBSET PermIds
    <3>1. \/ perms[r] = {p \in PermIds : token[p] # Nil}
          \/ perms[r] = {p \in PermIds : token[p] \in granted}
          \/ perms[r] = {}
      BY <1>2, SMT
    <3> QED BY <3>1
  <2>2. perms = [r \in RoleIds |-> perms[r]]
    BY <1>2
  <2> QED BY <2>1, <2>2
<1>10. roles \in [Users -> SUBSET RoleIds]
  BY <1>3, InputsAssumption
<1>11. TablesOK
  BY <1>6, <1>7, <1>8, <1>9, <1>10, KeysAssumption DEF TablesOK
<1>12. req \in [Admins -> Request] /\ started \in 0 .. MaxRequests
  BY <1>4, IdleTyped, InputsAssumption
<1>13. \A a \in Admins : RequestOK(req[a]) /\ GuardOK(req[a]) /\ SawOK(req[a])
  BY <1>4, IdleTyped, IdlePromises
<1> QED BY <1>4, <1>11, <1>12, <1>13 DEF AdminInv, OwedOK

\* Every step keeps the invariant.
LEMMA AdminStep ==
  ASSUME AdminInv, [Next]_vars
  PROVE  AdminInv'
<1>1. CASE UNCHANGED vars
  <2>1. UNCHANGED tables /\ UNCHANGED <<req, started, dirty, revived, failed>>
    BY <1>1 DEF vars, tables
  <2>2. TablesOK'
    BY <2>1, SameTables DEF AdminInv
  <2>3. ASSUME NEW b \in Admins
        PROVE  /\ RequestOK(req[b])' /\ GuardOK(req[b])' /\ SawOK(req[b])'
               /\ \A c : Owes(req[b], c) => Owes(req[b], c)'
    <3>1. PICK n : n = req[b]
      OBVIOUS
    <3>2. RequestOK(n) /\ GuardOK(n) /\ SawOK(n)
      BY <3>1 DEF AdminInv
    <3>3. /\ RequestOK(n)' /\ GuardOK(n)' /\ SawOK(n)'
          /\ \A c : Owes(n, c) => Owes(n, c)'
      BY <2>1, <3>2, SameTables
    <3>4. req'[b] = n
      BY <2>1, <3>1
    <3> QED BY <3>1, <3>3, <3>4
  <2>4. OwedOK'
    <3> SUFFICES ASSUME ~failed', NEW c \in (dirty \ revived)'
                 PROVE  \E b \in Admins : Owes(req[b], c)'
      BY DEF OwedOK
    <3>1. PICK b \in Admins : Owes(req[b], c)
      BY <2>1 DEF AdminInv, OwedOK
    <3> QED BY <2>3, <3>1
  <2> QED BY <2>1, <2>2, <2>3, <2>4 DEF AdminInv
<1>2. ASSUME NEW a \in Admins, Arrive(a) \/ FindRole(a) \/ FindByPairs(a) \/ FindPermission(a)
                                 \/ Guard(a) \/ GuardFails(a) \/ Reread(a)
      PROVE  AdminInv'
  BY <1>2, ArriveStep, FindRoleStep, FindByPairsStep, FindPermissionStep, GuardSteps, RereadStep
<1>3. ASSUME NEW a \in Admins, FindRoles(a) \/ SetUserRoles(a) \/ CreateRole(a)
                                 \/ FindPermissions(a) \/ Attach(a) \/ UpdateRole(a)
                                 \/ DeleteRole(a)
      PROVE  AdminInv'
  BY <1>3, FindRolesStep, SetUserRolesStep, CreateRoleStep, FindPermissionsStep, AttachStep,
     UpdateRoleStep, DeleteRoleStep
<1>4. ASSUME NEW a \in Admins, CreatePermission(a) \/ UpdatePermission(a) \/ DeletePermission(a)
      PROVE  AdminInv'
  BY <1>4, CreatePermissionStep, UpdatePermissionStep, DeletePermissionStep
<1>5. ASSUME NEW a \in Admins, SyncPermission(a) \/ SyncRoles(a) \/ SyncFind(a) \/ SyncBind(a)
                                 \/ SyncUser(a) \/ SyncAppend(a)
      PROVE  AdminInv'
  BY <1>5, SyncPermissionStep, SyncRolesStep, SyncFindStep, SyncBindStep, SyncUserStep, SyncAppendStep
<1>6. ASSUME NEW a \in Admins, \/ (\E u \in Users : SignIn(a, u)) \/ Update(a)
                               \/ AssignBootstrapAdmin(a) \/ AddRole(a)
      PROVE  AdminInv'
  BY <1>6, SignInStep, UpdateStep, AssignBootstrapAdminStep, AddRoleStep
<1>7. ASSUME NEW a \in Admins, Invalidate(a) \/ RequestFails(a)
      PROVE  AdminInv'
  BY <1>7, InvalidateStep, FailStep DEF RequestFails
<1> QED BY <1>1, <1>2, <1>3, <1>4, <1>5, <1>6, <1>7 DEF Next

-----------------------------------------------------------------------------
(* What a step may never do.                                               *)

\* The permissions of a protected seed change only in SyncRBAC, or grow in a sign-in.
LEMMA SeedPermissionsStay ==
  ASSUME AdminInv, [Next]_vars, NEW r \in RoleIds, Seed(r), perms'[r] # perms[r]
  PROVE  \E a \in Admins : \/ req[a].pc = "replace" /\ req[a].op = "sync"
                           \/ req[a].pc = "save" /\ perms[r] \subseteq perms'[r]
<1>1. perms' # perms
  OBVIOUS
<1>2. PICK a \in Admins : \/ Attach(a) \/ UpdateRole(a) \/ SyncBind(a) \/ Update(a)
  <2>1. ASSUME UNCHANGED tables PROVE FALSE
    BY <1>1, <2>1, SMTT(30) DEF tables
  <2>2. ASSUME NEW a \in Admins, Arrive(a) PROVE FALSE
    BY <2>1, <2>2 DEF Arrive, Begin
  <2>3. ASSUME NEW a \in Admins, FindRole(a) \/ FindByPairs(a) \/ FindPermission(a) \/ Guard(a)
                                   \/ GuardFails(a) \/ Reread(a)
        PROVE  FALSE
    BY <2>1, <2>3 DEF FindRole, FindByPairs, FindPermission, Guard, GuardFails, Reread, Reject, Proceed
  <2>4. ASSUME NEW a \in Admins, FindRoles(a) \/ SetUserRoles(a) \/ CreateRole(a)
                                   \/ FindPermissions(a) \/ DeleteRole(a)
        PROVE  FALSE
    BY <1>1, <2>1, <2>4 DEF FindRoles, SetUserRoles, CreateRole, FindPermissions, DeleteRole,
       Reject, Proceed
  <2>5. ASSUME NEW a \in Admins, CreatePermission(a) \/ UpdatePermission(a) \/ DeletePermission(a)
        PROVE  FALSE
    BY <1>1, <2>1, <2>5 DEF CreatePermission, UpdatePermission, DeletePermission, Reject, Proceed
  <2>6. ASSUME NEW a \in Admins, SyncPermission(a) \/ SyncRoles(a) \/ SyncFind(a) \/ SyncUser(a)
                                   \/ SyncAppend(a)
        PROVE  FALSE
    BY <1>1, <2>1, <2>6 DEF SyncPermission, SyncRoles, SyncFind, SyncUser, SyncAppend, Proceed, Fail
  <2>7. ASSUME NEW a \in Admins, NEW u \in Users, SignIn(a, u) PROVE FALSE
    BY <2>1, <2>7 DEF SignIn, Begin
  <2>8. ASSUME NEW a \in Admins, AssignBootstrapAdmin(a) \/ AddRole(a) \/ Invalidate(a)
                                   \/ RequestFails(a)
        PROVE  FALSE
    BY <1>1, <2>1, <2>8 DEF AssignBootstrapAdmin, AddRole, Invalidate, RequestFails, Fail,
       Reject, Proceed
  <2>9. ~UNCHANGED vars
    BY <1>1 DEF vars
  <2> QED BY <2>2, <2>3, <2>4, <2>5, <2>6, <2>7, <2>8, <2>9 DEF Next
<1>3. RequestOK(req[a]) /\ perms \in [RoleIds -> SUBSET PermIds]
  BY DEF AdminInv, TablesOK
<1>4. CASE Attach(a)
  BY <1>3, <1>4 DEF Attach, RequestOK, Linking
<1>5. CASE UpdateRole(a)
  <2>1. req[a].pc = "replace" /\ req[a].op = "update_role"
    BY <1>5 DEF UpdateRole, Writes
  <2>2. req[a].id # r
    BY <1>3, <2>1 DEF RequestOK, Linking
  <2> QED BY <1>1, <1>3, <1>5, <2>2 DEF UpdateRole, Reject, Proceed, tables
<1>6. CASE SyncBind(a)
  BY <1>6 DEF SyncBind
<1>7. CASE Update(a)
  <2>1. req[a].pc = "save" /\ perms[r] \subseteq perms'[r]
    BY <1>7 DEF Update
  <2> QED BY <2>1
<1> QED BY <1>2, <1>4, <1>5, <1>6, <1>7

\* So the protected seeds stay as they are.
LEMMA SeedsStay ==
  ASSUME AdminInv, [Next]_vars, AdminInv'
  PROVE  \A r \in RoleIds :
           name[r] \in SeedRoles \cap ProtectedRoles =>
             /\ name'[r] = name[r]
             /\ perms'[r] # perms[r] =>
                  \E a \in Admins : \/ req[a].pc = "replace" /\ req[a].op = "sync"
                                    \/ req[a].pc = "save" /\ perms[r] \subseteq perms'[r]
<1> SUFFICES ASSUME NEW r \in RoleIds, name[r] \in SeedRoles \cap ProtectedRoles
             PROVE  /\ name'[r] = name[r]
                    /\ perms'[r] # perms[r] =>
                         \E a \in Admins : \/ req[a].pc = "replace" /\ req[a].op = "sync"
                                           \/ req[a].pc = "save" /\ perms[r] \subseteq perms'[r]
  OBVIOUS
<1>1. \/ name[r] = "admin" /\ "admin" \in ProtectedRoles /\ r = 1
      \/ name[r] = "user" /\ "user" \in ProtectedRoles /\ r = 2
  <2>1. RoleExists(r) /\ name[r] \in {"admin", "user"} /\ 1 \in RoleIds /\ 2 \in RoleIds
    BY NamesAssumption, KeysAssumption DEF RoleExists, SeedRoles
  <2> QED BY <2>1 DEF AdminInv, TablesOK
<1>2. Seed(r)
  BY <1>1 DEF Seed
<1>3. name'[r] = name[r]
  BY <1>1 DEF AdminInv, TablesOK
<1> QED BY <1>2, <1>3, SeedPermissionsStay

\* A step of one request leaves the others where they are.
LEMMA OthersWait ==
  ASSUME AdminInv, NEW a \in Admins, NEW b \in Admins, b # a,
         (\E q : req' = [req EXCEPT ![b] = q]) \/ (\E q : Change(b, q))
  PROVE  req'[a].pc = req[a].pc
<1>1. CASE \E q : req' = [req EXCEPT ![b] = q]
  BY <1>1 DEF AdminInv
<1>2. CASE \E q : Change(b, q)
  <2>1. PICK o \in Request : o = req[a]
    BY DEF AdminInv
  <2>2. req'[a] = [o EXCEPT !.raced = @ \/ o.pc # "idle"]
    BY <1>2, <2>1 DEF Change
  <2> QED BY <2>1, <2>2 DEF Request
<1> QED BY <1>1, <1>2

\* Every step is a step of one request.
LEMMA StepsOfRequests ==
  ASSUME NEW b \in Admins,
         \/ Arrive(b) \/ (\E u \in Users : SignIn(b, u))
         \/ FindRole(b) \/ FindByPairs(b) \/ FindPermission(b) \/ Guard(b) \/ GuardFails(b)
         \/ FindRoles(b) \/ SetUserRoles(b)
         \/ CreateRole(b) \/ FindPermissions(b) \/ Attach(b) \/ UpdateRole(b) \/ DeleteRole(b)
         \/ CreatePermission(b) \/ UpdatePermission(b) \/ DeletePermission(b) \/ Reread(b)
         \/ SyncPermission(b) \/ SyncRoles(b) \/ SyncFind(b) \/ SyncBind(b) \/ SyncUser(b)
         \/ SyncAppend(b)
         \/ Update(b) \/ AssignBootstrapAdmin(b) \/ AddRole(b) \/ Invalidate(b) \/ RequestFails(b)
  PROVE  (\E q : req' = [req EXCEPT ![b] = q]) \/ (\E q : Change(b, q))
<1> DEFINE Moves == (\E q : req' = [req EXCEPT ![b] = q]) \/ (\E q : Change(b, q))
<1>1. ASSUME NEW q, Begin(b, q) \/ Proceed(b, q) PROVE Moves
  BY <1>1 DEF Begin, Proceed
<1>2. ASSUME NEW q, Write(b, q) \/ \E back : Replaced(b, q, back) PROVE Moves
  BY <1>2 DEF Write, Replaced
<1>3. ASSUME Reject(b) PROVE Moves
  BY <1>1, <1>3 DEF Reject
<1>4. ASSUME Fail(b) PROVE Moves
  BY <1>4 DEF Fail
<1> SUFFICES Moves
  OBVIOUS
<1> HIDE DEF Moves
<1>5. CASE Arrive(b) \/ \E u \in Users : SignIn(b, u)
  BY <1>1, <1>5 DEF Arrive, SignIn
<1>6. CASE FindRole(b) \/ FindByPairs(b) \/ FindPermission(b) \/ Guard(b) \/ GuardFails(b) \/ Reread(b)
  BY <1>1, <1>3, <1>6, SMTT(30) DEF FindRole, FindByPairs, FindPermission, Guard, GuardFails, Reread
<1>7. CASE \/ FindRoles(b) \/ SetUserRoles(b) \/ CreateRole(b) \/ FindPermissions(b) \/ Attach(b)
           \/ UpdateRole(b) \/ DeleteRole(b)
  BY <1>1, <1>2, <1>3, <1>7 DEF FindRoles, SetUserRoles, CreateRole, FindPermissions, Attach,
     UpdateRole, DeleteRole
<1>8. CASE CreatePermission(b) \/ UpdatePermission(b) \/ DeletePermission(b)
  BY <1>2, <1>3, <1>8 DEF CreatePermission, UpdatePermission, DeletePermission
<1>9. CASE SyncPermission(b) \/ SyncRoles(b) \/ SyncFind(b) \/ SyncBind(b) \/ SyncUser(b) \/ SyncAppend(b)
  BY <1>1, <1>2, <1>4, <1>9 DEF SyncPermission, SyncRoles, SyncFind, SyncBind, SyncUser, SyncAppend
<1>10. CASE Update(b) \/ AssignBootstrapAdmin(b) \/ AddRole(b)
  BY <1>1, <1>2, <1>3, <1>10 DEF Update, AssignBootstrapAdmin, AddRole
<1>11. CASE Invalidate(b) \/ RequestFails(b)
  BY <1>4, <1>11 DEF Invalidate, RequestFails, Moves
<1> QED BY <1>5, <1>6, <1>7, <1>8, <1>9, <1>10, <1>11

\* While the tables stay, so do everybody's permissions.
LEMMA SamePermissions ==
  ASSUME UNCHANGED tables, NEW u
  PROVE  PermissionsOf(u)' = PermissionsOf(u)
<1>1. name' = name /\ perms' = perms /\ token' = token /\ roles' = roles
  BY DEF tables
<1>2. RolesOf(u)' = RolesOf(u)
  BY <1>1 DEF RolesOf, RoleExists
<1>3. \A r : Granted(r)' = Granted(r)
  BY <1>1 DEF Granted, PermExists
<1> QED BY <1>2, <1>3 DEF PermissionsOf

\* A role that is replaced as the guard was told leaves its caller the permission.
LEMMA RoleMutationSafe ==
  ASSUME TablesOK, NEW u \in Users, NEW r \in RoleIds, NEW required, NEW next,
         ~WouldLockOutRoleMutation(u, r, required, next), required \in PermissionsOf(u),
         RolesOf(u) \ {r} \subseteq RolesOf(u)', r \in RolesOf(u) /\ required \in next => r \in RolesOf(u)',
         \A s \in RoleIds : s # r => Granted(s)' = Granted(s),
         r \in RolesOf(u)' => Granted(r)' = next
  PROVE  required \in PermissionsOf(u)'
<1>1. PICK s \in RolesOf(u) : required \in IF s = r THEN next ELSE Granted(s)
  BY DEF WouldLockOutRoleMutation
<1>2. s \in RoleIds
  BY <1>1 DEF RolesOf, TablesOK
<1>3. s \in RolesOf(u)' /\ required \in Granted(s)'
  BY <1>1, <1>2
<1> QED BY <1>3 DEF PermissionsOf

\* UpdateRole takes nothing from its caller that its path requires.
LEMMA UpdateRoleSafe ==
  ASSUME AdminInv, NEW a \in Admins, NEW u \in Users, UpdateRole(a), req[a].user = u,
         ~req[a].raced, ~req[a].open, Required("update_role") \in PermissionsOf(u)
  PROVE  Required("update_role") \in PermissionsOf(u)'
<1>1. PICK o \in Request : o = req[a]
  BY DEF AdminInv
<1>2. o.pc = "replace" /\ o.op = "update_role" /\ RequestOK(o) /\ GuardOK(o) /\ TablesOK
  BY <1>1 DEF UpdateRole, Writes, AdminInv
<1>3. /\ o.next = {token[p] : p \in {i \in o.ids : PermExists(i)}}
      /\ ~WouldLockOut(o) /\ o.pairs = PermRows(o.ids)
  BY <1>1, <1>2 DEF GuardOK, Guarded
<1>4. ~WouldLockOutRoleMutation(u, o.id, Required("update_role"), o.next)
  BY <1>1, <1>2, <1>3 DEF WouldLockOut
<1>5. CASE Reject(a)
  BY <1>5, SamePermissions DEF Reject, Proceed
<1>6. PICK n : n = IF o.name = Nil THEN o.seen ELSE o.name
  OBVIOUS
<1>7. CASE /\ name' = [name EXCEPT ![o.id] = n] /\ UNCHANGED roles
           /\ token' = Upserted(token, o.pairs) /\ perms' = [perms EXCEPT ![o.id] = Keys(o.pairs)]
  <2>1. n \in Names /\ o.id \in RoleIds
    BY <1>2, <1>6 DEF Request, RequestOK, Linking
  <2>2. \A s \in RoleIds : RoleExists(s) => RoleExists(s)'
    BY <1>2, <1>7, <2>1 DEF TablesOK, RoleExists
  <2>3. RolesOf(u) \subseteq RolesOf(u)'
    BY <1>2, <1>7, <2>2 DEF RolesOf, TablesOK
  <2>4. o.ids \in SUBSET PermIds
    BY <1>2 DEF RequestOK
  <2>5. /\ o.pairs \in SUBSET (PermIds \X Tokens) /\ Distinct(o.pairs)
        /\ \A x \in o.pairs : PermExists(x[1])
        /\ Keys(o.pairs) = {p \in o.ids : PermExists(p)}
    BY <1>2, <1>3, <2>4, PermsRead
  <2>6. token' = token
    BY <1>2, <1>7, <2>5, PermsBack
  <2>7. \A p : PermExists(p)' <=> PermExists(p)
    BY <2>6 DEF PermExists
  <2>8. ASSUME NEW s \in RoleIds
        PROVE  Granted(s)' = IF s = o.id THEN o.next ELSE Granted(s)
    <3>1. perms'[s] = IF s = o.id THEN {p \in o.ids : PermExists(p)} ELSE perms[s]
      BY <1>2, <1>7, <2>5 DEF TablesOK
    <3>2. Granted(s)' = {token[p] : p \in {i \in perms'[s] : PermExists(i)}}
      BY <2>6, <2>7 DEF Granted
    <3>3. CASE s = o.id
      BY <1>3, <3>1, <3>2, <3>3
    <3>4. CASE s # o.id
      BY <3>1, <3>2, <3>4 DEF Granted
    <3> QED BY <3>3, <3>4
  <2> QED BY <1>2, <1>4, <2>1, <2>3, <2>8, RoleMutationSafe
<1> QED BY <1>1, <1>5, <1>6, <1>7 DEF UpdateRole

\* DeleteRole takes nothing from its caller that its path requires.
LEMMA DeleteRoleSafe ==
  ASSUME AdminInv, NEW a \in Admins, NEW u \in Users, DeleteRole(a), req[a].user = u,
         ~req[a].raced, ~req[a].open, Required("delete_role") \in PermissionsOf(u)
  PROVE  Required("delete_role") \in PermissionsOf(u)'
<1>1. PICK o \in Request : o = req[a]
  BY DEF AdminInv
<1>2. o.pc = "write" /\ o.op = "delete_role" /\ RequestOK(o) /\ GuardOK(o) /\ TablesOK
  BY <1>1 DEF DeleteRole, Writes, AdminInv
<1>3. ~WouldLockOut(o)
  BY <1>1, <1>2 DEF GuardOK, Guarded
<1>4. ~WouldLockOutRoleMutation(u, o.id, Required("delete_role"), {})
  BY <1>1, <1>2, <1>3 DEF WouldLockOut, WouldLockOutRoleDeletion
<1>5. CASE Reject(a)
  BY <1>5, SamePermissions DEF Reject, Proceed
<1>6. CASE name' = [name EXCEPT ![o.id] = Gone] /\ UNCHANGED <<perms, token, roles>>
  <2>1. o.id \in RoleIds /\ Gone \notin Names
    BY <1>2, NamesAssumption DEF RequestOK, Linking
  <2>2. \A s \in RoleIds : s # o.id => (RoleExists(s) => RoleExists(s)')
    BY <1>2, <1>6 DEF TablesOK, RoleExists
  <2>3. RolesOf(u) \ {o.id} \subseteq RolesOf(u)'
    BY <1>2, <1>6, <2>2 DEF RolesOf, TablesOK
  <2>4. o.id \notin RolesOf(u)'
    BY <1>2, <1>6, <2>1 DEF RolesOf, RoleExists, TablesOK
  <2>5. \A s : Granted(s)' = Granted(s)
    BY <1>6 DEF Granted, PermExists
  <2> QED BY <1>2, <1>4, <2>1, <2>3, <2>4, <2>5, RoleMutationSafe
<1> QED BY <1>1, <1>5, <1>6 DEF DeleteRole

\* A permission that the caller has through another pair, or that keeps the required pair,
\* is not lost.
LEMMA PermissionMutationSafe ==
  ASSUME TablesOK, NEW u \in Users, NEW p \in PermIds, NEW t, NEW required, Gone \notin Tokens,
         token' = [token EXCEPT ![p] = t], UNCHANGED <<name, perms, roles>>,
         required \in PermissionsOf(u), required \in Tokens, required # token[p] \/ required = t
  PROVE  required \in PermissionsOf(u)'
<1>1. PICK r \in RolesOf(u) : required \in Granted(r)
  BY DEF PermissionsOf
<1>2. PICK i \in perms[r] : PermExists(i) /\ token[i] = required
  BY <1>1 DEF Granted
<1>3. r \in RoleIds /\ i \in PermIds
  BY <1>1, <1>2 DEF RolesOf, TablesOK
<1>4. token'[i] = required
  BY <1>2, <1>3 DEF TablesOK
<1>5. PermExists(i)'
  BY <1>4 DEF PermExists
<1>6. required \in Granted(r)'
  BY <1>2, <1>4, <1>5 DEF Granted
<1>7. r \in RolesOf(u)'
  BY <1>1 DEF RolesOf, RoleExists
<1> QED BY <1>6, <1>7 DEF PermissionsOf

\* UpdatePermission and DeletePermission take nothing from their caller that their path
\* requires.
LEMMA PermissionWriteSafe ==
  ASSUME AdminInv, NEW a \in Admins, NEW u \in Users, NEW op \in {"update_perm", "delete_perm"},
         Writes(a, op), UpdatePermission(a) \/ DeletePermission(a), req[a].user = u,
         ~req[a].raced, ~req[a].open, Required(op) \in PermissionsOf(u)
  PROVE  Required(op) \in PermissionsOf(u)'
<1>1. PICK o \in Request : o = req[a]
  BY DEF AdminInv
<1>2. o.pc = "write" /\ o.op = op /\ RequestOK(o) /\ GuardOK(o) /\ TablesOK
  BY <1>1 DEF Writes, AdminInv
<1>3. o.seen = token[o.id] /\ ~WouldLockOut(o) /\ o.id \in PermIds
  BY <1>1, <1>2 DEF GuardOK, Guarded, RequestOK, Linking
<1>4. Required(op) \in Tokens /\ Gone \notin Tokens
  BY TokensAssumption DEF Required
<1>5. CASE Reject(a)
  BY <1>5, SamePermissions DEF Reject, Proceed
<1>6. CASE op = "update_perm" /\ ~Reject(a)
  <2>1. token' = [token EXCEPT ![o.id] = o.tok] /\ UNCHANGED <<name, perms, roles>>
    BY <1>1, <1>2, <1>6 DEF UpdatePermission, DeletePermission, Writes
  <2>2. ~WouldLockOutPermissionMutation(u, o.seen, o.tok, Required(op))
    BY <1>1, <1>2, <1>3, <1>6 DEF WouldLockOut
  <2>3. Required(op) # token[o.id] \/ Required(op) = o.tok
    BY <1>3, <2>2 DEF WouldLockOutPermissionMutation
  <2> QED BY <1>2, <1>3, <1>4, <2>1, <2>3, PermissionMutationSafe
<1>7. CASE op = "delete_perm" /\ ~Reject(a)
  <2>1. token' = [token EXCEPT ![o.id] = Gone] /\ UNCHANGED <<name, perms, roles>>
    BY <1>1, <1>2, <1>7 DEF UpdatePermission, DeletePermission, Writes
  <2>2. ~WouldLockOutPermissionDeletion(u, o.seen, Required(op))
    BY <1>1, <1>2, <1>3, <1>7 DEF WouldLockOut
  <2>3. Required(op) # token[o.id]
    BY <1>3, <2>2 DEF WouldLockOutPermissionDeletion
  <2> QED BY <1>2, <1>3, <1>4, <2>1, <2>3, PermissionMutationSafe
<1> QED BY <1>5, <1>6, <1>7

\* A step that ends the write of a guarded request is its own.
LEMMA GuardedWrite ==
  ASSUME AdminInv, [Next]_vars, NEW a \in Admins, NEW op \in Guarded, Writes(a, op),
         req'[a].pc # req[a].pc
  PROVE  \/ UpdateRole(a) /\ op = "update_role"
         \/ DeleteRole(a) /\ op = "delete_role"
         \/ (UpdatePermission(a) \/ DeletePermission(a)) /\ op \in {"update_perm", "delete_perm"}
         \/ UNCHANGED tables
<1>1. /\ req[a].pc \in {"write", "replace"} /\ req[a].op = op
      /\ req[a].pc = "replace" <=> op = "update_role"
  BY DEF Writes, Guarded
<1>2. PICK b \in Admins :
         \/ Arrive(b) \/ (\E u \in Users : SignIn(b, u))
         \/ FindRole(b) \/ FindByPairs(b) \/ FindPermission(b) \/ Guard(b) \/ GuardFails(b)
         \/ FindRoles(b) \/ SetUserRoles(b)
         \/ CreateRole(b) \/ FindPermissions(b) \/ Attach(b) \/ UpdateRole(b) \/ DeleteRole(b)
         \/ CreatePermission(b) \/ UpdatePermission(b) \/ DeletePermission(b) \/ Reread(b)
         \/ SyncPermission(b) \/ SyncRoles(b) \/ SyncFind(b) \/ SyncBind(b) \/ SyncUser(b)
         \/ SyncAppend(b)
         \/ Update(b) \/ AssignBootstrapAdmin(b) \/ AddRole(b) \/ Invalidate(b) \/ RequestFails(b)
  <2>1. ~UNCHANGED vars
    BY <1>1 DEF vars
  <2> QED BY <2>1 DEF Next
<1>3. b = a
  BY <1>1, <1>2, StepsOfRequests, OthersWait, SMTT(30)
<1>4. ~Arrive(a) /\ ~\E u \in Users : SignIn(a, u)
  BY <1>1 DEF Arrive, SignIn, Begin
<1>5. ~(FindRole(a) \/ FindByPairs(a) \/ FindPermission(a) \/ Guard(a) \/ GuardFails(a) \/ Reread(a))
  BY <1>1 DEF FindRole, FindByPairs, FindPermission, Guard, GuardFails, Reread
<1>6. ~(FindRoles(a) \/ SetUserRoles(a) \/ CreateRole(a) \/ FindPermissions(a) \/ Attach(a)
          \/ CreatePermission(a))
  BY <1>1 DEF FindRoles, SetUserRoles, CreateRole, FindPermissions, Attach, CreatePermission,
     Writes, Guarded
<1>7. ~(SyncPermission(a) \/ SyncRoles(a) \/ SyncFind(a) \/ SyncBind(a) \/ SyncUser(a) \/ SyncAppend(a))
  BY <1>1 DEF SyncPermission, SyncRoles, SyncFind, SyncBind, SyncUser, SyncAppend, Guarded
<1>8. ~(Update(a) \/ AssignBootstrapAdmin(a) \/ AddRole(a) \/ Invalidate(a))
  BY <1>1 DEF Update, AssignBootstrapAdmin, AddRole, Invalidate
<1>9. RequestFails(a) => UNCHANGED tables
  BY DEF RequestFails, Fail
<1>10. /\ UpdateRole(a) => op = "update_role"
       /\ DeleteRole(a) => op = "delete_role"
       /\ UpdatePermission(a) \/ DeletePermission(a) => op \in {"update_perm", "delete_perm"}
  BY <1>1 DEF UpdateRole, DeleteRole, UpdatePermission, DeletePermission, Writes
<1> QED BY <1>2, <1>3, <1>4, <1>5, <1>6, <1>7, <1>8, <1>9, <1>10

\* So a guarded mutation that was not raced locks nobody out.
LEMMA GuardedWriteSafe ==
  ASSUME AdminInv, [Next]_vars, NEW a \in Admins, NEW op \in Guarded, NEW u \in Users,
         Writes(a, op), req[a].user = u, ~req[a].raced, ~req[a].open,
         req'[a].pc # req[a].pc,
         Required(op) \in PermissionsOf(u)
  PROVE  Required(op) \in PermissionsOf(u)'
<1>1. CASE UpdateRole(a) /\ op = "update_role"
  BY <1>1, UpdateRoleSafe
<1>2. CASE DeleteRole(a) /\ op = "delete_role"
  BY <1>2, DeleteRoleSafe
<1>3. CASE (UpdatePermission(a) \/ DeletePermission(a)) /\ op \in {"update_perm", "delete_perm"}
  BY <1>3, PermissionWriteSafe
<1>4. CASE UNCHANGED tables
  BY <1>4, SamePermissions
<1> QED BY <1>1, <1>2, <1>3, <1>4, GuardedWrite

-----------------------------------------------------------------------------
(* Theorems.                                                               *)

\* The tables stay well typed with unique names and pairs, protected seeds stay in place,
\* what requests have read is current unless they are raced, and somebody owes every dirty
\* cache.
THEOREM AdminInvHolds == Spec => []AdminInv
<1> QED BY AdminInit, AdminStep, PTL DEF Spec

\* The tables and requests are well typed, and the unique indexes on the names of roles and
\* the pairs of permissions are never violated, not even by the rows that come back.
THEOREM AdminTypeCorrect == Spec => []TypeOK
<1>1. AdminInv => TypeOK
  BY DEF AdminInv, TablesOK, TypeOK, NameTaken, TokenTaken
<1> QED BY <1>1, AdminInvHolds, PTL

\* Whatever requests race, a seeded role that the configuration protects keeps its name and
\* is never deleted, and only SyncRBAC and a sign-in touch its links (isProtectedRole).
THEOREM ProtectedRolesStayHolds == Spec => ProtectedRolesStay
<1>1. AdminInv /\ AdminInv' /\ [Next]_vars =>
        [\A r \in RoleIds :
           name[r] \in SeedRoles \cap ProtectedRoles =>
             /\ name'[r] = name[r]
             /\ perms'[r] # perms[r] =>
                  \E a \in Admins :
                    \/ req[a].pc = "replace" /\ req[a].op = "sync"
                    \/ req[a].pc = "save" /\ perms[r] \subseteq perms'[r]]_vars
  BY SeedsStay
<1> QED BY <1>1, AdminInvHolds, PTL DEF Spec, ProtectedRolesStay

\* A guarded mutation never takes from its caller the permission that its own path requires,
\* unless another request wrote meanwhile or the guard could not read the caller
\* (wouldLockOutRoleMutation and its siblings).
THEOREM GuardPreventsLockOutHolds == Spec => GuardPreventsLockOut
<1>1. AdminInv /\ [Next]_vars =>
        [\A a \in Admins :
           \A op \in {"update_role", "delete_role", "update_perm", "delete_perm"}, u \in Users :
             /\ Writes(a, op) /\ req[a].user = u /\ ~req[a].raced /\ ~req[a].open
             /\ req'[a].pc # req[a].pc /\ Required(op) \in PermissionsOf(u)
             => Required(op) \in PermissionsOf(u)']_vars
  <2> SUFFICES ASSUME AdminInv, [Next]_vars, NEW a \in Admins,
                      NEW op \in {"update_role", "delete_role", "update_perm", "delete_perm"},
                      NEW u \in Users,
                      Writes(a, op), req[a].user = u, ~req[a].raced, ~req[a].open,
                      req'[a].pc # req[a].pc, Required(op) \in PermissionsOf(u)
               PROVE  Required(op) \in PermissionsOf(u)'
    OBVIOUS
  <2>1. op \in Guarded
    BY DEF Guarded
  <2> QED BY <2>1, GuardedWriteSafe
<1> QED BY <1>1, AdminInvHolds, PTL DEF Spec, GuardPreventsLockOut

\* When all requests have ended and nothing failed, no cache is left with what a mutation
\* has changed, other than what requests brought back that link rows they have read, and what
\* a raced or bootstrap sign-in added: a handler that panics before it invalidates leaves
\* that to the request that deleted its row.
THEOREM NoCacheLeftBehindHolds == Spec => []NoCacheLeftBehind
<1>1. AdminInv => NoCacheLeftBehind
  BY DEF AdminInv, OwedOK, NoCacheLeftBehind, Owes, Linking
<1> QED BY <1>1, AdminInvHolds, PTL
=============================================================================
