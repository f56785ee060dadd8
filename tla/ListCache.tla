----------------------------- MODULE ListCache -----------------------------
(***************************************************************************)
(* The lists of users, roles and permissions an administrator sees: their  *)
(* cache, in memory or in Redis, the singleflight group in front of the    *)
(* database, and the cache of look-ups that found nothing.                 *)
(*                                                                         *)
(* What a list shows is the number of changes its tables have seen; which  *)
(* change shows in which list is AdminRBAC's concern.  Both caches are     *)
(* stores of namespaces and keys with the same operations: a namespace is  *)
(* one of the lists, whose keys are caller and query, or "missing" for the *)
(* records (roles; permissions alike) a look-up did not find, whose keys   *)
(* are primary keys.  The Redis store keeps the keys of a namespace in an  *)
(* index set; an invalidation reads the index in one round trip and        *)
(* deletes those keys and the index in another.  The store in memory is    *)
(* that of one process, which serves all requests that use it.             *)
(***************************************************************************)
EXTENDS Naturals, Sequences, Functions

CONSTANTS
  Queries,     \* cache keys of list requests: the caller and the query
  Records,     \* primary keys of roles
  Readers,     \* list requests in progress at the same time
  Processes,   \* processes that share the Redis store
  Admins,      \* mutations in progress at the same time
  Watched,     \* lists that are asked for
  Ops,         \* operations administrators call
  MaxChanges,  \* bound on the number of changes
  Stores,      \* the stores a deployment may have chosen: "memory", "redis"
  Nil

Lists == {"users", "roles", "permissions"}
Namespaces == Lists \cup {"missing"}
Keys == Queries \cup Records
AllOps == {"create_role", "update_role", "delete_role", "permission", "set_roles", "sync"}

ASSUME ListsAssumption == Watched \subseteq Lists /\ Ops \subseteq AllOps
ASSUME StoresAssumption == Stores \subseteq {"memory", "redis"}
ASSUME KeysAssumption == Queries \cap Records = {} /\ Nil \notin Keys

VARIABLES
  store,    \* which store this deployment uses
  version,  \* version[l]: changes of what list l shows
  role,     \* role[i]: "unused", "live" or "gone"
  data,     \* data[n][k]: the entry, Nil where there is none
  index,    \* Redis: index[n], the keys the index set of the namespace names
  reader,   \* list requests in progress
  adm       \* mutations in progress

vars == <<store, version, role, data, index, reader, adm>>
tables == <<version, role>>
caches == <<data, index>>

\* raced (history): an administrator's change that invalidates the list was between its
\* commit and the end of that invalidation while the page was read and stored; or an
\* invalidation of a later change has failed or was given up; or a later change came from
\* elsewhere.
Page == [total : Nat, rows : Nat, raced : BOOLEAN]
NoPage == [total |-> 0, rows |-> 0, raced |-> FALSE]

\* floor (history): the changes that were invalidated when the request arrived.
Reader ==
  [pc    : {"idle", "missed", "count", "find", "set", "wait", "answered"},
   on    : Processes \cup {Nil},
   list  : Lists \cup {Nil},
   query : Queries \cup {Nil},
   page  : Page,
   floor : Nat]
IdleReader ==
  [pc |-> "idle", on |-> Nil, list |-> Nil, query |-> Nil, page |-> NoPage, floor |-> 0]

\* absent (history): the record was missing at some time during the request; at (history):
\* the version of each list that the first change has made.
Mutation ==
  [pc     : {"idle", "lookup", "find", "remember", "not_found", "commit", "more", "reread",
             "invalidate", "del"},
   op     : AllOps \cup {Nil},
   id     : Records \cup {Nil},
   hit    : BOOLEAN,           \* the look-up is known to have found nothing
   todo   : Seq(Namespaces),   \* namespaces still to be invalidated
   keys   : SUBSET Keys,       \* keys read from the index
   absent : BOOLEAN,
   at     : [Lists -> Nat]]
NoChange == [l \in Lists |-> 0]
IdleMutation ==
  [pc |-> "idle", op |-> Nil, id |-> Nil, hit |-> FALSE, todo |-> <<>>, keys |-> {},
   absent |-> FALSE, at |-> NoChange]

TypeOK ==
  /\ store \in Stores
  /\ version \in [Lists -> Nat]
  /\ role \in [Records -> {"unused", "live", "gone"}]
  /\ data \in [Namespaces -> [Keys -> Page \cup {Nil}]]
  /\ index \in [Namespaces -> SUBSET Keys]
  /\ reader \in [Readers -> Reader]
  /\ adm \in [Admins -> Mutation]

Init ==
  /\ store \in Stores
  /\ version = NoChange
  /\ role \in [Records -> {"unused", "live"}]
  /\ data = [n \in Namespaces |-> [k \in Keys |-> Nil]]
  /\ index = [n \in Namespaces |-> {}]
  /\ reader = [r \in Readers |-> IdleReader]
  /\ adm = [a \in Admins |-> IdleMutation]

-----------------------------------------------------------------------------
(* The stores.                                                             *)

Set(n, k, page) ==
  /\ data' = [data EXCEPT ![n][k] = page]
  /\ index' = IF store = "redis" THEN [index EXCEPT ![n] = @ \cup {k}] ELSE index

\* Entries expire on their own.  The index set lives a minute longer than the newest of them.
Expire(n, k) ==
  /\ data[n][k] # Nil
  /\ data' = [data EXCEPT ![n][k] = Nil]
  /\ UNCHANGED <<store, tables, index, reader, adm>>
ExpireIndex(n) ==
  /\ index[n] # {} /\ \A k \in Keys : data[n][k] = Nil
  /\ index' = [index EXCEPT ![n] = {}]
  /\ UNCHANGED <<store, tables, data, reader, adm>>

Drop(n, keys) == data' = [data EXCEPT ![n] = [k \in Keys |-> IF k \in keys THEN Nil ELSE @[k]]]

-----------------------------------------------------------------------------
(* What an operation of an administrator changes, and what it invalidates, *)
(* in the order of the code.                                               *)

Shows(op) ==
  CASE op \in {"create_role", "update_role", "delete_role"} -> {"roles", "users"}
    [] op = "permission" -> {"permissions", "roles"}
    [] op = "set_roles" -> {"users"}
    [] op = "sync" -> Lists

\* Faulty: the list of users is thought not to show roles.
invalidateOwnList(op) ==
  CASE op \in {"create_role", "update_role", "delete_role"} -> <<"roles", "missing">>
    [] op = "permission" -> <<"permissions", "roles">>
    [] op = "set_roles" -> <<"users">>
    [] op = "sync" -> <<"users", "roles", "permissions", "missing">>

invalidateAdminListCaches(op) ==
  CASE op \in {"create_role", "update_role", "delete_role"} -> <<"roles", "users", "missing">>
    [] op = "permission" -> <<"permissions", "roles">>
    [] op = "set_roles" -> <<"users">>
    [] op = "sync" -> <<"users", "roles", "permissions", "missing">>

\* A committed change has not finished invalidating the namespace.
Owing == {"more", "reread", "invalidate", "del"}
Owes(a, n) == adm[a].pc \in Owing /\ n \in Range(adm[a].todo)
Pending(n) == \E a \in Admins : Owes(a, n)

\* The latest change of the list before which everything was invalidated.
Settled(l) ==
  LET open == {a \in Admins : Owes(a, l) /\ adm[a].at[l] > 0}
  IN IF open = {} THEN version[l]
     ELSE CHOOSE v \in 0 .. version[l] : /\ \E a \in open : adm[a].at[l] = v + 1
                                         /\ \A a \in open : v < adm[a].at[l]

Filling(r) == reader[r].pc \in {"count", "find", "set"}

\* Pages that are being read when a change of the lists ls commits.
Overtaken(ls) ==
  [r \in Readers |-> IF Filling(r) /\ reader[r].list \in ls
                     THEN [reader[r] EXCEPT !.page.raced = TRUE] ELSE reader[r]]
Outdated(ns) ==
  [n \in Namespaces |-> [k \in Keys |->
     IF n \notin ns \/ data[n][k] = Nil THEN data[n][k] ELSE [data[n][k] EXCEPT !.raced = TRUE]]]

-----------------------------------------------------------------------------
(* List requests: ListUsers, ListRoles and ListPermissions.                *)

Read(r, q) == reader' = [reader EXCEPT ![r] = q] /\ UNCHANGED <<store, tables, adm>>

\* readAdminListCache; an error of Redis counts as a miss.
Hit(r, p, l, q) ==
  /\ reader[r].pc = "idle" /\ data[l][q] # Nil
  /\ Read(r, [pc |-> "answered", on |-> p, list |-> l, query |-> q, page |-> data[l][q],
              floor |-> Settled(l)])
  /\ UNCHANGED caches
Miss(r, p, l, q) ==
  /\ reader[r].pc = "idle" /\ (data[l][q] = Nil \/ store = "redis")
  /\ Read(r, [pc |-> "missed", on |-> p, list |-> l, query |-> q, page |-> NoPage,
              floor |-> Settled(l)])
  /\ UNCHANGED caches

\* adminListSingleGroup.Do: the first request of a process for a key reads the database,
\* those that come while it does wait for its result.
Leader(r) ==
  {s \in Readers :
     /\ Filling(s) /\ reader[s].list = reader[r].list /\ reader[s].query = reader[r].query
     /\ store = "memory" \/ reader[s].on = reader[r].on}
Lead(r) ==
  /\ reader[r].pc = "missed" /\ Leader(r) = {}
  /\ Read(r, [reader[r] EXCEPT !.pc = "count", !.page.raced = Pending(reader[r].list)])
  /\ UNCHANGED caches
Join(r) ==
  /\ reader[r].pc = "missed" /\ Leader(r) # {}
  /\ Read(r, [reader[r] EXCEPT !.pc = "wait"])
  /\ UNCHANGED caches

\* ListPaged: one query counts, another reads the page and what it shows of other tables.
Count(r) ==
  /\ reader[r].pc = "count"
  /\ Read(r, [reader[r] EXCEPT !.pc = "find", !.page.total = version[reader[r].list]])
  /\ UNCHANGED caches
Find(r) ==
  /\ reader[r].pc = "find"
  /\ Read(r, [reader[r] EXCEPT !.pc = "set", !.page.rows = version[reader[r].list]])
  /\ UNCHANGED caches
\* An error of either query is the answer of everyone who waits.
QueryFails(r) ==
  /\ reader[r].pc \in {"count", "find"}
  /\ reader' = [s \in Readers |->
       IF s = r \/ (reader[s].pc = "wait" /\ r \in Leader(s)) THEN IdleReader ELSE reader[s]]
  /\ UNCHANGED <<store, tables, caches, adm>>

\* writeAdminListCache, which may fail in Redis; then the leader and those who wait are answered.
Answer(r) ==
  /\ reader[r].pc = "set"
  /\ \/ Set(reader[r].list, reader[r].query, reader[r].page)
     \/ store = "redis" /\ UNCHANGED caches
  /\ reader' = [s \in Readers |->
       IF s = r \/ (reader[s].pc = "wait" /\ r \in Leader(s))
       THEN [reader[s] EXCEPT !.pc = "answered", !.page = reader[r].page] ELSE reader[s]]
  /\ UNCHANGED <<store, tables, adm>>
Done(r) ==
  /\ reader[r].pc = "answered"
  /\ Read(r, IdleReader)
  /\ UNCHANGED caches

-----------------------------------------------------------------------------
(* Mutations.                                                              *)

Step(a, m) == adm' = [adm EXCEPT ![a] = m] /\ UNCHANGED <<store, tables, reader>>

\* UpdateRole and DeleteRole look the role up first.
Arrive(a, op, i) ==
  LET looks == op \in {"update_role", "delete_role"} IN
  /\ adm[a].pc = "idle"
  /\ i # Nil <=> looks
  /\ Step(a, [IdleMutation EXCEPT !.pc = IF looks THEN "lookup" ELSE "commit", !.op = op,
                                  !.id = i, !.absent = looks /\ role[i] # "live"])
  /\ UNCHANGED caches

\* readNegativeLookupCache; an error of Redis counts as a miss.
Lookup(a) ==
  /\ adm[a].pc = "lookup"
  /\ \E hit \in BOOLEAN :
       /\ IF hit THEN data["missing"][adm[a].id] # Nil
          ELSE data["missing"][adm[a].id] = Nil \/ store = "redis"
       /\ Step(a, [adm[a] EXCEPT !.pc = "find", !.hit = hit])
  /\ UNCHANGED caches

\* Faulty: a hit is taken at its word.
FindByIDTrusting(a) ==
  /\ adm[a].pc = "find"
  /\ Step(a, [adm[a] EXCEPT !.pc = IF adm[a].hit THEN "not_found"
                                   ELSE IF role[adm[a].id] = "live" THEN "commit" ELSE "remember"])
  /\ UNCHANGED caches

\* A hit is confirmed by the query that follows a miss.
FindByID(a) ==
  LET i == adm[a].id IN
  /\ adm[a].pc = "find"
  /\ Step(a, [adm[a] EXCEPT !.pc = IF role[i] = "live" THEN "commit"
                                   ELSE IF adm[a].hit THEN "not_found" ELSE "remember"])
  /\ UNCHANGED caches

\* writeNegativeLookupCache, which may fail, and the answer 404.
Remember(a) ==
  /\ adm[a].pc = "remember"
  /\ Set("missing", adm[a].id, NoPage) \/ (store = "redis" /\ UNCHANGED caches)
  /\ Step(a, [adm[a] EXCEPT !.pc = "not_found"])

\* An answer; or the request is refused for another reason, or an error ends it.
Finish(a) ==
  /\ adm[a].pc \in {"not_found", "find", "commit"}
  /\ Step(a, IdleMutation)
  /\ UNCHANGED caches

\* What a mutation goes on with after its first change.  Create links permissions in another
\* transaction and SyncRBAC has one for each row; an update reads its row back.
After(op) ==
  CASE op \in {"create_role", "sync"} -> {"more", "invalidate"}
    [] op = "update_role" -> {"reread"}
    [] op = "permission" -> {"reread", "invalidate"}
    [] op \in {"delete_role", "set_roles"} -> {"invalidate"}

\* The tables tell others that their role is gone.
Told(b) ==
  IF adm[b].id # Nil /\ role'[adm[b].id] # "live" THEN [adm[b] EXCEPT !.absent = TRUE] ELSE adm[b]

\* The first change, or the only one.  DeleteByID may find that another request was faster.
Commit(a) ==
  LET op == adm[a].op
      todo == invalidateAdminListCaches(op)
  IN
  /\ adm[a].pc = "commit" /\ \A l \in Lists : version[l] < MaxChanges
  /\ \/ /\ op \in {"create_role", "sync"}
        /\ \E i \in Records : role[i] = "unused" /\ role' = [role EXCEPT ![i] = "live"]
     \/ /\ op \in {"update_role", "delete_role"} /\ role[adm[a].id] = "live"
        /\ role' = IF op = "delete_role" THEN [role EXCEPT ![adm[a].id] = "gone"] ELSE role
     \/ op \in {"permission", "set_roles", "sync"} /\ UNCHANGED role
  /\ version' = [l \in Lists |-> IF l \in Shows(op) THEN version[l] + 1 ELSE version[l]]
  /\ reader' = Overtaken(Range(todo))
  /\ \E pc \in After(op) :
       adm' = [b \in Admins |->
         IF b = a
         THEN [IdleMutation EXCEPT !.pc = pc, !.op = op, !.todo = todo,
                 !.id = IF op = "update_role" THEN adm[a].id ELSE Nil,
                 !.at = [l \in Lists |-> IF l \in Shows(op) THEN version[l] + 1 ELSE 0]]
         ELSE Told(b)]
  /\ UNCHANGED <<store, caches>>

\* Another change of the same mutation.
CommitMore(a) ==
  /\ adm[a].pc = "more" /\ \A l \in Lists : version[l] < MaxChanges
  /\ \E ls \in SUBSET Shows(adm[a].op) :
       version' = [l \in Lists |-> IF l \in ls THEN version[l] + 1 ELSE version[l]]
  /\ reader' = Overtaken(Range(adm[a].todo))
  /\ \E pc \in {"more", "invalidate"} : adm' = [adm EXCEPT ![a].pc = pc]
  /\ UNCHANGED <<store, role, caches>>

\* The row is still there (a permission's is not modelled).
Reread(a) ==
  /\ adm[a].pc = "reread" /\ (adm[a].id # Nil => role[adm[a].id] = "live")
  /\ Step(a, [adm[a] EXCEPT !.pc = "invalidate", !.id = Nil])
  /\ UNCHANGED caches

\* A mutation ends and invalidates nothing more: a later change of it fails, the row that is
\* read back is gone and the handler panics, or the process dies.
Abandon(a) ==
  /\ \/ adm[a].pc = "more"
     \/ adm[a].pc = "reread" /\ (adm[a].id # Nil => role[adm[a].id] # "live")
     \/ adm[a].pc \in {"invalidate", "del"} /\ store = "redis"
  /\ data' = Outdated(Range(adm[a].todo))
  /\ Step(a, IdleMutation)
  /\ UNCHANGED index

NextNamespace(a) ==
  IF Len(adm[a].todo) = 1 THEN IdleMutation
  ELSE [adm[a] EXCEPT !.pc = "invalidate", !.todo = Tail(@), !.keys = {}]

\* InvalidateNamespace in memory; in Redis SMEMBERS, and then MULTI with the DELs.
InvalidateMemory(a) ==
  /\ store = "memory" /\ adm[a].pc = "invalidate"
  /\ Drop(Head(adm[a].todo), Keys)
  /\ Step(a, NextNamespace(a))
  /\ UNCHANGED index
SMembers(a) ==
  /\ store = "redis" /\ adm[a].pc = "invalidate"
  /\ Step(a, [adm[a] EXCEPT !.pc = "del", !.keys = index[Head(adm[a].todo)]])
  /\ UNCHANGED caches
Del(a) ==
  /\ adm[a].pc = "del"
  /\ Drop(Head(adm[a].todo), adm[a].keys)
  /\ index' = [index EXCEPT ![Head(adm[a].todo)] = {}]
  /\ Step(a, NextNamespace(a))
\* An error is counted, and the loop goes on with the next namespace.
InvalidateFails(a) ==
  /\ store = "redis" /\ adm[a].pc \in {"invalidate", "del"}
  /\ data' = Outdated({Head(adm[a].todo)})
  /\ Step(a, NextNamespace(a))
  /\ UNCHANGED index

\* Registration, sign-in and the profile write to users and invalidate no list; a sign-in,
\* like a mutation that links rows it has read, may bring deleted roles and permissions back.
ChangeElsewhere(l) ==
  /\ version[l] < MaxChanges
  /\ version' = [version EXCEPT ![l] = @ + 1]
  /\ \/ UNCHANGED role
     \/ l = "roles" /\ \E i \in Records : role[i] = "gone" /\ role' = [role EXCEPT ![i] = "live"]
  /\ reader' = Overtaken({l})
  /\ data' = Outdated({l})
  /\ UNCHANGED <<store, index, adm>>

-----------------------------------------------------------------------------
ReaderStep(r) ==
  \/ \E p \in Processes, l \in Watched, q \in Queries : Hit(r, p, l, q) \/ Miss(r, p, l, q)
  \/ Lead(r) \/ Join(r) \/ Count(r) \/ Find(r) \/ QueryFails(r) \/ Answer(r) \/ Done(r)
AdminStep(a) ==
  \/ \E op \in Ops, i \in Records \cup {Nil} : Arrive(a, op, i)
  \/ Lookup(a) \/ FindByID(a) \/ Remember(a) \/ Finish(a)
  \/ Commit(a) \/ CommitMore(a) \/ Reread(a) \/ Abandon(a)
  \/ InvalidateMemory(a) \/ SMembers(a) \/ Del(a) \/ InvalidateFails(a)
Next ==
  \/ \E r \in Readers : ReaderStep(r)
  \/ \E a \in Admins : AdminStep(a)
  \/ \E n \in Namespaces : ExpireIndex(n) \/ \E k \in Keys : Expire(n, k)
  \/ \E l \in Lists : ChangeElsewhere(l)
Spec == Init /\ [][Next]_vars

-----------------------------------------------------------------------------
(* Properties.                                                             *)

\* A list that was read and stored while no administrator was changing it is one state of
\* the tables and shows every change that had been invalidated when the request arrived,
\* whether it was answered from the cache, as the leader of its key or as one who waits.
\* So stale and torn lists need a race, an invalidation that failed or was given up, or a
\* change from elsewhere.
AnswersKeepUp ==
  \A r \in Readers :
    LET p == reader[r].page IN
    reader[r].pc = "answered" => p.raced \/ (p.total = p.rows /\ p.total >= reader[r].floor)

\* A request is told "role not found" only if the role was missing at some time while the
\* request ran, whatever the cache of negative look-ups remembers.
NotFoundIsReal == \A a \in Admins : adm[a].pc = "not_found" => adm[a].absent

=============================================================================
