-------------------------- MODULE PermissionCache --------------------------
(***************************************************************************)
(* Permission checks: CachedPermissionResolver with its singleflight       *)
(* groups, the in-memory and the Redis RBACPermissionCacheStore, and the   *)
(* admin handlers that change a user's permissions and then invalidate the *)
(* cache by advancing an epoch.                                            *)
(*                                                                         *)
(* A permission set is abstracted to its owner and the number of the       *)
(* change to roles or permissions that produced it.  A cache key is the    *)
(* pair of epochs, the user and the access token's jti.  In the memory     *)
(* store a lock makes choosing the key and using it one step; the Redis    *)
(* store reads the epochs in one round trip and the data in another.       *)
(* Hosts are server processes: each has its own singleflight group, all    *)
(* share a Redis store and the database; a memory store serves one host.   *)
(***************************************************************************)
EXTENDS Naturals

CONSTANTS
  Users,
  Tokens,      \* jti values of access tokens
  Hosts,       \* server processes
  Requests,    \* requests that are checked at the same time
  Admins,      \* RBAC mutations in progress at the same time
  MaxChanges,  \* bound on the number of RBAC mutations
  Nil,
  Stores,      \* the stores a deployment may have chosen: "memory", "redis"
  Failures     \* TRUE: the cache, the database and admin handlers may fail

ASSUME StoreAssumption == Stores \subseteq {"memory", "redis"}
ASSUME BoundAssumption == MaxChanges \in Nat
ASSUME FailuresAssumption == Failures \in BOOLEAN

VARIABLES
  store,        \* which store this deployment uses
  changes,      \* RBAC mutations committed so far
  perms,        \* the change that last touched each user's permissions
  globalEpoch,
  userEpoch,
  cache,        \* cached permission sets: a function on the keys in use
  flight,       \* leader of the singleflight call for a host, user and token
  chk,          \* permission checks in progress
  adm,          \* RBAC mutations in progress
  effective     \* history: the latest change to a user whose invalidation is done

vars == <<store, changes, perms, globalEpoch, userEpoch, cache, flight, chk, adm, effective>>

-----------------------------------------------------------------------------
Versions == 0 .. MaxChanges

\* buildRBACPermissionCacheKey: global epoch, user epoch, user, session token.
CacheKeys == Nat \X Nat \X Users \X Tokens
FlightKeys == Hosts \X Users \X Tokens

PermSet == [user : Users, ver : Versions]

\* An entry also remembers what was effective when its key was chosen (history).
Entry == [val : PermSet, at : Versions]

Put(k, e) == [x \in DOMAIN cache \cup {k} |-> IF x = k THEN e ELSE cache[x]]
Drop(k) == [x \in DOMAIN cache \ {k} |-> cache[x]]

Check ==
  [pc    : {"idle", "get", "do", "get_again", "load", "set", "wait", "done", "error"},
   host  : Hosts \cup {Nil},
   user  : Users \cup {Nil},
   tok   : Tokens \cup {Nil},
   key   : CacheKeys \cup {Nil},   \* the data key, once it has been computed
   at    : Versions,               \* history: effective when the key was computed
   val   : PermSet \cup {Nil}]     \* what was loaded, and in the end the answer

IdleCheck ==
  [pc |-> "idle", host |-> Nil, user |-> Nil, tok |-> Nil, key |-> Nil, at |-> 0,
   val |-> Nil]

Mutation ==
  [pc    : {"idle", "invalidate_user", "invalidate_all"},
   users : SUBSET Users,
   ver   : Versions]

IdleMutation == [pc |-> "idle", users |-> {}, ver |-> 0]

ASSUME NilAssumption ==
  /\ Nil \notin Users /\ Nil \notin Tokens /\ Nil \notin Hosts /\ Nil \notin Requests
  /\ Nil \notin CacheKeys /\ Nil \notin PermSet

Init ==
  /\ store \in Stores
  /\ changes = 0
  /\ perms = [u \in Users |-> 0]
  /\ globalEpoch = 0
  /\ userEpoch = [u \in Users |-> 0]
  /\ cache = <<>>
  /\ flight = [f \in FlightKeys |-> Nil]
  /\ chk = [p \in Requests |-> IdleCheck]
  /\ adm = [a \in Admins |-> IdleMutation]
  /\ effective = [u \in Users |-> 0]

At(p, label) == chk[p].pc = label

\* Faulty: the flight's key leaves out the user.
FlightOfAnyUser(p) == <<chk[p].host, CHOOSE u \in Users : TRUE, chk[p].tok>>

\* sfKey, in the singleflight group of the host.
FlightOf(p) == <<chk[p].host, chk[p].user, chk[p].tok>>

\* Faulty: the key leaves out the user's epoch.
DataKeyGlobal(u, t) == <<globalEpoch, 0, u, t>>

\* cacheKeyLocked and dataKey.
DataKey(u, t) == <<globalEpoch, userEpoch[u], u, t>>

\* The key the next cache access of p uses.
KeyOf(p) == IF store = "redis" THEN chk[p].key ELSE DataKey(chk[p].user, chk[p].tok)
KeyKnown(p) == store = "redis" => chk[p].key # Nil
Hit(p) == KeyKnown(p) /\ KeyOf(p) \in DOMAIN cache
Miss(p) == KeyKnown(p) /\ KeyOf(p) \notin DOMAIN cache

DBUnchanged == UNCHANGED <<store, changes, perms>>
EpochsUnchanged == UNCHANGED <<globalEpoch, userEpoch>>
AdminUnchanged == UNCHANGED <<adm, effective>>

-----------------------------------------------------------------------------
(* ResolvePermissions.                                                     *)

\* The processes that share the store.
Serving == IF store = "memory" THEN {CHOOSE h \in Hosts : TRUE} ELSE Hosts

\* RequirePermission asks for the permissions of an authenticated caller.
Arrive(p, h, u, t) ==
  /\ chk[p].pc \in {"idle", "done", "error"} /\ h \in Serving
  /\ chk' = [chk EXCEPT ![p] = [IdleCheck EXCEPT
       !.pc = "get", !.host = h, !.user = u, !.tok = t]]
  /\ UNCHANGED <<cache, flight>> /\ DBUnchanged /\ EpochsUnchanged /\ AdminUnchanged

\* Redis: the pipeline that reads both epochs.
ReadEpochs(p) ==
  /\ store = "redis" /\ chk[p].pc \in {"get", "get_again", "set"} /\ chk[p].key = Nil
  /\ chk' = [chk EXCEPT ![p] = [@ EXCEPT !.key = DataKey(chk[p].user, chk[p].tok),
                                         !.at = effective[chk[p].user]]]
  /\ UNCHANGED <<cache, flight>> /\ DBUnchanged /\ EpochsUnchanged /\ AdminUnchanged

\* Faulty: those who wait are not woken.
DeliverToLeader(p, label, v) ==
  /\ chk' = [chk EXCEPT ![p] = [@ EXCEPT !.pc = label, !.val = v, !.key = Nil, !.at = 0]]
  /\ flight' = [flight EXCEPT ![FlightOf(p)] = Nil]

\* The call ends: p and everyone who joined its flight get v, or the error (503).
Deliver(p, label, v) ==
  /\ chk' = [q \in Requests |->
       IF q = p \/ (At(q, "wait") /\ FlightOf(q) = FlightOf(p))
         THEN [chk[q] EXCEPT !.pc = label, !.val = v, !.key = Nil, !.at = 0] ELSE chk[q]]
  /\ flight' = [flight EXCEPT ![FlightOf(p)] = Nil]

\* The first look-up, outside the flight; a store error counts as a miss.
GetHit(p) ==
  /\ At(p, "get") /\ Hit(p)
  /\ chk' = [chk EXCEPT ![p] = [@ EXCEPT !.pc = "done", !.val = cache[KeyOf(p)].val,
                                         !.key = Nil, !.at = 0]]
  /\ UNCHANGED <<cache, flight>> /\ DBUnchanged /\ EpochsUnchanged /\ AdminUnchanged

GetMiss(p) ==
  /\ At(p, "get") /\ (Miss(p) \/ Failures)
  /\ chk' = [chk EXCEPT ![p] = [@ EXCEPT !.pc = "do", !.key = Nil, !.at = 0]]
  /\ UNCHANGED <<cache, flight>> /\ DBUnchanged /\ EpochsUnchanged /\ AdminUnchanged

\* singleflight.Group.Do: lead the call for this key, or wait for its leader.
Do(p) ==
  /\ At(p, "do")
  /\ \/ /\ flight[FlightOf(p)] = Nil
        /\ flight' = [flight EXCEPT ![FlightOf(p)] = p]
        /\ chk' = [chk EXCEPT ![p].pc = "get_again"]
     \/ /\ flight[FlightOf(p)] # Nil
        /\ chk' = [chk EXCEPT ![p].pc = "wait"]
        /\ UNCHANGED flight
  /\ UNCHANGED cache /\ DBUnchanged /\ EpochsUnchanged /\ AdminUnchanged

\* The leader looks again, in case the previous flight has just stored the answer.
GetAgainHit(p) ==
  /\ At(p, "get_again") /\ Hit(p)
  /\ Deliver(p, "done", cache[KeyOf(p)].val)
  /\ UNCHANGED cache /\ DBUnchanged /\ EpochsUnchanged /\ AdminUnchanged

GetAgainMiss(p) ==
  /\ At(p, "get_again") /\ (Miss(p) \/ Failures)
  /\ chk' = [chk EXCEPT ![p] = [@ EXCEPT !.pc = "load", !.key = Nil, !.at = 0]]
  /\ UNCHANGED <<cache, flight>> /\ DBUnchanged /\ EpochsUnchanged /\ AdminUnchanged

\* Faulty: the error of the read is not looked at, so that the nil slice it comes with is
\* stored as the user's permissions.
LoadUnchecked(p) ==
  /\ At(p, "load")
  /\ \/ chk' = [chk EXCEPT ![p] = [@ EXCEPT
          !.pc = "set", !.val = [user |-> chk[p].user, ver |-> perms[chk[p].user]]]]
     \/ Failures /\ chk' = [chk EXCEPT ![p].pc = "set"]
  /\ UNCHANGED <<cache, flight>> /\ DBUnchanged /\ EpochsUnchanged /\ AdminUnchanged

\* userSvc.GetByID: the user's roles and their permissions as committed now.
Load(p) ==
  /\ At(p, "load")
  /\ \/ /\ chk' = [chk EXCEPT ![p] = [@ EXCEPT
             !.pc = "set", !.val = [user |-> chk[p].user, ver |-> perms[chk[p].user]]]]
        /\ UNCHANGED flight
     \/ /\ Failures
        /\ Deliver(p, "error", Nil)
  /\ UNCHANGED cache /\ DBUnchanged /\ EpochsUnchanged /\ AdminUnchanged

\* cacheStore.Set, whose error is ignored; then the flight ends.
Set(p) ==
  /\ At(p, "set")
  /\ \/ /\ KeyKnown(p)
        /\ cache' = Put(KeyOf(p),
             [val |-> chk[p].val,
              at  |-> IF store = "redis" THEN chk[p].at ELSE effective[chk[p].user]])
     \/ Failures /\ UNCHANGED cache
  /\ Deliver(p, "done", chk[p].val)
  /\ DBUnchanged /\ EpochsUnchanged /\ AdminUnchanged

\* RBAC_PERMISSION_CACHE_TTL runs out for an entry.
Expire(k) ==
  /\ cache' = Drop(k)
  /\ UNCHANGED <<flight, chk>> /\ DBUnchanged /\ EpochsUnchanged /\ AdminUnchanged

-----------------------------------------------------------------------------
(* The admin handlers: commit the change, then invalidate, then answer.    *)

Commit(a, us, label) ==
  /\ adm[a].pc = "idle" /\ changes < MaxChanges
  /\ changes' = changes + 1
  /\ perms' = [u \in Users |-> IF u \in us THEN changes + 1 ELSE perms[u]]
  /\ adm' = [adm EXCEPT ![a] = [pc |-> label, users |-> us, ver |-> changes + 1]]
  /\ UNCHANGED <<store, cache, flight, chk, effective>> /\ EpochsUnchanged

\* PATCH /admin/users/{id}/roles changes one user.
SetUserRoles(a, u) == Commit(a, {u}, "invalidate_user")

\* A change to a role or a permission, or a sync, changes whoever holds it.
MutateRBAC(a, us) == Commit(a, us, "invalidate_all")

\* The mutation takes effect with its invalidation, and the handler answers.
Invalidated(a) ==
  /\ effective' = [u \in Users |->
       IF u \in adm[a].users /\ effective[u] < adm[a].ver THEN adm[a].ver ELSE effective[u]]
  /\ adm' = [adm EXCEPT ![a] = IdleMutation]

InvalidateUser(a) ==
  /\ adm[a].pc = "invalidate_user"
  /\ userEpoch' = [u \in Users |-> IF u \in adm[a].users THEN userEpoch[u] + 1 ELSE userEpoch[u]]
  /\ Invalidated(a)
  /\ UNCHANGED <<globalEpoch, cache, flight, chk>> /\ DBUnchanged

InvalidateAll(a) ==
  /\ adm[a].pc = "invalidate_all"
  /\ globalEpoch' = globalEpoch + 1
  /\ Invalidated(a)
  /\ UNCHANGED <<userEpoch, cache, flight, chk>> /\ DBUnchanged

\* The invalidation fails (logged, the handler answers 200) or the handler dies first.
InvalidationLost(a) ==
  /\ Failures /\ adm[a].pc # "idle"
  /\ adm' = [adm EXCEPT ![a] = IdleMutation]
  /\ UNCHANGED <<cache, flight, chk, effective>> /\ DBUnchanged /\ EpochsUnchanged

-----------------------------------------------------------------------------
Resolve(p) ==
  \/ ReadEpochs(p) \/ GetHit(p) \/ GetMiss(p) \/ Do(p)
  \/ GetAgainHit(p) \/ GetAgainMiss(p) \/ Load(p) \/ Set(p)

Mutate(a) ==
  \/ \E u \in Users : SetUserRoles(a, u)
  \/ \E us \in SUBSET Users : MutateRBAC(a, us)
  \/ InvalidateUser(a) \/ InvalidateAll(a) \/ InvalidationLost(a)

Next ==
  \/ \E p \in Requests, h \in Hosts, u \in Users, t \in Tokens : Arrive(p, h, u, t)
  \/ \E p \in Requests : Resolve(p)
  \/ \E a \in Admins : Mutate(a)
  \/ \E k \in DOMAIN cache : Expire(k)

Spec == Init /\ [][Next]_vars

\* A request that was accepted is run to its end.
Fairness == \A p \in Requests : WF_vars(Resolve(p))

FairSpec == Spec /\ Fairness

-----------------------------------------------------------------------------
(* Properties.                                                             *)

\* Type correctness of the database, the epochs, the cache and the processes; in
\* particular only what was read of the database is ever cached.
TypeOK ==
  /\ store \in Stores
  /\ changes \in Versions
  /\ perms \in [Users -> Versions]
  /\ globalEpoch \in Nat
  /\ userEpoch \in [Users -> Nat]
  /\ DOMAIN cache \subseteq CacheKeys
  /\ cache \in [DOMAIN cache -> Entry]
  /\ flight \in [FlightKeys -> Requests \cup {Nil}]
  /\ chk \in [Requests -> Check]
  /\ adm \in [Admins -> Mutation]
  /\ effective \in [Users -> Versions]

\* Whoever computes the answer, a caller is judged by its own permissions: neither
\* the cache key nor the shared flight mixes users up.
AnswerIsOwn ==
  \A p \in Requests : At(p, "done") => chk[p].val # Nil /\ chk[p].val.user = chk[p].user

\* An invalidation ends every entry written before it: an entry that a look-up can
\* still find chose its key after the last invalidation that concerns its user,
\* however slowly its writer and the readers go about it.
InvalidationEndsEntries ==
  \A u \in Users, t \in Tokens :
    DataKey(u, t) \in DOMAIN cache => cache[DataKey(u, t)].at = effective[u]

\* At most one request per host computes a user's permissions for a session.
OneLeader ==
  \A p, q \in Requests :
    /\ chk[p].pc \in {"get_again", "load", "set"}
    /\ chk[q].pc \in {"get_again", "load", "set"}
    /\ FlightOf(p) = FlightOf(q)
    => p = q

\* A permission check always ends, also for those who wait on a leader that fails.
CheckEnds == \A p \in Requests : At(p, "get") ~> chk[p].pc \in {"done", "error"}
=============================================================================
