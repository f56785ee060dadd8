---------------------------- MODULE Idempotency ----------------------------
(***************************************************************************)
(* Idempotency keys: IdempotencyMiddleware around a handler, and the two   *)
(* stores behind it, DBIdempotencyStore (with its cleanup loop) and        *)
(* RedisIdempotencyStore.                                                  *)
(*                                                                         *)
(* An element of Keys is a pair (scope, Idempotency-Key); an element of    *)
(* Fingerprints is a value of fingerprintRequest: scope, method, route     *)
(* pattern, actor and body.  Time is counted in ticks; what the code       *)
(* stores as expires_at is kept here as the ticks left, TTL just after     *)
(* now.Add(ttl), 0 when expires_at = now and -1 once it is before now.     *)
(* Reading the clock and the statement that uses it are one step, except   *)
(* in Begin, which holds on to its `now' until it inserts the row.         *)
(*                                                                         *)
(* A request without a usable key or body is answered 400 before any state *)
(* is touched and is left out.                                             *)
(***************************************************************************)
EXTENDS Integers, FiniteSets, FiniteSetsExt

CONSTANTS
  Keys,           \* (scope, key) pairs
  Fingerprints,   \* request fingerprints
  Outcomes,       \* distinguishable responses below 500 a handler may give
  Reqs,           \* requests served at the same time
  Nil,
  TTL,            \* IDEMPOTENCY_TTL in ticks
  BatchSize,      \* IDEMPOTENCY_DB_CLEANUP_BATCH_SIZE
  Stores,         \* the stores a deployment may have chosen: "db", "redis"
  Failures        \* TRUE: store calls may fail and requests may die

ASSUME TTLAssumption == TTL \in Nat \ {0}
ASSUME BatchAssumption == BatchSize \in Nat \ {0}
ASSUME StoreAssumption == Stores \subseteq {"db", "redis"}
ASSUME FailuresAssumption == Failures \in BOOLEAN

VARIABLES
  store,    \* IDEMPOTENCY_REDIS_ENABLED: which store this deployment uses
  rec,      \* the stored record of each key
  req,      \* the requests being served
  cleaner,  \* rows the DB store's cleanup loop is about to delete
  window,   \* history: ticks left of the TTL last granted to each key
  lost      \* history: keys whose unexpired record the cleanup has deleted

vars == <<store, rec, req, cleaner, window, lost>>

-----------------------------------------------------------------------------
Ticks == -1 .. TTL

\* A response remembers the fingerprint of the execution that produced it.
Responses == [fp : Fingerprints, outcome : Outcomes]

ASSUME NilAssumption == Nil \notin Keys \cup Fingerprints \cup Responses

Record ==
  [state : {"none", "new", "completed"},
   fp    : Fingerprints \cup {Nil},
   resp  : Responses \cup {Nil},
   left  : Ticks]

NoRecord == [state |-> "none", fp |-> Nil, resp |-> Nil, left |-> -1]

\* Faulty: the record outlives now + ttl.
NewRecordLong(f, left) == [state |-> "new", fp |-> f, resp |-> Nil, left |-> left + 1]

\* A record as Begin writes it, with nothing kept of an earlier response.
NewRecord(f, left) == [state |-> "new", fp |-> f, resp |-> Nil, left |-> left]

\* pc names what the request does next; out and resp are its answer, kept until
\* the slot serves another request; left is Begin's now + ttl.
Request ==
  [pc   : {"idle", "begin", "create", "handler", "complete"},
   key  : Keys \cup {Nil},
   fp   : Fingerprints \cup {Nil},
   left : Ticks,
   out  : {"none", "executed", "replay", "conflict", "in_progress", "error"},
   resp : Responses \cup {Nil}]

IdleReq ==
  [pc |-> "idle", key |-> Nil, fp |-> Nil, left |-> -1, out |-> "none", resp |-> Nil]

Init ==
  /\ store \in Stores
  /\ rec = [k \in Keys |-> NoRecord]
  /\ req = [p \in Reqs |-> IdleReq]
  /\ cleaner = {}
  /\ window = [k \in Keys |-> -1]
  /\ lost = {}

At(p, label) == req[p].pc = label
Missing(k) == rec[k].state = "none"

\* Faulty: only an answered record runs out.
ExpiredAnswered(k) == rec[k].state = "completed" /\ rec[k].left < 0

\* rec.ExpiresAt.Before(now); a Redis key past its expiry is already missing.
Expired(k) == ~Missing(k) /\ rec[k].left < 0
Valid(k) == ~Missing(k) /\ ~Expired(k)

Goto(p, label) == req' = [req EXCEPT ![p].pc = label]
Answer(p, out, resp) ==
  req' = [req EXCEPT ![p] = [@ EXCEPT !.pc = "idle", !.out = out, !.resp = resp, !.left = -1]]

-----------------------------------------------------------------------------
(* The middleware.                                                         *)

\* A request with a key reaches the middleware.
Arrive(p, k, f) ==
  /\ At(p, "idle")
  /\ req' = [req EXCEPT ![p] = [IdleReq EXCEPT !.pc = "begin", !.key = k, !.fp = f]]
  /\ UNCHANGED <<store, rec, cleaner, window, lost>>

\* Begin answers "new": the record is p's and its handler will run.
Start(p, left) ==
  /\ rec' = [rec EXCEPT ![req[p].key] = NewRecord(req[p].fp, left)]
  /\ window' = [window EXCEPT ![req[p].key] = left]
  /\ req' = [req EXCEPT ![p] = [@ EXCEPT !.pc = "handler", !.left = -1]]
  /\ lost' = lost \ {req[p].key}
  /\ UNCHANGED <<store, cleaner>>

\* The row exists but is out of date: the transaction resets it in place.
BeginRestart(p) ==
  /\ At(p, "begin") /\ Expired(req[p].key)
  /\ Start(p, TTL)

\* Redis: EXISTS and HSET run in one script.
BeginFresh(p) ==
  /\ At(p, "begin") /\ Missing(req[p].key) /\ store = "redis"
  /\ Start(p, TTL)

\* DB: SELECT ... FOR UPDATE finds no row, so there is nothing to lock.
BeginLookup(p) ==
  /\ At(p, "begin") /\ Missing(req[p].key) /\ store = "db"
  /\ req' = [req EXCEPT ![p] = [@ EXCEPT !.pc = "create", !.left = TTL]]
  /\ UNCHANGED <<store, rec, cleaner, window, lost>>

\* Faulty: no unique index on (scope, idempotency_key).
BeginCreateBlind(p) == At(p, "create") /\ Start(p, req[p].left)

\* DB: the INSERT, or the unique index refuses it and Begin starts over.
BeginCreate(p) ==
  /\ At(p, "create") /\ Missing(req[p].key)
  /\ Start(p, req[p].left)

BeginRetry(p) ==
  /\ At(p, "create") /\ ~Missing(req[p].key)
  /\ req' = [req EXCEPT ![p] = [@ EXCEPT !.pc = "begin", !.left = -1]]
  /\ UNCHANGED <<store, rec, cleaner, window, lost>>

\* A valid record decides between 409 and a replay.
BeginResult(k, f) ==
  IF rec[k].fp # f THEN "conflict"
  ELSE IF rec[k].state = "completed" THEN "replay" ELSE "in_progress"

BeginAnswer(p) ==
  LET k == req[p].key
      state == BeginResult(k, req[p].fp)
  IN /\ At(p, "begin") /\ Valid(k)
     /\ Answer(p, state, IF state = "replay" THEN rec[k].resp ELSE Nil)
     /\ UNCHANGED <<store, rec, cleaner, window, lost>>

\* next.ServeHTTP: a status of 500 or more leaves the record "new"; any other is
\* what the client gets and what Complete is about to store.
Handler(p) ==
  /\ At(p, "handler")
  /\ \/ \E o \in Outcomes :
          req' = [req EXCEPT ![p] = [@ EXCEPT !.pc = "complete", !.out = "executed",
                                              !.resp = [fp |-> req[p].fp, outcome |-> o]]]
     \/ Answer(p, "error", Nil)
  /\ UNCHANGED <<store, rec, cleaner, window, lost>>

\* Faulty: the fingerprint, or the status, is not in the WHERE clause.
CompletableAnyBody(k, f) == ~Missing(k) /\ (store = "db" => rec[k].state # "completed")
CompletableTwice(k, f) == ~Missing(k) /\ rec[k].fp = f

\* The rows the UPDATE of DBIdempotencyStore.Complete matches, and the test of
\* the Redis script, which does not look at the status.
Completable(k, f) ==
  /\ ~Missing(k) /\ rec[k].fp = f
  /\ store = "db" => rec[k].state # "completed"

Complete(p) ==
  LET k == req[p].key
  IN /\ At(p, "complete")
     /\ IF Completable(k, req[p].fp)
          THEN /\ rec' = [rec EXCEPT ![k] = [@ EXCEPT !.state = "completed",
                                                   !.resp = req[p].resp, !.left = TTL]]
               /\ window' = [window EXCEPT ![k] = TTL]
          ELSE UNCHANGED <<rec, window>>
     /\ Goto(p, "idle")
     /\ UNCHANGED <<store, cleaner, lost>>

\* A store error in Begin (500) or in Complete (logged only), a panic in the
\* handler, a client that goes away and cancels r.Context(), or a crash.
Fail(p) ==
  /\ Failures /\ ~At(p, "idle")
  /\ Answer(p, "error", Nil)
  /\ UNCHANGED <<store, rec, cleaner, window, lost>>

-----------------------------------------------------------------------------
(* RunCleanupLoop and CleanupExpired (DB store only): one DELETE whose     *)
(* subselect picks at most BatchSize rows on the statement's snapshot; the *)
(* outer WHERE asks for their ids only.  A row that Begin resets or        *)
(* Complete updates in between keeps its id.                               *)

Cleanable == {k \in Keys : ~Missing(k) /\ rec[k].left <= 0}

Batches(rows) ==
  kSubset(Min({BatchSize, Cardinality(rows)}), rows)

CleanupSelect ==
  /\ store = "db"
  /\ cleaner = {} /\ Cleanable # {}
  /\ cleaner' \in Batches(Cleanable)
  /\ UNCHANGED <<store, rec, req, window, lost>>

CleanupDelete ==
  /\ cleaner # {}
  /\ rec' = [k \in Keys |-> IF k \in cleaner THEN NoRecord ELSE rec[k]]
  /\ lost' = lost \cup {k \in cleaner : rec[k].left > 0}
  /\ cleaner' = {}
  /\ UNCHANGED <<store, req, window>>

-----------------------------------------------------------------------------
(* The clock.  Redis drops a key when its time is up.                      *)

Older(left) == IF left < 0 THEN -1 ELSE left - 1

AgedRecord(r) ==
  IF r.state = "none" \/ (store = "redis" /\ r.left = 0) THEN NoRecord
  ELSE [r EXCEPT !.left = Older(r.left)]

Tick ==
  /\ rec' = [k \in Keys |-> AgedRecord(rec[k])]
  /\ req' = [p \in Reqs |-> [req[p] EXCEPT !.left = Older(req[p].left)]]
  /\ window' = [k \in Keys |-> Older(window[k])]
  /\ UNCHANGED <<store, cleaner, lost>>

-----------------------------------------------------------------------------
Begin(p) ==
  \/ BeginRestart(p) \/ BeginFresh(p) \/ BeginLookup(p)
  \/ BeginCreate(p) \/ BeginRetry(p) \/ BeginAnswer(p)

Serve(p) == Begin(p) \/ Handler(p) \/ Complete(p)

CleanupExpired == CleanupSelect \/ CleanupDelete

Next ==
  \/ \E p \in Reqs : Serve(p) \/ Fail(p)
  \/ \E p \in Reqs, k \in Keys, f \in Fingerprints : Arrive(p, k, f)
  \/ CleanupExpired
  \/ Tick

Spec == Init /\ [][Next]_vars

(* Time passes, the server goes on with what it has accepted, a store that *)
(* is asked for ever does not fail for ever, and clients keep retrying     *)
(* every key.  The cleanup loop may be switched off: nothing is assumed of *)
(* it.                                                                     *)
Fairness ==
  /\ WF_vars(Tick)
  /\ \A p \in Reqs : /\ SF_vars(Begin(p)) /\ SF_vars(BeginCreate(p))
                     /\ WF_vars(Handler(p) \/ Complete(p) \/ Fail(p))
  /\ \A k \in Keys, f \in Fingerprints : WF_vars(\E p \in Reqs : Arrive(p, k, f))

FairSpec == Spec /\ Fairness

-----------------------------------------------------------------------------
(* Properties.                                                             *)

\* Type correctness of the table, the requests, the cleanup loop and the history.
TypeOK ==
  /\ store \in Stores
  /\ rec \in [Keys -> Record]
  /\ req \in [Reqs -> Request]
  /\ cleaner \in SUBSET Keys
  /\ window \in [Keys -> Ticks]
  /\ lost \in SUBSET Keys

\* Begin lets p's handler run in this step.
Starts(p) == ~At(p, "handler") /\ req'[p].pc = "handler"

\* A handler runs for a key only once the TTL that the last "new" answer or the last
\* stored response opened has passed, however requests, late completions and retries
\* interleave; the one exception is a key whose live record the cleanup deleted.
OncePerWindow ==
  [][\A p \in Reqs : Starts(p) => window[req[p].key] <= 0 \/ req[p].key \in lost]_vars

\* The same without the exception: at most one execution per key and TTL.
ExecuteOnce ==
  [][\A p \in Reqs : Starts(p) => window[req[p].key] <= 0]_vars

\* A replayed response was produced by a request with the same fingerprint,
\* even if the record changed hands while that request was running.
ReplayIsOwn ==
  \A p \in Reqs : req[p].out = "replay" => req[p].resp # Nil /\ req[p].resp.fp = req[p].fp

\* The first stored response wins: as long as a record stays completed every
\* replay of it is the same, also when an execution the record has outlived
\* calls Complete late (the status <> 'completed' clause of the DB store).
StableReplay ==
  [][\A k \in Keys : store = "db" /\ rec[k].state = "completed" /\ rec'[k].state = "completed"
                       => rec'[k].resp = rec[k].resp]_vars

\* A key is never blocked for good: whatever became of the request that owned
\* its record (5xx, panic, crash, a lost Complete), a client that keeps retrying
\* is again and again answered by its handler or by a replay.
KeyNeverStuck ==
  \A k \in Keys :
    []<>(\E p \in Reqs : req[p].key = k /\ (At(p, "handler") \/ req[p].out = "replay"))
=============================================================================
