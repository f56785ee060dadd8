# A TLA+ verification of the backend starter kit

The repository is a Go HTTP service: Google and local sign-in, rotating refresh
tokens, role-based access control with an administration API, idempotent writes,
feature flags, rate limiting, products and avatars, on PostgreSQL and (optionally)
Redis. Its tests run one request at a time against SQLite. What those tests hardly
reach is what happens when requests interleave statement by statement, when a
statement fails between two others, when the clock passes a boundary, or when two
server processes share a store. That is what this project models.

The TLA+ modules model the code's control flow, one action per statement or store
call, and abstract its data. TLC checks them on small instances, TLAPS proves the
main invariants for every number of users, tokens, keys, hosts and requests.
`PROJECT.json` maps every definition to the lines it stands for and lists the runs,
the mutants that show each property can fail, the findings, the hazards and the
theorems.

## 1. Inventory

| Component | State | Operations that change it | What is hard | Status |
|---|---|---|---|---|
| Refresh tokens and sessions (`token_service`, `session_service`, `session_repository`) | table `sessions` (hash, lineage, revocation, reuse mark, expiry) | Issue, Rotate, lineage backfill, mark reuse, revoke one / others / family / all, cleanup | Rotate is five statements; multi-row UPDATEs work on a snapshot; errors are dropped on the reuse path | modelled, proved |
| Idempotency (`idempotency_middleware`, DB and Redis stores) | one record per (scope, key) | Begin, Complete, cleanup batch, expiry | two first requests at once; a handler outliving its record; cleanup against restart; 5xx and crashes leave the record in progress | modelled, proved |
| Permission checks (`rbac_permission_resolver`, memory and Redis cache, invalidations in `admin_handler`) | epochs, cache entries, singleflight groups | Get, load, Set, InvalidateUser, InvalidateAll, TTL | the key is chosen in one round trip and used in another; waiters share a leader's result or failure; mutation and invalidation are not atomic | modelled, proved |
| Accounts (`auth_service`, `oauth_service`, credential, token, user and oauth repositories, `auth_handler`) | users, local_credentials, oauth_accounts, verification_tokens, sessions | register, login, Google login, verification request and confirm, forgot, reset, change | no transactions: every multi-statement operation can be cut short or overtaken | modelled, proved |
| RBAC administration (`admin_handler`, role and permission repositories, `seed`) | users, roles, permissions and their links | create, update, delete, set roles, sync | the lock-out guard reads, the mutation follows; ignored error of the read-back; sync is a dozen statements | modelled, proved |
| Admin list cache, negative look-up cache | namespaced entries, index sets, flights | read through, invalidate | fill after invalidation; two-step invalidation; a shared flight | modelled, proved |
| Feature flags (`feature_flag_service`, caches, repository) | flags, rules, cached evaluations | CRUD, evaluate | rule precedence, percentage boundary, fill after invalidation, two-step invalidation in Redis | modelled, proved |
| Login abuse guard (memory, Redis) | failures, last failure, cooldown per identity and address | Check, RegisterFailure, Reset | check and count are separate calls, in Redis of two steps each; growing delay, its cap and the reset window | modelled, proved |
| Rate limiting (local, Redis) | sliding window and bucket per key | Allow, sweep, expiry | window edges, clocks that lag, lost replies, outages | modelled, proved |
| Object storage (`storage_service`, avatar handlers) | bucket, objects, per instance the outcome of the one-time initialisation | upload, delete, lazyInit | the first caller's error is kept until a restart; instances race for the bucket; ownership is a prefix of the key | modelled, proved |
| Configuration and wiring, health, process (`config`, `di`, `health`, `app`, `cmd/api`) | settings, readiness, phases of start and shutdown | Load, Validate, providers, Ready, shutdown | rules that depend on one another; a probe that must see what the process depends on; deadlines derived from one another | modelled, proved |
| Products | table `products` | CRUD | one statement per operation | not modelled |
| HTTP plumbing, observability, command-line tools | none the system reads back | - | - | not modelled: stateless |

How the parts interact: every authenticated request passes the JWT middleware
(stateless), the rate limiter, the permission check (`RequirePermission`, which calls
`ResolvePermissions`) and, for writes, the idempotency middleware, and then reaches
its handler. The handlers call services, which run statements on PostgreSQL through
gorm; several handlers also talk to Redis. Accounts call into sessions (`Issue`,
`RevokeAll`), administration into the permission cache (`InvalidateUser`,
`InvalidateAll`). Nothing is shared between processes but the database and Redis;
inside a process the shared state is the singleflight groups, the memory stores and the
one-time initialisation of the object storage. The configuration decides which store
each component gets, so the modules with two stores are checked with both.

## 2. Modules

| Module | Models | Checked with |
|---|---|---|
| `Sessions` | the sessions component, statement by statement | `MCSessions` |
| `TokenFamilies` | abstract specification: what sessions promise | refinement in `Sessions` |
| `SessionsProofs` | proofs about `Sessions` | tlapm |
| `Idempotency` | middleware, both stores, cleanup loop, clock | `MCIdempotency` |
| `IdempotencyProofs` | proofs about `Idempotency` | tlapm |
| `PermissionCache` | resolver, both caches, admin mutations | `MCPermissionCache` |
| `PermissionCacheProofs` | proofs about `PermissionCache` | tlapm |
| `Credentials` | accounts, local and Google sign-in, verification tokens | `MCCredentials` |
| `CredentialsProofs` | proofs about `Credentials` | tlapm |
| `FeatureFlags` | evaluation, CRUD, both evaluation caches | `MCFeatureFlags` |
| `FeatureFlagsProofs` | proofs about `FeatureFlags` | tlapm |
| `AdminRBAC` | roles, permissions, lock-out guard, sync, sign-in's save, which caches are invalidated | `MCAdminRBAC` |
| `AdminRBACProofs` | proofs about `AdminRBAC` | tlapm |
| `ListCache` | admin lists, negative look-ups, both stores | `MCListCache` |
| `ListCacheProofs` | proofs about `ListCache` | tlapm |
| `Clock` | the clock and rounding shared by the next two | - |
| `RateLimiter` | one limiter, local and Redis | `MCThrottling` |
| `AbuseGuard` | the guard around login and forgot, memory and Redis | `MCThrottling` |
| `Config` | Load, Validate, what the providers choose (operators only) | `Lifecycle` |
| `Lifecycle` | the process: start, serving, probes, shutdown | `MCLifecycle` |
| `Avatars` | object storage | `MCLifecycle` |
| `ProcessProofs` | proofs about `Lifecycle` (with `Config`), `Avatars`, `RateLimiter` and `AbuseGuard` | tlapm |

Conventions: a record in `req`/`chk` holds what a running request has in its local
variables, and its field `pc` names the statement it runs next. Definitions keep the
source's names. Fields and variables marked *history* are written only so that a
property can mention the past; no guard reads them. A definition marked `Faulty:` is
a plausible bug in the definition that follows it and is used only to show that a
property notices it.

### Sessions

`sessions[t]` is the row of refresh token `t`; hash, jti and primary key are in
bijection and are all `t`. Rows in `LegacyIds` predate the lineage columns. `Rotate`
is `FindByHash`, `UpdateTokenLineageByHash` (backfill), `Decide`, and then
`RotateSession` (one transaction) or `MarkReuseDetectedByHash` followed by
`RevokeByFamilyID`. The three multi-row UPDATEs are two steps each: `TakeSnapshot`
chooses the rows, the second step re-checks the WHERE clause on them, as PostgreSQL
does under READ COMMITTED. `RequestFails` is a failed statement, a cancelled request
or a dead process; on the reuse path the code drops the errors and so does the model.
The family "legacy-session" (`token_service.go:83-86`), for a token without a jti, is left
out: every refresh token this code signs has one.

### Idempotency

`rec[k]` is the record of a (scope, key) pair with the ticks left until `expires_at`
(0 is `expires_at = now`, -1 is past). For the DB store, `Begin` is the locked read
(`BeginLookup`), the insert (`BeginCreate`, which the unique index may refuse,
`BeginRetry`), the in-place restart of an expired row (`BeginRestart`) and the answer
(`BeginResult`); for Redis it is one script. `Handler` ends with a response below 500
(then `Complete`) or with a 5xx or panic (no `Complete`, as in the middleware). The
cleanup is a subselect (`CleanupSelect`) and a delete by id (`CleanupDelete`).

### PermissionCache

A permission set is its owner and the number of the mutation that produced it. A
check goes `Arrive`, `ReadEpochs` (Redis only), `GetHit`/`GetMiss`, `Do` (join or lead
a flight), the second look-up under the flight, `Load`, `Set`, `Deliver`. `Set`
chooses its key anew, as the code does. A mutation commits and then invalidates one
user or everybody, or the invalidation is lost. Each host has its own flights; the
memory store serves one host.

### Credentials

An account is named by its e-mail (`users.email` is unique). Each operation is a chain
of `pc` labels: registration `create_user`, `role`, `credential`, `admin`, `issue`;
Google `find_email`, `create_user`, `role`, `link`, `admin`, `issue`; verification and
forgot `invalidate`, `create_token`; confirm `consume`, `mark`; reset `consume`,
`update`, `revoke`; change `update`, `revoke`. Errors of the role assignment are
ignored as in the code; any other failure ends the request where it is. Sessions are
abstracted to live or revoked; `Sessions` has the rest.

### FeatureFlags

`enabled[f]` and `rules[f]` are the two tables. `EvaluateFeatureFlag` asks the rule
types in the code's order and takes the first rule of a type by priority and id; the
hash behind a percentage is the constant `Bucket`. An evaluation reads the flags
(`ListFlags`), then their rules (`PreloadRules`), then stores the result (`Set`). A
mutation commits and then invalidates: in memory in one step, in Redis by `SMembers`
on the index set and `Del` of what it named. `raced` marks entries computed while a
mutation was under way, or that outlived a lost invalidation.

### AdminRBAC

`name`, `perms`, `token`, `roles` are the tables `roles`, `role_permissions`,
`permissions` and `user_roles`; a key is `Nil` before it is used and `Gone` after its
row is deleted, because keys are never reused while links to deleted rows remain (the
join models declare no foreign keys). A request's `pc` goes `find`, `pairs`, `guard`,
`write` (or `select` and `replace`), `reread`, `invalidate`, as its handler does;
`SyncRBAC` has its own labels. `dirty` is the set of caches (each user's resolved
permissions and the three lists) whose source has changed and which have not been
invalidated since. How a cache is filled is the business of `PermissionCache` and of
`ListCache`.

An association is replaced in two steps. `FindRoles`, `FindPermissions` and `SyncFind`
read the rows to link; `SetUserRoles`, `Attach`, `UpdateRole` and `SyncBind` are gorm's
`Replace`: it inserts those rows again, ON CONFLICT DO NOTHING, links them and removes the
other links, in one transaction and here in one step (`Upserted`). A row that was deleted
in between comes back. `UpdateRole` is a transaction whose UPDATE of the role precedes its
SELECT; row and name stay locked until the commit, so the model decides about them there.
The queries of one Preload are one step.

A Google sign-in is a request too: `SignIn` reads the user with roles and permissions,
`Update` is gorm's `Save` of all of them, which brings back rows and links that an
administrator removed in between, and invalidates nothing. `AddRole`, for the bootstrap
administrator, appends a role of which it has only the key; if that was deleted meanwhile
it comes back without a name. `revived` is the set of caches that changed in one of these
ways and were not invalidated since. A sync whose admin role is gone when it looks it up
ends with an error and invalidates nothing (`SyncFind`, counted in `failed`).

### ListCache

A list shows the number of changes its tables have seen (`version`); which change shows
in which list is `AdminRBAC`'s business. A request goes `Hit` or `Miss`, then `Lead` or
`Join`, and a leader `Count`, `Find` and `Answer`. Every process has its own singleflight
group, so with Redis there may be one leader per process (`Leader`); the memory store is
that of one process. A mutation looks its record up (`Lookup`, `FindByID`, `Remember`),
commits (`Commit`), perhaps in several transactions (`CommitMore`: the links of a new role,
the statements of a sync), perhaps reads its row back (`Reread`), and invalidates one
namespace after the other, in Redis by `SMembers` and `Del`. `Abandon` ends it before that:
a later statement fails, the row read back is gone and the handler panics, or the process
dies. `raced` marks pages that were read or stored while a change was between its commit and
the end of its invalidation, and what outlived an invalidation that failed or was given up,
or a change that invalidates nothing (registration, sign-in, profile, a row brought back).

### RateLimiter

A token is `Unit` units, so that refills are integers. A request carries the stamp it
read before it was decided, up to `lag` behind the clock: before the mutex in a process,
from another host's clock in Redis. `LocalAllow` is the sweep and the decision under the
mutex; `Newer` is its loop over the stamps; `Script` is the Lua script, whose reply may be lost, and `LimiterTick` expires its
keys. `meter` and `recent` are an ideal bucket and the real times of admission; `lapsed`
marks the two ways in which a bucket is refilled early: the local sweep of a key idle for
two windows, although a bucket may need longer than that to fill, and a stamp behind the
last refill, which the script stores as the new one. When a store forgets a key (the local
sweep, expiry in Redis), the next bucket of the key starts full at a stamp that may lag, so
the ideal bucket is granted one lag more each time (`Restarted`). What the translation shows beside: a
key of the local store whose last request was admitted is never swept, because its stamps
are pruned only when it is used; and in the script `not allowed` is never true (0 is true
in Lua), so the reset it returns is always a window from now.

### AbuseGuard

`entry[k]` is the counter of an account name or of an address. The address is what
`clientIP` says, the first X-Forwarded-For or else the peer with its port, so a client may
have many and each attempt brings any of `Addresses`. `Check` is one step in
memory and two in Redis, so is `RegisterFailure`; every call to Redis may fail, and
`Hold` bounds how long it takes. `log` is a history of the stamps of the failures counted
for a key since its last reset or quiet reset window (`Recalled`), and `Due` says from it
alone until when a key should be left alone; a request keeps what its account name and its
address called for when it arrived (`due`, `dueAddress`). A cooldown longer than the reset
window ends with it, and a success resets the counter of the address as well as its own. A
product that does not fit an int64 becomes either extreme (memory only: Lua computes in
floats); the providers never wire the memory guard when protection is on.

### Config, Lifecycle

`Config` has no state: `Read` is what Load makes of an environment (some strings are
trimmed, some lower-cased), `Validate` the rules in their order, and the rest what the
providers choose. Google sign-in is switched off by default only when AUTH_GOOGLE_ENABLED is
missing; set but empty it is read as the default, true. Text that does not parse is the
default for booleans and numbers and an error for durations; NaN passes every range
check, as comparisons with it are false. Environments that are neither local nor
production-like exist and get the rules of neither. `Lifecycle` runs main (`Load`,
`InitRuntime`, `ProvideRuntimeDB`, `Wire`, `Go`, `Notify`, then the phases of the
shutdown), the listener, the handlers, the readiness probe and the clean-up loop, while
the database and Redis go down and come back. The clock runs on while tasks stop and Redis
and the database are closed, which main does without a deadline. The fallbacks in main for deadlines that
are not positive are dead code after Validate and are left out.

### Avatars

`once[i]` is the `sync.Once` of an instance in front of the bucket: its first call asks
whether the bucket exists (`BucketExists`) and creates it if not (`MakeBucket`), which MinIO
refuses if another instance was faster; later calls share the outcome until `Restart`. Every
request to MinIO may end in an error (`EnsureFails`, `UseFails`), whether MinIO is down,
refuses it or the client has gone away, and may have been carried out. Object keys are sequences, so that
the ownership check, a prefix, is a prefix of something. No table knows the objects:
an upload whose answer is lost leaves one that nobody can name.

## 3. Runs

| Run | Question | Instance |
|---|---|---|
| `sessions` | invariants of the table under two concurrent requests with failures; refinement of `TokenFamilies` | 1 user, 3 tokens (one legacy), 2 requests |
| `sessions_reuse_race` (violation) | does reuse detection always end the family? | 3 tokens, 2 requests |
| `idempotency` | once per TTL, own replay, stable replay, no stuck key | both stores, 1 key, 2 fingerprints, 2 outcomes, 2 requests, TTL 2 |
| `idempotency_cleanup_race` (violation) | at most one execution per TTL without exception? | DB store |
| `permissions` | invalidation, ownership, termination | both stores, 2 users, 2 requests, 1 mutation |
| `credentials` | tokens, registration races, sessions after a new password | 1 e-mail, 2 passwords, 2 tokens, 1 session, 2 requests |
| `credentials_login_race` (violation) | does a new password lock out the old one? | as above, 2 sessions |
| `flags` | precedence of rules; what the evaluation cache may hold | both stores, 1 flag, 2 rules of 7 kinds, 1 evaluation, 2 mutations |
| `admin_rbac` | lock-out guard, protected roles, sync, sign-in, invalidation | 3 roles, 3 permissions, 2 users, 2 requests |
| `throttling` | rate, burst and headers of the limiter; spacing and cooldowns of the guard | both stores of each; 3 limiter and 2 guard policies, 1 client, lag 0 or 1; 2 attempts, 1 account name, 2 addresses |
| `lists` | what a list request is answered with; is a 404 real? | both stores, 2 processes, 2 list requests for one key, 2 mutations, 1 role |
| `lifecycle` | production settings, readiness, drain, ceiling and end of the shutdown; ownership of avatars and the race for their bucket | 2 environments with up to 2 changes; 2 processes; 2 users, 2 calls, 2 instances, 1 restart |

What the passing runs show is stated above each property in the modules. The ones
that took an argument:

* `OneLiveTokenPerFamily`, `OneSuccessor`: a token presented by two requests at once
  is rotated once, because `RotateSession` re-checks `revoked_at IS NULL` under the row
  lock, not because `Decide` looked.
* `RevocationEndsFamilies`: no usable token descends from a row that a finished
  revocation found. It is what remains true of the sessions component although
  `ReuseEndsFamily` is not.
* `RevocationIsFinal`: a late `MarkReuseDetectedByHash` never masks a logout.
* `OncePerWindow`: the exception (`lost`) is exactly the cleanup race of the finding.
* `InvalidationEndsEntries`: an entry a look-up can find chose its key after the last
  invalidation of its user. It does not promise fresh contents: see the known races.
* `SupersededTokenIsDead`: what was active when a forgot-password request arrived is
  dead when it is answered. Two concurrent requests can still leave two active tokens
  (each inserts after both have invalidated), so "at most one active token" is not
  claimed.
* `ChangeEndsSessions` is about the sessions live when the password changed; the
  session issued later by a login already past its password check is the finding.
* `OrphanOnlyAfterFailure`: registration cut short leaves a user without a password,
  who can neither register again ("email already registered") nor log in; it happens
  only through a failure.
* `QuietEntriesAreFresh`: an evaluation cached during a mutation can be stale, or in
  Redis unknown to the index, until its 30 seconds are over; the property says that this
  is the only way.
* `GuardPreventsLockOut`: "unless another request wrote meanwhile" is needed. Two
  administrators can pass the guard on each other's roles and both lose the
  permission, and a guard that cannot read its caller lets the mutation pass.
* `NoCacheLeftBehind`: a handler whose row is deleted before the read-back panics
  without invalidating, and yet nothing stale remains, because the deletion it lost
  against invalidates the same caches afterwards. What does leave caches behind, without any
  failure, is `revived`: a permission that is deleted, and invalidated, between the SELECT and
  the Replace of an update of a role comes back, and the update does not invalidate the list
  of permissions (`admin_handler.go:452-453`; set-roles and the list of roles, 204-205,
  likewise); a sign-in writes back what was removed while it ran; and the bootstrap role.
  The property says that nothing else does.
* `SlidingWindowHolds`, `BurstHolds`: neither lost replies, sweeps, expiry nor stamps out
  of order admit more than the policy allows, up to the lag; `lapsed` names the two
  exceptions for bursts. Of a key that is forgotten and used again, over and over, by hosts
  whose clocks differ, each round may admit one lag's refill too many.
* `HonestHeaders`: a client that waits as long as Retry-After says is served, up to the
  half second the header rounds away.
* `GuessesAreSpaced`: what was counted before an attempt arrived bars it; attempts that
  were already past Check when a failure is counted are not barred, in any number. A quiet
  reset window is meant by the clock, not by the stamps: an in-memory Check drops an entry
  that has just become stale while a failure with an earlier stamp waits for the mutex, and
  that failure then starts a new count although by its stamp it continues the streak.
* `AnswersKeepUp`: a list is torn (count and rows of different states) or older than what
  had been invalidated only through a race, an invalidation that failed or never ran, or a
  change that invalidates nothing. A page stored after an invalidation it missed is such a
  race; the property does not exclude it, it says there is no other way.
* `ProductionFailsClosed` concerns five of the seven scopes: the API and the refresh limits
  may fail open in production. `ReadinessSeesOutage`: a process that needs Redis only for
  caches, the abuse guard or flags is ready without it.
* `DrainsBeforeClosing`, `WithinCeiling`, `ShutdownEnds`: `docs/project-guide.md:297-300`
  calls SHUTDOWN_TIMEOUT the "total ceiling". It is one of the drain and of the telemetry,
  because both derive their contexts from it, and `WithinCeiling` claims no more: closing Redis
  and the database comes after it and has no deadline (`main.go:63-74`). Nobody waits for the
  round of the clean-up loop under way.
* `BucketBeforeObjects`: an instance that lost the race for the bucket, or whose first caller
  went away, keeps that error until it is restarted, although the bucket is there; all its
  calls fail. The property says that the reverse never happens: no object is asked for on the
  strength of an initialisation that failed or has not ended, and those who wait for one wait
  for exactly one call that is still running.

**Bounds.** Two requests suffice for every race between a statement of one operation
and the statements of another, which is what the hazards list; the state of a third
request adds nothing to the table that two, finishing one after the other, cannot
leave there, since finished requests return to idle and start again. Three tokens give
a token, its successor and a second login (or a legacy row); TTL 2 has an inside, a
boundary (`expires_at = now`) and an outside; `MaxChanges` 1 has a before and an after
of a mutation, and two users tell `InvalidateUser` from `InvalidateAll`. One session
row is enough for the properties of `credentials` that concern a session; the race
needs the session the change is made from and the one the late login gets. Two rules tell every pair of types, priorities and ids
apart, and two mutations let the invalidation of one fall into the other. Two
administration requests from every state the seed and one more role allow cover each
race of a guard with a write; `MaxRequests` bounds them. In `throttling`, a clock of 11
ticks (a third of a second each) has two windows, their edges, a sweep and the expiry of
a bucket slower than its window; in the guard's part 4 ticks and counts up to 3 go
past the free attempts, the growth, the cap and a reset window of 2; `MaxDuration` 6 is
small enough to overflow. With one account name and two addresses two attempts share both
keys or only one. In `lists`, the operations of the part with list requests are one that
commits twice and one that commits once; the other part has all of them. `throttling`, `lists` and `lifecycle` choose at the start which of their parts is
at work (`part`), since the parts share nothing but the clock or the configuration, and
their product would show nothing more. `lifecycle` changes any two settings of a
development and of a production environment at a time, so that rules that depend on
one another are met in both outcomes; its processes have a total deadline shorter and not
shorter than the phases together. The theorems below remove the bounds for what they cover.

**Deadlock** is checked except where a bound or the end of the process ends every
behaviour: `admin_rbac` (`MaxRequests`) and `lifecycle` (the process exits). Elsewhere the
system can always accept another request.

**Fairness.** `Idempotency` assumes: time passes; a handler ends (the server's
timeouts); a store that is asked for ever does not fail for ever (strong fairness of
`Begin` and its insert); and the client keeps retrying its key, which is what the
property is about. Nothing is assumed of the cleanup loop, which may be disabled.
`PermissionCache` assumes only that a request which was accepted is run to its end,
successfully or not. `Lifecycle` assumes that main, when it has a step to take, takes it,
and that time passes; nothing of the handlers, which may run for ever. The other modules
have no liveness property and no fairness.

**Symmetry** is used in runs that check invariants, action properties and the refinement
of `TokenFamilies`, which has no fairness; never with liveness.

### Findings

Three properties that a test or a document of the repository states are violated by an
interleaving the tests do not produce; each violation run exhibits one:

1. `ReuseEndsFamily`: the family UPDATE misses the successor a concurrent rotation
   inserts after the snapshot.
2. `ExecuteOnce`: a handler outlives its record; between the cleanup's subselect, which names
   the expired record, and its DELETE, `Complete` stores the response with a new expiry. The
   DELETE removes it and a retry runs the handler again. (A `Begin` that restarts the row in
   that interval loses its record in the same way; the trace is two steps longer.)
3. `OldPasswordLocksOut`: a login that verified the old password issues its session
   after the reset has revoked all sessions.

Known races of the same kind, which the modules contain and no run is spent on: a refresh
between resolving the current session and the UPDATE of revoke-others revokes the
caller's own new session (`test/integration/session_management_test.go:125` expects it to
survive); permissions loaded before a mutation are stored under the epoch after it, or
handed to a later request through a shared flight (`docs/project-guide.md:385`,
"invalidation on RBAC mutations"); a sign-in grants again the role that was
removed while it ran.

## 4. Proofs

All proofs are for arbitrary constants that satisfy the named assumptions of the modules;
TLC evaluates each of them on the instances. They say of the constants what the code or the
database guarantees: `Nil` is not a value, keys of different tables differ, the TTL and the
batch size are positive, `Failures` is Boolean, a store is one of the two, the reasons
callers pass to `RevokeAll` are none of the three on which `Rotate` reports a reuse, a
flag has finitely many rules with numeric ids, a request body names finitely many
permissions, NaN is no integer, a duration parses to an integer or not at all,
a rate is positive (Validate), the
counters of an account name and of an address are different keys (`stateKey` names the
dimension), what stands for "no entry" is no entry, and the
users in object keys are written in decimal digits, none of which is the separator.

* **Sessions.** `TypeCorrect`; `OneLiveTokenPerFamilyHolds`; `OneSuccessorHolds`. The
  last two are not inductive: that a rotation leaves one live token needs to know that
  the family the request holds is the family of the row *now*, and that a free token
  is nobody's family or parent. `LineageInv` adds: free rows are empty, families and
  parents are minted, a token with a successor is not live, the two lineage columns
  are set together, and what a request has learned of its token (`Knows`) stays true
  while others run. The proof first shows that every step is *quiet* (keeps lineage
  and revives nothing), an *opening* or a *rotation* (`StepEffect`), then that each of
  the three keeps the table's part of the invariant; so each action is looked at
  only once.
* **Idempotency.** `TypeCorrect`, `ReplayIsOwnHolds`, `OncePerWindowHolds`,
  `StableReplayHolds`. `OwnInv` ties a stored response to the fingerprint of its
  record and the response a request carries to its own; it is needed because `Complete`
  writes to a record that may have been restarted since. `WindowInv` says a key that
  is not `lost` and whose window is open has a record with at least that many ticks
  left, so a "new" answer is impossible; the action property follows from it. It is
  where the boundary (`expires_at < now` against `<= now`) matters.
* **PermissionCache.** `TypeCorrect`, `InvalidationEndsEntriesHolds`,
  `AnswerIsOwnHolds`, `OneLeaderHolds`. `EpochInv`: every key in the cache or held by a
  request is *dated*, i.e. its epochs are not in the future, and if they are the
  current ones the entry was dated after the last invalidation. `OwnInv`: entries belong to the user in
  their key, and a request past `Do` that leads is the leader its flight records.

* **Sessions**, revocation and refinement. `RevocationEndsFamiliesHolds` adds to
  `LineageInv` that the rows a finished revocation has on record are minted: a rotation
  needs a live parent, so no new row can join their families. `RevocationIsFinalHolds` needs
  that a refresh which read a revoked row is about a row that is still revoked, with a
  reason of the same kind (`FinalInv`); otherwise a late `MarkReuseDetectedByHash` could
  mask a logout. `ImplementsFamiliesHolds` is the refinement of `TokenFamilies`: quiet steps
  stutter or end families, openings are `Open`, rotations are `Advance`; it reuses the three
  kinds of step above.
* **Credentials.** `TypeCorrect` carries, beside types, what a request holds at each `pc`
  (`Shapes`). `EndInv` gives `SupersededTokenIsDeadHolds` and `ChangeEndsSessionsHolds`: what
  a request is to end is active only until its own UPDATE, and belongs to its account.
  `AccountInv` gives `OneRegistrantHolds` and `OnlyVerifiedSignInHolds`: it needs where
  accounts and first passwords come from (`StepOrigin`), that tokens exist only for accounts
  with a password, and that a verified address is never unverified. `OrphanInv` adds
  `OrphanOnlyAfterFailure` to it, which is then inductive. `ConsumedInv` says that a token
  between `consume` and its effect is used, unapplied and held by one request, which is
  `TokenAppliedOnceHolds`.
* **FeatureFlags.** `MostSpecificRuleDecidesHolds` is about the operator: among finitely many
  rules there is a first one of each type (proved from a smallest counterexample by
  cardinality, as induction is not available). `QuietEntriesAreFreshHolds` follows from
  `FlagInv`: an entry that is not `raced` is current or some mutation has yet to invalidate
  it; in Redis it is named by the index and by every copy of the index that a running
  invalidation holds; and an evaluation that nobody overtook has read the current tables.
* **AdminRBAC.** `AdminTypeCorrect`, `ProtectedRolesStayHolds`, `GuardPreventsLockOutHolds`,
  `NoCacheLeftBehindHolds`. `AdminInv` has four parts beside types and unique names: a
  request that may write to a role holds one that is no protected seed (the check in
  `find` is not repeated, so this must stay true while others run); what a guarded
  request has read is current unless it is `raced`, and past the guard it locks nobody out;
  the rows a request has read have unique names, and those of a sign-in are still there
  unless it is raced; and every stale cache is *owed* by some request, except one made
  stale by a row that a `Replace` or `Save` brought back (`revived`). The last one is the argument about panicking handlers: a
  read-back that will find its row gone owes nothing, and the step that deleted the row
  took over its debt. This invariant was checked by TLC first, on the instance of the run.
* **ListCache.** `ListTypeCorrect`, `AnswersKeepUpHolds`, `NotFoundIsRealHolds`. `ListInv`: a
  page in the cache that no change has overtaken is one state of the tables, older than every
  change that still owes its invalidation (a mutation of several commits owes from the
  first); if it is not the current one, the *first* change it misses still owes and will
  find the page in the index; a page being read is current or raced; and a request that holds a
  record which is not there has seen it missing.
* **Lifecycle, Avatars** (`ProcessProofs`). `LifeInv`: past `Load` the configuration is valid
  (from which `ProductionFailsClosedHolds` and `ReadinessSeesOutageHolds` follow by looking
  at `Validate` and the providers, for every environment), the listener is closed before
  the drain ends, a handler that outlives the drain has overrun it, and the deadline of a
  phase is within the total: `DrainsBeforeClosingHolds`, `WithinCeilingHolds`. `StorageInv`
  ties the outcome an instance remembers to the bucket, and "busy" to exactly one call that
  initialises (`BucketBeforeObjectsHolds`); `OnlyOwnersDeleteHolds` rests on a lemma about sequences: a
  key that begins with the prefix of a user is of no other user.
* **RateLimiter** (`ProcessProofs`), for any policy, lag, number of keys and horizon.
  `BurstHoldsHolds` from `LimiterInv`: the ideal bucket holds at least what the stored one
  would if the clock were one lag behind, and it is full when there is none. That only one lag
  is granted for all time would be false for policies whose bucket fills in a few ticks:
  each time Redis expires a full key, it may start again at a lagging stamp. The third
  policy of the run is of that kind.
  `SlidingWindowHoldsHolds` and `HonestHeadersHolds` from `WindowInv`, which adds to it, per
  key: the window holds at most the limit; *for every* bound `c` that still counts it holds
  at least as many stamps after `c` as there were admissions after `c + lag` (one bound is not
  enough: pruning at a late stamp must not lose what an earlier stamp still counts); what
  Redis expires with the window is no later than the last run of the script; and, with
  accurate stamps, from the promised time on there is a token in the bucket and room in the
  window. The last one is where the rounding of Retry-After, the division by the refill
  rate and the oldest stamp meet (`RetryIsEnough`, `DecisionMeans`, `DecidedPromise`).
* **AbuseGuard** (`ProcessProofs`). `GuessesAreSpacedHolds` and `CooldownNeverShrinksHolds`, for
  any policy, any number of concurrent requests, account names and failures. `GuardInv`: an
  entry's cooldown is the one for its count; the entry knows of every failure the history
  remembers; stamps in use are at most `Hold` old; and a request whose account name does not
  bar it, between the two reads of Check, owes nothing for its address any more or will be
  barred by it, even when failures with earlier stamps are counted in between (`Barring`).
  The latter needs that delays grow with the count (`WaitMonotone`).

Two operators of these modules are recursive: `Power` (the growth of the delays) and `Newer`
(the stamps that remain). What they compute cannot be shown by induction here, so it is
shown from a smallest counterexample: a set of naturals has a least element (`LeastNatural`),
the recursion has exactly one solution (`GrowthExists`, `GrowthUnique`, `KeepsExists`,
`KeepsUnique`), and from that come the facts the proofs use (`PowerSteps`, `WaitGrows`,
`NewerSteps`, `NewerFilters`).

The proof of `GuessesAreSpaced` first failed, for a good reason: in the form that took streaks
from the stamps of the failures and mixed what the account name and the address call for, it
was false for one failure more than the run then allowed (see section 3). The history now
forgets by the clock, the two parts are kept apart, and the run's bound is on the count of an
entry. What the actions do to the state of the code did not change. `GuardInv` and `WindowInv` were checked by TLC
before they were proved.

Only model-checked: the liveness properties `KeyNeverStuck`, `CheckEnds` and `ShutdownEnds`,
since the prover knows no fairness, and the three properties whose violation is a finding.
Every other property of a run is a theorem.

`OneLeader` of `PermissionCache` and the type invariants of `Credentials`, `FeatureFlags`,
`AdminRBAC` and `ListCache` are proved and in no run.

## 5. Plan

*Done:* every component of the inventory that keeps state, with its runs; proofs of every
safety and action property that the passing runs check; the refinement of `TokenFamilies`.

*Left:* liveness, should a prover for it become available: the ranking arguments are short
(ticks left of a record, statements left of a request, time left of a phase).

## 6. Not modelled

Hashing, JWT signing and parsing, cookies and CSRF tokens (their outcome is whether an
operation starts), HTTP formatting and ETags, metrics, logs and audit records, migrations and
developer tools, MinIO and Google beyond success or failure, settings no rule reads, and the products CRUD,
each of whose operations is one statement on one row. JWT access tokens are stateless
and stay valid until they expire; the model says nothing about them beyond their use
as cache keys.
