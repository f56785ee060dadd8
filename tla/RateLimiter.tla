----------------------------- MODULE RateLimiter -----------------------------
(***************************************************************************)
(* One rate limiter of the API: a token bucket for bursts combined with a  *)
(* sliding window for the sustained rate, per key, held either in this     *)
(* process (local) or in Redis and then shared by every instance.          *)
(*                                                                         *)
(* Tokens are integers: a token is Unit units, one unit for every tick of  *)
(* a minute, so that a rate of p per minute refills p units per tick.  A   *)
(* request stamps itself with the time it read before it was decided: in   *)
(* one process the clock is read before the mutex is taken, and instances  *)
(* that share a Redis have clocks that differ; lag bounds both.  Redis     *)
(* expires keys by its own clock, which is now.  Each limiter (global,     *)
(* auth, forgot, the four route policies) has a prefix and so state of its *)
(* own, and behaves like this one.                                         *)
(***************************************************************************)
EXTENDS Clock, Sequences

CONSTANTS
  Callers,         \* [ip, subject, probe]: what a request carries
  NoSubject,       \* no access token, or one that does not verify
  Rates,           \* [perMinute, window, multiplier]; the multiplier in halves
  ProbeBypass, TrustedBypass, TrustedIPs, TrustedSubjects,
  LimiterHorizon,  \* bound: the clock stops here
  Lags,            \* how far behind the clock a stamp may be, per deployment
  Absent           \* no bucket stored

\* Validate refuses rates that are not positive.
ASSUME RatesAssumption ==
  \A s \in Rates : s.perMinute \in Nat \ {0} /\ s.window \in Nat /\ s.multiplier \in Nat
ASSUME LimiterBoundsAssumption == LimiterHorizon \in Nat /\ Lags \subseteq Nat
ASSUME AbsentAssumption == Absent \notin [tokens : Int, last : Int]
ASSUME BypassAssumption == ProbeBypass \in BOOLEAN /\ TrustedBypass \in BOOLEAN

VARIABLES
  policy,     \* the policy in force; chosen at start-up, as are the next three
  backend,    \* "local" or "redis"
  bySubject,  \* the key is the subject of the access token, if there is one
  lag,        \* a stamp may be this far behind the clock
  tokenBucket,  \* tokenBucket[k]: tokens and the stamp of the last refill, or Absent
  window,     \* window[k]: stamps of the admitted requests
  touched,    \* Redis: when the script last ran for k; it sets the times to live
  cleanup,    \* local: the next sweep of idle keys is due after this
  meter,      \* history: what an ideal bucket would hold, by the real clock
  recent,     \* history: real times of the last window's admissions
  promise,    \* history: from when on the last answer says k will be served
  lapsed      \* history: a bucket was refilled early: by a sweep, or because
              \*          its last refill was moved back by a slow clock

limiterVars == <<policy, backend, bySubject, lag, tokenBucket, window, touched,
                 cleanup, meter, recent, promise, lapsed>>
deployment == <<policy, backend, bySubject, lag>>

Never == LimiterHorizon + 1

-----------------------------------------------------------------------------
(* Policies.                                                               *)

Unit == 60 * TicksPerSec
MinuteTicks == 60 * TicksPerSec

\* normalizePolicy: defaults for what is not positive.
normalizePolicy(p) ==
  LET limit == Greatest(p.limit, 1)
      width == IF p.window <= 0 THEN MinuteTicks ELSE p.window
  IN [limit    |-> limit,
      window   |-> width,
      capacity |-> Greatest(p.capacity, limit),
      refill   |-> IF p.refill > 0 THEN p.refill ELSE (limit * Unit) \div width]

\* toRateLimitPolicy: the configured rate applied to the configured window; a
\* rate too small for the window is rounded up to one request.
toRateLimitPolicy(s) ==
  LET width == IF s.window <= 0 THEN MinuteTicks ELSE s.window
      limit == Greatest(RoundDiv(s.perMinute * width, MinuteTicks), 1)
  IN [limit    |-> limit,
      window   |-> width,
      capacity |-> CeilDiv(limit * Greatest(s.multiplier, 2), 2),
      refill   |-> IF s.perMinute > 0 THEN s.perMinute ELSE (limit * Unit) \div width]

-----------------------------------------------------------------------------
(* Keys and bypasses.                                                      *)

\* SubjectOrIPKeyFunc, or clientIPKey.
KeyFunc(r) == IF bySubject /\ r.subject # NoSubject THEN r.subject ELSE r.ip
LimiterKeys == {r.ip : r \in Callers} \cup ({r.subject : r \in Callers} \ {NoSubject})

\* NewRequestBypassEvaluator and its Match.
BypassEvaluator ==
  ProbeBypass \/ (TrustedBypass /\ (TrustedIPs # {} \/ TrustedSubjects # {}))
Match(r) ==
  /\ BypassEvaluator
  /\ \/ ProbeBypass /\ r.probe
     \/ TrustedBypass /\ (r.ip \in TrustedIPs \/ r.subject \in TrustedSubjects)

-----------------------------------------------------------------------------
(* The two stores.  A decision is computed from the tokens and the stamps  *)
(* that count at the stamp t of the request.                               *)

Full(t) == [tokens |-> policy.capacity * Unit, last |-> t]
Earned(b, t) == [tokens |-> Least(policy.capacity * Unit, b.tokens + (t - b.last) * policy.refill),
                 last   |-> t]

\* The stamps after c, in their order.
Newer(stamps, c) ==
  LET kept[n \in 0 .. Len(stamps)] ==
        CASE n = 0 -> <<>>
          [] n > 0 /\ stamps[n] > c -> Append(kept[n - 1], stamps[n])
          [] OTHER -> kept[n - 1]
  IN kept[Len(stamps)]

\* Faulty: a stamp leaves the window a tick early.
PruneEarly(stamps, t) == Newer(stamps, t - policy.window + 1)

Prune(stamps, t) == Newer(stamps, t - policy.window)

\* What both limiters decide for tokens, live stamps and the oldest of them.
Decision(tokens, stamps, oldest, t) ==
  LET bucketRetry == IF tokens >= Unit THEN 0 ELSE CeilDiv(Unit - tokens, policy.refill)
      windowRetry == IF Len(stamps) < policy.limit THEN 0
                     ELSE Greatest(oldest + policy.window - t, 0)
      allowed == bucketRetry <= 0 /\ windowRetry <= 0
      left == IF allowed THEN tokens - Unit ELSE tokens
      count == IF allowed THEN Len(stamps) + 1 ELSE Len(stamps)
  IN [allowed   |-> allowed,
      tokens    |-> left,
      remaining |-> Least(left \div Unit, Greatest(policy.limit - count, 0)),
      retry     |-> Greatest(bucketRetry, windowRetry)]

\* The sweep of the local limiter: only keys without stamps are dropped, and
\* stamps are pruned only when their key is used.
Swept(t) ==
  IF t <= cleanup THEN {}
  ELSE {k \in LimiterKeys : /\ tokenBucket[k] # Absent /\ window[k] = <<>>
                            /\ t - tokenBucket[k].last > 2 * policy.window}

\* The entry of k when the local limiter decides: new, or refilled; a stamp
\* behind the last refill changes nothing.
Refilled(k, t) ==
  CASE tokenBucket[k] = Absent \/ k \in Swept(t) -> Full(t)
    [] tokenBucket[k] # Absent /\ k \notin Swept(t) /\ t > tokenBucket[k].last -> Earned(tokenBucket[k], t)
    [] OTHER -> tokenBucket[k]

OldestFirst(stamps) == IF stamps = <<>> THEN 0 ELSE stamps[1]
OldestScore(stamps) ==
  IF stamps = <<>> THEN 0
  ELSE CHOOSE h \in {stamps[i] : i \in DOMAIN stamps} : \A i \in DOMAIN stamps : h <= stamps[i]

LocalDecision(k, t) ==
  LET stamps == Prune(window[k], t)
  IN Decision(Refilled(k, t).tokens, stamps, OldestFirst(stamps), t)

\* The script: a stamp behind the last refill takes its place.
ScriptBucket(k, t) ==
  IF tokenBucket[k] = Absent THEN Full(t)
  ELSE Earned([tokenBucket[k] EXCEPT !.last = Least(@, t)], t)
RedisDecision(k, t) ==
  LET stamps == Prune(window[k], t)
  IN Decision(ScriptBucket(k, t).tokens, stamps, OldestScore(stamps), t)

\* Faulty: the bucket lives no longer than the window.
BucketTTLWindow == policy.window

\* The times to live the script sets, from Redis's now on.
BucketTTL == Greatest(CeilDiv(policy.capacity * Unit, policy.refill), policy.window)

-----------------------------------------------------------------------------
(* The middleware.                                                         *)

LimiterInit ==
  /\ now = 0
  /\ policy \in {normalizePolicy(toRateLimitPolicy(s)) : s \in Rates}
  /\ backend \in {"local", "redis"}
  /\ bySubject \in BOOLEAN
  /\ lag \in Lags
  /\ tokenBucket = [k \in LimiterKeys |-> Absent]
  /\ window = [k \in LimiterKeys |-> <<>>]
  /\ touched = [k \in LimiterKeys |-> 0]
  /\ cleanup = 0  \* the process has been up for a minute
  /\ meter = [k \in LimiterKeys |-> policy.capacity * Unit]
  /\ recent = [k \in LimiterKeys |-> <<>>]
  /\ promise = [k \in LimiterKeys |-> Never]
  /\ lapsed = [k \in LimiterKeys |-> FALSE]

Stamps == Greatest(now - lag, 0) .. now

\* Faulty: the header drops the fraction of a second.
retryAfterHeaderFloor(d) == Greatest(d \div TicksPerSec, 1)

\* Retry-After, in seconds.
retryAfterHeader(d) == Greatest(RoundDiv(d, TicksPerSec), 1)

\* What the ideal bucket holds when the store forgets the keys in gone: the next bucket
\* of such a key starts full at a stamp that may be one lag behind the clock.
Restarted(k, gone) ==
  IF k \in gone THEN Least(policy.capacity * Unit, meter[k] + policy.refill * lag) ELSE meter[k]

\* An admission as the histories see it.
Count(k, d, gone) ==
  /\ meter' = [j \in LimiterKeys |->
       Restarted(j, gone) - IF j = k /\ d.allowed /\ ~lapsed'[k] THEN Unit ELSE 0]
  /\ recent' = IF d.allowed THEN [recent EXCEPT ![k] = Append(@, now)] ELSE recent

\* What the headers of an answer say about the next request: with requests
\* remaining it is served at once, and a denied one is served when the time in
\* Retry-After has passed; rounding may make that less than half a second early.
Answer(k, d) ==
  promise' = [promise EXCEPT ![k] =
    CASE d.allowed /\ d.remaining > 0 -> now
      [] ~d.allowed -> Least(Never, now + retryAfterHeader(d.retry) * TicksPerSec
                                        + (TicksPerSec - 1) \div 2)
      [] OTHER -> Never]

\* A probe or a trusted actor passes without being counted.
Bypass(r) ==
  /\ Match(r)
  /\ UNCHANGED <<now, deployment, tokenBucket, window, touched, cleanup, meter, recent, promise, lapsed>>

\* localFixedWindowLimiter.Allow, under its mutex.
LocalAllow(r, t) ==
  LET k == KeyFunc(r)
      d == LocalDecision(k, t)
  IN /\ ~Match(r) /\ backend = "local" /\ t \in Stamps
     /\ tokenBucket' = [j \in LimiterKeys |->
          CASE j = k -> [tokens |-> d.tokens, last |-> Refilled(k, t).last]
            [] j # k /\ j \in Swept(t) -> Absent
            [] OTHER -> tokenBucket[j]]
     /\ window' = [window EXCEPT ![k] =
          IF d.allowed THEN Append(Prune(@, t), t) ELSE Prune(@, t)]
     /\ cleanup' = IF t > cleanup THEN t + policy.window ELSE cleanup
     /\ lapsed' = [j \in LimiterKeys |-> lapsed[j] \/
          (j \in Swept(t) /\ Earned(tokenBucket[j], t).tokens < policy.capacity * Unit)]
     /\ Count(k, d, Swept(t)) /\ Answer(k, d)
     /\ UNCHANGED <<now, deployment, touched>>

\* The script of RedisFixedWindowLimiter, atomic in Redis.
Script(k, t) ==
  LET d == RedisDecision(k, t)
  IN /\ tokenBucket' = [tokenBucket EXCEPT ![k] = [tokens |-> d.tokens, last |-> t]]
     /\ window' = [window EXCEPT ![k] =
          IF d.allowed THEN Append(Prune(@, t), t) ELSE Prune(@, t)]
     /\ touched' = [touched EXCEPT ![k] = now]
     /\ lapsed' = [lapsed EXCEPT ![k] = @ \/ (tokenBucket[k] # Absent /\ t < tokenBucket[k].last)]
     /\ Count(k, d, {})
     /\ UNCHANGED <<now, deployment, cleanup>>

RedisAllow(r, t) ==
  LET k == KeyFunc(r)
  IN /\ ~Match(r) /\ backend = "redis" /\ t \in Stamps
     /\ Script(k, t) /\ Answer(k, RedisDecision(k, t))

\* The script ran and its reply is lost, or is not what the client expects: an
\* error for the middleware.  It serves the request (fail_open) or denies it
\* (fail_closed) without knowing the decision; the limiter is as it was left.
RedisReplyLost(r, t) ==
  LET k == KeyFunc(r)
  IN /\ ~Match(r) /\ backend = "redis" /\ t \in Stamps
     /\ Script(k, t) /\ promise' = [promise EXCEPT ![k] = Never]

\* Redis is down: the same, and nothing is counted.
RedisDown(r) ==
  /\ ~Match(r) /\ backend = "redis"
  /\ promise' = [promise EXCEPT ![KeyFunc(r)] = Never]
  /\ UNCHANGED <<now, deployment, tokenBucket, window, touched, cleanup, meter, recent, lapsed>>

\* Time passes; Redis drops the keys whose time is up.
Expired(k, ttl) == backend = "redis" /\ tokenBucket[k] # Absent /\ touched[k] + ttl <= now + 1
LimiterTick ==
  /\ now < LimiterHorizon /\ now' = now + 1
  /\ tokenBucket' = [k \in LimiterKeys |-> IF Expired(k, BucketTTL) THEN Absent ELSE tokenBucket[k]]
  /\ window' = [k \in LimiterKeys |-> IF Expired(k, policy.window) THEN <<>> ELSE window[k]]
  /\ meter' = [k \in LimiterKeys |->
       Least(policy.capacity * Unit,
             Restarted(k, {j \in LimiterKeys : Expired(j, BucketTTL)}) + policy.refill)]
  /\ recent' = [k \in LimiterKeys |-> Newer(recent[k], now + 1 - policy.window)]
  /\ touched' = [k \in LimiterKeys |-> IF Expired(k, BucketTTL) THEN 0 ELSE touched[k]]
  /\ UNCHANGED <<deployment, cleanup, promise, lapsed>>

LimiterNext ==
  \/ LimiterTick
  \/ \E r \in Callers :
       \/ Bypass(r) \/ RedisDown(r)
       \/ \E t \in Stamps : LocalAllow(r, t) \/ RedisAllow(r, t) \/ RedisReplyLost(r, t)

LimiterSpec == LimiterInit /\ [][LimiterNext]_<<now, limiterVars>>

-----------------------------------------------------------------------------
(* Properties.                                                             *)

\* In any interval of one window, less the lag of the stamps, the limiter of
\* either backend admits at most SustainedLimit requests of a key: at the edges
\* of the window, after sweeps, expired keys and lost replies, and with stamps
\* that arrive out of order.
SlidingWindowHolds ==
  \A k \in LimiterKeys :
    Len(Newer(recent[k], now - (policy.window - lag))) <= policy.limit

\* The limiter never admits more than an ideal token bucket that started full
\* and refills by the real clock, but for the refill of one lag, and of one more
\* each time the store forgets a key that is full; unless the bucket of the key
\* was refilled early, by the local sweep or by a clock behind the last refill in
\* Redis.
BurstHolds ==
  \A k \in LimiterKeys : lapsed[k] \/ meter[k] >= 0 - policy.refill * lag

\* With accurate stamps the headers tell the truth: when the last answer for a
\* key left requests remaining, or denied one and the time of its Retry-After
\* has passed, the limiter admits the next request of that key.
HonestHeaders ==
  \A k \in LimiterKeys :
    (lag = 0 /\ now >= promise[k]) =>
      IF backend = "local" THEN LocalDecision(k, now).allowed
                           ELSE RedisDecision(k, now).allowed

=============================================================================
