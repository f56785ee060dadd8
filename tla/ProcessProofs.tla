--------------------------- MODULE ProcessProofs ---------------------------
(***************************************************************************)
(* Proofs about what a server process does around its tables: its life     *)
(* (Lifecycle, with Config), its object storage (Avatars) and what stands  *)
(* in front of its routes: the rate limiter (RateLimiter) and the guard of *)
(* login and forgot-password (AbuseGuard).  For any environments, requests,*)
(* calls, policies and clocks.                                             *)
(***************************************************************************)
EXTENDS Lifecycle, Avatars, RateLimiter, AbuseGuard, TLAPS, SequenceTheorems,
        NaturalsInduction, WellFoundedInduction

-----------------------------------------------------------------------------
(* What Validate guarantees.                                               *)

\* A duration that Load accepted is an integer and within its range.
LEMMA DurationIsInteger ==
  ASSUME raw \in Environments, Loads(raw), NEW s \in DOMAIN DurationRanges,
         s \in {"ShutdownTimeout", "ShutdownHTTPDrainTimeout", "ShutdownObservabilityTimeout"}
  PROVE  cfg[s] \in Int /\ cfg[s] > 0
<1>1. DurationRanges[s].lo = 1 /\ DurationRanges[s].def \in Int
  BY DEF DurationRanges, Bounds, Sec, Ms
<1>2. cfg[s] = getEnv(raw[s], DurationRanges[s].def)
  <2>1. s \in Settings
    BY DEF Settings
  <2>2. s \notin DOMAIN BoolDefaults
    BY DEF BoolDefaults
  <2>3. s \notin DOMAIN IntRanges
    BY DEF IntRanges
  <2>4. s \notin DOMAIN FloatRanges
    BY DEF FloatRanges
  <2>5. s \notin Scopes
    BY DEF Scopes
  <2>6. s \notin Trimmed /\ s \notin Lowered /\ s # "AuthGoogleEnabled"
    BY DEF Trimmed, Lowered
  <2> QED BY <2>1, <2>2, <2>3, <2>4, <2>5, <2>6, SMT DEF cfg, Read
<1>3. raw[s] \in Int \cup {Unset}
  BY EnvironmentsAssumption DEF Loads
<1>4. cfg[s] \in Int
  BY <1>1, <1>2, <1>3 DEF getEnv
<1>5. Checked(cfg, s)
  BY DEF Checked
<1>6. ~OutOfRange(cfg[s], 1, DurationRanges[s].hi)
  <2>1. ValidDurations(cfg)
    BY DEF Loads, Validate, cfg
  <2>2. PICK D : D = [d \in {e \in DOMAIN DurationRanges : Checked(cfg, e)} |-> DurationRanges[d]]
    OBVIOUS
  <2>3. InRange(cfg, D)
    BY <2>1, <2>2 DEF ValidDurations
  <2>4. s \in DOMAIN D /\ D[s] = DurationRanges[s]
    BY <1>5, <2>2
  <2> QED BY <1>1, <2>3, <2>4 DEF InRange
<1> QED BY <1>4, <1>6, NaNAssumption DEF OutOfRange

\* The three deadlines of the shutdown.
LEMMA ShutdownTimeouts ==
  ASSUME raw \in Environments, Loads(raw)
  PROVE  /\ cfg["ShutdownTimeout"] \in Int /\ cfg["ShutdownTimeout"] > 0
         /\ cfg["ShutdownHTTPDrainTimeout"] \in Int /\ cfg["ShutdownObservabilityTimeout"] \in Int
<1>1. {"ShutdownTimeout", "ShutdownHTTPDrainTimeout", "ShutdownObservabilityTimeout"}
        \subseteq DOMAIN DurationRanges
  BY DEF DurationRanges
<1> QED BY <1>1, DurationIsInteger

\* The guarded limiters of a production-like process refuse when Redis does not answer: the
\* spelling of a policy is normalised when it is read, so what Validate compares is what the
\* provider compares.
LEMMA GuardedScopesFailClosed ==
  ASSUME Validate(cfg), isProdLike(cfg["Env"]), NEW s \in GuardedScopes
  PROVE  FailureMode(cfg, s) = "fail_closed"
<1>1. s \in Scopes /\ s # "RateLimitOutagePolicyAPI"
  BY DEF GuardedScopes, Scopes
<1>2. s \in Settings
  BY DEF GuardedScopes, Settings, StringDefaults
<1>3. PICK v : cfg[s] = ToLower(TrimSpace(v))
  <2>1. s \notin DOMAIN BoolDefaults
    BY DEF GuardedScopes, BoolDefaults
  <2>2. s \notin DOMAIN IntRanges
    BY DEF GuardedScopes, IntRanges
  <2>3. s \notin DOMAIN FloatRanges
    BY DEF GuardedScopes, FloatRanges
  <2>4. s \notin DOMAIN DurationRanges
    BY DEF GuardedScopes, DurationRanges
  <2>5. s \notin Trimmed /\ s \notin Lowered /\ s # "AuthGoogleEnabled"
    BY DEF GuardedScopes, Trimmed, Lowered
  <2>6. cfg[s] = ToLower(TrimSpace(getEnv(raw[s], StringDefaults[s])))
    BY <1>1, <1>2, <2>1, <2>2, <2>3, <2>4, <2>5, SMT DEF cfg, Read
  <2> QED BY <2>6
<1>4. ToLower(TrimSpace(ToLower(TrimSpace(v)))) = ToLower(TrimSpace(v))
  BY DEF ToLower, TrimSpace, Blank
<1>5. cfg[s] # "fail_open"
  BY DEF Validate, ValidProduction
<1> QED BY <1>1, <1>3, <1>4, <1>5 DEF FailureMode, toRateLimitFailureMode

\* A production-like environment that passes Validate keeps its limits in Redis, over TLS.
LEMMA ProductionNeedsRedis ==
  ASSUME Validate(cfg), isProdLike(cfg["Env"])
  PROVE  /\ cfg["RateLimitRedisEnabled"] /\ LimiterBackend(cfg) = "redis"
         /\ cfg["RedisTLSEnabled"] /\ ~cfg["RedisTLSInsecureSkipVerify"]
<1>1. cfg["RateLimitRedisEnabled"]
  BY DEF Validate, ValidProduction
<1>2. redisRequired(cfg)
  BY <1>1 DEF redisRequired
<1>3. LimiterBackend(cfg) = "redis"
  BY <1>1, <1>2 DEF LimiterBackend, provideRedisClient
<1>4. ~isLocalLikeEnv(cfg["Env"])
  BY DEF isProdLike, isLocalLikeEnv
<1> QED BY <1>1, <1>2, <1>3, <1>4 DEF Validate, ValidNonLocal

-----------------------------------------------------------------------------
(* The life of the process.                                                *)

\* States of main in which the connection pool is open.
PoolOpen == {"migrate", "seed", "wire", "go", "notify", "serving", "draining", "flushing",
             "stop_tasks", "close_redis", "close_db"}

LifeTypes ==
  /\ raw \in Environments
  /\ main \in Booting \cup Stopping \cup Ended \cup {"serving"}
  /\ listener \in {"none", "starting", "listening", "closed"}
  /\ request \in [Requests -> {"none", "running", "ok", "error", "broken", "cut"}]
  /\ clock \in Int /\ totalAt \in Int /\ stepAt \in Int
  /\ probe \in [pc : {"none", "redis", "answered"}, db : BOOLEAN, redis : BOOLEAN, ready : BOOLEAN]

\* Past Load the configuration is valid; a goroutine that listens and a probe exist only then.
Configured ==
  /\ main \notin {"load", "failed"} => Loads(raw)
  /\ listener \in {"starting", "listening"} => Loads(raw) /\ main \in {"notify", "serving"} \cup Stopping
  /\ probe.pc # "none" => Loads(raw)
  /\ probe.pc = "answered" /\ probe.ready /\ ~probe.redis =>
       "redis" \notin provideReadinessProbeRunner(cfg)

\* The listener is closed before the drain ends; a handler that outlives it has overrun the
\* deadline, and until then the database is open.
Draining ==
  /\ main \in Stopping => listener # "listening"
  /\ main \in PoolOpen => dbOpen
  /\ \A r \in Requests : request[r] = "running" => main \in {"notify", "serving"} \cup Stopping
  /\ main \in Stopping \ {"draining"} /\ Running # {} => overtime
  /\ DrainsBeforeClosing

Deadlines ==
  /\ WithinCeiling
  /\ main \in {"draining", "flushing"} => stepAt <= totalAt

LifeInv == LifeTypes /\ Configured /\ Draining /\ Deadlines

\* The process has not begun.
LEMMA InitLifeInv == LifeInit => LifeInv
<1> SUFFICES ASSUME LifeInit PROVE LifeInv
  OBVIOUS
<1>1. /\ main = "load" /\ listener = "none" /\ probe.pc = "none"
      /\ \A r \in Requests : request[r] = "none"
  BY DEF LifeInit, NoProbe
<1>2. LifeTypes
  BY DEF LifeInit, LifeTypes, Booting, NoProbe
<1>3. Configured
  BY <1>1 DEF Configured
<1>4. Draining
  BY <1>1 DEF Draining, Stopping, PoolOpen, DrainsBeforeClosing
<1>5. Deadlines
  BY <1>1 DEF Deadlines, Stopping, WithinCeiling
<1> QED BY <1>2, <1>3, <1>4, <1>5 DEF LifeInv

\* Every step that ends the process.
LEMMA ExitKeepsLifeInv ==
  ASSUME LifeInv, NEW how \in Ended, Exit(how),
         how = "exited" => main = "return"
  PROVE  LifeInv'
<1> USE DEF LifeInv, Exit, shutdown, Ended, Stopping
<1>1. UNCHANGED <<raw, up, dbOpen, probe, clock, totalAt, stepAt, overtime>>
  OBVIOUS
<1>2. /\ main' = how /\ listener' = "closed" /\ how \in {"exited", "failed"}
      /\ \A r \in Requests : request'[r] = IF request[r] = "running" THEN "cut" ELSE request[r]
  BY DEF Cut
<1>3. LifeTypes'
  BY <1>1, <1>2 DEF LifeTypes, Cut
<1>4. Configured'
  BY <1>1, <1>2 DEF Configured, LifeTypes, cfg
<1>5. DrainsBeforeClosing'
  <2> SUFFICES ASSUME how = "exited", NEW r \in Requests, request'[r] \in {"cut", "broken"}
               PROVE  overtime
    BY <1>1, <1>2 DEF DrainsBeforeClosing
  <2>1. CASE request[r] = "running"
    BY <2>1 DEF Draining, Running
  <2>2. CASE request[r] # "running"
    BY <1>2, <2>2 DEF Draining, DrainsBeforeClosing
  <2> QED BY <2>1, <2>2
<1>6. Draining'
  <2>1. \A r \in Requests : request'[r] # "running"
    BY <1>2
  <2> QED BY <1>2, <1>5, <2>1 DEF Draining, PoolOpen
<1>7. Deadlines'
  BY <1>2 DEF Deadlines, WithinCeiling
<1> QED BY <1>3, <1>4, <1>6, <1>7

\* Until main serves, nothing runs that a step of main could disturb.
LEMMA BootKeepsLifeInv ==
  ASSUME LifeInv, Load \/ InitRuntime \/ ProvideRuntimeDB \/ Wire \/ Go \/ Notify
  PROVE  LifeInv'
<1> USE DEF LifeInv, shutdown, serving, Stopping, Booting, Ended
<1>1. CASE main = "load" /\ ~Loads(raw)
  BY <1>1, ExitKeepsLifeInv DEF Load, InitRuntime, ProvideRuntimeDB, Wire, Go, Notify
<1>2. CASE ~(main = "load" /\ ~Loads(raw))
  <2>1. /\ UNCHANGED <<raw, request, up, probe, clock, totalAt, stepAt, flushed, overtime>>
        /\ Loads(raw)
        /\ \/ main = "load" /\ main' = "observability"
           \/ main = "observability" /\ main' = "open"
           \/ main = "open" /\ main' = "migrate"
           \/ main = "migrate" /\ main' = "seed"
           \/ main = "seed" /\ main' = "wire"
           \/ main = "wire" /\ main' = "go"
           \/ main = "go" /\ main' = "notify"
           \/ main = "notify" /\ main' = "serving"
    BY <1>2 DEF Load, InitRuntime, ProvideRuntimeDB, Wire, Go, Notify, Boot, Exit, Configured
  <2>2. /\ main = "go" => listener' = "starting"
        /\ main # "go" => listener' = listener
    BY <1>2 DEF Load, InitRuntime, ProvideRuntimeDB, Wire, Go, Notify, Boot, Exit
  <2>3. main' \in PoolOpen => dbOpen'
    BY <1>2 DEF Load, InitRuntime, ProvideRuntimeDB, Wire, Go, Notify, Boot, Exit, Draining, PoolOpen
  <2>4. LifeTypes'
    BY <2>1, <2>2 DEF LifeTypes
  <2>5. Configured'
    BY <2>1, <2>2 DEF Configured, cfg
  <2>6. Draining'
    BY <2>1, <2>2, <2>3 DEF Draining, DrainsBeforeClosing, Running
  <2>7. Deadlines'
    BY <2>1 DEF Deadlines, WithinCeiling
  <2> QED BY <2>4, <2>5, <2>6, <2>7
<1> QED BY <1>1, <1>2

\* The listener comes up, unless the shutdown was faster.
LEMMA ListenKeepsLifeInv ==
  ASSUME LifeInv, Listen
  PROVE  LifeInv'
<1> USE DEF LifeInv, Listen, shutdown, serving, Stopping
<1>1. /\ UNCHANGED <<raw, main, request, probe, dbOpen, clock, totalAt, stepAt, overtime>>
      /\ listener = "starting"
      /\ listener' = IF main \in Stopping THEN "closed" ELSE "listening"
  OBVIOUS
<1>2. LifeTypes'
  BY <1>1 DEF LifeTypes
<1>3. Configured'
  BY <1>1 DEF Configured, cfg
<1>4. Draining'
  BY <1>1 DEF Draining, DrainsBeforeClosing, Running
<1>5. Deadlines'
  BY <1>1 DEF Deadlines, WithinCeiling
<1> QED BY <1>2, <1>3, <1>4, <1>5

\* Requests come only while the listener is open, and a handler finds the database closed
\* only after a drain that ran into its deadline.
LEMMA RequestKeepsLifeInv ==
  ASSUME LifeInv, NEW r \in Requests, Accept(r) \/ Handle(r)
  PROVE  LifeInv'
<1> USE DEF LifeInv, shutdown, Stopping, Ended
<1>1. UNCHANGED <<raw, main, listener, probe, dbOpen, clock, totalAt, stepAt, overtime>>
  BY DEF Accept, Handle, Serving
<1>2. PICK q \in {"running", "ok", "error", "broken"} : request' = [request EXCEPT ![r] = q]
  BY DEF Accept, Handle, Serving
<1>3. LifeTypes'
  BY <1>1, <1>2 DEF LifeTypes
<1>4. Configured'
  BY <1>1 DEF Configured, cfg
<1>5. Deadlines'
  BY <1>1 DEF Deadlines, WithinCeiling
<1>6. request'[r] = q /\ \A s \in Requests \ {r} : request'[s] = request[s]
  BY <1>2 DEF LifeTypes
<1>7. CASE Accept(r)
  <2>1. listener = "listening" /\ request[r] = "none" /\ request'[r] = "running"
    BY <1>7 DEF Accept, Serving, LifeTypes
  <2>2. main \in {"notify", "serving"}
    BY <2>1 DEF Configured, Draining
  <2> QED BY <1>1, <1>3, <1>4, <1>5, <1>6, <2>1, <2>2 DEF Draining, DrainsBeforeClosing
<1>8. CASE Handle(r)
  <2>1. /\ request[r] = "running" /\ request'[r] # "running"
        /\ request'[r] = "broken" => ~dbOpen
        /\ request'[r] # "cut"
    BY <1>8 DEF Handle, Serving, LifeTypes
  <2>2. ~dbOpen => overtime
    BY <2>1 DEF Draining, PoolOpen, Running
  <2>3. DrainsBeforeClosing'
    BY <1>1, <1>6, <2>1, <2>2 DEF Draining, DrainsBeforeClosing
  <2>4. Running' \subseteq Running
    BY <1>6, <2>1 DEF Running
  <2> QED BY <1>1, <1>3, <1>4, <1>5, <1>6, <2>1, <2>3, <2>4 DEF Draining
<1> QED BY <1>7, <1>8

\* Probes, outages and the clean-up loop touch neither requests nor deadlines.
LEMMA ProbeKeepsLifeInv ==
  ASSUME LifeInv, ProbeDB \/ ProbeRedis \/ Outage \/ LoopEnds \/ UNCHANGED lifeVars
  PROVE  LifeInv'
<1> USE DEF LifeInv, shutdown
<1>1. UNCHANGED <<raw, main, listener, request, dbOpen, clock, totalAt, stepAt, overtime>>
  BY DEF ProbeDB, ProbeRedis, Probing, Outage, LoopEnds, lifeVars
<1>2. Draining'
  BY <1>1 DEF Draining, DrainsBeforeClosing, Running
<1>3. Deadlines'
  BY <1>1 DEF Deadlines, WithinCeiling
<1>4. CASE UNCHANGED probe
  <2>1. LifeTypes'
    BY <1>1, <1>4 DEF LifeTypes
  <2>2. Configured'
    BY <1>1, <1>4 DEF Configured, cfg
  <2> QED BY <1>2, <1>3, <2>1, <2>2
<1>5. CASE ProbeDB
  <2>1. /\ listener = "listening" /\ probe'.pc \in {"answered", "redis"} /\ ~probe'.ready
        /\ probe' \in [pc : {"answered", "redis"}, db : BOOLEAN, redis : BOOLEAN, ready : BOOLEAN]
    <3>1. PICK db \in BOOLEAN : db <=> dbOpen /\ "db" \in up
      OBVIOUS
    <3>2. NoProbe \in [pc : {"none"}, db : BOOLEAN, redis : BOOLEAN, ready : BOOLEAN] /\ ~NoProbe.ready
      BY DEF NoProbe
    <3>3. \/ probe' = [NoProbe EXCEPT !.pc = "answered"]
          \/ probe' = [NoProbe EXCEPT !.pc = "redis", !.db = db]
      BY <1>5, <3>1 DEF ProbeDB, Probing
    <3>4. listener = "listening"
      BY <1>5 DEF ProbeDB
    <3> QED BY <3>2, <3>3, <3>4
  <2>2. LifeTypes'
    BY <1>1, <2>1 DEF LifeTypes
  <2>3. Configured'
    BY <1>1, <2>1 DEF Configured, cfg
  <2> QED BY <1>2, <1>3, <2>2, <2>3
<1>6. CASE ProbeRedis
  <2>1. PICK pings \in BOOLEAN, ready \in BOOLEAN :
          /\ probe' = [probe EXCEPT !.pc = "answered", !.redis = pings, !.ready = ready]
          /\ ready /\ ~pings => "redis" \notin provideReadinessProbeRunner(cfg)
    <3>1. PICK pings \in BOOLEAN : pings <=> "redis" \in up /\ main \notin {"close_db", "return"}
      OBVIOUS
    <3>2. PICK ready \in BOOLEAN :
            ready <=> probe.db /\ ("redis" \in provideReadinessProbeRunner(cfg) => pings)
      OBVIOUS
    <3>3. probe' = [probe EXCEPT !.pc = "answered", !.redis = pings, !.ready = ready]
      BY <1>6, <3>1, <3>2 DEF ProbeRedis, Probing
    <3> QED BY <3>2, <3>3
  <2>2. probe.pc = "redis"
    BY <1>6 DEF ProbeRedis
  <2>3. /\ probe' \in [pc : {"answered"}, db : BOOLEAN, redis : BOOLEAN, ready : BOOLEAN]
        /\ probe'.pc = "answered" /\ probe'.redis = pings /\ probe'.ready = ready
    BY <2>1 DEF LifeTypes
  <2>4. LifeTypes'
    BY <1>1, <2>3 DEF LifeTypes
  <2>5. Configured'
    BY <1>1, <2>1, <2>2, <2>3 DEF Configured, cfg
  <2> QED BY <1>2, <1>3, <2>4, <2>5
<1> QED BY <1>4, <1>5, <1>6 DEF Outage, LoopEnds, lifeVars

\* A signal closes the listener and sets the deadlines, the drain's within the total one.
LEMMA SignalKeepsLifeInv ==
  ASSUME LifeInv, Signal
  PROVE  LifeInv'
<1> USE DEF LifeInv, serving, Stopping
<1>1. /\ UNCHANGED <<raw, request, probe, dbOpen, clock, overtime>>
      /\ main = "serving" /\ main' = "draining"
      /\ listener' = IF listener = "listening" THEN "closed" ELSE listener
      /\ totalAt' = clock + cfg["ShutdownTimeout"]
      /\ stepAt' = Least2(totalAt', clock + cfg["ShutdownHTTPDrainTimeout"])
  BY DEF Signal
<1>2. cfg["ShutdownTimeout"] \in Int /\ cfg["ShutdownTimeout"] > 0
  BY <1>1, ShutdownTimeouts DEF LifeTypes, Configured
<1>3. cfg["ShutdownHTTPDrainTimeout"] \in Int
  BY <1>1, ShutdownTimeouts DEF LifeTypes, Configured
<1>4. totalAt' \in Int /\ stepAt' \in Int /\ stepAt' <= totalAt' /\ clock' <= totalAt'
  BY <1>1, <1>2, <1>3 DEF LifeTypes, Least2
<1>5. LifeTypes'
  BY <1>1, <1>4 DEF LifeTypes
<1>6. Configured'
  BY <1>1 DEF Configured, cfg
<1>7. Draining'
  BY <1>1 DEF Draining, DrainsBeforeClosing, PoolOpen
<1>8. Deadlines'
  BY <1>1, <1>4 DEF Deadlines, WithinCeiling
<1> QED BY <1>5, <1>6, <1>7, <1>8

\* The drain ends without a handler or at its deadline, and telemetry gets what is left.
LEMMA DrainKeepsLifeInv ==
  ASSUME LifeInv, Drained \/ DrainTimeout
  PROVE  LifeInv'
<1> USE DEF LifeInv, serving, Stopping
<1>1. /\ UNCHANGED <<raw, listener, request, probe, dbOpen, clock, totalAt>>
      /\ main = "draining" /\ main' = "flushing"
      /\ stepAt' = Least2(totalAt, clock + cfg["ShutdownObservabilityTimeout"])
      /\ Running # {} => overtime'
      /\ overtime => overtime'
  BY DEF Drained, DrainTimeout, FlushDeadline
<1>2. cfg["ShutdownObservabilityTimeout"] \in Int
  BY <1>1, ShutdownTimeouts DEF LifeTypes, Configured
<1>3. stepAt' \in Int /\ stepAt' <= totalAt'
  BY <1>1, <1>2 DEF LifeTypes, Least2
<1>4. LifeTypes'
  BY <1>1, <1>3 DEF LifeTypes
<1>5. Configured'
  BY <1>1 DEF Configured, cfg
<1>6. Draining'
  <2>1. Running' = Running
    BY <1>1 DEF Running
  <2>2. DrainsBeforeClosing'
    BY <1>1 DEF Draining, DrainsBeforeClosing
  <2> QED BY <1>1, <2>1, <2>2 DEF Draining, PoolOpen
<1>7. Deadlines'
  BY <1>1, <1>3 DEF Deadlines, WithinCeiling
<1> QED BY <1>4, <1>5, <1>6, <1>7

\* The remaining phases take no time; the clock stops at the deadline of the phase.
LEMMA CloseKeepsLifeInv ==
  ASSUME LifeInv, Flush \/ StopBackgroundTasks \/ CloseRedis \/ CloseDB \/ Tick
  PROVE  LifeInv'
<1> USE DEF LifeInv, serving, shutdown, Stopping
<1>1. /\ UNCHANGED <<raw, listener, request, probe, totalAt, stepAt, overtime>>
      /\ main' # "return" => UNCHANGED dbOpen
      /\ \/ /\ UNCHANGED clock
            /\ \/ main = "flushing" /\ main' \in {"flushing", "stop_tasks"}
               \/ main = "stop_tasks" /\ main' = "close_redis"
               \/ main = "close_redis" /\ main' = "close_db"
               \/ main = "close_db" /\ main' = "return"
         \/ /\ clock' = clock + 1 /\ UNCHANGED main
            /\ \/ main = "serving"
               \/ main \in {"draining", "flushing"} /\ clock < stepAt
               \/ main \in {"stop_tasks", "close_redis", "close_db"}
  BY DEF Flush, StopBackgroundTasks, CloseRedis, CloseDB, Tick
<1>2. LifeTypes'
  BY <1>1 DEF LifeTypes, Booting, Ended
<1>3. Configured'
  BY <1>1 DEF Configured, cfg
<1>4. Draining'
  <2>1. Running' = Running
    BY <1>1 DEF Running
  <2>2. DrainsBeforeClosing'
    BY <1>1 DEF Draining, DrainsBeforeClosing
  <2> QED BY <1>1, <2>1, <2>2 DEF Draining, PoolOpen
<1>5. Deadlines'
  BY <1>1 DEF Deadlines, WithinCeiling, LifeTypes
<1> QED BY <1>2, <1>3, <1>4, <1>5

\* Every step keeps the invariant.
LEMMA NextLifeInv == LifeInv /\ [LifeNext]_lifeVars => LifeInv'
<1> SUFFICES ASSUME LifeInv, [LifeNext]_lifeVars PROVE LifeInv'
  OBVIOUS
<1>1. CASE Load \/ InitRuntime \/ ProvideRuntimeDB \/ Wire \/ Go \/ Notify
  BY <1>1, BootKeepsLifeInv
<1>2. CASE Drained \/ DrainTimeout
  BY <1>2, DrainKeepsLifeInv
<1>3. CASE Flush \/ StopBackgroundTasks \/ CloseRedis \/ CloseDB \/ Tick
  BY <1>3, CloseKeepsLifeInv
<1>4. CASE Return \/ BootFails \/ KilledEarly \/ ListenFails
  BY <1>4, ExitKeepsLifeInv DEF Return, BootFails, KilledEarly, ListenFails, Ended
<1>5. CASE Listen
  BY <1>5, ListenKeepsLifeInv
<1>6. CASE Signal
  BY <1>6, SignalKeepsLifeInv
<1>7. ASSUME NEW r \in Requests, Accept(r) \/ Handle(r) PROVE LifeInv'
  BY <1>7, RequestKeepsLifeInv
<1>8. CASE ProbeDB \/ ProbeRedis \/ Outage \/ LoopEnds \/ UNCHANGED lifeVars
  BY <1>8, ProbeKeepsLifeInv
<1> QED BY <1>1, <1>2, <1>3, <1>4, <1>5, <1>6, <1>7, <1>8 DEF LifeNext, MainStep

\* The invariant holds throughout the life of a process.
THEOREM LifeInvHolds == LifeSpec => []LifeInv
  BY InitLifeInv, NextLifeInv, PTL DEF LifeSpec

\* Whatever its environment, a production-like process that got past Validate keeps the
\* limits of the authentication and administration routes in Redis, refuses when Redis does
\* not answer and verifies its certificate.
THEOREM ProductionFailsClosedHolds == LifeSpec => []ProductionFailsClosed
<1>1. LifeInv => ProductionFailsClosed
  <2> SUFFICES ASSUME LifeInv, main \notin {"load", "failed"}, isProdLike(cfg["Env"])
               PROVE  /\ LimiterBackend(cfg) = "redis"
                      /\ \A s \in GuardedScopes : FailureMode(cfg, s) = "fail_closed"
                      /\ cfg["RedisTLSEnabled"] /\ ~cfg["RedisTLSInsecureSkipVerify"]
    BY DEF ProductionFailsClosed
  <2>1. Validate(cfg)
    BY DEF LifeInv, Configured, Loads, cfg
  <2> QED BY <2>1, ProductionNeedsRedis, GuardedScopesFailClosed
<1> QED BY <1>1, LifeInvHolds, PTL

\* A probe that said "ready" without Redis comes from a process that needs none for its limits
\* and idempotency records, never from a production-like one, whatever fails in between.
THEOREM ReadinessSeesOutageHolds == LifeSpec => []ReadinessSeesOutage
<1>1. LifeInv => ReadinessSeesOutage
  <2> SUFFICES ASSUME LifeInv, probe.pc = "answered", probe.ready, ~probe.redis
               PROVE  /\ ~isProdLike(cfg["Env"])
                      /\ LimiterBackend(cfg) = "local" /\ provideIdempotencyStore(cfg) # "redis"
    BY DEF ReadinessSeesOutage
  <2>1. Validate(cfg) /\ "redis" \notin provideReadinessProbeRunner(cfg)
    BY DEF LifeInv, Configured, Loads, cfg
  <2>2. /\ ~cfg["RateLimitRedisEnabled"]
        /\ ~(cfg["IdempotencyEnabled"] /\ cfg["IdempotencyRedisEnabled"])
    BY <2>1 DEF provideReadinessProbeRunner
  <2>3. ~isProdLike(cfg["Env"])
    BY <2>1, <2>2, ProductionNeedsRedis
  <2>4. LimiterBackend(cfg) = "local"
    BY <2>2 DEF LimiterBackend
  <2>5. provideIdempotencyStore(cfg) # "redis"
    BY <2>2 DEF provideIdempotencyStore
  <2> QED BY <2>3, <2>4, <2>5
<1> QED BY <1>1, LifeInvHolds, PTL

\* For any number of requests: one that was accepted is cut off, or finds the database closed,
\* only if it outlived the HTTP drain or the process failed.
THEOREM DrainsBeforeClosingHolds == LifeSpec => []DrainsBeforeClosing
<1>1. LifeInv => DrainsBeforeClosing
  BY DEF LifeInv, Draining
<1> QED BY <1>1, LifeInvHolds, PTL

\* For every configuration Validate accepts, the phases of the shutdown end within
\* SHUTDOWN_TIMEOUT, also when the deadlines of the phases add up to more.
THEOREM WithinCeilingHolds == LifeSpec => []WithinCeiling
<1>1. LifeInv => WithinCeiling
  BY DEF LifeInv, Deadlines
<1> QED BY <1>1, LifeInvHolds, PTL

-----------------------------------------------------------------------------
(* Object storage.                                                         *)

\* The elements of a key.
KeySymbols == {"avatars/user-", "/"} \cup Digits \cup Names

\* The prefix of a user and the key of an object, position by position.
LEMMA KeyPositions ==
  ASSUME NEW u \in Users, NEW n \in Names
  PROVE  /\ u \in Seq(KeySymbols) /\ Len(u) \in Nat
         /\ Prefix(u) \in Seq(KeySymbols) /\ Len(Prefix(u)) = Len(u) + 2
         /\ \A i \in 1 .. Len(u) : Prefix(u)[i + 1] = u[i] /\ u[i] # "/"
         /\ Prefix(u)[Len(u) + 2] = "/"
         /\ ObjectKey(u, n) \in Seq(KeySymbols) /\ Len(ObjectKey(u, n)) = Len(u) + 3
         /\ \A i \in 1 .. Len(u) : ObjectKey(u, n)[i + 1] = u[i]
         /\ ObjectKey(u, n)[Len(u) + 2] = "/" /\ ObjectKey(u, n)[1] = "avatars/user-"
<1>1. u \in Seq(Digits) /\ u \in Seq(KeySymbols) /\ Len(u) \in Nat
  BY UsersAssumption DEF KeySymbols
<1>2. \A i \in 1 .. Len(u) : u[i] # "/"
  <2>1. \A i \in 1 .. Len(u) : u[i] \in Digits
    BY <1>1
  <2> QED BY <2>1 DEF Digits
<1>3. PICK h, t, m : h = <<"avatars/user-">> /\ t = <<"/">> /\ m = <<n>>
  OBVIOUS
<1>4. /\ h \in Seq(KeySymbols) /\ Len(h) = 1 /\ h[1] = "avatars/user-"
      /\ t \in Seq(KeySymbols) /\ Len(t) = 1 /\ t[1] = "/"
      /\ m \in Seq(KeySymbols) /\ Len(m) = 1
  BY <1>3 DEF KeySymbols
<1>5. PICK hu : hu = h \o u
  OBVIOUS
<1>6. /\ hu \in Seq(KeySymbols) /\ Len(hu) = Len(u) + 1
      /\ hu[1] = "avatars/user-" /\ \A i \in 1 .. Len(u) : hu[i + 1] = u[i]
  <2>1. hu \in Seq(KeySymbols) /\ Len(hu) = Len(h) + Len(u)
    BY <1>1, <1>4, <1>5, ConcatProperties
  <2>2. \A i \in 1 .. Len(h) + Len(u) : hu[i] = IF i <= Len(h) THEN h[i] ELSE u[i - Len(h)]
    BY <1>1, <1>4, <1>5, ConcatProperties
  <2> QED BY <1>1, <1>4, <2>1, <2>2
<1>7. PICK p : p = hu \o t
  OBVIOUS
<1>8. /\ p \in Seq(KeySymbols) /\ Len(p) = Len(u) + 2
      /\ p[1] = "avatars/user-" /\ p[Len(u) + 2] = "/"
      /\ \A i \in 1 .. Len(u) : p[i + 1] = u[i]
  <2>1. p \in Seq(KeySymbols) /\ Len(p) = Len(hu) + Len(t)
    BY <1>4, <1>6, <1>7, ConcatProperties
  <2>2. \A i \in 1 .. Len(hu) + Len(t) : p[i] = IF i <= Len(hu) THEN hu[i] ELSE t[i - Len(hu)]
    BY <1>4, <1>6, <1>7, ConcatProperties
  <2> QED BY <1>1, <1>4, <1>6, <2>1, <2>2
<1>9. Prefix(u) = p
  BY <1>3, <1>5, <1>7 DEF Prefix
<1>10. PICK k : k = p \o m
  OBVIOUS
<1>11. /\ k \in Seq(KeySymbols) /\ Len(k) = Len(u) + 3
       /\ k[1] = "avatars/user-" /\ k[Len(u) + 2] = "/"
       /\ \A i \in 1 .. Len(u) : k[i + 1] = u[i]
  <2>1. k \in Seq(KeySymbols) /\ Len(k) = Len(p) + Len(m)
    BY <1>4, <1>8, <1>10, ConcatProperties
  <2>2. \A i \in 1 .. Len(p) + Len(m) : k[i] = IF i <= Len(p) THEN p[i] ELSE m[i - Len(p)]
    BY <1>4, <1>8, <1>10, ConcatProperties
  <2> QED BY <1>1, <1>4, <1>8, <2>1, <2>2
<1>12. ObjectKey(u, n) = k
  BY <1>3, <1>9, <1>10 DEF ObjectKey
<1> QED BY <1>1, <1>2, <1>8, <1>9, <1>11, <1>12

\* The slash ends the id: the prefix of a user starts no key of another one, even if the
\* digits of one id begin with the other's.
LEMMA PrefixNamesTheOwner ==
  ASSUME NEW u \in Users, NEW v \in Users, NEW n \in Names, Owns(u, ObjectKey(v, n))
  PROVE  u = v
<1>1. PICK p, k, a, b : p = Prefix(u) /\ k = ObjectKey(v, n) /\ a = Len(u) /\ b = Len(v)
  OBVIOUS
<1>2. /\ a \in Nat /\ p \in Seq(KeySymbols) /\ Len(p) = a + 2
      /\ \A i \in 1 .. a : p[i + 1] = u[i] /\ u[i] # "/"
      /\ p[a + 2] = "/"
  BY <1>1, KeyPositions
<1>3. /\ b \in Nat /\ k \in Seq(KeySymbols) /\ Len(k) = b + 3
      /\ \A i \in 1 .. b : k[i + 1] = v[i] /\ v[i] # "/"
      /\ k[b + 2] = "/"
  BY <1>1, KeyPositions
<1>4. a + 2 <= b + 3 /\ SubSeq(p, 1, a + 2) = SubSeq(k, 1, a + 2)
  BY <1>1, <1>2, <1>3 DEF Owns, IsPrefix
<1>5. \A i \in 1 .. a + 2 : p[i] = k[i]
  <2>1. \A i \in 1 .. a + 2 : SubSeq(p, 1, a + 2)[i] = p[i] /\ SubSeq(k, 1, a + 2)[i] = k[i]
    BY <1>2, <1>3, <1>4
  <2> QED BY <1>4, <2>1
<1>6. a = b
  <2>1. ~(a < b)
    <3> SUFFICES ASSUME a < b PROVE FALSE
      OBVIOUS
    <3>1. a + 1 \in 1 .. b /\ a + 2 \in 1 .. a + 2
      BY <1>2, <1>3
    <3>2. k[(a + 1) + 1] # "/"
      BY <1>3, <3>1
    <3> QED BY <1>2, <1>5, <3>1, <3>2
  <2>2. ~(a > b)
    <3> SUFFICES ASSUME a > b PROVE FALSE
      OBVIOUS
    <3>1. b + 1 \in 1 .. a /\ b + 2 \in 1 .. a + 2
      BY <1>2, <1>3
    <3>2. p[(b + 1) + 1] # "/"
      BY <1>2, <3>1
    <3> QED BY <1>2, <1>3, <1>5, <3>1, <3>2
  <2> QED BY <1>2, <1>3, <2>1, <2>2
<1>7. \A i \in 1 .. a : u[i] = v[i]
  <2> SUFFICES ASSUME NEW i \in 1 .. a PROVE u[i] = v[i]
    OBVIOUS
  <2>1. i + 1 \in 1 .. a + 2
    BY <1>2
  <2> QED BY <1>2, <1>3, <1>5, <1>6, <2>1
<1>8. u \in Seq(Digits) /\ v \in Seq(Digits)
  BY UsersAssumption
<1> QED BY <1>1, <1>6, <1>7, <1>8, SeqEqual

AvatarKeys == {ObjectKey(u, n) : u \in Users, n \in Names}
CallType ==
  [pc   : {"idle", "init", "exists", "make", "use", "url", "ok", "failed"},
   on   : Instances \cup {"none"},
   kind : {"none", "upload", "delete"},
   user : Users \cup {<<>>},
   key  : AvatarKeys \cup Keys \cup {<<>>}]
Outcomes == {"new", "busy", "done", "failed"}

Initialising(c) == call[c].pc \in {"exists", "make"}

\* What a call holds: its instance, what it is for, and the rights to its key.
Named(q) ==
  /\ q.pc # "idle" => q.on \in Instances /\ q.kind # "none"
  /\ q.kind = "upload" => q.key \in AvatarKeys
  /\ q.kind = "delete" => q.user \in Users /\ Owns(q.user, q.key)

\* The initOnce of an instance is busy exactly while one of its calls initialises; a call
\* goes past it only if the outcome was good.
OnceOK ==
  /\ once \in [Instances -> Outcomes]
  /\ \A i \in Instances : once[i] = "done" => bucket
  /\ \A i \in Instances : once[i] = "busy" => \E c \in Calls : call[c].on = i /\ Initialising(c)
  /\ \A c \in Calls : Initialising(c) => once[call[c].on] = "busy"
  /\ \A c, d \in Calls : Initialising(c) /\ Initialising(d) /\ call[c].on = call[d].on => c = d
  /\ \A c \in Calls : call[c].pc \in {"use", "url"} => once[call[c].on] = "done"

StorageInv ==
  /\ call \in [Calls -> CallType]
  /\ objects \subseteq AvatarKeys
  /\ objects # {} => bucket
  /\ \A c \in Calls : Named(call[c])
  /\ OnceOK

\* The processes start without calls, and with an empty bucket or none.
LEMMA InitStorageInv == StorageInit => StorageInv
<1> SUFFICES ASSUME StorageInit PROVE StorageInv
  OBVIOUS
<1>1. IdleCall \in CallType /\ IdleCall.pc = "idle" /\ IdleCall.kind = "none"
  BY DEF IdleCall, CallType
<1>2. call \in [Calls -> CallType] /\ \A c \in Calls : call[c] = IdleCall
  BY <1>1 DEF StorageInit
<1>3. OnceOK
  BY <1>1, <1>2 DEF StorageInit, OnceOK, Outcomes, Initialising
<1> QED BY <1>1, <1>2, <1>3 DEF StorageInit, StorageInv, Named

\* A step that leaves initOnce alone and keeps whoever initialises.
LEMMA CallKeepsStorageInv ==
  ASSUME StorageInv, NEW c \in Calls, NEW q \in CallType, Proceed(c, q), UNCHANGED <<bucket, once>>,
         objects' \subseteq AvatarKeys, objects' # {} => bucket, Named(q),
         q.pc \in {"exists", "make"} <=> Initialising(c),
         Initialising(c) => q.on = call[c].on,
         q.pc \in {"use", "url"} => once[q.on] = "done"
  PROVE  StorageInv'
<1>1. call' = [call EXCEPT ![c] = q] /\ call \in [Calls -> CallType]
  BY DEF Proceed, StorageInv
<1>2. call'[c] = q /\ \A d \in Calls : d # c => call'[d] = call[d]
  BY <1>1
<1>3. call' \in [Calls -> CallType]
  BY <1>1
<1>4. \A d \in Calls : /\ Initialising(d)' <=> Initialising(d)
                       /\ Initialising(d) => call'[d].on = call[d].on
  BY <1>2 DEF Initialising
<1>5. OnceOK'
  <2>1. \A d \in Calls : call'[d].pc \in {"use", "url"} => once[call'[d].on] = "done"
    BY <1>2 DEF StorageInv, OnceOK
  <2>2. \A i \in Instances : once[i] = "busy" =>
          \E d \in Calls : call'[d].on = i /\ Initialising(d)'
    <3> SUFFICES ASSUME NEW i \in Instances, once[i] = "busy"
                 PROVE  \E d \in Calls : call'[d].on = i /\ Initialising(d)'
      OBVIOUS
    <3>1. PICK d \in Calls : call[d].on = i /\ Initialising(d)
      BY DEF StorageInv, OnceOK
    <3> QED BY <1>4, <3>1
  <2>3. \A d \in Calls : Initialising(d)' => once[call'[d].on] = "busy"
    BY <1>4 DEF StorageInv, OnceOK
  <2>4. \A d, e \in Calls : Initialising(d)' /\ Initialising(e)' /\ call'[d].on = call'[e].on => d = e
    BY <1>4 DEF StorageInv, OnceOK
  <2> QED BY <2>1, <2>2, <2>3, <2>4 DEF StorageInv, OnceOK
<1>6. \A d \in Calls : Named(call'[d])
  BY <1>2 DEF StorageInv
<1> QED BY <1>3, <1>5, <1>6 DEF StorageInv, Named

\* A step that begins the initialisation of an instance or ends it.
LEMMA OutcomeKeepsStorageInv ==
  ASSUME StorageInv, NEW c \in Calls, NEW q \in CallType, Proceed(c, q),
         bucket => bucket', objects' = objects, Named(q), q.on = call[c].on, q.pc # "idle",
         NEW o \in Outcomes \ {"new"}, once' = [once EXCEPT ![q.on] = o], o = "done" => bucket',
         \/ o = "busy" /\ once[q.on] = "new" /\ q.pc \in {"exists", "make"}
         \/ o # "busy" /\ Initialising(c) /\ q.pc \notin {"exists", "make"},
         q.pc \in {"use", "url"} => o = "done"
  PROVE  StorageInv'
<1>1. call' = [call EXCEPT ![c] = q] /\ call \in [Calls -> CallType] /\ OnceOK
  BY DEF Proceed, StorageInv
<1>2. call'[c] = q /\ \A d \in Calls : d # c => call'[d] = call[d]
  BY <1>1
<1>3. call' \in [Calls -> CallType]
  BY <1>1
<1>4. q.on \in Instances
  BY DEF Named
<1>5. /\ once' \in [Instances -> Outcomes] /\ once'[q.on] = o
      /\ \A i \in Instances : i # q.on => once'[i] = once[i]
  BY <1>1, <1>4 DEF OnceOK
<1>6. ASSUME NEW d \in Calls, d # c, call[d].on = q.on
      PROVE  ~Initialising(d) /\ call[d].pc \notin {"use", "url"}
  BY <1>1, <1>6 DEF OnceOK
<1>7. \A d \in Calls : d # c => (Initialising(d)' <=> Initialising(d))
  BY <1>2 DEF Initialising
<1>8. Initialising(c)' <=> o = "busy"
  BY <1>2 DEF Initialising
<1>9. \A d \in Calls : call[d].pc # "idle" => call[d].on \in Instances
  BY DEF StorageInv, Named
<1>10. \A d \in Calls : Initialising(d) => call[d].on \in Instances
  BY <1>9 DEF Initialising
<1>11. OnceOK'
  <2>1. \A i \in Instances : once'[i] = "done" => bucket'
    BY <1>1, <1>5 DEF OnceOK
  <2>2. \A i \in Instances : once'[i] = "busy" =>
          \E d \in Calls : call'[d].on = i /\ Initialising(d)'
    <3> SUFFICES ASSUME NEW i \in Instances, once'[i] = "busy"
                 PROVE  \E d \in Calls : call'[d].on = i /\ Initialising(d)'
      OBVIOUS
    <3>1. CASE i = q.on
      BY <1>2, <1>5, <1>8, <3>1
    <3>2. CASE i # q.on
      <4>1. PICK d \in Calls : call[d].on = i /\ Initialising(d)
        BY <1>1, <1>5, <3>2 DEF OnceOK
      <4> QED BY <1>2, <1>7, <3>2, <4>1
    <3> QED BY <3>1, <3>2
  <2>3. ASSUME NEW d \in Calls, Initialising(d)' PROVE once'[call'[d].on] = "busy"
    <3>1. CASE d = c
      BY <1>2, <1>5, <1>8, <2>3, <3>1
    <3>2. CASE d # c
      BY <1>1, <1>2, <1>5, <1>6, <1>7, <1>10, <2>3, <3>2 DEF OnceOK
    <3> QED BY <3>1, <3>2
  <2>4. ASSUME NEW d \in Calls, NEW e \in Calls, Initialising(d)', Initialising(e)',
               call'[d].on = call'[e].on
        PROVE  d = e
    BY <1>1, <1>2, <1>6, <1>7, <2>4 DEF OnceOK
  <2>5. ASSUME NEW d \in Calls, call'[d].pc \in {"use", "url"} PROVE once'[call'[d].on] = "done"
    <3>1. CASE d = c
      BY <1>2, <1>5, <2>5, <3>1
    <3>2. CASE d # c
      BY <1>1, <1>2, <1>5, <1>6, <1>9, <2>5, <3>2 DEF OnceOK
    <3> QED BY <3>1, <3>2
  <2> QED BY <1>5, <2>1, <2>2, <2>3, <2>4, <2>5 DEF OnceOK
<1>12. \A d \in Calls : Named(call'[d])
  BY <1>2 DEF StorageInv
<1> QED BY <1>3, <1>11, <1>12 DEF StorageInv, Named

\* A process that starts again has no calls; those of the others go on.
LEMMA RestartKeepsStorageInv ==
  ASSUME StorageInv, NEW i \in Instances, Restart(i)
  PROVE  StorageInv'
<1>1. IdleCall \in CallType /\ IdleCall.pc = "idle" /\ IdleCall.kind = "none"
  BY DEF IdleCall, CallType
<1>2. \A c \in Calls : call'[c] = IF call[c].on = i THEN IdleCall ELSE call[c]
  BY DEF Restart
<1>3. call' \in [Calls -> CallType]
  BY <1>1 DEF Restart, StorageInv
<1>4. /\ once' \in [Instances -> Outcomes] /\ once'[i] = "new"
      /\ \A j \in Instances : j # i => once'[j] = once[j]
  BY DEF Restart, StorageInv, OnceOK, Outcomes
<1>5. \A c \in Calls : Initialising(c)' <=> Initialising(c) /\ call[c].on # i
  BY <1>1, <1>2 DEF Initialising
<1>6. \A c \in Calls : call[c].pc # "idle" => call[c].on \in Instances
  BY DEF StorageInv, Named
<1>7. OnceOK'
  <2>1. ASSUME NEW j \in Instances, once'[j] = "busy"
        PROVE  \E d \in Calls : call'[d].on = j /\ Initialising(d)'
    <3>1. j # i /\ once[j] = "busy"
      BY <1>4, <2>1
    <3>2. PICK d \in Calls : call[d].on = j /\ Initialising(d)
      BY <3>1 DEF StorageInv, OnceOK
    <3> QED BY <1>2, <1>5, <3>1, <3>2
  <2>2. ASSUME NEW c \in Calls, Initialising(c)' PROVE once'[call'[c].on] = "busy"
    <3>1. Initialising(c) /\ call[c].on # i /\ call'[c] = call[c] /\ call[c].on \in Instances
      BY <1>2, <1>5, <1>6, <2>2 DEF Initialising
    <3> QED BY <1>4, <3>1 DEF StorageInv, OnceOK
  <2>3. ASSUME NEW c \in Calls, NEW d \in Calls, Initialising(c)', Initialising(d)',
               call'[c].on = call'[d].on
        PROVE  c = d
    BY <1>2, <1>5, <2>3 DEF StorageInv, OnceOK
  <2>4. ASSUME NEW c \in Calls, call'[c].pc \in {"use", "url"} PROVE once'[call'[c].on] = "done"
    <3>1. call[c].on # i /\ call'[c] = call[c]
      BY <1>1, <1>2, <2>4
    <3>2. call[c].on \in Instances
      BY <1>6, <2>4, <3>1
    <3> QED BY <1>4, <2>4, <3>1, <3>2 DEF StorageInv, OnceOK
  <2>5. \A j \in Instances : once'[j] = "done" => bucket'
    BY <1>4 DEF StorageInv, OnceOK, Restart
  <2> QED BY <1>4, <2>1, <2>2, <2>3, <2>4, <2>5 DEF OnceOK
<1>8. \A c \in Calls : Named(call'[c])
  BY <1>1, <1>2 DEF StorageInv, Named
<1> QED BY <1>3, <1>7, <1>8 DEF StorageInv, Named, Restart

\* A call that only moves on.
LEMMA CallMoves ==
  ASSUME StorageInv, NEW c \in Calls, call[c].pc # "idle",
         NEW label \in {"exists", "make", "use", "url", "ok", "failed"}
  PROVE  \E q \in CallType :
           /\ q = [call[c] EXCEPT !.pc = label]
           /\ q.pc = label /\ q.on = call[c].on /\ q.on \in Instances /\ q.kind = call[c].kind
           /\ q.key = call[c].key /\ q.user = call[c].user /\ Named(q)
<1>1. call[c] \in CallType /\ Named(call[c])
  BY DEF StorageInv
<1>2. PICK q : q = [call[c] EXCEPT !.pc = label]
  OBVIOUS
<1>3. /\ q \in CallType /\ q.pc = label /\ q.kind = call[c].kind /\ q.on = call[c].on
      /\ q.user = call[c].user /\ q.key = call[c].key
  BY <1>1, <1>2 DEF CallType
<1> QED BY <1>1, <1>2, <1>3 DEF Named

\* Every step keeps the invariant.
LEMMA NextStorageInv == StorageInv /\ [StorageNext]_storeVars => StorageInv'
<1> SUFFICES ASSUME StorageInv, [StorageNext]_storeVars PROVE StorageInv'
  OBVIOUS
<1>1. CASE UNCHANGED storeVars
  BY <1>1 DEF storeVars, StorageInv, OnceOK, Initialising, Named
<1>2. ASSUME NEW c \in Calls, StorageStep(c) PROVE StorageInv'
  <2>1. /\ objects \subseteq AvatarKeys /\ (objects # {} => bucket) /\ Named(call[c]) /\ OnceOK
        /\ call[c] \in CallType /\ call \in [Calls -> CallType]
    BY DEF StorageInv
  <2>2. ASSUME NEW i \in Instances, NEW u \in Users, NEW n \in Names, Upload(c, i, u, n)
        PROVE  StorageInv'
    <3>1. PICK q : q = [pc |-> "init", on |-> i, kind |-> "upload", user |-> u, key |-> ObjectKey(u, n)]
      OBVIOUS
    <3>2. /\ q \in CallType /\ q.key \in AvatarKeys /\ q.pc = "init" /\ q.kind = "upload"
          /\ q.on = i
      BY <3>1 DEF CallType, AvatarKeys
    <3>3. /\ Proceed(c, q) /\ UNCHANGED <<bucket, objects, once>> /\ ~Initialising(c)
      BY <2>2, <3>1 DEF Upload, Initialising
    <3>4. Named(q)
      BY <3>2 DEF Named
    <3> QED BY <2>1, <3>2, <3>3, <3>4, CallKeepsStorageInv
  <2>3. ASSUME NEW i \in Instances, NEW u \in Users, NEW k \in Keys, Delete(c, i, u, k)
        PROVE  StorageInv'
    <3>1. PICK q : q = [pc |-> "init", on |-> i, kind |-> "delete", user |-> u, key |-> k]
      OBVIOUS
    <3>2. /\ q \in CallType /\ q.user = u /\ q.key = k /\ q.pc = "init" /\ q.kind = "delete"
          /\ q.on = i
      BY <3>1 DEF CallType
    <3>3. /\ Proceed(c, q) /\ UNCHANGED <<bucket, objects, once>> /\ ~Initialising(c)
          /\ Owns(u, k)
      BY <2>3, <3>1 DEF Delete, Initialising
    <3>4. Named(q)
      BY <3>2, <3>3 DEF Named
    <3> QED BY <2>1, <3>2, <3>3, <3>4, CallKeepsStorageInv
  <2>4. CASE Enter(c)
    <3>1. PICK q \in CallType :
            /\ q = [call[c] EXCEPT !.pc = "exists"]
            /\ q.pc = "exists" /\ q.on = call[c].on /\ q.on \in Instances /\ Named(q)
      BY <2>4, CallMoves DEF Enter
    <3>2. /\ Proceed(c, q) /\ UNCHANGED <<bucket, objects>> /\ once[q.on] = "new"
          /\ once' = [once EXCEPT ![q.on] = "busy"]
      BY <2>4, <3>1 DEF Enter, Advance, Outcome
    <3> QED BY <3>1, <3>2, OutcomeKeepsStorageInv DEF Outcomes
  <2>5. CASE BucketExists(c) /\ ~bucket
    <3>1. PICK q \in CallType :
            /\ q = [call[c] EXCEPT !.pc = "make"]
            /\ q.pc = "make" /\ q.on = call[c].on /\ q.on \in Instances /\ Named(q)
      BY <2>5, CallMoves DEF BucketExists
    <3>2. Proceed(c, q) /\ UNCHANGED <<bucket, objects, once>> /\ Initialising(c)
      BY <2>5, <3>1 DEF BucketExists, Advance, Initialising
    <3> QED BY <2>1, <3>1, <3>2, CallKeepsStorageInv
  <2>6. CASE (BucketExists(c) /\ bucket) \/ MakeBucket(c)
    <3>1. PICK q \in CallType :
            /\ q = [call[c] EXCEPT !.pc = "use"]
            /\ q.pc = "use" /\ q.on = call[c].on /\ q.on \in Instances /\ Named(q)
      BY <2>6, CallMoves DEF BucketExists, MakeBucket
    <3>2. /\ Proceed(c, q) /\ UNCHANGED objects /\ bucket' /\ Initialising(c)
          /\ once' = [once EXCEPT ![q.on] = "done"]
      BY <2>6, <3>1 DEF BucketExists, MakeBucket, Advance, Outcome, Initialising
    <3> QED BY <3>1, <3>2, OutcomeKeepsStorageInv DEF Outcomes
  <2>7. CASE EnsureFails(c)
    <3>1. PICK q \in CallType :
            /\ q = [call[c] EXCEPT !.pc = "failed"]
            /\ q.pc = "failed" /\ q.on = call[c].on /\ q.on \in Instances /\ Named(q)
      BY <2>7, CallMoves DEF EnsureFails
    <3>2. /\ Proceed(c, q) /\ UNCHANGED objects /\ (bucket => bucket') /\ Initialising(c)
          /\ once' = [once EXCEPT ![q.on] = "failed"]
      BY <2>7, <3>1 DEF EnsureFails, Advance, Outcome, Initialising
    <3> QED BY <3>1, <3>2, OutcomeKeepsStorageInv DEF Outcomes
  <2>8. CASE Shared(c)
    <3>1. PICK label : label = IF once[call[c].on] = "done" THEN "use" ELSE "failed"
      OBVIOUS
    <3>2. PICK q \in CallType :
            /\ q = [call[c] EXCEPT !.pc = label]
            /\ q.pc = label /\ q.on = call[c].on /\ q.on \in Instances /\ Named(q)
      BY <2>8, <3>1, CallMoves DEF Shared
    <3>3. Proceed(c, q) /\ UNCHANGED <<bucket, objects, once>> /\ ~Initialising(c)
      BY <2>8, <3>1, <3>2 DEF Shared, Advance, Initialising
    <3>4. label \in {"use", "failed"} /\ (label = "use" => once[q.on] = "done")
      BY <3>1, <3>2
    <3> QED BY <2>1, <3>2, <3>3, <3>4, CallKeepsStorageInv
  <2>9. CASE PutObject(c) \/ RemoveObject(c) \/ PresignedGetObject(c) \/ UseFails(c)
    <3>1. /\ call[c].pc \in {"use", "url"} /\ UNCHANGED <<bucket, once>>
          /\ \E l \in {"url", "ok", "failed"} : Advance(c, l)
          /\ objects' \in {objects, objects \cup {call[c].key}, objects \ {call[c].key}}
          /\ objects' \subseteq objects \/ call[c].kind = "upload"
      BY <2>9 DEF PutObject, RemoveObject, PresignedGetObject, UseFails, Served
    <3>2. PICK label \in {"url", "ok", "failed"} : Advance(c, label)
      BY <3>1
    <3>3. PICK q \in CallType :
            /\ q = [call[c] EXCEPT !.pc = label]
            /\ q.pc = label /\ q.on = call[c].on /\ q.on \in Instances /\ Named(q)
      BY <3>1, CallMoves
    <3>4. once[q.on] = "done" /\ bucket
      BY <2>1, <3>1, <3>3 DEF OnceOK
    <3>5. objects' \subseteq AvatarKeys
      BY <2>1, <3>1 DEF Named
    <3>6. Proceed(c, q) /\ ~Initialising(c)
      BY <3>1, <3>2, <3>3 DEF Advance, Initialising
    <3> QED BY <3>1, <3>3, <3>4, <3>5, <3>6, CallKeepsStorageInv
  <2>10. CASE Answered(c)
    <3>1. Proceed(c, IdleCall) /\ UNCHANGED <<bucket, objects, once>> /\ ~Initialising(c)
      BY <2>10 DEF Answered, Initialising
    <3>2. IdleCall \in CallType /\ IdleCall.pc = "idle" /\ Named(IdleCall)
      BY DEF IdleCall, CallType, Named
    <3> QED BY <2>1, <3>1, <3>2, CallKeepsStorageInv
  <2> QED BY <1>2, <2>2, <2>3, <2>4, <2>5, <2>6, <2>7, <2>8, <2>9, <2>10 DEF StorageStep
<1> QED BY <1>1, <1>2, RestartKeepsStorageInv DEF StorageNext

\* For any number of instances, calls and restarts: requests for objects go to a bucket that
\* exists, from instances whose initialisation has succeeded, and whoever waits for it waits
\* for exactly one call that still runs.
THEOREM BucketBeforeObjectsHolds == StorageSpec => []BucketBeforeObjects
<1>1. StorageInv => BucketBeforeObjects
  <2> SUFFICES ASSUME StorageInv PROVE BucketBeforeObjects
    OBVIOUS
  <2>1. \A c \in Calls : call[c].pc # "idle" => call[c].on \in Instances
    BY DEF StorageInv, Named
  <2>2. ASSUME NEW c \in Calls, call[c].pc \in {"use", "url"}
        PROVE  bucket /\ once[call[c].on] = "done"
    BY <2>1, <2>2 DEF StorageInv, OnceOK
  <2>3. ASSUME NEW c \in Calls, call[c].pc = "init", once[call[c].on] = "busy"
        PROVE  \E d \in Calls :
                 /\ call[d].on = call[c].on /\ call[d].pc \in {"exists", "make"}
                 /\ \A e \in Calls \ {d} :
                      call[e].on = call[c].on => call[e].pc \notin {"exists", "make"}
    <3>1. PICK d \in Calls : call[d].on = call[c].on /\ Initialising(d)
      BY <2>1, <2>3 DEF StorageInv, OnceOK
    <3>2. \A e \in Calls \ {d} : call[e].on = call[c].on => ~Initialising(e)
      BY <3>1 DEF StorageInv, OnceOK
    <3> QED BY <3>1, <3>2 DEF Initialising
  <2> QED BY <2>2, <2>3 DEF BucketBeforeObjects, StorageInv
<1> QED BY <1>1, InitStorageInv, NextStorageInv, PTL DEF StorageSpec

\* For any ids of users and any keys clients name: an object disappears only through a
\* request of the user it belongs to.
THEOREM OnlyOwnersDeleteHolds == StorageSpec => OnlyOwnersDelete
<1> DEFINE Owned == \A k \in objects \ objects' : \E c \in Calls :
                      /\ call[c].pc = "use" /\ call[c].kind = "delete" /\ call[c].key = k
                      /\ \E n \in Names : k = ObjectKey(call[c].user, n)
<1>1. ASSUME StorageInv, [StorageNext]_storeVars PROVE [Owned]_storeVars
  <2> SUFFICES ASSUME NEW k \in objects \ objects'
               PROVE  \E c \in Calls :
                        /\ call[c].pc = "use" /\ call[c].kind = "delete" /\ call[c].key = k
                        /\ \E n \in Names : k = ObjectKey(call[c].user, n)
    OBVIOUS
  <2>1. PICK c \in Calls : RemoveObject(c) \/ PutObject(c) \/ UseFails(c)
    BY <1>1 DEF StorageNext, StorageStep, storeVars, Upload, Delete, Enter, BucketExists, MakeBucket,
                EnsureFails, Shared, PresignedGetObject, Answered, Restart
  <2>2. call[c].pc = "use" /\ call[c].kind = "delete" /\ call[c].key = k
    <3>1. call[c].pc = "use" /\ objects' = Served(c)
      BY <2>1 DEF RemoveObject, PutObject, UseFails
    <3>2. call[c].kind \in {"upload", "delete"}
      BY <1>1, <3>1 DEF StorageInv, CallType, Named
    <3> QED BY <3>1, <3>2 DEF Served
  <2>3. call[c].user \in Users /\ Owns(call[c].user, k)
    BY <1>1, <2>2 DEF StorageInv, Named
  <2>4. PICK v \in Users, n \in Names : k = ObjectKey(v, n)
    BY <1>1 DEF StorageInv, AvatarKeys
  <2>5. call[c].user = v
    BY <2>3, <2>4, PrefixNamesTheOwner
  <2> QED BY <2>2, <2>4, <2>5
<1> QED BY <1>1, InitStorageInv, NextStorageInv, PTL DEF StorageSpec, OnlyOwnersDelete

-----------------------------------------------------------------------------
(* The token bucket of the rate limiter.                                   *)

Brim == policy.capacity * Unit

LimiterTypes ==
  /\ now \in Nat /\ lag \in Nat /\ backend \in {"local", "redis"}
  /\ policy.capacity \in Nat \ {0} /\ policy.refill \in Nat \ {0} /\ policy.window \in Nat
  /\ tokenBucket \in [LimiterKeys -> [tokens : Int, last : Int] \cup {Absent}]
  /\ touched \in [LimiterKeys -> Int]
  /\ meter \in [LimiterKeys -> Int]
  /\ lapsed \in [LimiterKeys -> BOOLEAN]

\* A stored bucket holds neither less than nothing nor more than its capacity, and was
\* refilled at a stamp that is not in the future; in Redis, not after the script last ran.
BucketOK(k) ==
  tokenBucket[k] # Absent =>
    /\ 0 <= tokenBucket[k].tokens /\ tokenBucket[k].tokens <= Brim
    /\ tokenBucket[k].last <= now
    /\ backend = "redis" => tokenBucket[k].last <= touched[k]

\* The ideal bucket holds at least what the stored one would if the clock were one lag
\* behind; it is full when there is none.
MeterOK(k) ==
  \/ lapsed[k]
  \/ tokenBucket[k] = Absent /\ meter[k] >= Brim
  \/ /\ tokenBucket[k] # Absent
     /\ meter[k] >= Least(Brim, tokenBucket[k].tokens
                                  + (now - lag - tokenBucket[k].last) * policy.refill)

LimiterInv == LimiterTypes /\ \A k \in LimiterKeys : BucketOK(k) /\ MeterOK(k)

\* Division rounded up.
LEMMA CeilDivBounds ==
  ASSUME NEW a \in Nat, NEW b \in Nat \ {0}
  PROVE  /\ CeilDiv(a, b) \in Int
         /\ CeilDiv(a, b) * b >= a
         /\ a > 0 => CeilDiv(a, b) >= 1
<1> DEFINE q == (a + b - 1) \div b
<1>1. q \in Int /\ b * q <= a + b - 1 /\ a + b - 1 < b * q + b
  OBVIOUS
<1> QED BY <1>1 DEF CeilDiv

\* The policies the configuration can produce.
LEMMA PolicyTypes ==
  ASSUME NEW s \in Rates, NEW p, p = normalizePolicy(toRateLimitPolicy(s))
  PROVE  /\ p.capacity \in Nat \ {0} /\ p.refill \in Nat \ {0} /\ p.window \in Nat
         /\ p.limit \in Nat \ {0}
<1> DEFINE set == toRateLimitPolicy(s)
<1>1. s.perMinute \in Nat \ {0} /\ s.window \in Nat /\ s.multiplier \in Nat
  BY RatesAssumption
<1>2. MinuteTicks \in Nat \ {0}
  BY ClockAssumption DEF MinuteTicks
<1>3. set.window \in Nat \ {0} /\ set.refill = s.perMinute
  BY <1>1, <1>2 DEF toRateLimitPolicy
<1>4. set.limit \in Nat \ {0}
  BY <1>1, <1>2 DEF toRateLimitPolicy, Greatest, RoundDiv
<1>5. set.capacity \in Int
  BY <1>1, <1>4 DEF toRateLimitPolicy, Greatest, CeilDiv
<1> HIDE DEF set
<1> QED BY <1>1, <1>3, <1>4, <1>5 DEF normalizePolicy, Greatest, set

\* A process starts with no buckets.
LEMMA InitLimiterInv == LimiterInit => LimiterInv
<1> SUFFICES ASSUME LimiterInit PROVE LimiterInv
  OBVIOUS
<1>1. policy.capacity \in Nat \ {0} /\ policy.refill \in Nat \ {0} /\ policy.window \in Nat
  BY PolicyTypes DEF LimiterInit
<1>2. Brim \in Int
  BY <1>1, ClockAssumption DEF Brim, Unit
<1>3. lag \in Nat
  BY LimiterBoundsAssumption DEF LimiterInit
<1>4. LimiterTypes
  BY <1>1, <1>2, <1>3 DEF LimiterInit, LimiterTypes, Brim
<1> QED BY <1>2, <1>4 DEF LimiterInv, LimiterInit, BucketOK, MeterOK, Brim

\* Ticks: a refill, and what a full idle bucket amounts to.
LEMMA LaterStillBounded ==
  ASSUME NEW C \in Int, NEW R \in Nat, NEW L \in Nat, NEW n \in Int, NEW m \in Int,
         NEW x \in Int, NEW u \in Int, 0 <= x, x <= C,
         m >= Least(C, x + (n - L - u) * R)
  PROVE  /\ Least(C, m + R) >= Least(C, x + (n + 1 - L - u) * R)
         /\ (n + 1 - u) * R >= C => Least(C, Least(C, m + R * L) + R) >= C
<1>1. (n + 1 - L - u) * R = (n - L - u) * R + R
  OBVIOUS
<1>2. (n + 1 - u) * R = (n - L - u) * R + R * L + R
  OBVIOUS
<1>3. (n - L - u) * R \in Int /\ R * L \in Nat
  OBVIOUS
<1> HIDE <1>1
<1> QED BY <1>1, <1>2, <1>3 DEF Least

\* A refill at stamp t, at most one lag behind the clock n.
LEMMA RefillStillBounded ==
  ASSUME NEW C \in Int, NEW R \in Nat, NEW L \in Nat, NEW n \in Int, NEW m \in Int,
         NEW x \in Int, NEW u \in Int, NEW t \in Int,
         t >= n - L, m >= Least(C, x + (n - L - u) * R)
  PROVE  m >= Least(C, x + (t - u) * R) + (n - L - t) * R
<1>1. (n - L - u) * R = (t - u) * R + (n - L - t) * R
  OBVIOUS
<1>2. (n - L - t) * R <= 0
  <2>1. n - L - t <= 0
    OBVIOUS
  <2> QED BY <2>1
<1>3. (n - L - u) * R \in Int /\ (t - u) * R \in Int /\ (n - L - t) * R \in Int
  OBVIOUS
<1> QED BY <1>1, <1>2, <1>3 DEF Least

\* A bucket that is full at a stamp t that is not in the future.
LEMMA FullAtStamp ==
  ASSUME NEW C \in Int, NEW R \in Nat, NEW L \in Nat, NEW n \in Int, NEW m \in Int,
         NEW x \in Int, NEW u \in Int, NEW t \in Int,
         t <= n, m >= Least(C, x + (n - L - u) * R), x + (t - u) * R >= C
  PROVE  Least(C, m + R * L) >= C
<1>1. (n - L - u) * R + R * L = (t - u) * R + (n - t) * R
  OBVIOUS
<1>2. (n - t) * R >= 0 /\ R * L >= 0
  <2>1. n - t >= 0
    OBVIOUS
  <2> QED BY <2>1
<1>3. /\ (n - L - u) * R \in Int /\ (t - u) * R \in Int /\ (n - t) * R \in Int
      /\ R * L \in Int
  OBVIOUS
<1> QED BY <1>1, <1>2, <1>3 DEF Least

\* A decision takes one token from a bucket that has one, or none.
LEMMA DecisionTakes ==
  ASSUME LimiterTypes, NEW x \in Int, x >= 0, NEW stamps, NEW oldest, NEW t,
         NEW d, d = Decision(x, stamps, oldest, t)
  PROVE  /\ d.allowed \in BOOLEAN /\ Unit \in Nat
         /\ d.tokens = x - (IF d.allowed THEN Unit ELSE 0)
         /\ d.tokens \in Int /\ d.tokens >= 0 /\ d.tokens <= x
<1>1. Unit \in Nat
  BY ClockAssumption DEF Unit
<1>2. x < Unit => CeilDiv(Unit - x, policy.refill) >= 1 /\ CeilDiv(Unit - x, policy.refill) \in Int
  BY <1>1, CeilDivBounds DEF LimiterTypes
<1> DEFINE bucketRetry == IF x >= Unit THEN 0 ELSE CeilDiv(Unit - x, policy.refill)
           windowRetry == IF Len(stamps) < policy.limit THEN 0
                          ELSE Greatest(oldest + policy.window - t, 0)
<1>0. d.allowed = (bucketRetry <= 0 /\ windowRetry <= 0)
  BY DEF Decision
<1>3. d.allowed => x >= Unit
  <2> SUFFICES ASSUME d.allowed, x < Unit PROVE FALSE
    BY <1>1
  <2>1. bucketRetry <= 0
    <3> HIDE DEF bucketRetry, windowRetry
    <3> QED BY <1>0, Zenon
  <2>2. bucketRetry = CeilDiv(Unit - x, policy.refill)
    BY <1>1
  <2> QED BY <1>2, <2>1, <2>2
<1>4. d.allowed \in BOOLEAN /\ d.tokens = IF d.allowed THEN x - Unit ELSE x
  BY DEF Decision
<1> QED BY <1>1, <1>3, <1>4

\* The stamp of a request is at most one lag behind the clock.
LEMMA StampRange ==
  ASSUME LimiterTypes, NEW t \in Stamps
  PROVE  t \in Nat /\ t <= now /\ t >= now - lag
BY DEF LimiterTypes, Stamps, Greatest

\* A capacity in units of tokens.
LEMMA BrimType == LimiterTypes => Brim \in Nat /\ Unit \in Nat
BY ClockAssumption DEF LimiterTypes, Brim, Unit

\* A stored bucket is a record of integers.
LEMMA BucketTypes ==
  ASSUME LimiterInv, NEW k \in LimiterKeys, tokenBucket[k] # Absent
  PROVE  /\ tokenBucket[k].tokens \in Int /\ tokenBucket[k].last \in Int
         /\ 0 <= tokenBucket[k].tokens /\ tokenBucket[k].tokens <= Brim
         /\ tokenBucket[k].last <= now
         /\ lapsed[k] \/ meter[k] >= Least(Brim, tokenBucket[k].tokens
                                    + (now - lag - tokenBucket[k].last) * policy.refill)
<1>1. tokenBucket[k] \in [tokens : Int, last : Int]
  BY DEF LimiterInv, LimiterTypes
<1> QED BY <1>1 DEF LimiterInv, BucketOK, MeterOK

\* A swept bucket that would have been full: so is the ideal one, one lag later.
LEMMA SweptIsFull ==
  ASSUME LimiterInv, NEW t \in Stamps, NEW k \in LimiterKeys, k \in Swept(t), ~lapsed[k],
         ~(Earned(tokenBucket[k], t).tokens < Brim)
  PROVE  Restarted(k, Swept(t)) >= Brim
<1>1. LimiterTypes /\ Brim \in Nat /\ t \in Nat /\ t <= now
  BY BrimType, StampRange DEF LimiterInv
<1>2. policy.refill \in Nat /\ lag \in Nat /\ now \in Nat /\ meter[k] \in Int
  BY <1>1 DEF LimiterTypes
<1> DEFINE x == tokenBucket[k].tokens
           u == tokenBucket[k].last
<1>3. Restarted(k, Swept(t)) = Least(Brim, meter[k] + policy.refill * lag)
  BY DEF Restarted, Brim
<1>4. Earned(tokenBucket[k], t).tokens = Least(Brim, x + (t - u) * policy.refill)
  BY DEF Earned, Brim
<1>5. /\ x \in Int /\ u \in Int
      /\ meter[k] >= Least(Brim, x + (now - lag - u) * policy.refill)
  <2>1. tokenBucket[k] # Absent
    BY DEF Swept
  <2> QED BY <2>1, BucketTypes
<1> HIDE DEF x, u
<1>6. (t - u) * policy.refill \in Int
  BY <1>1, <1>2, <1>5
<1>7. x + (t - u) * policy.refill >= Brim
  BY <1>1, <1>4, <1>5, <1>6 DEF Least
<1>8. Brim \in Int /\ now \in Int /\ t \in Int
  BY <1>1, <1>2
<1>9. Least(Brim, meter[k] + policy.refill * lag) >= Brim
  BY <1>1, <1>2, <1>5, <1>7, <1>8, FullAtStamp, Zenon
<1> QED BY <1>3, <1>9

\* The entry the local limiter decides on: neither less than nothing nor more than the
\* capacity, and not ahead of the ideal bucket.
LEMMA LocalEntry ==
  ASSUME LimiterInv, NEW t \in Stamps, NEW k \in LimiterKeys, NEW b, b = Refilled(k, t)
  PROVE  /\ b.tokens \in Int /\ b.last \in Int
         /\ 0 <= b.tokens /\ b.tokens <= Brim /\ b.last <= now /\ b.last >= now - lag
         /\ \/ lapsed[k] \/ (k \in Swept(t) /\ Earned(tokenBucket[k], t).tokens < Brim)
            \/ Restarted(k, Swept(t)) >= b.tokens + (now - lag - b.last) * policy.refill
<1>1. LimiterTypes /\ Brim \in Nat /\ t \in Nat /\ t <= now /\ t >= now - lag
  BY BrimType, StampRange DEF LimiterInv
<1>2. /\ policy.refill \in Nat /\ lag \in Nat /\ now \in Nat /\ meter[k] \in Int
      /\ lapsed[k] \in BOOLEAN
  BY <1>1 DEF LimiterTypes
<1>3. (now - lag - t) * policy.refill \in Int /\ (now - lag - t) * policy.refill <= 0
  <2>1. now - lag - t <= 0 /\ now - lag - t \in Int
    BY <1>1, <1>2
  <2> QED BY <1>2, <2>1
<1>4. k \in Swept(t) => tokenBucket[k] # Absent
  BY DEF Swept
<1>5. CASE tokenBucket[k] = Absent
  <2>1. b = [tokens |-> Brim, last |-> t]
    BY <1>5 DEF Refilled, Full, Brim
  <2>2. lapsed[k] \/ meter[k] >= Brim
    BY <1>5 DEF LimiterInv, MeterOK
  <2>3. Restarted(k, Swept(t)) = meter[k]
    BY <1>4, <1>5 DEF Restarted
  <2> QED BY <1>1, <1>2, <1>3, <2>1, <2>2, <2>3
<1>6. CASE k \in Swept(t)
  <2>1. b = [tokens |-> Brim, last |-> t]
    BY <1>6 DEF Refilled, Full, Brim
  <2>2. Restarted(k, Swept(t)) \in Int
    BY <1>1, <1>2 DEF Restarted, Brim, Least
  <2>3. lapsed[k] \/ Earned(tokenBucket[k], t).tokens < Brim
          \/ Restarted(k, Swept(t)) >= Brim + (now - lag - t) * policy.refill
    <3> SUFFICES ASSUME ~lapsed[k], ~(Earned(tokenBucket[k], t).tokens < Brim)
                 PROVE  Restarted(k, Swept(t)) >= Brim + (now - lag - t) * policy.refill
      OBVIOUS
    <3>1. Restarted(k, Swept(t)) >= Brim
      BY <1>6, SweptIsFull
    <3> QED BY <1>1, <1>3, <2>2, <3>1
  <2>4. b.tokens = Brim /\ b.last = t
    BY <2>1
  <2> QED BY <1>1, <1>2, <1>6, <2>3, <2>4
<1>7. CASE tokenBucket[k] # Absent /\ k \notin Swept(t)
  <2> DEFINE x == tokenBucket[k].tokens
             u == tokenBucket[k].last
  <2>1. Restarted(k, Swept(t)) = meter[k]
    BY <1>7 DEF Restarted
  <2>2. /\ x \in Int /\ u \in Int /\ 0 <= x /\ x <= Brim /\ u <= now
        /\ (lapsed[k] \/ meter[k] >= Least(Brim, x + (now - lag - u) * policy.refill))
    BY <1>7, BucketTypes
  <2>3. CASE t > u
    <3>1. b = [tokens |-> Least(Brim, x + (t - u) * policy.refill), last |-> t]
      BY <1>7, <2>3 DEF Refilled, Earned, Brim
    <3> HIDE DEF x, u
    <3>2. (t - u) * policy.refill \in Int /\ (t - u) * policy.refill >= 0
      <4>1. t - u >= 0 /\ t - u \in Int
        BY <1>1, <2>2, <2>3
      <4> QED BY <1>2, <4>1
    <3>3. b.tokens \in Int /\ 0 <= b.tokens /\ b.tokens <= Brim /\ b.last = t
      BY <1>1, <2>2, <3>1, <3>2 DEF Least
    <3>4. lapsed[k] \/ meter[k] >= b.tokens + (now - lag - t) * policy.refill
      <4> SUFFICES ASSUME ~lapsed[k]
                   PROVE  meter[k] >= b.tokens + (now - lag - t) * policy.refill
        OBVIOUS
      <4>1. /\ Brim \in Int /\ policy.refill \in Nat /\ lag \in Nat /\ now \in Int
            /\ meter[k] \in Int /\ x \in Int /\ u \in Int /\ t \in Int /\ t >= now - lag
            /\ meter[k] >= Least(Brim, x + (now - lag - u) * policy.refill)
        BY <1>1, <1>2, <2>2
      <4>2. meter[k] >= Least(Brim, x + (t - u) * policy.refill)
                          + (now - lag - t) * policy.refill
        BY <4>1, RefillStillBounded, Zenon
      <4>3. b.tokens = Least(Brim, x + (t - u) * policy.refill)
        BY <3>1
      <4> QED BY <4>2, <4>3
    <3> QED BY <1>1, <1>2, <2>1, <3>3, <3>4
  <2>4. CASE ~(t > u)
    <3>1. b.tokens = x /\ b.last = u
      BY <1>7, <2>4 DEF Refilled
    <3> HIDE DEF x, u
    <3>2. (now - lag - u) * policy.refill \in Int /\ (now - lag - u) * policy.refill <= 0
      <4>1. now - lag - u <= 0 /\ now - lag - u \in Int
        BY <1>1, <1>2, <2>2, <2>4
      <4> QED BY <1>2, <4>1
    <3>3. lapsed[k] \/ meter[k] >= x + (now - lag - u) * policy.refill
      BY <1>1, <1>2, <2>2, <3>2 DEF Least
    <3> QED BY <1>1, <1>2, <2>1, <2>2, <2>4, <3>1, <3>2, <3>3
  <2> QED BY <2>3, <2>4
<1> QED BY <1>5, <1>6, <1>7

\* The same for the script, whose stamp becomes the last refill.
LEMMA ScriptEntry ==
  ASSUME LimiterInv, NEW t \in Stamps, NEW k \in LimiterKeys, NEW b, b = ScriptBucket(k, t)
  PROVE  /\ b.tokens \in Int /\ 0 <= b.tokens /\ b.tokens <= Brim
         /\ \/ lapsed[k] \/ (tokenBucket[k] # Absent /\ t < tokenBucket[k].last)
            \/ meter[k] >= b.tokens + (now - lag - t) * policy.refill
<1>1. LimiterTypes /\ Brim \in Nat /\ t \in Nat /\ t <= now /\ t >= now - lag
  BY BrimType, StampRange DEF LimiterInv
<1>2. /\ policy.refill \in Nat /\ lag \in Nat /\ now \in Nat /\ meter[k] \in Int
      /\ lapsed[k] \in BOOLEAN
  BY <1>1 DEF LimiterTypes
<1>3. (now - lag - t) * policy.refill \in Int /\ (now - lag - t) * policy.refill <= 0
  <2>1. now - lag - t <= 0 /\ now - lag - t \in Int
    BY <1>1, <1>2
  <2> QED BY <1>2, <2>1
<1>4. CASE tokenBucket[k] = Absent
  <2>1. b.tokens = Brim
    BY <1>4 DEF ScriptBucket, Full, Brim
  <2>2. lapsed[k] \/ meter[k] >= Brim
    BY <1>4 DEF LimiterInv, MeterOK
  <2> QED BY <1>1, <1>2, <1>3, <2>1, <2>2
<1>5. CASE tokenBucket[k] # Absent
  <2> DEFINE x == tokenBucket[k].tokens
             u == tokenBucket[k].last
             v == Least(u, t)
  <2>1. /\ x \in Int /\ u \in Int /\ 0 <= x /\ x <= Brim /\ u <= now
        /\ (lapsed[k] \/ meter[k] >= Least(Brim, x + (now - lag - u) * policy.refill))
    BY <1>5, BucketTypes
  <2>2. b.tokens = Least(Brim, x + (t - v) * policy.refill)
    <3>1. tokenBucket[k] \in [tokens : Int, last : Int]
      BY <1>1, <1>5 DEF LimiterTypes
    <3>2. [tokenBucket[k] EXCEPT !.last = Least(@, t)].tokens = x
          /\ [tokenBucket[k] EXCEPT !.last = Least(@, t)].last = v
      BY <3>1
    <3>3. b = Earned([tokenBucket[k] EXCEPT !.last = Least(@, t)], t)
      BY <1>5 DEF ScriptBucket
    <3> HIDE DEF x, v
    <3> QED BY <3>2, <3>3 DEF Earned, Brim
  <2>3. v \in Int /\ t - v >= 0 /\ (t >= u => v = u)
    BY <1>1, <2>1 DEF Least
  <2> HIDE DEF x, u, v
  <2>4. (t - v) * policy.refill \in Int /\ (t - v) * policy.refill >= 0
    <3>1. t - v >= 0 /\ t - v \in Int
      BY <1>1, <2>3
    <3> QED BY <1>2, <3>1
  <2>5. b.tokens \in Int /\ 0 <= b.tokens /\ b.tokens <= Brim
    BY <1>1, <2>1, <2>2, <2>4 DEF Least
  <2>6. ASSUME ~lapsed[k], t >= u
        PROVE  meter[k] >= b.tokens + (now - lag - t) * policy.refill
    <3>1. /\ Brim \in Int /\ policy.refill \in Nat /\ lag \in Nat /\ now \in Int
          /\ meter[k] \in Int /\ x \in Int /\ u \in Int /\ t \in Int /\ t >= now - lag
          /\ meter[k] >= Least(Brim, x + (now - lag - u) * policy.refill)
      BY <1>1, <1>2, <2>1, <2>6
    <3>2. meter[k] >= Least(Brim, x + (t - u) * policy.refill)
                        + (now - lag - t) * policy.refill
      BY <3>1, RefillStillBounded, Zenon
    <3> QED BY <2>2, <2>3, <2>6, <3>2
  <2>7. t >= u \/ t < u
    BY <1>1, <2>1
  <2> QED BY <1>5, <2>5, <2>6, <2>7 DEF u
<1> QED BY <1>4, <1>5

\* Every request has a key.
LEMMA KeyOfRequest == \A r \in Callers : KeyFunc(r) \in LimiterKeys
BY DEF KeyFunc, LimiterKeys

\* What a request may do to a key: nothing, drop its bucket, or leave one that the ideal
\* bucket is not behind.
Kept(k) ==
  /\ tokenBucket'[k] = tokenBucket[k] /\ meter'[k] = meter[k] /\ touched'[k] = touched[k]
  /\ lapsed[k] => lapsed'[k]
Dropped(k) == tokenBucket'[k] = Absent /\ (lapsed'[k] \/ meter'[k] >= Brim)
Decided(k) ==
  /\ tokenBucket'[k] \in [tokens : Int, last : Int]
  /\ 0 <= tokenBucket'[k].tokens /\ tokenBucket'[k].tokens <= Brim
  /\ tokenBucket'[k].last <= now
  /\ backend = "redis" => tokenBucket'[k].last <= touched'[k]
  /\ \/ lapsed'[k]
     \/ meter'[k] >= tokenBucket'[k].tokens + (now - lag - tokenBucket'[k].last) * policy.refill

\* A request that does no more keeps the invariant.
LEMMA RequestKeepsLimiterInv ==
  ASSUME LimiterInv, LimiterTypes', UNCHANGED <<now, deployment>>,
         \A k \in LimiterKeys : Kept(k) \/ Dropped(k) \/ Decided(k)
  PROVE  LimiterInv'
<1>1. Brim' = Brim /\ LimiterKeys' = LimiterKeys
  BY DEF Brim, deployment, LimiterKeys, Unit
<1>2. Brim \in Nat /\ LimiterTypes
  BY BrimType DEF LimiterInv
<1> SUFFICES ASSUME NEW k \in LimiterKeys PROVE BucketOK(k)' /\ MeterOK(k)'
  BY <1>1 DEF LimiterInv
<1>3. CASE Kept(k)
  BY <1>1, <1>3 DEF Kept, LimiterInv, BucketOK, MeterOK, deployment
<1>4. CASE Dropped(k)
  BY <1>1, <1>4 DEF Dropped, BucketOK, MeterOK
<1>5. CASE Decided(k)
  <2> DEFINE x == tokenBucket'[k].tokens
             u == tokenBucket'[k].last
  <2>1. x \in Int /\ u \in Int /\ tokenBucket'[k] # Absent
    BY <1>5, AbsentAssumption DEF Decided
  <2>2. BucketOK(k)'
    BY <1>1, <1>5 DEF Decided, BucketOK, deployment
  <2>3. (now - lag - u) * policy.refill \in Int /\ meter'[k] \in Int
    BY <1>1, <1>2, <2>1 DEF LimiterTypes
  <2>4. lapsed'[k] \/ meter'[k] >= x + (now - lag - u) * policy.refill
    BY <1>5 DEF Decided
  <2> HIDE DEF x, u
  <2>5. lapsed'[k] \/ meter'[k] >= Least(Brim, x + (now - lag - u) * policy.refill)
    BY <1>2, <2>1, <2>3, <2>4 DEF Least
  <2>6. now' = now /\ lag' = lag /\ policy' = policy
    BY DEF deployment
  <2>7. MeterOK(k)'
    BY <1>1, <2>1, <2>5, <2>6 DEF MeterOK, x, u
  <2> QED BY <2>2, <2>7
<1> QED BY <1>3, <1>4, <1>5

\* The local limiter decides.
LEMMA LocalKeepsLimiterInv ==
  ASSUME LimiterInv, NEW r \in Callers, NEW t \in Stamps, LocalAllow(r, t)
  PROVE  LimiterInv'
<1> DEFINE k == KeyFunc(r)
           d == LocalDecision(k, t)
           b == Refilled(k, t)
           taken == IF d.allowed /\ ~lapsed'[k] THEN Unit ELSE 0
<1>1. k \in LimiterKeys /\ LimiterTypes /\ Brim \in Nat /\ Unit \in Nat
  BY KeyOfRequest, BrimType DEF LimiterInv
<1>2. /\ b.tokens \in Int /\ b.last \in Int
      /\ 0 <= b.tokens /\ b.tokens <= Brim /\ b.last <= now /\ b.last >= now - lag
      /\ \/ lapsed[k] \/ (k \in Swept(t) /\ Earned(tokenBucket[k], t).tokens < Brim)
         \/ Restarted(k, Swept(t)) >= b.tokens + (now - lag - b.last) * policy.refill
  BY <1>1, LocalEntry
<1>3. /\ d.allowed \in BOOLEAN
      /\ d.tokens = b.tokens - (IF d.allowed THEN Unit ELSE 0)
      /\ d.tokens \in Int /\ d.tokens >= 0 /\ d.tokens <= b.tokens
  <2>1. d = Decision(b.tokens, Prune(window[k], t), OldestFirst(Prune(window[k], t)), t)
    BY DEF LocalDecision
  <2> HIDE DEF d, b
  <2> QED BY <1>1, <1>2, <2>1, DecisionTakes
<1>4. /\ tokenBucket' = [j \in LimiterKeys |->
           CASE j = k -> [tokens |-> d.tokens, last |-> b.last]
             [] j # k /\ j \in Swept(t) -> Absent
             [] OTHER -> tokenBucket[j]]
      /\ lapsed' = [j \in LimiterKeys |-> lapsed[j] \/
           (j \in Swept(t) /\ Earned(tokenBucket[j], t).tokens < Brim)]
      /\ meter' = [j \in LimiterKeys |->
           Restarted(j, Swept(t)) - IF j = k /\ d.allowed /\ ~lapsed'[k] THEN Unit ELSE 0]
      /\ UNCHANGED <<now, deployment, touched>> /\ backend = "local"
  BY DEF LocalAllow, Count, Brim
<1> HIDE DEF k, d, b
<1>5. \A j \in LimiterKeys : Restarted(j, Swept(t)) \in Int
  BY <1>1 DEF Restarted, LimiterTypes, Brim, Least
<1>6. ASSUME NEW j \in LimiterKeys, j # k
      PROVE  Kept(j) \/ Dropped(j)
  <2>1. meter'[j] = Restarted(j, Swept(t))
    BY <1>4, <1>5, <1>6
  <2>2. CASE j \notin Swept(t)
    <3>1. Restarted(j, Swept(t)) = meter[j]
      BY <2>2 DEF Restarted
    <3> QED BY <1>4, <1>6, <2>1, <2>2, <3>1 DEF Kept
  <2>3. CASE j \in Swept(t)
    <3>1. tokenBucket'[j] = Absent
      BY <1>4, <1>6, <2>3
    <3>2. lapsed'[j] = (lapsed[j] \/ Earned(tokenBucket[j], t).tokens < Brim)
      BY <1>4, <2>3
    <3>3. CASE lapsed[j] \/ Earned(tokenBucket[j], t).tokens < Brim
      BY <3>1, <3>2, <3>3 DEF Dropped
    <3>4. CASE ~lapsed[j] /\ ~(Earned(tokenBucket[j], t).tokens < Brim)
      BY <2>1, <2>3, <3>1, <3>4, SweptIsFull DEF Dropped
    <3> QED BY <3>3, <3>4
  <2> QED BY <2>2, <2>3
<1>7. Decided(k)
  <2>1. tokenBucket'[k] = [tokens |-> d.tokens, last |-> b.last]
    BY <1>1, <1>4
  <2>2. meter'[k] = Restarted(k, Swept(t)) - IF d.allowed /\ ~lapsed'[k] THEN Unit ELSE 0
    BY <1>1, <1>4
  <2>3. lapsed'[k] = (lapsed[k] \/ (k \in Swept(t) /\ Earned(tokenBucket[k], t).tokens < Brim))
    BY <1>1, <1>4
  <2>4. (now - lag - b.last) * policy.refill \in Int /\ Restarted(k, Swept(t)) \in Int
    BY <1>1, <1>2, <1>5 DEF LimiterTypes
  <2>5. ASSUME ~lapsed'[k]
        PROVE  meter'[k] >= d.tokens + (now - lag - b.last) * policy.refill
    <3>1. Restarted(k, Swept(t)) >= b.tokens + (now - lag - b.last) * policy.refill
      BY <1>2, <2>3, <2>5
    <3>2. meter'[k] = Restarted(k, Swept(t)) - IF d.allowed THEN Unit ELSE 0
      BY <2>2, <2>5
    <3> QED BY <1>1, <1>2, <1>3, <2>4, <3>1, <3>2
  <2> QED BY <1>1, <1>2, <1>3, <1>4, <2>1, <2>5 DEF Decided
<1>8. LimiterTypes'
  <2>1. \A j \in LimiterKeys : tokenBucket'[j] \in [tokens : Int, last : Int] \cup {Absent}
    BY <1>2, <1>3, <1>4, <1>1 DEF LimiterTypes
  <2>2. \A j \in LimiterKeys : meter'[j] \in Int /\ lapsed'[j] \in BOOLEAN
    BY <1>1, <1>4, <1>5
  <2> QED BY <1>1, <1>4, <2>1, <2>2 DEF LimiterTypes, deployment, LimiterKeys
<1> QED BY <1>4, <1>6, <1>7, <1>8, RequestKeepsLimiterInv

\* The script decides, whether or not its reply arrives.
LEMMA ScriptKeepsLimiterInv ==
  ASSUME LimiterInv, NEW k \in LimiterKeys, NEW t \in Stamps, Script(k, t)
  PROVE  LimiterInv'
<1> DEFINE d == RedisDecision(k, t)
           b == ScriptBucket(k, t)
<1>1. LimiterTypes /\ Brim \in Nat /\ Unit \in Nat /\ t \in Nat /\ t <= now
  BY BrimType, StampRange DEF LimiterInv
<1>2. /\ b.tokens \in Int /\ 0 <= b.tokens /\ b.tokens <= Brim
      /\ \/ lapsed[k] \/ (tokenBucket[k] # Absent /\ t < tokenBucket[k].last)
         \/ meter[k] >= b.tokens + (now - lag - t) * policy.refill
  BY ScriptEntry
<1>3. /\ d.allowed \in BOOLEAN
      /\ d.tokens = b.tokens - (IF d.allowed THEN Unit ELSE 0)
      /\ d.tokens \in Int /\ d.tokens >= 0 /\ d.tokens <= b.tokens
  <2>1. d = Decision(b.tokens, Prune(window[k], t), OldestScore(Prune(window[k], t)), t)
    BY DEF RedisDecision
  <2> HIDE DEF d, b
  <2> QED BY <1>1, <1>2, <2>1, DecisionTakes
<1>4. /\ tokenBucket' = [tokenBucket EXCEPT ![k] = [tokens |-> d.tokens, last |-> t]]
      /\ touched' = [touched EXCEPT ![k] = now]
      /\ lapsed' = [lapsed EXCEPT ![k] = @ \/ (tokenBucket[k] # Absent /\ t < tokenBucket[k].last)]
      /\ meter' = [j \in LimiterKeys |->
           Restarted(j, {}) - IF j = k /\ d.allowed /\ ~lapsed'[k] THEN Unit ELSE 0]
      /\ UNCHANGED <<now, deployment>>
  BY DEF Script, Count
<1> HIDE DEF d, b
<1>5. \A j \in LimiterKeys : Restarted(j, {}) = meter[j] /\ meter[j] \in Int
  BY <1>1 DEF Restarted, LimiterTypes
<1>6. ASSUME NEW j \in LimiterKeys, j # k
      PROVE  Kept(j)
  BY <1>1, <1>4, <1>5, <1>6 DEF Kept, LimiterTypes
<1>7. Decided(k)
  <2>1. tokenBucket'[k] = [tokens |-> d.tokens, last |-> t] /\ touched'[k] = now
    BY <1>1, <1>4 DEF LimiterTypes
  <2>2. meter'[k] = meter[k] - IF d.allowed /\ ~lapsed'[k] THEN Unit ELSE 0
    BY <1>4, <1>5
  <2>3. lapsed'[k] = (lapsed[k] \/ (tokenBucket[k] # Absent /\ t < tokenBucket[k].last))
    BY <1>1, <1>4 DEF LimiterTypes
  <2>4. (now - lag - t) * policy.refill \in Int /\ meter[k] \in Int
    BY <1>1, <1>5 DEF LimiterTypes
  <2>5. ASSUME ~lapsed'[k]
        PROVE  meter'[k] >= d.tokens + (now - lag - t) * policy.refill
    <3>1. meter[k] >= b.tokens + (now - lag - t) * policy.refill
      BY <1>2, <2>3, <2>5
    <3>2. meter'[k] = meter[k] - IF d.allowed THEN Unit ELSE 0
      BY <2>2, <2>5
    <3> QED BY <1>1, <1>2, <1>3, <2>4, <3>1, <3>2
  <2> QED BY <1>1, <1>2, <1>3, <1>4, <2>1, <2>5 DEF Decided
<1>8. LimiterTypes'
  <2>1. tokenBucket' \in [LimiterKeys -> [tokens : Int, last : Int] \cup {Absent}]
    BY <1>1, <1>3, <1>4 DEF LimiterTypes
  <2>2. meter' \in [LimiterKeys -> Int] /\ lapsed' \in [LimiterKeys -> BOOLEAN]
    BY <1>1, <1>3, <1>4, <1>5 DEF LimiterTypes
  <2>3. touched' \in [LimiterKeys -> Int]
    BY <1>1, <1>4 DEF LimiterTypes
  <2> QED BY <1>1, <1>4, <2>1, <2>2, <2>3 DEF LimiterTypes, deployment, LimiterKeys
<1> QED BY <1>4, <1>6, <1>7, <1>8, RequestKeepsLimiterInv

\* Time passes: the ideal bucket refills as fast as the stored one would, and what Redis
\* forgets has been idle long enough to be full.
LEMMA TickKeepsLimiterInv ==
  ASSUME LimiterInv, LimiterTick
  PROVE  LimiterInv'
<1> DEFINE gone == {j \in LimiterKeys : Expired(j, BucketTTL)}
<1>1. /\ LimiterTypes /\ Brim \in Nat /\ policy.refill \in Nat \ {0} /\ lag \in Nat
      /\ now \in Nat /\ policy.window \in Nat
  BY BrimType DEF LimiterInv, LimiterTypes
<1>2. /\ now' = now + 1 /\ UNCHANGED <<deployment, lapsed>>
      /\ tokenBucket' = [k \in LimiterKeys |-> IF k \in gone THEN Absent ELSE tokenBucket[k]]
      /\ meter' = [k \in LimiterKeys |-> Least(Brim, Restarted(k, gone) + policy.refill)]
      /\ touched' = [k \in LimiterKeys |-> IF k \in gone THEN 0 ELSE touched[k]]
  BY DEF LimiterTick, Brim
<1>3. Brim' = Brim /\ LimiterKeys' = LimiterKeys /\ policy' = policy /\ lag' = lag
  BY <1>2 DEF Brim, deployment, LimiterKeys, Unit
<1>4. BucketTTL \in Int /\ BucketTTL * policy.refill >= Brim
  <2> DEFINE c == CeilDiv(Brim, policy.refill)
  <2>1. c \in Int /\ c * policy.refill >= Brim
    BY <1>1, CeilDivBounds
  <2>2. BucketTTL = Greatest(c, policy.window)
    BY DEF BucketTTL, Brim
  <2> HIDE DEF c
  <2>3. BucketTTL \in Int /\ BucketTTL >= c
    BY <1>1, <2>1, <2>2 DEF Greatest
  <2> QED BY <1>1, <2>1, <2>3
<1>5. ASSUME NEW k \in LimiterKeys
      PROVE  Restarted(k, gone) \in Int /\ meter[k] \in Int /\ touched[k] \in Int
  BY <1>1 DEF Restarted, LimiterTypes, Brim, Least
<1>6. LimiterTypes'
  <2>1. \A k \in LimiterKeys : meter'[k] \in Int /\ touched'[k] \in Int
    BY <1>1, <1>2, <1>5 DEF Least
  <2>2. \A k \in LimiterKeys : tokenBucket'[k] \in [tokens : Int, last : Int] \cup {Absent}
    BY <1>1, <1>2 DEF LimiterTypes
  <2> QED BY <1>1, <1>2, <1>3, <2>1, <2>2 DEF LimiterTypes, deployment
<1> SUFFICES ASSUME NEW k \in LimiterKeys PROVE BucketOK(k)' /\ MeterOK(k)'
  BY <1>3, <1>6 DEF LimiterInv
<1>7. meter'[k] = Least(Brim, Restarted(k, gone) + policy.refill)
  BY <1>2
<1>8. CASE tokenBucket[k] = Absent
  <2>1. k \notin gone /\ tokenBucket'[k] = Absent
    BY <1>2, <1>8 DEF Expired
  <2>2. Restarted(k, gone) = meter[k]
    BY <2>1 DEF Restarted
  <2>3. lapsed[k] \/ meter[k] >= Brim
    BY <1>8 DEF LimiterInv, MeterOK
  <2>4. lapsed[k] \/ meter'[k] >= Brim
    BY <1>1, <1>5, <1>7, <2>2, <2>3 DEF Least
  <2> QED BY <1>2, <1>3, <2>1, <2>4 DEF BucketOK, MeterOK
<1>9. CASE tokenBucket[k] # Absent
  <2> DEFINE x == tokenBucket[k].tokens
             u == tokenBucket[k].last
  <2>1. /\ x \in Int /\ u \in Int /\ 0 <= x /\ x <= Brim /\ u <= now
        /\ (lapsed[k] \/ meter[k] >= Least(Brim, x + (now - lag - u) * policy.refill))
    BY <1>9, BucketTypes
  <2> HIDE DEF x, u
  <2>2. Brim \in Int /\ policy.refill \in Nat /\ lag \in Nat /\ now \in Int
        /\ meter[k] \in Int /\ touched[k] \in Int
    BY <1>1 DEF LimiterTypes
  <2>3. CASE k \in gone
    <3>1. Restarted(k, gone) = Least(Brim, meter[k] + policy.refill * lag)
      BY <2>3 DEF Restarted, Brim
    <3>2. (now + 1 - u) * policy.refill >= Brim
      <4>1. backend = "redis" /\ touched[k] + BucketTTL <= now + 1
        BY <2>3 DEF Expired
      <4>2. u <= touched[k]
        BY <1>9, <4>1 DEF LimiterInv, BucketOK, u
      <4>3. now + 1 - u >= BucketTTL
        BY <1>1, <1>4, <2>1, <2>2, <4>1, <4>2
      <4>4. (now + 1 - u) * policy.refill >= BucketTTL * policy.refill
        BY <1>1, <1>4, <2>1, <4>3
      <4> QED BY <1>1, <1>4, <2>1, <4>4
    <3>3. ASSUME ~lapsed[k] PROVE meter'[k] >= Brim
      <4>1. Least(Brim, Least(Brim, meter[k] + policy.refill * lag) + policy.refill) >= Brim
        BY <2>1, <2>2, <3>2, <3>3, LaterStillBounded, Zenon
      <4> QED BY <1>7, <3>1, <4>1
    <3>4. tokenBucket'[k] = Absent
      BY <1>2, <2>3
    <3> QED BY <1>2, <1>3, <3>3, <3>4 DEF BucketOK, MeterOK
  <2>4. CASE k \notin gone
    <3>1. /\ Restarted(k, gone) = meter[k] /\ tokenBucket'[k] = tokenBucket[k]
          /\ touched'[k] = touched[k]
      BY <1>2, <2>4 DEF Restarted
    <3>2. BucketOK(k)'
      BY <1>1, <1>2, <1>3, <1>9, <2>1, <3>1 DEF BucketOK, LimiterInv, deployment, u
    <3>3. ASSUME ~lapsed[k]
          PROVE  meter'[k] >= Least(Brim, x + (now + 1 - lag - u) * policy.refill)
      <4>1. Least(Brim, meter[k] + policy.refill) >= Least(Brim, x + (now + 1 - lag - u) * policy.refill)
        BY <2>1, <2>2, <3>3, LaterStillBounded, Zenon
      <4> QED BY <1>7, <3>1, <4>1
    <3>4. /\ now' = now + 1 /\ lapsed' = lapsed /\ tokenBucket'[k] # Absent
          /\ tokenBucket'[k].tokens = x /\ tokenBucket'[k].last = u
      BY <1>2, <1>9, <3>1 DEF x, u
    <3>5. CASE lapsed[k]
      BY <3>2, <3>4, <3>5 DEF MeterOK
    <3>6. CASE ~lapsed[k]
      <4>1. meter'[k] >= Least(Brim, x + (now + 1 - lag - u) * policy.refill)
        BY <3>3, <3>6
      <4>2. (now' - lag' - tokenBucket'[k].last) * policy'.refill
              = (now + 1 - lag - u) * policy.refill
        BY <1>1, <1>3, <2>1, <3>4
      <4>3. meter'[k] >= Least(Brim', tokenBucket'[k].tokens
                                 + (now' - lag' - tokenBucket'[k].last) * policy'.refill)
        BY <1>3, <3>4, <4>1, <4>2
      <4> QED BY <3>2, <3>4, <4>3 DEF MeterOK
    <3> QED BY <3>5, <3>6
  <2> QED BY <2>3, <2>4
<1> QED BY <1>8, <1>9

\* Every step of the limiter keeps the invariant.
LEMMA NextLimiterInv == LimiterInv /\ [LimiterNext]_<<now, limiterVars>> => LimiterInv'
<1> SUFFICES ASSUME LimiterInv, [LimiterNext]_<<now, limiterVars>> PROVE LimiterInv'
  OBVIOUS
<1>1. ASSUME UNCHANGED <<now, deployment, tokenBucket, touched, meter, lapsed>>
      PROVE  LimiterInv'
  BY <1>1 DEF LimiterInv, LimiterTypes, BucketOK, MeterOK, deployment, Brim, Unit, LimiterKeys
<1>2. CASE LimiterTick
  BY <1>2, TickKeepsLimiterInv
<1>3. ASSUME NEW r \in Callers, Bypass(r) \/ RedisDown(r) PROVE LimiterInv'
  BY <1>1, <1>3 DEF Bypass, RedisDown
<1>4. ASSUME NEW r \in Callers, NEW t \in Stamps, LocalAllow(r, t) PROVE LimiterInv'
  BY <1>4, LocalKeepsLimiterInv
<1>5. ASSUME NEW r \in Callers, NEW t \in Stamps, RedisAllow(r, t) \/ RedisReplyLost(r, t)
      PROVE  LimiterInv'
  BY <1>5, KeyOfRequest, ScriptKeepsLimiterInv DEF RedisAllow, RedisReplyLost
<1>6. CASE UNCHANGED <<now, limiterVars>>
  BY <1>1, <1>6 DEF limiterVars, deployment
<1> QED BY <1>2, <1>3, <1>4, <1>5, <1>6 DEF LimiterNext

\* No limiter of either backend admits more than an ideal bucket would, but for one lag
\* of the stamps.
THEOREM BurstHoldsHolds == LimiterSpec => []BurstHolds
<1>1. LimiterInv => BurstHolds
  <2> SUFFICES ASSUME LimiterInv, NEW k \in LimiterKeys, ~lapsed[k]
               PROVE  meter[k] >= 0 - policy.refill * lag
    BY DEF BurstHolds
  <2>1. /\ LimiterTypes /\ Brim \in Nat /\ policy.refill \in Nat /\ lag \in Nat
        /\ now \in Nat /\ meter[k] \in Int /\ policy.refill * lag \in Nat
    BY BrimType DEF LimiterInv, LimiterTypes
  <2>2. CASE tokenBucket[k] = Absent
    BY <2>1, <2>2 DEF LimiterInv, MeterOK
  <2>3. CASE tokenBucket[k] # Absent
    <3> DEFINE x == tokenBucket[k].tokens
               u == tokenBucket[k].last
    <3>1. /\ x \in Int /\ u \in Int /\ 0 <= x /\ u <= now
          /\ meter[k] >= Least(Brim, x + (now - lag - u) * policy.refill)
      BY <2>3, BucketTypes
    <3> HIDE DEF x, u
    <3>2. (now - lag - u) * policy.refill = (now - u) * policy.refill - policy.refill * lag
      BY <2>1, <3>1
    <3>3. (now - u) * policy.refill \in Nat
      <4>1. now - u \in Nat
        BY <2>1, <3>1
      <4> QED BY <2>1, <4>1
    <3> QED BY <2>1, <3>1, <3>2, <3>3 DEF Least
  <2> QED BY <2>2, <2>3
<1> QED BY <1>1, InitLimiterInv, NextLimiterInv, PTL DEF LimiterSpec

-----------------------------------------------------------------------------
(* The stamps of a sliding window.  Newer is a recursive function; what it *)
(* computes is proved by looking at a shortest sequence for which it does  *)
(* not.                                                                    *)

\* A set of naturals has a least element.
LEMMA LeastNatural ==
  ASSUME NEW S \in SUBSET Nat, S # {}
  PROVE  \E n \in S : \A m \in S : n <= m
<1>1. PICK n \in S : \A m \in S : <<m, n>> \notin OpToRel(<, Nat)
  BY NatLessThanWellFounded, WFMin, Zenon
<1>2. \A m \in S : ~(m < n)
  BY <1>1 DEF OpToRel
<1> QED BY <1>2

\* One step of Newer: what is kept of the first n stamps, from what is kept of those before.
KeepStep(f, s, c, n) ==
  CASE n = 0 -> <<>>
    [] n > 0 /\ s[n] > c -> Append(f[n - 1], s[n])
    [] OTHER -> f[n - 1]
Keeps(f, s, c, N) == f = [n \in 0 .. N |-> KeepStep(f, s, c, n)]

\* The recursion of Newer is well-founded.
LEMMA KeepsExists ==
  ASSUME NEW s \in Seq(Nat), NEW c \in Int, NEW N \in 0 .. Len(s)
  PROVE  \E f \in [0 .. N -> Seq(Nat)] : Keeps(f, s, c, N)
<1> SUFFICES ASSUME ~ \E f \in [0 .. N -> Seq(Nat)] : Keeps(f, s, c, N) PROVE FALSE
  OBVIOUS
<1> DEFINE S == {k \in 0 .. Len(s) : ~ \E f \in [0 .. k -> Seq(Nat)] : Keeps(f, s, c, k)}
<1>1. PICK k \in S : \A j \in S : k <= j
  <2>1. S \in SUBSET Nat /\ N \in S
    OBVIOUS
  <2> HIDE DEF S
  <2> QED BY <2>1, LeastNatural
<1>2. k # 0
  <2>1. Keeps([i \in 0 .. 0 |-> <<>>], s, c, 0)
    BY DEF Keeps, KeepStep
  <2>2. [i \in 0 .. 0 |-> <<>>] \in [0 .. 0 -> Seq(Nat)]
    OBVIOUS
  <2> QED BY <2>1, <2>2
<1>3. k \in Nat /\ k - 1 \in Nat /\ k - 1 \notin S /\ k <= Len(s) /\ k - 1 \in 0 .. Len(s)
  <2>1. k \in Nat /\ k <= Len(s) /\ Len(s) \in Nat
    BY <1>1
  <2> HIDE DEF S
  <2> QED BY <1>1, <1>2, <2>1
<1>4. PICK f \in [0 .. k - 1 -> Seq(Nat)] : Keeps(f, s, c, k - 1)
  BY <1>3
<1> DEFINE h == [i \in 0 .. k |-> IF i = k THEN KeepStep(f, s, c, k) ELSE f[i]]
<1>5. KeepStep(f, s, c, k) \in Seq(Nat)
  <2>1. f[k - 1] \in Seq(Nat) /\ s[k] \in Nat
    BY <1>3, <1>4, <1>2
  <2> QED BY <1>2, <1>3, <2>1 DEF KeepStep
<1>6. h \in [0 .. k -> Seq(Nat)]
  <2> HIDE <1>1
  <2>1. \A i \in 0 .. k : i # k => i \in 0 .. k - 1
    BY <1>3
  <2> QED BY <1>3, <1>4, <1>5, <2>1
<1>7. ASSUME NEW i \in 0 .. k PROVE h[i] = KeepStep(h, s, c, i)
  <2>1. CASE i = k
    <3>1. h[k - 1] = f[k - 1] /\ h[k] = KeepStep(f, s, c, k)
      BY <1>3
    <3> HIDE DEF h
    <3> QED BY <1>2, <2>1, <3>1 DEF KeepStep
  <2>2. CASE i # k
    <3>1. i \in 0 .. k - 1 /\ (i # 0 => i - 1 \in 0 .. k - 1 /\ i - 1 # k)
      BY <1>3, <2>2
    <3>2. h[i] = f[i] /\ (i # 0 => h[i - 1] = f[i - 1])
      BY <1>3, <3>1, <2>2
    <3>3. f[i] = KeepStep(f, s, c, i)
      BY <1>4, <3>1, Zenon DEF Keeps
    <3> HIDE DEF h
    <3> QED BY <3>2, <3>3 DEF KeepStep
  <2> QED BY <2>1, <2>2
<1>8. Keeps(h, s, c, k)
  <2>1. h = [i \in 0 .. k |-> h[i]]
    OBVIOUS
  <2> HIDE DEF h
  <2> QED BY <1>7, <2>1, Zenon DEF Keeps
<1> QED BY <1>1, <1>6, <1>8

\* It keeps the same of two sequences that start alike.
LEMMA KeepsUnique ==
  ASSUME NEW s, NEW u, NEW c, NEW N \in Nat, NEW M \in Nat, NEW f, NEW h,
         Keeps(f, s, c, N), Keeps(h, u, c, M), NEW i \in Nat, i <= N, i <= M,
         \A j \in 1 .. i : s[j] = u[j]
  PROVE  f[i] = h[i]
<1> SUFFICES ASSUME f[i] # h[i] PROVE FALSE
  OBVIOUS
<1> DEFINE S == {k \in 0 .. i : f[k] # h[k]}
<1>1. PICK k \in S : \A j \in S : k <= j
  <2>1. S \in SUBSET Nat /\ i \in S
    OBVIOUS
  <2> HIDE DEF S
  <2> QED BY <2>1, LeastNatural
<1>2. k \in 0 .. N /\ k \in 0 .. M /\ k \in 0 .. i /\ f[k] # h[k]
  BY <1>1
<1>3. f[k] = KeepStep(f, s, c, k) /\ h[k] = KeepStep(h, u, c, k)
  BY <1>2, Zenon DEF Keeps
<1>4. k # 0 => f[k - 1] = h[k - 1] /\ s[k] = u[k]
  BY <1>1
<1> QED BY <1>2, <1>3, <1>4 DEF KeepStep

\* So Newer is what the recursion keeps of the whole sequence.
LEMMA NewerIsKept ==
  ASSUME NEW s \in Seq(Nat), NEW c \in Int
  PROVE  \E f \in [0 .. Len(s) -> Seq(Nat)] : Keeps(f, s, c, Len(s)) /\ Newer(s, c) = f[Len(s)]
<1> DEFINE N == Len(s)
           h == CHOOSE f : Keeps(f, s, c, N)
<1>1. N \in Nat /\ N \in 0 .. Len(s)
  OBVIOUS
<1>2. PICK f \in [0 .. N -> Seq(Nat)] : Keeps(f, s, c, N)
  BY <1>1, KeepsExists
<1>3. Keeps(h, s, c, N)
  BY <1>2
<1>4. Newer(s, c) = h[N]
  BY DEF Newer, Keeps, KeepStep
<1>5. h[N] = f[N]
  <2> HIDE DEF h, N
  <2> QED BY <1>1, <1>2, <1>3, KeepsUnique
<1> QED BY <1>2, <1>4, <1>5

\* What it keeps of no stamps, and of one stamp more.
LEMMA NewerSteps ==
  ASSUME NEW c \in Int
  PROVE  /\ Newer(<<>>, c) = <<>>
         /\ \A s \in Seq(Nat) : Newer(s, c) \in Seq(Nat)
         /\ \A s \in Seq(Nat), e \in Nat :
              Newer(Append(s, e), c) = IF e > c THEN Append(Newer(s, c), e) ELSE Newer(s, c)
<1>1. Newer(<<>>, c) = <<>>
  <2>0. <<>> \in Seq(Nat) /\ Len(<<>>) = 0
    OBVIOUS
  <2>1. PICK f : Keeps(f, <<>>, c, Len(<<>>)) /\ Newer(<<>>, c) = f[Len(<<>>)]
    BY <2>0, NewerIsKept, Zenon
  <2>2. f[0] = KeepStep(f, <<>>, c, 0)
    BY <2>0, <2>1 DEF Keeps
  <2> QED BY <2>0, <2>1, <2>2 DEF KeepStep
<1>2. ASSUME NEW s \in Seq(Nat) PROVE Newer(s, c) \in Seq(Nat)
  BY NewerIsKept
<1>3. ASSUME NEW s \in Seq(Nat), NEW e \in Nat
      PROVE  Newer(Append(s, e), c) = IF e > c THEN Append(Newer(s, c), e) ELSE Newer(s, c)
  <2> DEFINE u == Append(s, e)
             N == Len(s)
  <2>1. u \in Seq(Nat) /\ Len(u) = N + 1 /\ N \in Nat /\ u[N + 1] = e /\ \A j \in 1 .. N : s[j] = u[j]
    OBVIOUS
  <2>2. PICK f : Keeps(f, s, c, N) /\ Newer(s, c) = f[N]
    BY NewerIsKept
  <2> HIDE DEF u, N
  <2>3. PICK h : Keeps(h, u, c, N + 1) /\ Newer(u, c) = h[N + 1]
    BY <2>1, NewerIsKept
  <2>4. f[N] = h[N]
    BY <2>1, <2>2, <2>3, KeepsUnique
  <2>5. h[N + 1] = KeepStep(h, u, c, N + 1)
    <3>1. N + 1 \in 0 .. N + 1
      BY <2>1
    <3> QED BY <2>3, <3>1, Zenon DEF Keeps
  <2>6. (N + 1) - 1 = N /\ N + 1 # 0 /\ N + 1 > 0
    BY <2>1
  <2> QED BY <2>1, <2>2, <2>3, <2>4, <2>5, <2>6 DEF KeepStep, u
<1> QED BY <1>1, <1>2, <1>3

\* What Newer keeps: stamps of the sequence that are newer than c, all of those, so that a
\* second, later bound gives what it gives at once; and fewer than there were when one is not.
NewerIsFilter(s) ==
  /\ \A c \in Int :
       /\ Len(Newer(s, c)) <= Len(s)
       /\ \A i \in 1 .. Len(Newer(s, c)) :
            Newer(s, c)[i] > c /\ \E j \in 1 .. Len(s) : s[j] = Newer(s, c)[i]
       /\ (\E j \in 1 .. Len(s) : s[j] <= c) => Len(Newer(s, c)) < Len(s)
  /\ \A c \in Int, d \in Int : d <= c => Newer(Newer(s, d), c) = Newer(s, c)

\* One stamp more.
LEMMA FilterAppend ==
  ASSUME NEW s \in Seq(Nat), NEW e \in Nat, NewerIsFilter(s)
  PROVE  NewerIsFilter(Append(s, e))
<1> DEFINE u == Append(s, e)
<1>1. /\ u \in Seq(Nat) /\ Len(u) = Len(s) + 1 /\ Len(s) \in Nat /\ u[Len(s) + 1] = e
      /\ \A j \in 1 .. Len(s) : s[j] = u[j]
  OBVIOUS
<1>2. ASSUME NEW c \in Int
      PROVE  /\ Newer(s, c) \in Seq(Nat)
             /\ Newer(u, c) = IF e > c THEN Append(Newer(s, c), e) ELSE Newer(s, c)
  BY NewerSteps
<1> HIDE DEF u
<1>3. ASSUME NEW c \in Int
      PROVE  /\ Len(Newer(u, c)) <= Len(u)
             /\ \A i \in 1 .. Len(Newer(u, c)) :
                  Newer(u, c)[i] > c /\ \E j \in 1 .. Len(u) : u[j] = Newer(u, c)[i]
             /\ (\E j \in 1 .. Len(u) : u[j] <= c) => Len(Newer(u, c)) < Len(u)
  <2> DEFINE v == Newer(s, c)
             w == Newer(u, c)
  <2>1. /\ v \in Seq(Nat) /\ Len(v) \in Nat /\ Len(v) <= Len(s)
        /\ \A i \in 1 .. Len(v) : v[i] > c /\ \E j \in 1 .. Len(s) : s[j] = v[i]
        /\ (\E j \in 1 .. Len(s) : s[j] <= c) => Len(v) < Len(s)
    <3>1. v \in Seq(Nat) /\ Len(v) \in Nat
      BY <1>2
    <3>2. /\ Len(v) <= Len(s)
          /\ \A i \in 1 .. Len(v) : v[i] > c /\ \E j \in 1 .. Len(s) : s[j] = v[i]
          /\ (\E j \in 1 .. Len(s) : s[j] <= c) => Len(v) < Len(s)
      BY Zenon DEF NewerIsFilter
    <3> QED BY <3>1, <3>2, Zenon
  <2>2. w = IF e > c THEN Append(v, e) ELSE v
    BY <1>2
  <2> HIDE DEF v, w
  <2>3. CASE e > c
    <3>1. /\ Len(w) = Len(v) + 1 /\ w[Len(v) + 1] = e /\ \A i \in 1 .. Len(v) : w[i] = v[i]
      BY <2>1, <2>2, <2>3
    <3>2. Len(w) <= Len(u)
      BY <1>1, <2>1, <3>1
    <3>3. ASSUME NEW i \in 1 .. Len(w) PROVE w[i] > c /\ \E j \in 1 .. Len(u) : u[j] = w[i]
      <4>1. CASE i = Len(v) + 1
        BY <1>1, <2>3, <3>1, <4>1
      <4>2. CASE i # Len(v) + 1
        <5>1. i \in 1 .. Len(v)
          BY <2>1, <3>1, <4>2
        <5>2. PICK j \in 1 .. Len(s) : s[j] = v[i]
          BY <2>1, <5>1
        <5>3. j \in 1 .. Len(u) /\ u[j] = w[i]
          BY <1>1, <3>1, <5>1, <5>2
        <5> QED BY <2>1, <3>1, <5>1, <5>3
      <4> QED BY <4>1, <4>2
    <3>4. ASSUME NEW j \in 1 .. Len(u), u[j] <= c PROVE Len(w) < Len(u)
      <4>1. j \in 1 .. Len(s) /\ s[j] <= c
        BY <1>1, <2>3, <3>4
      <4>2. Len(v) < Len(s)
        BY <2>1, <4>1
      <4> QED BY <1>1, <2>1, <3>1, <4>2
    <3> QED BY <3>2, <3>3, <3>4 DEF w
  <2>4. CASE ~(e > c)
    <3>1. w = v /\ Len(v) < Len(u)
      BY <1>1, <2>1, <2>2, <2>4
    <3>2. ASSUME NEW i \in 1 .. Len(w) PROVE w[i] > c /\ \E j \in 1 .. Len(u) : u[j] = w[i]
      <4>1. PICK j \in 1 .. Len(s) : s[j] = v[i]
        BY <2>1, <3>1
      <4>2. j \in 1 .. Len(u) /\ u[j] = w[i]
        BY <1>1, <3>1, <4>1
      <4> QED BY <2>1, <3>1, <4>2
    <3>3. Len(w) <= Len(u) /\ Len(w) < Len(u)
      BY <1>1, <2>1, <3>1
    <3> QED BY <3>2, <3>3 DEF w
  <2> QED BY <2>3, <2>4
<1>4. ASSUME NEW c \in Int, NEW d \in Int, d <= c PROVE Newer(Newer(u, d), c) = Newer(u, c)
  <2>1. Newer(Newer(s, d), c) = Newer(s, c) /\ Newer(s, d) \in Seq(Nat)
    BY <1>2, <1>4 DEF NewerIsFilter
  <2>2. Newer(Append(Newer(s, d), e), c)
          = IF e > c THEN Append(Newer(Newer(s, d), c), e) ELSE Newer(Newer(s, d), c)
    BY <2>1, NewerSteps
  <2>3. CASE e > d
    BY <1>2, <2>1, <2>2, <2>3
  <2>4. CASE ~(e > d)
    <3>1. ~(e > c)
      BY <1>4, <2>4
    <3> QED BY <1>2, <2>1, <2>4, <3>1
  <2> QED BY <2>3, <2>4
<1> QED BY <1>3, <1>4 DEF NewerIsFilter, u

\* Every sequence of stamps, by a shortest counterexample.
LEMMA NewerFilters ==
  ASSUME NEW s \in Seq(Nat)
  PROVE  NewerIsFilter(s)
<1> SUFFICES ASSUME ~NewerIsFilter(s) PROVE FALSE
  OBVIOUS
<1> DEFINE S == {n \in Nat : \E u \in Seq(Nat) : Len(u) = n /\ ~NewerIsFilter(u)}
<1>1. PICK n \in S : \A m \in S : n <= m
  <2>1. S \in SUBSET Nat /\ Len(s) \in S
    OBVIOUS
  <2> HIDE DEF S
  <2> QED BY <2>1, LeastNatural
<1>2. PICK u \in Seq(Nat) : Len(u) = n /\ ~NewerIsFilter(u)
  BY <1>1
<1>3. u # <<>>
  <2>1. \A c \in Int : Newer(<<>>, c) = <<>>
    BY NewerSteps
  <2>2. NewerIsFilter(<<>>)
    BY <2>1 DEF NewerIsFilter
  <2> QED BY <1>2, <2>2
<1>4. PICK v \in Seq(Nat), e \in Nat : u = Append(v, e)
  BY <1>3, SequenceEmptyOrAppend
<1>5. Len(v) \in Nat /\ Len(v) < n
  BY <1>2, <1>4
<1>6. Len(v) \notin S
  <2> HIDE DEF S
  <2>1. n \in Nat
    BY <1>2
  <2> QED BY <1>1, <1>5, <2>1
<1>7. NewerIsFilter(v)
  BY <1>5, <1>6
<1> QED BY <1>2, <1>4, <1>7, FilterAppend

-----------------------------------------------------------------------------
(* The sliding window of the rate limiter and its headers.                 *)

\* Types, and the clock within its bound.
WindowTypes ==
  /\ now <= LimiterHorizon /\ policy.limit \in Nat \ {0}
  /\ window \in [LimiterKeys -> Seq(Nat)] /\ recent \in [LimiterKeys -> Seq(Nat)]
  /\ promise \in [LimiterKeys -> Nat]

\* The window holds no more stamps than the limit.  For every bound that still counts it
\* holds a stamp after it for each admission that is a lag after it; and what Redis
\* expires with the window is no later than the last run of the script.
WindowOK(k) ==
  /\ Len(window[k]) <= policy.limit
  /\ \A i \in 1 .. Len(recent[k]) : recent[k][i] <= now
  /\ \A c \in Int : c >= now - policy.window =>
       Len(Newer(recent[k], c + lag)) <= Len(Newer(window[k], c))
  /\ backend = "redis" => \A i \in 1 .. Len(recent[k]) : recent[k][i] <= touched[k]

\* With accurate stamps: from the promised time on, now or later, there is a token and
\* room in the window.
PromiseOK(k) ==
  (lag = 0 /\ promise[k] <= LimiterHorizon) =>
    \A x \in Nat : (x >= now /\ x >= promise[k]) =>
      /\ tokenBucket[k] # Absent =>
           tokenBucket[k].tokens + (x - tokenBucket[k].last) * policy.refill >= Unit
      /\ Len(Newer(window[k], x - policy.window)) < policy.limit

\* The inductive invariant of the window and the headers.
WindowInv ==
  /\ LimiterInv /\ WindowTypes
  /\ \A k \in LimiterKeys : WindowOK(k) /\ PromiseOK(k)

\* A later stamp is one more of those after c, or none of them.
LEMMA NewerAppend ==
  ASSUME NEW s \in Seq(Nat), NEW e \in Nat, NEW c \in Int
  PROVE  /\ Newer(s, c) \in Seq(Nat) /\ Len(Newer(s, c)) \in Nat
         /\ Len(Newer(Append(s, e), c)) = Len(Newer(s, c)) + IF e > c THEN 1 ELSE 0
<1>1. Newer(s, c) \in Seq(Nat)
  BY NewerSteps
<1>2. Newer(Append(s, e), c) = IF e > c THEN Append(Newer(s, c), e) ELSE Newer(s, c)
  BY NewerSteps
<1> DEFINE u == Newer(s, c)
<1> HIDE DEF u
<1>3. Len(u) \in Nat /\ Len(Append(u, e)) = Len(u) + 1
  BY <1>1 DEF u
<1> QED BY <1>1, <1>2, <1>3 DEF u

\* The elements after an append.
LEMMA AppendElements ==
  ASSUME NEW s \in Seq(Nat), NEW e \in Nat, NEW a, a = Append(s, e), NEW i \in 1 .. Len(a)
  PROVE  a[i] = e \/ \E j \in 1 .. Len(s) : a[i] = s[j]
<1>1. Len(a) = Len(s) + 1 /\ Len(s) \in Nat
  OBVIOUS
<1>2. CASE i = Len(s) + 1
  BY <1>1, <1>2
<1>3. CASE i # Len(s) + 1
  <2>1. i \in 1 .. Len(s)
    BY <1>1, <1>3
  <2>2. a[i] = s[i]
    BY <2>1
  <2> QED BY <2>1, <2>2
<1> QED BY <1>2, <1>3

\* An admission at n with a stamp at most one lag old counts for both or only for the window.
LEMMA AdmissionCounts ==
  ASSUME NEW R \in Seq(Nat), NEW P \in Seq(Nat), NEW n \in Nat, NEW t \in Nat,
         NEW L \in Nat, t >= n - L, NEW c \in Int, NEW b \in Int, b = c + L,
         Len(Newer(R, b)) <= Len(Newer(P, c))
  PROVE  Len(Newer(Append(R, n), b)) <= Len(Newer(Append(P, t), c))
<1>1. Len(Newer(R, b)) \in Nat /\ Len(Newer(Append(R, n), b)) = Len(Newer(R, b)) + IF n > b THEN 1 ELSE 0
  BY NewerAppend
<1>2. Len(Newer(P, c)) \in Nat /\ Len(Newer(Append(P, t), c)) = Len(Newer(P, c)) + IF t > c THEN 1 ELSE 0
  BY NewerAppend
<1> DEFINE x == Len(Newer(R, b))
           y == Len(Newer(P, c))
<1>3. x \in Nat /\ y \in Nat /\ x <= y
  BY <1>1, <1>2
<1> HIDE DEF x, y
<1>4. x + (IF n > b THEN 1 ELSE 0) <= y + IF t > c THEN 1 ELSE 0
  BY <1>3
<1> QED BY <1>1, <1>2, <1>4 DEF x, y

\* The stamps that count at t.
LEMMA PruneKeeps ==
  ASSUME LimiterTypes, NEW s \in Seq(Nat), NEW t \in Nat, NEW P, P = Prune(s, t)
  PROVE  /\ P \in Seq(Nat) /\ Len(P) \in Nat /\ Len(P) <= Len(s)
         /\ \A i \in 1 .. Len(P) : P[i] \in Nat /\ P[i] > t - policy.window
         /\ \A c \in Int : c >= t - policy.window => Newer(P, c) = Newer(s, c)
<1>1. t - policy.window \in Int
  BY DEF LimiterTypes
<1>2. P = Newer(s, t - policy.window)
  BY DEF Prune
<1> DEFINE b == t - policy.window
<1> HIDE DEF b
<1>3. b \in Int /\ P = Newer(s, b)
  BY <1>1, <1>2 DEF b
<1>4. P \in Seq(Nat)
  BY <1>3, NewerSteps
<1>5. /\ Len(P) <= Len(s) /\ \A i \in 1 .. Len(P) : P[i] > b
      /\ \A c \in Int : b <= c => Newer(P, c) = Newer(s, c)
  BY <1>3, NewerFilters DEF NewerIsFilter
<1>6. \A i \in 1 .. Len(P) : P[i] \in Nat
  BY <1>4
<1> QED BY <1>3, <1>4, <1>5, <1>6 DEF b

\* The oldest of some stamps is one of them.
LEMMA OldestIsOne ==
  ASSUME NEW P \in Seq(Nat), Len(P) > 0
  PROVE  /\ \E i \in 1 .. Len(P) : OldestFirst(P) = P[i]
         /\ \E i \in 1 .. Len(P) : OldestScore(P) = P[i]
<1>1. P # <<>> /\ DOMAIN P = 1 .. Len(P) /\ Len(P) \in Nat /\ 1 \in 1 .. Len(P)
  OBVIOUS
<1>2. OldestFirst(P) = P[1]
  BY <1>1 DEF OldestFirst
<1> DEFINE S == {P[i] : i \in DOMAIN P}
           Q(h) == \A i \in DOMAIN P : h <= P[i]
<1>3. S \in SUBSET Nat /\ S # {}
  BY <1>1
<1>4. \E h \in S : Q(h)
  <2>1. PICK h \in S : \A m \in S : h <= m
    BY <1>3, LeastNatural
  <2> QED BY <2>1
<1>5. OldestScore(P) = CHOOSE h \in S : Q(h)
  BY <1>1 DEF OldestScore
<1>6. OldestScore(P) \in S
  <2> HIDE DEF S, Q
  <2> QED BY <1>4, <1>5
<1> QED BY <1>1, <1>2, <1>6

\* Dividing a time by the refill rate, and rounding it for the header, loses nothing that
\* the other half of the promise does not give back.
LEMMA RetryIsEnough ==
  ASSUME NEW r \in Nat
  PROVE  /\ retryAfterHeader(r) * TicksPerSec + ((TicksPerSec - 1) \div 2) \in Nat
         /\ retryAfterHeader(r) * TicksPerSec + ((TicksPerSec - 1) \div 2) >= r
<1> DEFINE T == TicksPerSec
           q == (2 * r + T) \div (2 * T)
           z == (T - 1) \div 2
           h == retryAfterHeader(r)
<1>1. T \in Nat \ {0}
  BY ClockAssumption
<1>2. h = Greatest(q, 1)
  BY DEF retryAfterHeader, RoundDiv
<1>3. z \in Nat /\ 2 * z >= T - 2
  BY <1>1
<1>4. q \in Int /\ 2 * r + T < (2 * T) * q + 2 * T
  <2> DEFINE a == 2 * r + T
             b == 2 * T
  <2>1. a \in Int /\ b \in Nat \ {0}
    BY <1>1
  <2> HIDE DEF a, b
  <2>2. a \div b \in Int /\ a < b * (a \div b) + b
    BY <2>1
  <2> QED BY <2>2 DEF a, b
<1> HIDE DEF T, q, z, h
<1>5. h \in Nat /\ h >= q
  BY <1>2, <1>4 DEF Greatest
<1>6. (2 * T) * q <= 2 * (h * T) /\ h * T \in Nat
  <2>1. q * T <= h * T
    BY <1>1, <1>4, <1>5
  <2>2. (2 * T) * q = 2 * (q * T) /\ q * T \in Int /\ h * T \in Nat
    BY <1>1, <1>4, <1>5
  <2> QED BY <2>1, <2>2
<1>7. (2 * T) * q \in Int
  BY <1>1, <1>4
<1>8. h * T + z \in Nat /\ h * T + z >= r
  <2> DEFINE y == h * T
             w == (2 * T) * q
  <2>1. /\ y \in Nat /\ w \in Int /\ w <= 2 * y /\ 2 * r + T < w + 2 * T
        /\ z \in Nat /\ 2 * z >= T - 2 /\ T \in Nat
    BY <1>1, <1>3, <1>4, <1>6, <1>7
  <2> HIDE DEF y, w
  <2>2. y + z \in Nat /\ y + z >= r
    BY <2>1
  <2> QED BY <2>2 DEF y
<1> QED BY <1>8 DEF T, z, h

\* What a decision says, from tokens x and live stamps P, the oldest of which is o.
LEMMA DecisionMeans ==
  ASSUME LimiterTypes, policy.limit \in Nat \ {0}, NEW x \in Int, x >= 0,
         NEW P \in Seq(Nat), NEW o, NEW t \in Nat,
         Len(P) > 0 => o \in Nat /\ o > t - policy.window,
         NEW d, d = Decision(x, P, o, t)
  PROVE  /\ d.allowed = (x >= Unit /\ Len(P) < policy.limit)
         /\ (d.allowed /\ d.remaining > 0) => x - Unit >= Unit /\ Len(P) + 1 < policy.limit
         /\ ~d.allowed =>
              /\ d.retry \in Nat
              /\ x < Unit => x + d.retry * policy.refill >= Unit
              /\ Len(P) >= policy.limit => o + policy.window - t <= d.retry
<1>1. /\ Unit \in Nat \ {0} /\ policy.refill \in Nat \ {0} /\ policy.window \in Nat
      /\ Len(P) \in Nat /\ policy.limit \in Nat \ {0}
  BY ClockAssumption DEF Unit, LimiterTypes
<1> DEFINE cd == CeilDiv(Unit - x, policy.refill)
           bucketRetry == IF x >= Unit THEN 0 ELSE cd
           windowRetry == IF Len(P) < policy.limit THEN 0
                          ELSE Greatest(o + policy.window - t, 0)
           allowed == bucketRetry <= 0 /\ windowRetry <= 0
<1>2. x < Unit => cd \in Int /\ cd >= 1 /\ cd * policy.refill >= Unit - x
  <2> SUFFICES ASSUME x < Unit PROVE cd \in Int /\ cd >= 1 /\ cd * policy.refill >= Unit - x
    OBVIOUS
  <2> DEFINE a == Unit - x
  <2>1. a \in Nat /\ a > 0 /\ cd = CeilDiv(a, policy.refill)
    BY <1>1
  <2> HIDE DEF a, cd
  <2>2. cd \in Int /\ cd >= 1 /\ cd * policy.refill >= a
    BY <1>1, <2>1, CeilDivBounds
  <2> QED BY <2>2 DEF a
<1>3. Len(P) >= policy.limit => o + policy.window - t >= 1 /\ o \in Nat
  BY <1>1
<1>4. /\ d.allowed = allowed
      /\ d.remaining = Least((IF allowed THEN x - Unit ELSE x) \div Unit,
           Greatest(policy.limit - (IF allowed THEN Len(P) + 1 ELSE Len(P)), 0))
      /\ d.retry = Greatest(bucketRetry, windowRetry)
  BY DEF Decision
<1> HIDE DEF cd
<1>5. /\ bucketRetry \in Nat /\ (bucketRetry <= 0) = (x >= Unit)
      /\ x < Unit => bucketRetry = cd
  BY <1>1, <1>2
<1>6. /\ windowRetry \in Nat /\ (windowRetry <= 0) = (Len(P) < policy.limit)
      /\ Len(P) >= policy.limit => windowRetry = o + policy.window - t
  <2> DEFINE w == o + policy.window - t
             n == Len(P)
  <2>1. n \in Nat /\ policy.limit \in Nat
    BY <1>1
  <2>2. ASSUME n < policy.limit PROVE windowRetry = 0
    BY <2>2
  <2>3. ASSUME n >= policy.limit PROVE windowRetry = Greatest(w, 0) /\ w \in Nat /\ w >= 1
    BY <1>1, <1>3, <2>1, <2>3, SMTT(30)
  <2> HIDE DEF w, n, windowRetry
  <2>4. ASSUME n >= policy.limit PROVE windowRetry = w /\ w \in Nat /\ w >= 1
    BY <2>3, <2>4 DEF Greatest
  <2>5. /\ windowRetry \in Nat /\ (windowRetry <= 0) = (n < policy.limit)
        /\ n >= policy.limit => windowRetry = w
    BY <2>1, <2>2, <2>4
  <2> QED BY <2>5 DEF w, n
<1> HIDE DEF bucketRetry, windowRetry
<1>7. d.allowed = (x >= Unit /\ Len(P) < policy.limit)
  BY <1>4, <1>5, <1>6
<1>8. ASSUME d.allowed, d.remaining > 0
      PROVE  x - Unit >= Unit /\ Len(P) + 1 < policy.limit
  <2>1. allowed
    BY <1>4, <1>8
  <2> HIDE DEF allowed
  <2>2. d.remaining = Least((x - Unit) \div Unit, Greatest(policy.limit - (Len(P) + 1), 0))
    BY <1>4, <2>1
  <2> DEFINE g == (x - Unit) \div Unit
             l == Greatest(policy.limit - (Len(P) + 1), 0)
  <2>3. g \in Int /\ Unit * g <= x - Unit
    BY <1>1
  <2>4. l \in Int /\ (l > 0 => Len(P) + 1 < policy.limit)
    BY <1>1 DEF Greatest
  <2>5. d.remaining = Least(g, l)
    BY <2>2
  <2> HIDE DEF g, l
  <2>6. g > 0 /\ l > 0
    BY <1>8, <2>3, <2>4, <2>5 DEF Least
  <2>7. Unit * g >= Unit
    BY <1>1, <2>3, <2>6
  <2> QED BY <1>1, <2>3, <2>4, <2>6, <2>7
<1>9. d.retry \in Nat /\ d.retry >= bucketRetry /\ d.retry >= windowRetry
  BY <1>4, <1>5, <1>6 DEF Greatest
<1>10. ASSUME x < Unit PROVE x + d.retry * policy.refill >= Unit
  <2>1. d.retry >= cd /\ cd \in Int /\ cd * policy.refill >= Unit - x
    BY <1>2, <1>5, <1>9, <1>10
  <2>2. d.retry * policy.refill >= cd * policy.refill
    BY <1>1, <1>9, <2>1
  <2>3. d.retry * policy.refill \in Int /\ cd * policy.refill \in Int
    BY <1>1, <1>9, <2>1
  <2> QED BY <1>1, <2>1, <2>2, <2>3
<1>11. Len(P) >= policy.limit => o + policy.window - t <= d.retry
  BY <1>6, <1>9
<1> QED BY <1>7, <1>8, <1>9, <1>10, <1>11

\* A process starts with empty windows and has promised nothing.
LEMMA InitWindowInv == LimiterInit => WindowInv
<1> SUFFICES ASSUME LimiterInit PROVE WindowInv
  OBVIOUS
<1>1. LimiterInv
  BY InitLimiterInv
<1>2. policy.limit \in Nat \ {0}
  BY PolicyTypes DEF LimiterInit
<1>3. WindowTypes
  BY <1>2, LimiterBoundsAssumption DEF WindowTypes, LimiterInit, Never
<1>4. ASSUME NEW k \in LimiterKeys PROVE WindowOK(k) /\ PromiseOK(k)
  <2>1. window[k] = <<>> /\ recent[k] = <<>> /\ promise[k] = LimiterHorizon + 1 /\ lag \in Nat
    BY <1>1 DEF LimiterInit, Never, LimiterInv, LimiterTypes
  <2>2. PromiseOK(k)
    BY <2>1, LimiterBoundsAssumption DEF PromiseOK
  <2>3. \A c \in Int : Newer(<<>>, c) = <<>>
    BY NewerSteps
  <2>4. ASSUME NEW c \in Int PROVE Len(Newer(recent[k], c + lag)) <= Len(Newer(window[k], c))
    <3>1. c + lag \in Int
      BY <2>1
    <3>2. Newer(<<>>, c) = <<>> /\ Newer(<<>>, c + lag) = <<>>
      BY <2>3, <3>1, Zenon
    <3> QED BY <2>1, <3>2
  <2>5. Len(window[k]) <= policy.limit /\ 1 .. Len(recent[k]) = {}
    BY <1>2, <2>1
  <2>6. WindowOK(k)
    BY <2>4, <2>5 DEF WindowOK
  <2> QED BY <2>2, <2>6
<1> QED BY <1>1, <1>3, <1>4 DEF WindowInv

\* The decision of the local limiter is one from the tokens and the stamps that count, the
\* oldest of which it looks at.
LEMMA LocalDecides ==
  ASSUME WindowInv, NEW k \in LimiterKeys, NEW t \in Stamps,
         NEW d, d = LocalDecision(k, t), NEW P, P = Prune(window[k], t)
  PROVE  \E o : /\ Len(P) > 0 => \E i \in 1 .. Len(P) : o = P[i]
                /\ d = Decision(Refilled(k, t).tokens, P, o, t)
<1>1. P \in Seq(Nat)
  BY PruneKeeps, StampRange DEF WindowInv, LimiterInv, WindowTypes
<1>2. d = Decision(Refilled(k, t).tokens, P, OldestFirst(P), t)
  BY DEF LocalDecision
<1> QED BY <1>1, <1>2, OldestIsOne

\* The same for the script.
LEMMA ScriptDecides ==
  ASSUME WindowInv, NEW k \in LimiterKeys, NEW t \in Stamps,
         NEW d, d = RedisDecision(k, t), NEW P, P = Prune(window[k], t)
  PROVE  \E o : /\ Len(P) > 0 => \E i \in 1 .. Len(P) : o = P[i]
                /\ d = Decision(ScriptBucket(k, t).tokens, P, o, t)
<1>1. P \in Seq(Nat)
  BY PruneKeeps, StampRange DEF WindowInv, LimiterInv, WindowTypes
<1>2. d = Decision(ScriptBucket(k, t).tokens, P, OldestScore(P), t)
  BY DEF RedisDecision
<1> QED BY <1>1, <1>2, OldestIsOne

\* The window of a key after a decision for it: an admission adds a stamp, at most one
\* lag old, where there was room.
LEMMA DecidedWindow ==
  ASSUME WindowInv, NEW k \in LimiterKeys, NEW t \in Stamps, NEW P, P = Prune(window[k], t),
         NEW allowed \in BOOLEAN, allowed => Len(P) < policy.limit,
         UNCHANGED <<now, deployment>>, backend = "redis" => touched'[k] = now,
         window'[k] = IF allowed THEN Append(P, t) ELSE P,
         recent'[k] = IF allowed THEN Append(recent[k], now) ELSE recent[k]
  PROVE  window'[k] \in Seq(Nat) /\ recent'[k] \in Seq(Nat) /\ WindowOK(k)'
<1>1. /\ LimiterTypes /\ now \in Nat /\ lag \in Nat /\ policy.window \in Nat /\ policy.limit \in Nat
      /\ window[k] \in Seq(Nat) /\ recent[k] \in Seq(Nat)
      /\ t \in Nat /\ t <= now /\ t >= now - lag /\ WindowOK(k)
  BY StampRange DEF WindowInv, LimiterInv, LimiterTypes, WindowTypes
<1>2. /\ P \in Seq(Nat) /\ Len(P) \in Nat /\ Len(P) <= Len(window[k])
      /\ \A c \in Int : c >= t - policy.window => Newer(P, c) = Newer(window[k], c)
  <2> DEFINE s == window[k]
  <2>1. LimiterTypes /\ s \in Seq(Nat) /\ t \in Nat /\ P = Prune(s, t)
    BY <1>1
  <2> HIDE DEF s
  <2>2. /\ P \in Seq(Nat) /\ Len(P) \in Nat /\ Len(P) <= Len(s)
        /\ \A i \in 1 .. Len(P) : P[i] \in Nat /\ P[i] > t - policy.window
        /\ \A c \in Int : c >= t - policy.window => Newer(P, c) = Newer(s, c)
    BY <2>1, PruneKeeps, ZenonT(60)
  <2> QED BY <2>2 DEF s
<1>3. window'[k] \in Seq(Nat) /\ recent'[k] \in Seq(Nat)
  BY <1>1, <1>2
<1>4. Len(window'[k]) <= policy.limit
  <2>1. Len(P) <= policy.limit
    BY <1>1, <1>2 DEF WindowOK
  <2> QED BY <1>1, <1>2, <2>1
<1>5. ASSUME NEW c \in Int, c >= now - policy.window
      PROVE  Len(Newer(recent'[k], c + lag)) <= Len(Newer(window'[k], c))
  <2> DEFINE b == c + lag
  <2>1. b \in Int /\ c >= t - policy.window
    BY <1>1, <1>5
  <2>2. Len(Newer(recent[k], b)) <= Len(Newer(window[k], c))
    BY <1>1, <1>5 DEF WindowOK
  <2>3. Len(Newer(recent[k], b)) <= Len(Newer(P, c))
    BY <1>2, <2>1, <2>2
  <2>4. CASE ~allowed
    BY <2>3, <2>4
  <2>5. CASE allowed
    <3>1. recent'[k] = Append(recent[k], now) /\ window'[k] = Append(P, t)
      BY <2>5
    <3>2. b = c + lag
      OBVIOUS
    <3> HIDE DEF b
    <3>3. Len(Newer(Append(recent[k], now), b)) <= Len(Newer(Append(P, t), c))
      BY <1>1, <1>2, <2>1, <2>3, <3>2, AdmissionCounts, Zenon
    <3> QED BY <3>1, <3>2, <3>3
  <2> QED BY <2>4, <2>5
<1>6. \A i \in 1 .. Len(recent'[k]) : recent'[k][i] <= now
  <2> DEFINE R == recent[k]
             a == recent'[k]
  <2>1. R \in Seq(Nat) /\ now \in Nat /\ \A j \in 1 .. Len(R) : R[j] <= now
    BY <1>1 DEF WindowOK
  <2>2. a = Append(R, now) \/ a = R
    OBVIOUS
  <2> HIDE DEF R, a
  <2>3. CASE a = R
    <3>1. \A i \in 1 .. Len(a) : a[i] <= now
      BY <2>1, <2>3
    <3> QED BY <3>1 DEF a
  <2>4. CASE a = Append(R, now)
    <3>1. ASSUME NEW i \in 1 .. Len(a) PROVE a[i] <= now
      <4>1. a[i] = now \/ \E j \in 1 .. Len(R) : a[i] = R[j]
        BY <2>1, <2>4, AppendElements
      <4> QED BY <2>1, <4>1
    <3> QED BY <3>1 DEF a
  <2> QED BY <2>2, <2>3, <2>4
<1>7. lag' = lag /\ policy' = policy /\ backend' = backend /\ now' = now
  BY DEF deployment
<1>8. backend = "redis" => \A i \in 1 .. Len(recent'[k]) : recent'[k][i] <= touched'[k]
  BY <1>6
<1> QED BY <1>3, <1>4, <1>5, <1>6, <1>7, <1>8 DEF WindowOK

\* A bucket that has a token after n ticks has one after m, when that is later.
LEMMA TokensGrow ==
  ASSUME NEW a \in Int, NEW R \in Nat, NEW n \in Int, NEW m \in Int, m >= n,
         NEW U \in Int, a + n * R >= U
  PROVE  a + m * R >= U
<1>1. m * R >= n * R
  OBVIOUS
<1>2. m * R \in Int /\ n * R \in Int
  OBVIOUS
<1> QED BY <1>1, <1>2

\* What the promise of k may become with the answer d.
Promised(k, d) ==
  \/ promise'[k] = Never
  \/ d.allowed /\ d.remaining > 0 /\ promise'[k] = now
  \/ /\ ~d.allowed
     /\ promise'[k] = Least(Never, now + retryAfterHeader(d.retry) * TicksPerSec
                                       + (TicksPerSec - 1) \div 2)

\* The decision d for k at the stamp t, from tokens x and the stamps P that count, the oldest
\* of which is o.
Decides(k, t, P, x, o, d) ==
  /\ P = Prune(window[k], t) /\ x >= 0
  /\ Len(P) > 0 => \E i \in 1 .. Len(P) : o = P[i]
  /\ d = Decision(x, P, o, t)

\* An answer promises what the tokens x and the stamps P that it was computed from allow.
LEMMA DecidedPromise ==
  ASSUME WindowInv, NEW k \in LimiterKeys, NEW t \in Stamps,
         NEW P, NEW x \in Int, NEW o, NEW d, Decides(k, t, P, x, o, d),
         UNCHANGED <<now, deployment>>,
         window'[k] = IF d.allowed THEN Append(P, t) ELSE P,
         lag = 0 => tokenBucket'[k] = [tokens |-> d.tokens, last |-> now],
         Promised(k, d)
  PROVE  promise'[k] \in Nat /\ PromiseOK(k)'
<1>0. /\ P = Prune(window[k], t) /\ x >= 0 /\ d = Decision(x, P, o, t)
      /\ Len(P) > 0 => \E i \in 1 .. Len(P) : o = P[i]
  BY DEF Decides
<1>1. /\ LimiterTypes /\ now \in Nat /\ lag \in Nat /\ policy.window \in Nat /\ policy.limit \in Nat \ {0}
      /\ window[k] \in Seq(Nat) /\ policy.refill \in Nat /\ Unit \in Nat /\ LimiterHorizon \in Nat
      /\ t \in Nat /\ t <= now /\ t >= now - lag /\ Len(window[k]) <= policy.limit
  BY StampRange, BrimType, LimiterBoundsAssumption
     DEF WindowInv, LimiterInv, LimiterTypes, WindowTypes, WindowOK
<1>2. /\ P \in Seq(Nat) /\ Len(P) \in Nat /\ Len(P) <= Len(window[k])
      /\ \A i \in 1 .. Len(P) : P[i] \in Nat /\ P[i] > t - policy.window
  BY <1>0, <1>1, PruneKeeps, Zenon
<1>3. Len(P) > 0 => o \in Nat /\ o > t - policy.window
  BY <1>0, <1>2
<1>4. /\ d.allowed = (x >= Unit /\ Len(P) < policy.limit)
      /\ (d.allowed /\ d.remaining > 0) => x - Unit >= Unit /\ Len(P) + 1 < policy.limit
      /\ ~d.allowed =>
           /\ d.retry \in Nat
           /\ x < Unit => x + d.retry * policy.refill >= Unit
           /\ Len(P) >= policy.limit => o + policy.window - t <= d.retry
  BY <1>0, <1>1, <1>2, <1>3, DecisionMeans, SMTT(90)
<1>5. d.tokens = x - IF d.allowed THEN Unit ELSE 0
  BY <1>0, <1>1, DecisionTakes, ZenonT(60)
<1> DEFINE h == retryAfterHeader(d.retry) * TicksPerSec + ((TicksPerSec - 1) \div 2)
<1>6. ~d.allowed => h \in Nat /\ h >= d.retry
  BY <1>4, RetryIsEnough, Zenon
<1>7. ~d.allowed => now + retryAfterHeader(d.retry) * TicksPerSec + (TicksPerSec - 1) \div 2 = now + h
  <2> DEFINE y == retryAfterHeader(d.retry) * TicksPerSec
             z == (TicksPerSec - 1) \div 2
  <2> SUFFICES ASSUME ~d.allowed PROVE (now + y) + z = now + (y + z)
    OBVIOUS
  <2>1. d.retry \in Nat /\ TicksPerSec \in Nat \ {0}
    BY <1>4, ClockAssumption
  <2>2. retryAfterHeader(d.retry) \in Int
    BY <2>1 DEF retryAfterHeader, Greatest, RoundDiv
  <2>3. y \in Int /\ z \in Int
    BY <2>1, <2>2
  <2> HIDE DEF y, z
  <2> QED BY <1>1, <2>3
<1>8. \/ promise'[k] = LimiterHorizon + 1
      \/ d.allowed /\ d.remaining > 0 /\ promise'[k] = now
      \/ ~d.allowed /\ promise'[k] = Least(LimiterHorizon + 1, now + h)
  <2> HIDE DEF h
  <2> QED BY <1>7 DEF Promised, Never
<1> HIDE DEF h
<1>9. promise'[k] \in Nat
  BY <1>1, <1>6, <1>8 DEF Least
<1>10. ASSUME lag = 0, promise'[k] <= LimiterHorizon, NEW y \in Nat, y >= now, y >= promise'[k]
       PROVE  /\ tokenBucket'[k].tokens + (y - tokenBucket'[k].last) * policy.refill >= Unit
              /\ Len(Newer(window'[k], y - policy.window)) < policy.limit
  <2> DEFINE c == y - policy.window
  <2>1. tokenBucket'[k].tokens = d.tokens /\ tokenBucket'[k].last = now /\ t = now
    BY <1>1, <1>10
  <2>2. c \in Int /\ y - now \in Int /\ y - now >= 0
    BY <1>1, <1>10
  <2>3. CASE d.allowed
    <3>1. d.tokens = x - Unit /\ x - Unit >= Unit /\ Len(P) + 1 < policy.limit
      BY <1>1, <1>4, <1>5, <1>8, <1>10, <2>3
    <3>2. d.tokens + (y - now) * policy.refill >= Unit
      <4>1. (y - now) * policy.refill >= 0 /\ (y - now) * policy.refill \in Int
        BY <1>1, <2>2, SMTT(30)
      <4> QED BY <1>1, <3>1, <4>1
    <3>3. window'[k] = Append(P, t) /\ Append(P, t) \in Seq(Nat) /\ Len(Append(P, t)) = Len(P) + 1
      BY <1>1, <1>2, <2>3
    <3> DEFINE A == Append(P, t)
    <3>4. A \in Seq(Nat) /\ Len(A) = Len(P) + 1
      BY <3>3
    <3> HIDE DEF A, c
    <3>5. Len(Newer(A, c)) <= Len(A) /\ Newer(A, c) \in Seq(Nat)
      BY <2>2, <3>4, NewerFilters, NewerSteps DEF NewerIsFilter
    <3>6. Len(Newer(A, c)) \in Nat
      BY <3>5
    <3>7. Len(Newer(A, c)) < policy.limit
      BY <1>1, <1>2, <3>1, <3>4, <3>5, <3>6
    <3> QED BY <2>1, <3>2, <3>3, <3>7 DEF A, c
  <2>4. CASE ~d.allowed
    <3>1. d.retry \in Nat /\ y - now >= d.retry
      BY <1>1, <1>4, <1>6, <1>8, <1>10, <2>4 DEF Least
    <3>2. d.tokens = x
      BY <1>5, <2>4
    <3>3. x + (y - now) * policy.refill >= Unit
      <4>1. CASE x < Unit
        <5>1. x + d.retry * policy.refill >= Unit
          BY <1>4, <2>4, <4>1
        <5>2. d.retry \in Int /\ Unit \in Int
          BY <1>1, <3>1
        <5> QED BY <1>1, <2>2, <3>1, <5>1, <5>2, TokensGrow, Zenon
      <4>2. CASE x >= Unit
        <5>1. (y - now) * policy.refill >= 0 /\ (y - now) * policy.refill \in Int
          BY <1>1, <2>2
        <5> QED BY <1>1, <4>2, <5>1
      <4> QED BY <1>1, <4>1, <4>2
    <3>4. window'[k] = P
      BY <2>4
    <3>5. /\ Newer(P, c) \in Seq(Nat) /\ Len(Newer(P, c)) <= Len(P)
          /\ (\E j \in 1 .. Len(P) : P[j] <= c) => Len(Newer(P, c)) < Len(P)
      <4> HIDE DEF c
      <4> QED BY <1>2, <2>2, NewerFilters, NewerSteps DEF NewerIsFilter
    <3>6. Len(Newer(P, c)) \in Nat
      BY <3>5
    <3>7. Len(P) >= policy.limit => \E j \in 1 .. Len(P) : P[j] <= c
      <4> SUFFICES ASSUME Len(P) >= policy.limit PROVE \E j \in 1 .. Len(P) : P[j] <= c
        OBVIOUS
      <4>1. Len(P) > 0
        BY <1>1, <1>2
      <4>2. o + policy.window - t <= d.retry /\ o \in Nat
        BY <1>3, <1>4, <2>4, <4>1
      <4>3. o <= c
        <5> DEFINE n == d.retry
                   w == policy.window
        <5>1. n \in Nat /\ w \in Nat /\ o \in Nat /\ o + w - now <= n /\ y - now >= n
          BY <1>1, <2>1, <3>1, <4>2
        <5> HIDE DEF n, w
        <5>2. o <= y - w
          BY <1>1, <5>1, SMTT(30)
        <5> QED BY <5>2 DEF w
      <4> QED BY <1>0, <4>1, <4>3
    <3> HIDE DEF c
    <3>8. Len(Newer(P, c)) < policy.limit
      <4> DEFINE n == Len(Newer(P, c))
                 p == Len(P)
                 w == Len(window[k])
      <4>1. p >= policy.limit => n < p
        BY <3>5, <3>7, Zenon
      <4>2. n \in Nat /\ p \in Nat /\ n <= p /\ p <= w /\ w \in Nat
        BY <1>1, <1>2, <3>5, <3>6
      <4>3. w <= policy.limit /\ policy.limit \in Nat
        BY <1>1
      <4> HIDE DEF n, p, w
      <4>4. n < policy.limit
        BY <4>1, <4>2, <4>3
      <4> QED BY <4>4 DEF n
    <3> QED BY <2>1, <3>2, <3>3, <3>4, <3>8 DEF c
  <2> QED BY <2>3, <2>4
<1>11. lag' = lag /\ policy' = policy /\ now' = now
  BY DEF deployment
<1> QED BY <1>9, <1>10, <1>11 DEF PromiseOK, Unit

\* A key that the request is not for keeps its stamps; its bucket may be swept.
LEMMA OtherKeyWindow ==
  ASSUME NEW k \in LimiterKeys, WindowOK(k), PromiseOK(k), UNCHANGED <<now, deployment>>,
         window'[k] = window[k], recent'[k] = recent[k], touched'[k] = touched[k],
         promise'[k] = promise[k] \/ promise'[k] = LimiterHorizon + 1,
         tokenBucket'[k] = tokenBucket[k] \/ tokenBucket'[k] = Absent
  PROVE  WindowOK(k)' /\ PromiseOK(k)'
<1>1. lag' = lag /\ policy' = policy /\ now' = now /\ backend' = backend /\ Unit' = Unit
  BY DEF deployment, Unit
<1>2. WindowOK(k)'
  BY <1>1 DEF WindowOK
<1>3. PromiseOK(k)'
  <2>1. CASE promise'[k] = promise[k]
    BY <1>1, <2>1 DEF PromiseOK
  <2>2. CASE promise'[k] = LimiterHorizon + 1
    BY <2>2, LimiterBoundsAssumption DEF PromiseOK
  <2> QED BY <2>1, <2>2
<1> QED BY <1>2, <1>3

\* A request for k that leaves the other keys alone keeps the invariant when it keeps
\* k's part of it.
LEMMA RequestKeepsWindowInv ==
  ASSUME WindowInv, LimiterInv', NEW k \in LimiterKeys, UNCHANGED <<now, deployment>>,
         NEW W \in Seq(Nat), window' = [window EXCEPT ![k] = W],
         NEW R \in Seq(Nat), recent' = [recent EXCEPT ![k] = R],
         NEW q \in Nat, promise' = [promise EXCEPT ![k] = q],
         \A j \in LimiterKeys : j # k => /\ touched'[j] = touched[j]
                                         /\ tokenBucket'[j] = tokenBucket[j] \/ tokenBucket'[j] = Absent,
         WindowOK(k)' /\ PromiseOK(k)'
  PROVE  WindowInv'
<1>1. WindowTypes /\ LimiterKeys' = LimiterKeys /\ policy' = policy /\ now' = now
  BY DEF WindowInv, deployment, LimiterKeys
<1>2. WindowTypes'
  BY <1>1 DEF WindowTypes
<1>3. ASSUME NEW j \in LimiterKeys, j # k PROVE WindowOK(j)' /\ PromiseOK(j)'
  <2>1. window'[j] = window[j] /\ recent'[j] = recent[j] /\ promise'[j] = promise[j]
    BY <1>1, <1>3 DEF WindowTypes
  <2>2. WindowOK(j) /\ PromiseOK(j)
    BY DEF WindowInv
  <2>3. touched'[j] = touched[j] /\ (tokenBucket'[j] = tokenBucket[j] \/ tokenBucket'[j] = Absent)
    BY <1>3
  <2>4. promise'[j] = promise[j] \/ promise'[j] = LimiterHorizon + 1
    BY <2>1
  <2> QED BY <2>1, <2>2, <2>3, <2>4, OtherKeyWindow
<1> QED BY <1>1, <1>2, <1>3 DEF WindowInv

\* What an answer makes of the promise of its key.
LEMMA AnswerPromises ==
  ASSUME WindowTypes, NEW k \in LimiterKeys, NEW d, d.allowed \in BOOLEAN, Answer(k, d)
  PROVE  promise' = [promise EXCEPT ![k] = promise'[k]] /\ Promised(k, d)
<1> DEFINE v == CASE d.allowed /\ d.remaining > 0 -> now
                  [] ~d.allowed -> Least(Never, now + retryAfterHeader(d.retry) * TicksPerSec
                                                    + (TicksPerSec - 1) \div 2)
                  [] OTHER -> Never
<1>1. promise' = [promise EXCEPT ![k] = v]
  BY DEF Answer
<1>2. \/ v = Never
      \/ d.allowed /\ d.remaining > 0 /\ v = now
      \/ /\ ~d.allowed
         /\ v = Least(Never, now + retryAfterHeader(d.retry) * TicksPerSec
                                 + (TicksPerSec - 1) \div 2)
  OBVIOUS
<1> HIDE DEF v
<1>3. promise'[k] = v
  BY <1>1 DEF WindowTypes
<1> QED BY <1>1, <1>2, <1>3 DEF Promised

\* A decision for k, from tokens x and the stamps that count.
LEMMA DecisionKeepsWindowInv ==
  ASSUME WindowInv, LimiterInv', NEW k \in LimiterKeys, NEW t \in Stamps,
         NEW P, NEW x \in Int, NEW o, NEW d, Decides(k, t, P, x, o, d),
         UNCHANGED <<now, deployment>>,
         window' = [window EXCEPT ![k] = IF d.allowed THEN Append(P, t) ELSE P],
         recent' = IF d.allowed THEN [recent EXCEPT ![k] = Append(recent[k], now)] ELSE recent,
         promise' = [promise EXCEPT ![k] = promise'[k]], Promised(k, d),
         backend = "redis" => touched'[k] = now,
         lag = 0 => tokenBucket'[k] = [tokens |-> d.tokens, last |-> now],
         \A j \in LimiterKeys : j # k => /\ touched'[j] = touched[j]
                                         /\ tokenBucket'[j] = tokenBucket[j] \/ tokenBucket'[j] = Absent
  PROVE  WindowInv'
<1>0. /\ P = Prune(window[k], t) /\ x >= 0 /\ d = Decision(x, P, o, t)
      /\ Len(P) > 0 => \E i \in 1 .. Len(P) : o = P[i]
  BY DEF Decides
<1>1. /\ LimiterTypes /\ WindowTypes /\ t \in Nat /\ now \in Nat /\ policy.limit \in Nat \ {0}
      /\ window[k] \in Seq(Nat) /\ recent[k] \in Seq(Nat) /\ policy.window \in Nat
  BY StampRange DEF WindowInv, LimiterInv, LimiterTypes, WindowTypes
<1>2. P \in Seq(Nat) /\ \A i \in 1 .. Len(P) : P[i] \in Nat /\ P[i] > t - policy.window
  BY <1>0, <1>1, PruneKeeps, Zenon
<1>3. d.allowed \in BOOLEAN
  BY <1>0, <1>1, DecisionTakes, Zenon
<1>4. d.allowed => Len(P) < policy.limit
  <2>1. Len(P) > 0 => o \in Nat /\ o > t - policy.window
    BY <1>0, <1>2
  <2>2. d.allowed = (x >= Unit /\ Len(P) < policy.limit)
    BY <1>0, <1>1, <1>2, <2>1, DecisionMeans, SMTT(30)
  <2> QED BY <2>2
<1>5. window'[k] = IF d.allowed THEN Append(P, t) ELSE P
  BY <1>1 DEF WindowTypes
<1>6. recent'[k] = IF d.allowed THEN Append(recent[k], now) ELSE recent[k]
  BY <1>1 DEF WindowTypes
<1>7. recent' = [recent EXCEPT ![k] = recent'[k]] /\ window' = [window EXCEPT ![k] = window'[k]]
  <2>1. window' = [window EXCEPT ![k] = window'[k]]
    BY <1>5
  <2>2. CASE d.allowed
    BY <1>6, <2>1, <2>2
  <2>3. CASE ~d.allowed
    BY <1>1, <1>6, <2>1, <2>3 DEF WindowTypes
  <2> QED BY <2>2, <2>3
<1>8. window'[k] \in Seq(Nat) /\ recent'[k] \in Seq(Nat) /\ WindowOK(k)'
  <2> DEFINE allowed == d.allowed
  <2>1. /\ allowed \in BOOLEAN /\ (allowed => Len(P) < policy.limit)
        /\ window'[k] = IF allowed THEN Append(P, t) ELSE P
        /\ recent'[k] = IF allowed THEN Append(recent[k], now) ELSE recent[k]
    BY <1>3, <1>4, <1>5, <1>6
  <2> HIDE DEF allowed
  <2> QED BY <1>0, <2>1, DecidedWindow, SMTT(30)
<1>9. promise'[k] \in Nat /\ PromiseOK(k)'
  BY <1>5, DecidedPromise, Zenon
<1> QED BY <1>7, <1>8, <1>9, RequestKeepsWindowInv, Zenon

\* The local limiter decides.
LEMMA LocalKeepsWindowInv ==
  ASSUME WindowInv, NEW r \in Callers, NEW t \in Stamps, LocalAllow(r, t)
  PROVE  WindowInv'
<1> DEFINE k == KeyFunc(r)
           d == LocalDecision(k, t)
           b == Refilled(k, t)
           P == Prune(window[k], t)
<1>1. k \in LimiterKeys /\ LimiterInv /\ LimiterTypes /\ WindowTypes /\ t \in Nat /\ t <= now
  BY KeyOfRequest, StampRange DEF WindowInv, LimiterInv
<1>2. /\ tokenBucket' = [j \in LimiterKeys |->
           CASE j = k -> [tokens |-> d.tokens, last |-> b.last]
             [] j # k /\ j \in Swept(t) -> Absent
             [] OTHER -> tokenBucket[j]]
      /\ window' = [window EXCEPT ![k] = IF d.allowed THEN Append(P, t) ELSE P]
      /\ recent' = IF d.allowed THEN [recent EXCEPT ![k] = Append(recent[k], now)] ELSE recent
      /\ Answer(k, d) /\ UNCHANGED <<now, deployment>> /\ touched' = touched
      /\ backend = "local"
  BY DEF LocalAllow, Count
<1>3. /\ b.tokens \in Int /\ b.tokens >= 0 /\ b.last \in Int /\ b.last <= now /\ b.last >= now - lag
  BY <1>1, LocalEntry
<1>4. \E o : /\ Len(P) > 0 => \E i \in 1 .. Len(P) : o = P[i]
             /\ d = Decision(b.tokens, P, o, t)
  BY <1>1, LocalDecides
<1>5. LimiterInv'
  BY <1>1, LocalKeepsLimiterInv
<1>6. backend # "redis"
  BY <1>2
<1> HIDE DEF k, d, b, P
<1>7. P = Prune(window[k], t)
  BY DEF P
<1>8. tokenBucket'[k] = [tokens |-> d.tokens, last |-> b.last]
  BY <1>1, <1>2
<1>9. lag = 0 => b.last = now
  BY <1>1, <1>3 DEF LimiterTypes
<1>10. PICK o : /\ Len(P) > 0 => \E i \in 1 .. Len(P) : o = P[i]
                /\ d = Decision(b.tokens, P, o, t)
  BY <1>4
<1>11. promise' = [promise EXCEPT ![k] = promise'[k]] /\ Promised(k, d)
  <2>1. d.allowed \in BOOLEAN
    BY <1>1, <1>3, <1>10, DecisionTakes, Zenon
  <2> QED BY <1>1, <1>2, <2>1, AnswerPromises, SMTT(30)
<1>12. \A j \in LimiterKeys : j # k =>
         /\ touched'[j] = touched[j]
         /\ tokenBucket'[j] = tokenBucket[j] \/ tokenBucket'[j] = Absent
  BY <1>2
<1>13. lag = 0 => tokenBucket'[k] = [tokens |-> d.tokens, last |-> now]
  BY <1>8, <1>9
<1>14. backend = "redis" => touched'[k] = now
  BY <1>6
<1>15. /\ window' = [window EXCEPT ![k] = IF d.allowed THEN Append(P, t) ELSE P]
       /\ recent' = IF d.allowed THEN [recent EXCEPT ![k] = Append(recent[k], now)] ELSE recent
       /\ UNCHANGED <<now, deployment>>
  BY <1>2
<1>16. Decides(k, t, P, b.tokens, o, d)
  BY <1>3, <1>7, <1>10 DEF Decides
<1> QED BY <1>1, <1>3, <1>5, <1>11, <1>12, <1>13, <1>14, <1>15, <1>16, DecisionKeepsWindowInv, Zenon

\* The script decides, and its reply arrives or is lost.
LEMMA ScriptKeepsWindowInv ==
  ASSUME WindowInv, NEW k \in LimiterKeys, NEW t \in Stamps, Script(k, t),
         Answer(k, RedisDecision(k, t)) \/ promise' = [promise EXCEPT ![k] = Never]
  PROVE  WindowInv'
<1> DEFINE d == RedisDecision(k, t)
           b == ScriptBucket(k, t)
           P == Prune(window[k], t)
<1>1. /\ LimiterInv /\ LimiterTypes /\ WindowTypes /\ t \in Nat /\ t <= now /\ t >= now - lag
      /\ now \in Nat /\ lag \in Nat
  BY StampRange DEF WindowInv, LimiterInv, LimiterTypes
<1>2. /\ tokenBucket' = [tokenBucket EXCEPT ![k] = [tokens |-> d.tokens, last |-> t]]
      /\ window' = [window EXCEPT ![k] = IF d.allowed THEN Append(P, t) ELSE P]
      /\ recent' = IF d.allowed THEN [recent EXCEPT ![k] = Append(recent[k], now)] ELSE recent
      /\ UNCHANGED <<now, deployment>> /\ touched' = [touched EXCEPT ![k] = now]
  BY DEF Script, Count
<1>3. b.tokens \in Int /\ b.tokens >= 0
  BY <1>1, ScriptEntry
<1>4. \E o : /\ Len(P) > 0 => \E i \in 1 .. Len(P) : o = P[i]
             /\ d = Decision(b.tokens, P, o, t)
  BY ScriptDecides
<1>5. LimiterInv'
  BY <1>1, ScriptKeepsLimiterInv
<1>6. Answer(k, d) \/ promise' = [promise EXCEPT ![k] = Never]
  OBVIOUS
<1>7. P = Prune(window[k], t)
  OBVIOUS
<1> HIDE DEF d, b, P
<1>8. tokenBucket'[k] = [tokens |-> d.tokens, last |-> t] /\ touched'[k] = now
  BY <1>1, <1>2 DEF LimiterTypes
<1>9. lag = 0 => tokenBucket'[k] = [tokens |-> d.tokens, last |-> now]
  BY <1>1, <1>8
<1>10. PICK o : /\ Len(P) > 0 => \E i \in 1 .. Len(P) : o = P[i]
                /\ d = Decision(b.tokens, P, o, t)
  BY <1>4
<1>11. promise' = [promise EXCEPT ![k] = promise'[k]] /\ Promised(k, d)
  <2>1. d.allowed \in BOOLEAN
    BY <1>1, <1>3, <1>10, DecisionTakes, Zenon
  <2>2. CASE Answer(k, d)
    BY <1>1, <2>1, <2>2, AnswerPromises, SMTT(30)
  <2>3. CASE promise' = [promise EXCEPT ![k] = Never]
    <3>1. promise'[k] = Never
      BY <1>1, <2>3 DEF WindowTypes
    <3> QED BY <2>3, <3>1 DEF Promised
  <2> QED BY <1>6, <2>2, <2>3
<1>12. \A j \in LimiterKeys : j # k =>
         /\ touched'[j] = touched[j]
         /\ tokenBucket'[j] = tokenBucket[j] \/ tokenBucket'[j] = Absent
  BY <1>1, <1>2 DEF LimiterTypes
<1>13. /\ window' = [window EXCEPT ![k] = IF d.allowed THEN Append(P, t) ELSE P]
       /\ recent' = IF d.allowed THEN [recent EXCEPT ![k] = Append(recent[k], now)] ELSE recent
       /\ UNCHANGED <<now, deployment>> /\ (backend = "redis" => touched'[k] = now)
  BY <1>2, <1>8
<1>14. Decides(k, t, P, b.tokens, o, d)
  BY <1>3, <1>7, <1>10 DEF Decides
<1> QED BY <1>3, <1>5, <1>9, <1>11, <1>12, <1>13, <1>14, DecisionKeepsWindowInv, Zenon

\* Time passes: what Redis forgets has left the window.
LEMMA TickKeepsWindowInv ==
  ASSUME WindowInv, LimiterTick
  PROVE  WindowInv'
<1>1. /\ LimiterInv /\ LimiterTypes /\ WindowTypes /\ now \in Nat /\ lag \in Nat
      /\ policy.window \in Nat /\ policy.limit \in Nat \ {0} /\ policy.refill \in Nat \ {0}
  BY DEF WindowInv, LimiterInv, LimiterTypes, WindowTypes
<1>2. /\ now' = now + 1 /\ now' <= LimiterHorizon /\ lag' = lag /\ policy' = policy
      /\ backend' = backend /\ promise' = promise /\ LimiterKeys' = LimiterKeys /\ Unit' = Unit
  BY <1>1, LimiterBoundsAssumption DEF LimiterTick, deployment, LimiterKeys, Unit
<1> DEFINE e == now + 1 - policy.window
<1>3. e \in Int
  BY <1>1
<1>4. ASSUME NEW k \in LimiterKeys
      PROVE  /\ tokenBucket'[k] = IF Expired(k, BucketTTL) THEN Absent ELSE tokenBucket[k]
             /\ window'[k] = IF Expired(k, policy.window) THEN <<>> ELSE window[k]
             /\ recent'[k] = Newer(recent[k], e)
             /\ touched'[k] = IF Expired(k, BucketTTL) THEN 0 ELSE touched[k]
  BY DEF LimiterTick
<1>5. BucketTTL \in Int /\ BucketTTL >= policy.window
  <2> DEFINE v == CeilDiv(Brim, policy.refill)
  <2>1. v \in Int
    BY <1>1, BrimType, CeilDivBounds
  <2>2. BucketTTL = Greatest(v, policy.window)
    BY DEF BucketTTL, Brim
  <2> HIDE DEF v
  <2> QED BY <1>1, <2>1, <2>2 DEF Greatest
<1> HIDE DEF e
<1>6. \A c \in Int : Newer(<<>>, c) = <<>>
  BY NewerSteps
<1>7. ASSUME NEW k \in LimiterKeys
      PROVE  window'[k] \in Seq(Nat) /\ recent'[k] \in Seq(Nat) /\ WindowOK(k)' /\ PromiseOK(k)'
  <2> DEFINE R == recent[k]
             N == Newer(R, e)
  <2>1. /\ R \in Seq(Nat) /\ window[k] \in Seq(Nat) /\ touched[k] \in Int
        /\ WindowOK(k) /\ PromiseOK(k)
    BY <1>1 DEF WindowInv, WindowTypes, LimiterTypes
  <2>2. N \in Seq(Nat)
    BY <1>3, <2>1, NewerSteps
  <2>3. /\ \A i \in 1 .. Len(N) : N[i] > e /\ \E j \in 1 .. Len(R) : R[j] = N[i]
        /\ \A c \in Int : e <= c => Newer(N, c) = Newer(R, c)
    BY <1>3, <2>1, NewerFilters DEF NewerIsFilter
  <2>4. recent'[k] = N
    BY <1>4
  <2>5. window'[k] \in Seq(Nat)
    <3>1. <<>> \in Seq(Nat)
      OBVIOUS
    <3>2. window'[k] = <<>> \/ window'[k] = window[k]
      BY <1>4
    <3> QED BY <2>1, <3>1, <3>2, Zenon
  <2>6. \A i \in 1 .. Len(N) : N[i] \in Nat /\ N[i] <= now /\ (backend = "redis" => N[i] <= touched[k])
    <3>1. \A j \in 1 .. Len(R) : R[j] <= now /\ (backend = "redis" => R[j] <= touched[k])
      BY <2>1 DEF WindowOK
    <3>2. ASSUME NEW i \in 1 .. Len(N)
          PROVE  N[i] <= now /\ (backend = "redis" => N[i] <= touched[k])
      <4>1. PICK j \in 1 .. Len(R) : R[j] = N[i]
        BY <2>3
      <4> HIDE DEF N, R
      <4> QED BY <3>1, <4>1
    <3>3. \A i \in 1 .. Len(N) : N[i] \in Nat
      <4> HIDE DEF N
      <4> QED BY <2>2
    <3> QED BY <3>2, <3>3
  <2> HIDE DEF N, R
  <2>7. ASSUME Expired(k, policy.window) PROVE N = <<>>
    <3>1. backend = "redis" /\ touched[k] + policy.window <= now + 1
      BY <2>7 DEF Expired
    <3>2. touched[k] <= e
      BY <1>1, <2>1, <3>1 DEF e
    <3>3. ASSUME NEW i \in 1 .. Len(N) PROVE FALSE
      <4> DEFINE n == N[i]
      <4>1. n \in Nat /\ n > e /\ n <= touched[k]
        BY <2>3, <2>6, <3>1, <3>3
      <4> HIDE DEF n
      <4> QED BY <1>3, <2>1, <3>2, <4>1
    <3>4. Len(N) \in Nat
      BY <2>2
    <3>5. Len(N) = 0
      BY <3>3, <3>4
    <3> QED BY <2>2, <3>5
  <2>8. Expired(k, BucketTTL) => Expired(k, policy.window)
    BY <1>1, <1>5, <2>1 DEF Expired
  <2>9. Len(window'[k]) <= policy.limit
    <3>1. CASE Expired(k, policy.window)
      BY <1>1, <1>4, <3>1
    <3>2. CASE ~Expired(k, policy.window)
      BY <1>4, <2>1, <3>2 DEF WindowOK
    <3> QED BY <3>1, <3>2
  <2>10. ASSUME NEW c \in Int, c >= now + 1 - policy.window
         PROVE  Len(Newer(N, c + lag)) <= Len(Newer(window'[k], c))
    <3> DEFINE b == c + lag
    <3>1. b \in Int /\ e <= b /\ c >= now - policy.window
      BY <1>1, <2>10 DEF e
    <3>2. CASE Expired(k, policy.window)
      <4>1. N = <<>> /\ window'[k] = <<>>
        BY <1>4, <2>7, <3>2
      <4> HIDE DEF b
      <4>2. Newer(N, b) = <<>> /\ Newer(window'[k], c) = <<>>
        BY <1>6, <3>1, <4>1
      <4>3. Len(Newer(N, b)) <= Len(Newer(window'[k], c))
        BY <4>2
      <4> QED BY <4>3 DEF b
    <3>3. CASE ~Expired(k, policy.window)
      <4>1. window'[k] = window[k]
        BY <1>4, <3>3
      <4>2. Len(Newer(R, b)) <= Len(Newer(window[k], c))
        BY <2>1, <3>1 DEF WindowOK, R
      <4>3. Newer(N, b) = Newer(R, b)
        <5> HIDE DEF b
        <5> QED BY <2>3, <3>1
      <4> QED BY <4>1, <4>2, <4>3
    <3> QED BY <3>2, <3>3
  <2>11. ASSUME backend = "redis", NEW i \in 1 .. Len(N) PROVE N[i] <= touched'[k]
    <3>1. ~Expired(k, policy.window)
      <4> SUFFICES ASSUME Expired(k, policy.window) PROVE FALSE
        OBVIOUS
      <4>1. N = <<>>
        BY <2>7
      <4> QED BY <2>11, <4>1
    <3>2. touched'[k] = touched[k]
      BY <1>4, <2>8, <3>1
    <3> QED BY <2>6, <2>11, <3>2
  <2>12. \A i \in 1 .. Len(N) : N[i] <= now + 1
    BY <1>1, <2>6
  <2>13. WindowOK(k)'
    <3>1. ASSUME NEW c \in Int, c >= now' - policy'.window
          PROVE  Len(Newer(recent'[k], c + lag')) <= Len(Newer(window'[k], c))
      <4>1. c >= now + 1 - policy.window
        BY <1>1, <1>2, <3>1
      <4>2. Len(Newer(N, c + lag)) <= Len(Newer(window'[k], c))
        BY <2>10, <4>1, Zenon
      <4> QED BY <1>2, <2>4, <4>2, Zenon
    <3>2. /\ Len(window'[k]) <= policy'.limit
          /\ \A i \in 1 .. Len(recent'[k]) : recent'[k][i] <= now'
          /\ backend' = "redis" => \A i \in 1 .. Len(recent'[k]) : recent'[k][i] <= touched'[k]
      BY <1>2, <2>4, <2>9, <2>11, <2>12
    <3> QED BY <3>1, <3>2 DEF WindowOK
  <2>14. PromiseOK(k)'
    <3> SUFFICES ASSUME lag = 0, promise[k] <= LimiterHorizon,
                        NEW x \in Nat, x >= now + 1, x >= promise[k]
                 PROVE  /\ tokenBucket'[k] # Absent =>
                             tokenBucket'[k].tokens + (x - tokenBucket'[k].last) * policy.refill >= Unit
                        /\ Len(Newer(window'[k], x - policy.window)) < policy.limit
      BY <1>2 DEF PromiseOK
    <3>1. x >= now
      BY <1>1
    <3>2. /\ tokenBucket[k] # Absent =>
               tokenBucket[k].tokens + (x - tokenBucket[k].last) * policy.refill >= Unit
          /\ Len(Newer(window[k], x - policy.window)) < policy.limit
      BY <2>1, <3>1 DEF PromiseOK
    <3>3. tokenBucket'[k] = Absent \/ tokenBucket'[k] = tokenBucket[k]
      BY <1>4
    <3>4. CASE Expired(k, policy.window)
      <4>1. x - policy.window \in Int /\ window'[k] = <<>>
        BY <1>1, <1>4, <3>4
      <4>2. Newer(window'[k], x - policy.window) = <<>>
        BY <1>6, <4>1, Zenon
      <4>3. Len(Newer(window'[k], x - policy.window)) < policy.limit
        BY <1>1, <4>2
      <4> QED BY <3>2, <3>3, <4>3
    <3>5. CASE ~Expired(k, policy.window)
      <4>1. window'[k] = window[k]
        BY <1>4, <3>5
      <4> QED BY <3>2, <3>3, <4>1
    <3> QED BY <3>4, <3>5
  <2> QED BY <2>2, <2>4, <2>5, <2>13, <2>14
<1>8. WindowTypes'
  <2>1. window' \in [LimiterKeys -> Seq(Nat)] /\ recent' \in [LimiterKeys -> Seq(Nat)]
    BY <1>7 DEF LimiterTick
  <2> QED BY <1>1, <1>2, <2>1 DEF WindowTypes
<1>9. LimiterInv'
  BY <1>1, TickKeepsLimiterInv
<1> QED BY <1>2, <1>7, <1>8, <1>9 DEF WindowInv

\* Every step of the limiter keeps the invariant.
LEMMA NextWindowInv == WindowInv /\ [LimiterNext]_<<now, limiterVars>> => WindowInv'
<1> SUFFICES ASSUME WindowInv, [LimiterNext]_<<now, limiterVars>> PROVE WindowInv'
  OBVIOUS
<1>0. LimiterInv' /\ WindowTypes
  BY NextLimiterInv DEF WindowInv
<1>1. ASSUME UNCHANGED <<now, deployment, tokenBucket, window, touched, recent>>,
             promise' \in [LimiterKeys -> Nat],
             \A k \in LimiterKeys : promise'[k] = promise[k] \/ promise'[k] = LimiterHorizon + 1
      PROVE  WindowInv'
  <2>1. LimiterKeys' = LimiterKeys
    BY DEF LimiterKeys
  <2>2. WindowTypes'
    BY <1>0, <1>1, <2>1 DEF WindowTypes, deployment
  <2>3. ASSUME NEW k \in LimiterKeys PROVE WindowOK(k)' /\ PromiseOK(k)'
    <3>1. WindowOK(k) /\ PromiseOK(k) /\ UNCHANGED <<now, deployment>>
      BY <1>1 DEF WindowInv
    <3>2. /\ window'[k] = window[k] /\ recent'[k] = recent[k] /\ touched'[k] = touched[k]
          /\ tokenBucket'[k] = tokenBucket[k]
          /\ promise'[k] = promise[k] \/ promise'[k] = LimiterHorizon + 1
      BY <1>1
    <3> QED BY <3>1, <3>2, OtherKeyWindow, Zenon
  <2> QED BY <1>0, <2>1, <2>2, <2>3 DEF WindowInv
<1>2. CASE LimiterTick
  BY <1>2, TickKeepsWindowInv
<1>3. ASSUME NEW r \in Callers, Bypass(r) PROVE WindowInv'
  <2>1. promise' \in [LimiterKeys -> Nat] /\ promise' = promise
    BY <1>0, <1>3 DEF Bypass, WindowTypes
  <2> QED BY <1>1, <1>3, <2>1 DEF Bypass
<1>4. ASSUME NEW r \in Callers, RedisDown(r) PROVE WindowInv'
  <2>1. promise' \in [LimiterKeys -> Nat]
    <3>1. promise' = [promise EXCEPT ![KeyFunc(r)] = Never] /\ Never \in Nat
      BY <1>4, LimiterBoundsAssumption DEF RedisDown, Never
    <3> QED BY <1>0, <3>1 DEF WindowTypes
  <2>2. \A k \in LimiterKeys : promise'[k] = promise[k] \/ promise'[k] = LimiterHorizon + 1
    BY <1>0, <1>4 DEF RedisDown, WindowTypes, Never
  <2> QED BY <1>1, <1>4, <2>1, <2>2 DEF RedisDown
<1>5. ASSUME NEW r \in Callers, NEW t \in Stamps, LocalAllow(r, t) PROVE WindowInv'
  BY <1>5, LocalKeepsWindowInv
<1>6. ASSUME NEW r \in Callers, NEW t \in Stamps, RedisAllow(r, t) \/ RedisReplyLost(r, t)
      PROVE  WindowInv'
  <2>1. KeyFunc(r) \in LimiterKeys
    BY KeyOfRequest
  <2> DEFINE k == KeyFunc(r)
  <2>2. /\ Script(k, t)
        /\ Answer(k, RedisDecision(k, t)) \/ promise' = [promise EXCEPT ![k] = Never]
    BY <1>6 DEF RedisAllow, RedisReplyLost
  <2> HIDE DEF k
  <2> QED BY <2>1, <2>2, ScriptKeepsWindowInv DEF k
<1>7. CASE UNCHANGED <<now, limiterVars>>
  <2>1. promise' \in [LimiterKeys -> Nat] /\ promise' = promise
    BY <1>0, <1>7 DEF limiterVars, WindowTypes
  <2> QED BY <1>1, <1>7, <2>1 DEF limiterVars, deployment
<1> QED BY <1>2, <1>3, <1>4, <1>5, <1>6, <1>7 DEF LimiterNext

\* In any interval of one window less the lag, either limiter admits at most the sustained
\* limit of a key's requests: through sweeps, expired keys, lost replies and late stamps.
THEOREM SlidingWindowHoldsHolds == LimiterSpec => []SlidingWindowHolds
<1>1. WindowInv => SlidingWindowHolds
  <2> SUFFICES ASSUME WindowInv, NEW k \in LimiterKeys
               PROVE  Len(Newer(recent[k], now - (policy.window - lag))) <= policy.limit
    BY DEF SlidingWindowHolds
  <2>1. /\ now \in Nat /\ lag \in Nat /\ policy.window \in Nat /\ policy.limit \in Nat
        /\ window[k] \in Seq(Nat) /\ recent[k] \in Seq(Nat) /\ WindowOK(k)
    BY DEF WindowInv, WindowTypes, LimiterInv, LimiterTypes
  <2> DEFINE c == now - policy.window
             b == c + lag
  <2>2. c \in Int /\ c >= now - policy.window /\ b \in Int /\ now - (policy.window - lag) = b
    BY <2>1
  <2>3. Len(Newer(recent[k], b)) <= Len(Newer(window[k], c)) /\ Len(window[k]) <= policy.limit
    BY <2>1, <2>2 DEF WindowOK
  <2> HIDE DEF c, b
  <2>4. Len(Newer(window[k], c)) <= Len(window[k])
    BY <2>1, <2>2, NewerFilters DEF NewerIsFilter
  <2>5. Newer(recent[k], b) \in Seq(Nat) /\ Newer(window[k], c) \in Seq(Nat)
    BY <2>1, <2>2, NewerSteps
  <2>6. Len(Newer(recent[k], b)) \in Nat /\ Len(Newer(window[k], c)) \in Nat /\ Len(window[k]) \in Nat
    BY <2>1, <2>5
  <2>7. Len(Newer(recent[k], b)) <= policy.limit
    BY <2>1, <2>3, <2>4, <2>6
  <2> QED BY <2>2, <2>7
<1> QED BY <1>1, InitWindowInv, NextWindowInv, PTL DEF LimiterSpec

\* With accurate stamps a limiter admits the request that its last answer announced: the
\* next one when it left requests remaining, one after the Retry-After of a denial.
THEOREM HonestHeadersHolds == LimiterSpec => []HonestHeaders
<1>1. WindowInv => HonestHeaders
  <2> SUFFICES ASSUME WindowInv, NEW k \in LimiterKeys, lag = 0, now >= promise[k]
               PROVE  IF backend = "local" THEN LocalDecision(k, now).allowed
                                           ELSE RedisDecision(k, now).allowed
    BY DEF HonestHeaders
  <2> DEFINE P == Prune(window[k], now)
  <2>1. /\ LimiterInv /\ LimiterTypes /\ now \in Nat /\ policy.window \in Nat
        /\ policy.limit \in Nat \ {0} /\ policy.capacity \in Nat \ {0} /\ policy.refill \in Nat
        /\ window[k] \in Seq(Nat) /\ PromiseOK(k) /\ promise[k] \in Nat /\ now <= LimiterHorizon
        /\ Unit \in Nat /\ Brim \in Nat
    BY BrimType DEF WindowInv, WindowTypes, LimiterInv, LimiterTypes
  <2>2. now \in Stamps
    BY <2>1 DEF Stamps, Greatest
  <2>3. /\ tokenBucket[k] # Absent =>
             tokenBucket[k].tokens + (now - tokenBucket[k].last) * policy.refill >= Unit
        /\ Len(Newer(window[k], now - policy.window)) < policy.limit
    BY <2>1, LimiterBoundsAssumption DEF PromiseOK
  <2>4. Len(P) < policy.limit
    BY <2>3 DEF Prune
  <2>5. Brim >= Unit
    BY <2>1 DEF Brim
  <2>6. tokenBucket[k] # Absent => tokenBucket[k].tokens \in Int /\ tokenBucket[k].last \in Int
                                   /\ tokenBucket[k].last <= now /\ tokenBucket[k].tokens >= 0
    BY <2>1, BucketTypes
  <2>7. P \in Seq(Nat) /\ \A i \in 1 .. Len(P) : P[i] \in Nat /\ P[i] > now - policy.window
    BY <2>1, PruneKeeps
  <2> HIDE DEF P
  <2>8. ASSUME NEW d, NEW x \in Int, x >= Unit,
               \E o : /\ Len(P) > 0 => \E i \in 1 .. Len(P) : o = P[i]
                      /\ d = Decision(x, P, o, now)
        PROVE  d.allowed
    <3>1. PICK o : /\ Len(P) > 0 => \E i \in 1 .. Len(P) : o = P[i]
                   /\ d = Decision(x, P, o, now)
      BY <2>8
    <3>2. Len(P) > 0 => o \in Nat /\ o > now - policy.window
      BY <2>7, <3>1
    <3>3. x >= 0
      BY <2>1, <2>8
    <3>4. d.allowed = (x >= Unit /\ Len(P) < policy.limit)
      BY <2>1, <2>7, <3>1, <3>2, <3>3, DecisionMeans, Zenon
    <3> QED BY <2>4, <2>8, <3>4
  <2>9. Refilled(k, now).tokens \in Int /\ ScriptBucket(k, now).tokens \in Int
    BY <2>1, <2>2, LocalEntry, ScriptEntry
  <2>10. Refilled(k, now).tokens >= Unit
    <3>1. CASE tokenBucket[k] = Absent \/ k \in Swept(now)
      BY <2>5, <3>1 DEF Refilled, Full, Brim
    <3>2. CASE tokenBucket[k] # Absent /\ k \notin Swept(now) /\ now > tokenBucket[k].last
      <4>1. Refilled(k, now) = Earned(tokenBucket[k], now)
        BY <3>2 DEF Refilled
      <4>2. Refilled(k, now).tokens = Least(Brim, tokenBucket[k].tokens
                                              + (now - tokenBucket[k].last) * policy.refill)
        BY <4>1 DEF Earned, Brim
      <4> QED BY <2>1, <2>3, <2>5, <3>2, <4>2 DEF Least
    <3>3. CASE tokenBucket[k] # Absent /\ k \notin Swept(now) /\ ~(now > tokenBucket[k].last)
      <4>1. Refilled(k, now) = tokenBucket[k]
        BY <3>3 DEF Refilled
      <4>2. now = tokenBucket[k].last
        BY <2>1, <2>6, <3>3
      <4>3. (now - tokenBucket[k].last) * policy.refill = 0
        BY <2>1, <4>2
      <4> QED BY <2>1, <2>3, <2>6, <3>3, <4>1, <4>3
    <3> QED BY <3>1, <3>2, <3>3
  <2>11. ScriptBucket(k, now).tokens >= Unit
    <3>1. CASE tokenBucket[k] = Absent
      BY <2>5, <3>1 DEF ScriptBucket, Full, Brim
    <3>2. CASE tokenBucket[k] # Absent
      <4>1. Least(tokenBucket[k].last, now) = tokenBucket[k].last
        BY <2>1, <2>6, <3>2 DEF Least
      <4>2. tokenBucket[k] \in [tokens : Int, last : Int]
        BY <2>1, <3>2 DEF LimiterTypes
      <4>3. [tokenBucket[k] EXCEPT !.last = Least(@, now)] = tokenBucket[k]
        BY <4>1, <4>2
      <4>4. ScriptBucket(k, now) = Earned(tokenBucket[k], now)
        BY <3>2, <4>3 DEF ScriptBucket
      <4>5. ScriptBucket(k, now).tokens = Least(Brim, tokenBucket[k].tokens
                                                  + (now - tokenBucket[k].last) * policy.refill)
        BY <4>4 DEF Earned, Brim
      <4> QED BY <2>1, <2>3, <2>5, <3>2, <4>5 DEF Least
    <3> QED BY <3>1, <3>2
  <2>12. LocalDecision(k, now).allowed
    <3>1. \E o : /\ Len(P) > 0 => \E i \in 1 .. Len(P) : o = P[i]
                 /\ LocalDecision(k, now) = Decision(Refilled(k, now).tokens, P, o, now)
      BY <2>2, LocalDecides DEF P
    <3> QED BY <2>8, <2>9, <2>10, <3>1
  <2>13. RedisDecision(k, now).allowed
    <3>1. \E o : /\ Len(P) > 0 => \E i \in 1 .. Len(P) : o = P[i]
                 /\ RedisDecision(k, now) = Decision(ScriptBucket(k, now).tokens, P, o, now)
      BY <2>2, ScriptDecides DEF P
    <3> QED BY <2>8, <2>9, <2>11, <3>1
  <2> QED BY <2>12, <2>13
<1> QED BY <1>1, InitWindowInv, NextWindowInv, PTL DEF LimiterSpec

-----------------------------------------------------------------------------
(* The login abuse guard.                                                  *)

\* Growth from b by a factor m, in N steps.
Grows(g, b, m, N) == g = [i \in 0 .. N |-> IF i = 0 THEN b ELSE m * g[i - 1]]

\* Growth is defined, and by naturals.
LEMMA GrowthExists ==
  ASSUME NEW b \in Nat, NEW m \in Nat, NEW N \in Nat
  PROVE  \E g \in [0 .. N -> Nat] : Grows(g, b, m, N)
<1> SUFFICES ASSUME ~ \E g \in [0 .. N -> Nat] : Grows(g, b, m, N) PROVE FALSE
  OBVIOUS
<1> DEFINE S == {k \in Nat : ~ \E g \in [0 .. k -> Nat] : Grows(g, b, m, k)}
<1>1. PICK k \in S : \A j \in S : k <= j
  <2>1. S \in SUBSET Nat /\ N \in S
    OBVIOUS
  <2> HIDE DEF S
  <2> QED BY <2>1, LeastNatural
<1>2. k # 0
  <2>1. Grows([i \in 0 .. 0 |-> b], b, m, 0)
    BY DEF Grows
  <2> QED BY <2>1
<1>3. k \in Nat /\ k - 1 \in Nat /\ k - 1 \notin S
  <2>1. k \in Nat
    BY <1>1
  <2> HIDE DEF S
  <2> QED BY <1>1, <1>2, <2>1
<1>4. PICK g \in [0 .. k - 1 -> Nat] : Grows(g, b, m, k - 1)
  BY <1>3
<1> DEFINE h == [i \in 0 .. k |-> IF i = k THEN m * g[k - 1] ELSE g[i]]
<1>5. h \in [0 .. k -> Nat]
  <2>1. m * g[k - 1] \in Nat
    BY <1>3, <1>4
  <2> QED BY <1>1, <1>3, <2>1
<1>6. ASSUME NEW i \in 0 .. k PROVE h[i] = IF i = 0 THEN b ELSE m * h[i - 1]
  <2>1. i # k => i \in 0 .. k - 1 /\ (i # 0 => i - 1 \in 0 .. k - 1 /\ i - 1 # k)
    BY <1>1, <1>2
  <2>2. i # k => g[i] = IF i = 0 THEN b ELSE m * g[i - 1]
    BY <1>4, <2>1 DEF Grows
  <2>3. k - 1 \in 0 .. k /\ k - 1 # k
    BY <1>1, <1>3
  <2> QED BY <1>1, <1>2, <2>1, <2>2, <2>3, SMTT(30)
<1>7. Grows(h, b, m, k)
  <2>1. h = [i \in 0 .. k |-> h[i]]
    OBVIOUS
  <2> HIDE DEF h
  <2> QED BY <1>6, <2>1, Zenon DEF Grows
<1> QED BY <1>1, <1>5, <1>7

\* Two growths agree as far as both go.
LEMMA GrowthUnique ==
  ASSUME NEW b, NEW m, NEW N \in Nat, NEW M \in Nat, NEW g, NEW h,
         Grows(g, b, m, N), Grows(h, b, m, M), NEW i \in Nat, i <= N, i <= M
  PROVE  g[i] = h[i]
<1> SUFFICES ASSUME g[i] # h[i] PROVE FALSE
  OBVIOUS
<1> DEFINE S == {k \in 0 .. i : g[k] # h[k]}
<1>1. PICK k \in S : \A j \in S : k <= j
  <2>1. S \in SUBSET Nat /\ i \in S
    OBVIOUS
  <2> HIDE DEF S
  <2> QED BY <2>1, LeastNatural
<1>2. k \in 0 .. N /\ k \in 0 .. M
  BY <1>1
<1>3. /\ g[k] = IF k = 0 THEN b ELSE m * g[k - 1]
      /\ h[k] = IF k = 0 THEN b ELSE m * h[k - 1]
  BY <1>2 DEF Grows
<1>4. k # 0 => g[k - 1] = h[k - 1]
  BY <1>1
<1> QED BY <1>1, <1>3, <1>4

\* The types of the policy in force.
GuardPolicy ==
  /\ guard.free \in Nat /\ guard.base \in Nat \ {0} /\ guard.multiplier \in Nat \ {0}
  /\ guard.max \in Nat /\ guard.reset \in Nat \ {0}

\* The delay of the n-th failure is one of a growth from the base delay.
LEMMA PowerGrows ==
  ASSUME GuardPolicy, NEW n \in Nat, n > guard.free
  PROVE  \E g \in [0 .. n - guard.free - 1 -> Nat] :
           /\ Grows(g, guard.base, guard.multiplier, n - guard.free - 1)
           /\ Power(n) = g[n - guard.free - 1]
<1> DEFINE N == n - guard.free - 1
           b == guard.base
           m == guard.multiplier
           h == CHOOSE f : Grows(f, b, m, N)
<1>1. N \in Nat /\ b \in Nat /\ m \in Nat
  BY DEF GuardPolicy
<1>2. PICK g \in [0 .. N -> Nat] : Grows(g, b, m, N)
  BY <1>1, GrowthExists
<1>3. Grows(h, b, m, N)
  BY <1>2
<1>4. Power(n) = h[N]
  BY DEF Power, Grows
<1>5. h[N] = g[N]
  <2> HIDE DEF h, N, b, m
  <2> QED BY <1>1, <1>2, <1>3, GrowthUnique
<1> QED BY <1>2, <1>4, <1>5

\* The delays start at the base delay and grow by the multiplier.
LEMMA PowerSteps ==
  ASSUME GuardPolicy, NEW n \in Nat, n > guard.free
  PROVE  /\ Power(n) \in Nat
         /\ Power(n + 1) = guard.multiplier * Power(n)
<1> DEFINE N == n - guard.free - 1
           b == guard.base
           m == guard.multiplier
<1>1. N \in Nat /\ N + 1 \in Nat /\ n + 1 \in Nat /\ n + 1 > guard.free
      /\ (n + 1) - guard.free - 1 = N + 1
  BY DEF GuardPolicy
<1>2. PICK g \in [0 .. N -> Nat] : Grows(g, b, m, N) /\ Power(n) = g[N]
  BY PowerGrows
<1>3. PICK h \in [0 .. N + 1 -> Nat] : Grows(h, b, m, N + 1) /\ Power(n + 1) = h[N + 1]
  <2> HIDE DEF N
  <2> QED BY <1>1, PowerGrows
<1> HIDE DEF N, b, m
<1>4. g[N] = h[N] /\ N <= N + 1
  BY <1>1, <1>2, <1>3, GrowthUnique
<1>5. h[N + 1] = m * h[N]
  <2>1. N + 1 \in 0 .. N + 1 /\ N + 1 # 0 /\ (N + 1) - 1 = N
    BY <1>1
  <2>2. h[N + 1] = IF N + 1 = 0 THEN b ELSE m * h[(N + 1) - 1]
    BY <1>3, <2>1 DEF Grows
  <2> QED BY <2>1, <2>2
<1> QED BY <1>1, <1>2, <1>3, <1>4, <1>5 DEF m

\* What the guard waits for after the n-th failure, when it fits a Duration.
Wait(n) == IF n <= guard.free THEN 0 ELSE Least(Power(n), guard.max)

\* Waiting times are naturals, and never get shorter from one failure to the next.
LEMMA WaitGrows ==
  ASSUME GuardPolicy, NEW n \in Nat
  PROVE  Wait(n) \in Nat /\ Wait(n) <= guard.max /\ Wait(n) <= Wait(n + 1)
<1>1. CASE n <= guard.free
  <2>1. n + 1 > guard.free => Power(n + 1) \in Nat
    BY PowerSteps DEF GuardPolicy
  <2> QED BY <1>1, <2>1 DEF Wait, Least, GuardPolicy
<1>2. CASE n > guard.free
  <2>1. Power(n) \in Nat /\ Power(n + 1) = guard.multiplier * Power(n)
    BY <1>2, PowerSteps
  <2>2. Power(n + 1) \in Nat /\ Power(n + 1) >= Power(n)
    BY <2>1 DEF GuardPolicy
  <2> HIDE <2>1
  <2>3. Power(n) \in Nat
    BY <2>1
  <2> QED BY <1>2, <2>2, <2>3 DEF Wait, Least, GuardPolicy
<1> QED BY <1>1, <1>2 DEF GuardPolicy

\* So a longer streak waits at least as long.
LEMMA WaitMonotone ==
  ASSUME GuardPolicy, NEW n \in Nat, NEW m \in Nat, n <= m
  PROVE  Wait(n) <= Wait(m)
<1> SUFFICES ASSUME ~(Wait(n) <= Wait(m)) PROVE FALSE
  OBVIOUS
<1> DEFINE S == {k \in Nat : n <= k /\ ~(Wait(n) <= Wait(k))}
<1>1. PICK k \in S : \A j \in S : k <= j
  <2>1. S \in SUBSET Nat /\ m \in S
    OBVIOUS
  <2> HIDE DEF S
  <2> QED BY <2>1, LeastNatural
<1>2. k \in Nat /\ n <= k /\ ~(Wait(n) <= Wait(k))
  BY <1>1
<1>3. k # n
  BY <1>2, WaitGrows
<1>4. k - 1 \in Nat /\ k - 1 \notin S
  <2> HIDE DEF S
  <2> QED BY <1>1, <1>2, <1>3
<1>5. Wait(n) <= Wait(k - 1)
  BY <1>2, <1>3, <1>4
<1>6. Wait(k - 1) <= Wait(k) /\ Wait(k) \in Nat /\ Wait(k - 1) \in Nat /\ Wait(n) \in Nat
  <2>1. (k - 1) + 1 = k
    BY <1>2
  <2> QED BY <1>2, <1>4, <2>1, WaitGrows
<1> QED BY <1>2, <1>5, <1>6

\* What is chosen at start-up, and all that is computed from it, stays as it is.
LEMMA ChosenStays ==
  ASSUME UNCHANGED chosen
  PROVE  /\ guard' = guard /\ store' = store /\ scope' = scope
         /\ GuardPolicy' = GuardPolicy
         /\ \A n : Power(n)' = Power(n)
         /\ \A n : Wait(n)' = Wait(n)
         /\ Overflows' = Overflows
         /\ \A s : Due(s)' = Due(s)
         /\ \A s, t : Recalled(s, t)' = Recalled(s, t)
         /\ \A e, t : Cooling(e, t)' = Cooling(e, t)
<1>1. guard' = guard /\ store' = store /\ scope' = scope
  BY DEF chosen
<1>2. \A n : Power(n)' = Power(n)
  BY <1>1, Zenon DEF Power
<1>3. \A n : Wait(n)' = Wait(n)
  BY <1>1, <1>2, Zenon DEF Wait, Least
<1>4. Overflows' = Overflows
  BY <1>1, <1>2, Zenon DEF Overflows
<1>5. GuardPolicy' = GuardPolicy
  BY <1>1, Zenon DEF GuardPolicy
<1>6. \A s : Due(s)' = Due(s)
  BY <1>1, <1>2, Zenon DEF Due, Least
<1>7. \A s, t : Recalled(s, t)' = Recalled(s, t)
  BY <1>1, Zenon DEF Recalled
<1>8. \A e, t : Cooling(e, t)' = Cooling(e, t)
  BY <1>1, Zenon DEF Cooling
<1> QED BY <1>1, <1>2, <1>3, <1>4, <1>5, <1>6, <1>7, <1>8, Zenon

\* Types: counters, the points where a request can be, the state.
GuardEntry == [count : Nat, last : Nat, until : Int]
GuardSteps == {"idle", "check", "verify", "count", "count address"}
GuardTry ==
  [pc : GuardSteps, id : Identities \cup {NoEntry}, ip : Addresses \cup {NoEntry}, stamp : Nat,
   barred : BOOLEAN, due : Int, dueAddress : Int]
GuardTypes ==
  /\ now \in Nat /\ GuardPolicy /\ store \in {"memory", "redis"}
  /\ entry \in [GuardKeys -> GuardEntry \cup {NoEntry}]
  /\ log \in [GuardKeys -> Seq(Nat)]
  /\ try \in [Attempts -> GuardTry]

\* An entry counts what it was asked to, in the past, and its cooldown is the one for
\* that count.
EntryOK(k) ==
  entry[k] # NoEntry =>
    /\ entry[k].count \in 1 .. MaxFailures /\ entry[k].last <= now
    /\ ~Overflows => entry[k].until = entry[k].last + Wait(entry[k].count)

\* The failures the history remembers are recent, and the entry knows of them all.
LogOK(k) ==
  log[k] # <<>> =>
    /\ now - log[k][Len(log[k])] <= guard.reset
    /\ entry[k] # NoEntry
    /\ entry[k].last = log[k][Len(log[k])] /\ Len(log[k]) <= entry[k].count

\* A stamp in use is in the past, and no older than a call may take.
StampOK(q) ==
  try[q].pc # "idle" =>
    /\ try[q].id \in Identities /\ try[q].ip \in Addresses /\ try[q].stamp <= now
    /\ try[q].pc # "verify" => now - try[q].stamp <= Hold
    /\ try[q].pc = "check" => store = "redis"

\* The address still bars the request whose account name does not.
Barring(q) ==
  /\ entry[try[q].ip] # NoEntry /\ Cooling(entry[try[q].ip], try[q].stamp)
  /\ try[q].dueAddress <= try[q].stamp + Wait(entry[try[q].ip].count)
  /\ try[q].dueAddress <= entry[try[q].ip].last + Hold + guard.reset + 1

\* What the failures before its arrival call for is over when a request is verified.  While
\* a request is between the two reads of Check this holds of its account name unless it is
\* barred, and of its address unless that will bar it.
DueOK(q) ==
  /\ At(q, "check") => try[q].dueAddress <= try[q].stamp + guard.reset + 1
  /\ (At(q, "verify") \/ (At(q, "check") /\ ~try[q].barred)) => try[q].due <= now + Hold
  /\ At(q, "verify") => try[q].dueAddress <= now + Hold
  /\ (At(q, "check") /\ ~try[q].barred) => try[q].dueAddress <= now + Hold \/ Barring(q)

\* The inductive invariant of the guard.
GuardInv ==
  /\ GuardTypes
  /\ \A k \in GuardKeys : EntryOK(k) /\ LogOK(k)
  /\ \A q \in Attempts : StampOK(q) /\ (~Overflows => DueOK(q))

\* Nothing is counted when the process starts.
LEMMA InitGuardInv == GuardInit => GuardInv
<1> SUFFICES ASSUME GuardInit PROVE GuardInv
  OBVIOUS
<1>1. GuardPolicy
  <2>1. PICK p \in GuardPolicies : guard = normalizeAuthAbusePolicy(p)
    BY DEF GuardInit
  <2>2. /\ p.free \in Nat /\ p.base \in Nat \ {0} /\ p.multiplier \in Nat \ {0}
        /\ p.max \in Nat /\ p.reset \in Nat \ {0}
    BY GuardPoliciesAssumption
  <2> QED BY <2>1, <2>2, ClockAssumption DEF GuardPolicy, normalizeAuthAbusePolicy, Greatest
<1>2. GuardTypes
  BY <1>1 DEF GuardTypes, GuardInit, Idle, GuardTry, GuardKeys, GuardSteps
<1>3. \A k \in GuardKeys : EntryOK(k) /\ LogOK(k)
  BY DEF EntryOK, LogOK, GuardInit
<1>4. \A q \in Attempts : StampOK(q) /\ DueOK(q)
  BY DEF StampOK, DueOK, GuardInit, At, Idle
<1> QED BY <1>2, <1>3, <1>4 DEF GuardInv

\* The delay for n failures is the waiting time, unless it overflows.
LEMMA DelayIsWait ==
  ASSUME GuardPolicy, NEW n \in 1 .. MaxFailures, NEW d \in Delays(n)
  PROVE  d \in Int /\ (~Overflows => d = Wait(n))
<1>1. n \in Nat /\ MaxFailures \in Nat /\ MaxDuration \in Nat
  BY GuardBoundsAssumption
<1>2. CASE n <= guard.free
  BY <1>1, <1>2 DEF Delays, Wait, GuardPolicy
<1>3. CASE n > guard.free
  <2>1. Power(n) \in Nat /\ n \in guard.free + 1 .. MaxFailures
    BY <1>1, <1>3, PowerSteps DEF GuardPolicy
  <2>2. d \in {guard.max, -MaxDuration} \/ d = Least(Power(n), guard.max)
    BY <1>1, <1>3 DEF Delays, GuardPolicy
  <2>3. ~Overflows => d = Least(Power(n), guard.max)
    BY <1>1, <1>3, <2>1 DEF Delays, GuardPolicy, Overflows
  <2> QED BY <1>1, <1>3, <2>1, <2>2, <2>3 DEF Wait, GuardPolicy, Least
<1> QED BY <1>1, <1>2, <1>3 DEF GuardPolicy

\* An entry after one more failure.
LEMMA BumpedEntry ==
  ASSUME GuardInv, NEW k \in GuardKeys, NEW t \in Nat, Counted(entry[k], t) <= MaxFailures,
         NEW e \in Bumped(entry[k], t)
  PROVE  /\ e \in GuardEntry /\ e.last = t /\ e.count = Counted(entry[k], t)
         /\ e.count \in 1 .. MaxFailures
         /\ ~Overflows => e.until = t + Wait(e.count)
<1>1. GuardPolicy /\ (entry[k] # NoEntry => entry[k] \in GuardEntry)
  BY DEF GuardInv, GuardTypes
<1>2. Counted(entry[k], t) \in Nat /\ Counted(entry[k], t) >= 1
  BY <1>1 DEF Counted, GuardEntry
<1>3. Counted(entry[k], t) \in 1 .. MaxFailures
  BY <1>2, GuardBoundsAssumption
<1>4. PICK d \in Delays(Counted(entry[k], t)) :
        e = [count |-> Counted(entry[k], t), last |-> t, until |-> t + d]
  BY DEF Bumped
<1>5. d \in Int /\ (~Overflows => d = Wait(Counted(entry[k], t)))
  BY <1>1, <1>3, <1>4, DelayIsWait
<1> QED BY <1>2, <1>3, <1>4, <1>5 DEF GuardEntry

\* An entry is not what stands for none.
LEMMA EntryIsSome == \A e \in GuardEntry : e # NoEntry
BY NoEntryAssumption DEF GuardEntry

\* What a key calls for is an integer.
LEMMA DueType ==
  ASSUME GuardInv, NEW k \in GuardKeys
  PROVE  Due(log[k]) \in Int
<1>1. GuardPolicy /\ log[k] \in Seq(Nat) /\ Len(log[k]) \in Nat
  BY DEF GuardInv, GuardTypes
<1>2. CASE Len(log[k]) <= guard.free
  BY <1>2 DEF Due
<1>3. CASE Len(log[k]) > guard.free
  <2>1. Power(Len(log[k])) \in Nat
    BY <1>1, <1>3, PowerSteps
  <2>2. log[k][Len(log[k])] \in Nat
    BY <1>1, <1>3 DEF GuardPolicy
  <2> DEFINE L == log[k][Len(log[k])]
             v == Power(Len(log[k]))
  <2>3. L \in Nat /\ v \in Nat /\ guard.max \in Nat /\ guard.reset \in Nat
    BY <1>1, <2>1, <2>2 DEF GuardPolicy
  <2>4. Due(log[k]) = L + Least(Least(v, guard.max), guard.reset + 1)
    BY <1>1, <1>3 DEF Due, GuardPolicy
  <2> HIDE DEF L, v
  <2> QED BY <2>3, <2>4 DEF Least
<1> QED BY <1>1, <1>2, <1>3 DEF GuardPolicy

\* What a request that arrives now owes for key k: nothing any more, or the entry
\* of k is cooling.
LEMMA DueIsCooling ==
  ASSUME GuardInv, ~Overflows, NEW k \in GuardKeys
  PROVE  /\ Due(log[k]) \in Nat /\ Due(log[k]) <= now + guard.reset + 1
         /\ \/ Due(log[k]) <= now
            \/ /\ entry[k] # NoEntry /\ Cooling(entry[k], now)
               /\ Due(log[k]) <= now + Wait(entry[k].count)
               /\ Due(log[k]) <= entry[k].last + guard.reset + 1
<1>1. GuardPolicy /\ now \in Nat /\ log[k] \in Seq(Nat) /\ Len(log[k]) \in Nat
  BY DEF GuardInv, GuardTypes
<1>2. CASE Len(log[k]) <= guard.free
  BY <1>1, <1>2 DEF Due, GuardPolicy
<1>3. CASE Len(log[k]) > guard.free
  <2>1. log[k] # <<>>
    BY <1>1, <1>3 DEF GuardPolicy
  <2>2. /\ entry[k] # NoEntry /\ entry[k] \in GuardEntry
        /\ now - entry[k].last <= guard.reset
        /\ entry[k].last = log[k][Len(log[k])] /\ Len(log[k]) <= entry[k].count
        /\ entry[k].last <= now
        /\ entry[k].until = entry[k].last + Wait(entry[k].count)
    BY <2>1 DEF GuardInv, GuardTypes, LogOK, EntryOK
  <2>3. entry[k].last \in Nat /\ entry[k].count \in Nat
    BY <2>2 DEF GuardEntry
  <2>4. Wait(Len(log[k])) \in Nat /\ Wait(entry[k].count) \in Nat
        /\ Wait(Len(log[k])) <= Wait(entry[k].count)
    BY <1>1, <2>2, <2>3, WaitGrows, WaitMonotone
  <2>5. Due(log[k]) = entry[k].last + Least(Wait(Len(log[k])), guard.reset + 1)
    BY <1>1, <1>3, <2>2 DEF Due, Wait, GuardPolicy
  <2>6. Cooling(entry[k], now) <=> entry[k].until > now
    BY <2>2 DEF Cooling
  <2> DEFINE L == entry[k].last
             v == Wait(Len(log[k]))
             w == Wait(entry[k].count)
             D == Due(log[k])
             U == entry[k].until
  <2>7. L \in Nat /\ v \in Nat /\ w \in Nat /\ v <= w /\ guard.reset \in Nat /\ now \in Nat
        /\ D = L + Least(v, guard.reset + 1) /\ L <= now /\ U = L + w
    BY <1>1, <2>2, <2>3, <2>4, <2>5 DEF GuardPolicy
  <2> HIDE DEF L, v, w, D, U
  <2>8. D \in Nat /\ D <= L + guard.reset + 1 /\ D <= L + w
    BY <2>7 DEF Least
  <2>9. /\ D \in Nat /\ D <= now + guard.reset + 1
        /\ D <= now \/ (U > now /\ D <= now + w /\ D <= L + guard.reset + 1)
    BY <2>7, <2>8
  <2> QED BY <2>2, <2>6, <2>9 DEF L, w, D, U
<1> QED BY <1>1, <1>2, <1>3 DEF GuardPolicy

\* A key whose failure is counted.
LEMMA CountedKey ==
  ASSUME GuardInv, now' = now, UNCHANGED chosen, NEW k \in GuardKeys, NEW t \in Nat, t <= now,
         Counted(entry[k], t) <= MaxFailures, entry'[k] \in Bumped(entry[k], t),
         log'[k] = Recalled(Append(log[k], t), now)
  PROVE  entry'[k] \in GuardEntry /\ log'[k] \in Seq(Nat) /\ EntryOK(k)' /\ LogOK(k)'
<1>1. /\ entry'[k] \in GuardEntry /\ entry'[k].last = t /\ entry'[k].count = Counted(entry[k], t)
      /\ entry'[k].count \in 1 .. MaxFailures
      /\ ~Overflows => entry'[k].until = t + Wait(entry'[k].count)
  BY BumpedEntry
<1>2. EntryOK(k)'
  BY <1>1, ChosenStays DEF EntryOK
<1>3. /\ GuardPolicy /\ now \in Nat /\ log[k] \in Seq(Nat) /\ LogOK(k)
      /\ guard' = guard
  BY ChosenStays DEF GuardInv, GuardTypes
<1>4. entry'[k] # NoEntry
  BY <1>1, EntryIsSome
<1>5. CASE log'[k] = <<>>
  BY <1>1, <1>2, <1>5 DEF LogOK
<1>6. CASE log'[k] # <<>>
  <2>1. log'[k] = Append(log[k], t)
    BY <1>6 DEF Recalled
  <2>2. /\ log'[k] \in Seq(Nat) /\ Len(log'[k]) = Len(log[k]) + 1
        /\ log'[k][Len(log'[k])] = t /\ log'[k] # <<>>
    <3>1. PICK s : s = log[k]
      OBVIOUS
    <3>2. s \in Seq(Nat) /\ log'[k] = Append(s, t)
      BY <1>3, <2>1, <3>1
    <3>3. Append(s, t) \in Seq(Nat) /\ Len(Append(s, t)) = Len(s) + 1
      BY <3>2
    <3>4. Append(s, t)[Len(s) + 1] = t
      BY <3>2
    <3> QED BY <1>6, <3>1, <3>2, <3>3, <3>4
  <2>3. now - t <= guard.reset
    <3> SUFFICES ASSUME ~(now - t <= guard.reset) PROVE FALSE
      OBVIOUS
    <3>1. now - t > guard.reset
      BY <1>3 DEF GuardPolicy
    <3> QED BY <1>6, <2>1, <2>2, <3>1 DEF Recalled
  <2>4. Len(log'[k]) <= Counted(entry[k], t)
    <3>1. CASE log[k] = <<>>
      <4>1. Len(log'[k]) = 1
        BY <1>3, <2>2, <3>1
      <4> QED BY <1>1, <4>1
    <3>2. CASE log[k] # <<>>
      <4>1. /\ entry[k] # NoEntry /\ now - entry[k].last <= guard.reset
            /\ Len(log[k]) <= entry[k].count
            /\ entry[k] \in GuardEntry
        BY <1>3, <3>2 DEF LogOK, GuardInv, GuardTypes
      <4>2. ~(t - entry[k].last > guard.reset)
        BY <1>3, <4>1 DEF GuardEntry, GuardPolicy
      <4>3. Counted(entry[k], t) = entry[k].count + 1
        BY <4>1, <4>2 DEF Counted
      <4> QED BY <1>3, <2>2, <4>1, <4>3 DEF GuardEntry
    <3> QED BY <3>1, <3>2
  <2>5. LogOK(k)'
    BY <1>1, <1>3, <1>4, <2>2, <2>3, <2>4 DEF LogOK
  <2> QED BY <1>1, <1>2, <2>2, <2>5
<1> QED BY <1>5, <1>6

\* A key that a step leaves alone.
LEMMA KeyStays ==
  ASSUME GuardInv, now' = now, UNCHANGED chosen, NEW k \in GuardKeys,
         entry'[k] = entry[k], log'[k] = log[k]
  PROVE  EntryOK(k)' /\ LogOK(k)'
<1>1. EntryOK(k) /\ LogOK(k)
  BY DEF GuardInv
<1>2. guard' = guard /\ (\A n : Wait(n)' = Wait(n)) /\ Overflows' = Overflows
  BY ChosenStays
<1> QED BY <1>1, <1>2 DEF EntryOK, LogOK

\* A request that a step leaves alone, while it leaves its address alone.
LEMMA RequestStays ==
  ASSUME GuardInv, now' = now, UNCHANGED chosen, NEW q \in Attempts,
         try'[q] = try[q], try[q].pc # "idle" => entry'[try[q].ip] = entry[try[q].ip]
  PROVE  StampOK(q)' /\ (~Overflows' => DueOK(q)')
<1>1. StampOK(q) /\ (~Overflows => DueOK(q))
  BY DEF GuardInv
<1>2. /\ guard' = guard /\ store' = store /\ (\A n : Wait(n)' = Wait(n))
      /\ Overflows' = Overflows
      /\ \A e, t : Cooling(e, t)' = Cooling(e, t)
  BY ChosenStays
<1> QED BY <1>1, <1>2 DEF StampOK, DueOK, Barring, At

\* A request while a failure of its address is counted for another one: if the new
\* cooldown no longer bars it, it is short enough.
LEMMA AddressCounted ==
  ASSUME GuardInv, now' = now, UNCHANGED chosen, NEW q \in Attempts, try'[q] = try[q],
         NEW t \in Nat, t <= now, now - t <= Hold, NEW x \in Addresses, try[q].ip = x,
         Counted(entry[x], t) <= MaxFailures, entry'[x] \in Bumped(entry[x], t)
  PROVE  StampOK(q)' /\ (~Overflows' => DueOK(q)')
<1>1. StampOK(q) /\ (~Overflows => DueOK(q)) /\ GuardPolicy /\ now \in Nat /\ Hold \in Nat
  BY GuardBoundsAssumption DEF GuardInv, GuardTypes
<1>2. /\ guard' = guard /\ store' = store /\ (\A n : Wait(n)' = Wait(n))
      /\ Overflows' = Overflows
      /\ \A e, u : Cooling(e, u)' = Cooling(e, u)
  BY ChosenStays
<1>3. StampOK(q)'
  BY <1>1, <1>2 DEF StampOK
<1>4. ASSUME ~Overflows, At(q, "check"), Barring(q)
      PROVE  try[q].dueAddress <= now + Hold \/ Barring(q)'
  <2> DEFINE old == entry[x]
             new == entry'[x]
             s == try[q].stamp
             D == try[q].dueAddress
             R == guard.reset
  <2>1. /\ old # NoEntry /\ old \in GuardEntry /\ s - old.last <= R
        /\ D <= s + Wait(old.count) /\ D <= old.last + Hold + R + 1
    BY <1>4 DEF Barring, Cooling, GuardInv, GuardTypes, GuardKeys
  <2>2. /\ s \in Nat /\ D \in Int /\ R \in Nat /\ s <= now /\ D <= s + R + 1
    BY <1>1, <1>4 DEF GuardInv, GuardTypes, GuardTry, StampOK, DueOK, At, GuardPolicy
  <2>3. /\ new \in GuardEntry /\ new.last = t /\ new.count = Counted(old, t)
        /\ new.until = t + Wait(new.count)
    BY <1>4, BumpedEntry DEF GuardKeys
  <2>4. old.last \in Nat /\ old.count \in Nat /\ new.count \in Nat
    BY <2>1, <2>3 DEF GuardEntry
  <2>5. new # NoEntry
    BY <2>3, EntryIsSome
  <2>6. CASE t - old.last > R
    BY <1>1, <2>1, <2>2, <2>4, <2>6
  <2>7. CASE t - old.last <= R
    <3>1. new.count = old.count + 1
      BY <2>1, <2>2, <2>3, <2>4, <2>7 DEF Counted
    <3>2. Wait(old.count) \in Nat /\ Wait(new.count) \in Nat /\ Wait(old.count) <= Wait(new.count)
      BY <1>1, <2>4, <3>1, WaitGrows
    <3>3. Cooling(new, s) <=> (s - t <= R /\ t + Wait(new.count) > s)
      BY <2>3, <2>5 DEF Cooling
    <3> DEFINE w == Wait(new.count)
    <3>4. D <= s + w /\ w \in Nat
      BY <2>1, <2>2, <3>2
    <3> HIDE DEF w
    <3>5. D <= now + Hold \/ (s - t <= R /\ t + w > s /\ D <= s + w /\ D <= t + Hold + R + 1)
      <4> HIDE DEF old, new, s, D, R
      <4> QED BY <1>1, <2>2, <3>4
    <3>6. Barring(q)' <=> /\ new # NoEntry /\ Cooling(new, s)
                          /\ D <= s + Wait(new.count)
                          /\ D <= new.last + Hold + R + 1
      BY <1>2 DEF Barring
    <3> QED BY <2>3, <2>5, <3>3, <3>5, <3>6 DEF w
  <2> QED BY <2>2, <2>4, <2>6, <2>7
<1>5. ASSUME ~Overflows PROVE DueOK(q)'
  <2>1. DueOK(q)
    BY <1>1, <1>5
  <2> QED BY <1>2, <1>4, <1>5, <2>1 DEF DueOK, At
<1> QED BY <1>2, <1>3, <1>5

\* A request that is over.
LEMMA IdleIsOK ==
  ASSUME NEW q \in Attempts, try'[q] = Idle
  PROVE  Idle \in GuardTry /\ StampOK(q)' /\ DueOK(q)'
BY DEF StampOK, DueOK, Idle, At, GuardTry, GuardSteps, GuardKeys

\* Putting an invariant of the next state together, key by key and request by request.
LEMMA GuardInvNext ==
  ASSUME GuardInv, now' = now, UNCHANGED chosen,
         DOMAIN entry' = GuardKeys, DOMAIN log' = GuardKeys, DOMAIN try' = Attempts,
         entry' = [k \in GuardKeys |-> entry'[k]], log' = [k \in GuardKeys |-> log'[k]],
         try' = [q \in Attempts |-> try'[q]],
         \A k \in GuardKeys : /\ entry'[k] \in GuardEntry \cup {NoEntry} /\ log'[k] \in Seq(Nat)
                              /\ EntryOK(k)' /\ LogOK(k)',
         \A q \in Attempts : /\ try'[q] \in GuardTry /\ StampOK(q)'
                             /\ ~Overflows' => DueOK(q)'
  PROVE  GuardInv'
<1>1. GuardPolicy' /\ store' \in {"memory", "redis"} /\ now' \in Nat
  BY ChosenStays DEF GuardInv, GuardTypes
<1>2. /\ entry' \in [GuardKeys -> GuardEntry \cup {NoEntry}]
      /\ log' \in [GuardKeys -> Seq(Nat)] /\ try' \in [Attempts -> GuardTry]
  BY Zenon
<1>3. GuardTypes'
  BY <1>1, <1>2 DEF GuardTypes, GuardTry
<1> QED BY <1>3, Zenon DEF GuardInv

\* Steps that change only one request.
LEMMA RequestMoves ==
  ASSUME GuardInv, UNCHANGED <<now, chosen, entry, log>>, NEW q \in Attempts, NEW next \in GuardTry,
         try' = [try EXCEPT ![q] = next], StampOK(q)', ~Overflows' => DueOK(q)'
  PROVE  GuardInv'
<1>1. /\ entry \in [GuardKeys -> GuardEntry \cup {NoEntry}] /\ log \in [GuardKeys -> Seq(Nat)]
      /\ try \in [Attempts -> GuardTry]
  BY DEF GuardInv, GuardTypes, GuardTry
<1>2. \A k \in GuardKeys : EntryOK(k)' /\ LogOK(k)'
  BY KeyStays
<1>3. \A p \in Attempts : p # q => try'[p] = try[p]
  BY <1>1
<1>4. \A p \in Attempts : StampOK(p)' /\ (~Overflows' => DueOK(p)')
  BY <1>3, RequestStays
<1>5. try' \in [Attempts -> GuardTry]
  BY <1>1
<1> QED BY <1>1, <1>2, <1>4, <1>5, GuardInvNext

\* Check in memory.
LEMMA CheckMemoryKeeps ==
  ASSUME GuardInv, NEW q \in Attempts, NEW id \in Identities, NEW ip \in Addresses,
         CheckMemory(q, id, ip)
  PROVE  GuardInv'
<1>1. /\ entry \in [GuardKeys -> GuardEntry \cup {NoEntry}] /\ log \in [GuardKeys -> Seq(Nat)]
      /\ try \in [Attempts -> GuardTry] /\ now \in Nat /\ GuardPolicy
      /\ id \in GuardKeys /\ ip \in GuardKeys /\ Hold \in Nat
  BY GuardBoundsAssumption DEF GuardInv, GuardTypes, GuardTry, GuardKeys
<1>2. now' = now /\ UNCHANGED chosen /\ log' = log /\ store = "memory"
  BY DEF CheckMemory
<1>3. guard' = guard /\ store' = store /\ Overflows' = Overflows
  BY <1>2, ChosenStays
<1>4. ASSUME NEW k \in GuardKeys
      PROVE  /\ entry'[k] \in GuardEntry \cup {NoEntry}
             /\ EntryOK(k)' /\ LogOK(k)'
  <2>1. \/ entry'[k] = entry[k]
        \/ entry[k] # NoEntry /\ now - entry[k].last > guard.reset /\ entry'[k] = NoEntry
    BY DEF CheckMemory
  <2>2. CASE entry'[k] = entry[k]
    BY <1>1, <1>2, <2>2, KeyStays
  <2>3. CASE entry[k] # NoEntry /\ now - entry[k].last > guard.reset /\ entry'[k] = NoEntry
    <3>1. log[k] = <<>>
      <4> SUFFICES ASSUME log[k] # <<>> PROVE FALSE
        OBVIOUS
      <4>1. entry[k].last \in Nat /\ guard.reset \in Nat /\ now - entry[k].last <= guard.reset
        BY <1>1, <2>3 DEF GuardInv, LogOK, GuardEntry, GuardPolicy
      <4> QED BY <1>1, <2>3, <4>1
    <3> QED BY <1>2, <2>3, <3>1 DEF EntryOK, LogOK
  <2> QED BY <2>1, <2>2, <2>3
<1>5. ASSUME NEW p \in Attempts
      PROVE  /\ try'[p] \in GuardTry /\ StampOK(p)'
             /\ ~Overflows' => DueOK(p)'
  <2>1. CASE p # q
    <3>1. try'[p] = try[p] /\ try[p] \in GuardTry
      BY <1>1, <2>1 DEF CheckMemory
    <3>2. StampOK(p) /\ (~Overflows => DueOK(p)) /\ ~At(p, "check")
      BY <1>2 DEF GuardInv, StampOK, At
    <3> QED BY <1>2, <1>3, <3>1, <3>2 DEF StampOK, DueOK, At
  <2>2. CASE p = q /\ try'[p] = Idle
    BY <2>2, IdleIsOK
  <2>3. CASE p = q /\ try'[p] # Idle
    <3>1. /\ try'[p] = [Arrival(id, ip) EXCEPT !.pc = "verify"]
          /\ ~Cooling(entry[id], now) /\ ~Cooling(entry[ip], now)
      BY <1>1, <2>3 DEF CheckMemory
    <3>2. /\ try'[p].pc = "verify" /\ try'[p].id = id /\ try'[p].ip = ip /\ try'[p].stamp = now
          /\ try'[p].due = Due(log[id]) /\ try'[p].dueAddress = Due(log[ip])
          /\ try'[p].barred = FALSE
      BY <3>1 DEF Arrival, Idle
    <3>3. ~Overflows => Due(log[id]) <= now /\ Due(log[ip]) <= now
      BY <1>1, <3>1, DueIsCooling
    <3>4. Due(log[id]) \in Int /\ Due(log[ip]) \in Int
      BY <1>1, DueType
    <3>5. try'[p] \in GuardTry
      BY <1>1, <3>1, <3>4 DEF Arrival, Idle, GuardTry, GuardSteps
    <3>6. StampOK(p)'
      BY <1>1, <1>2, <3>2 DEF StampOK
    <3>7. ~Overflows => DueOK(p)'
      BY <1>1, <1>2, <3>2, <3>3, <3>4 DEF DueOK, At
    <3> QED BY <1>3, <3>5, <3>6, <3>7
  <2> QED BY <2>1, <2>2, <2>3
<1>6. /\ entry' = [k \in GuardKeys |-> entry'[k]] /\ log' = [k \in GuardKeys |-> log'[k]]
      /\ try' = [p \in Attempts |-> try'[p]]
      /\ DOMAIN entry' = GuardKeys /\ DOMAIN log' = GuardKeys /\ DOMAIN try' = Attempts
  BY <1>1, <1>2 DEF CheckMemory
<1>7. \A k \in GuardKeys : log'[k] \in Seq(Nat)
  BY <1>1, <1>2
<1> QED BY <1>2, <1>4, <1>5, <1>6, <1>7, GuardInvNext

\* Check in Redis: the counter of the account name.
LEMMA CheckIdentityKeeps ==
  ASSUME GuardInv, NEW q \in Attempts, NEW id \in Identities, NEW ip \in Addresses,
         CheckIdentity(q, id, ip)
  PROVE  GuardInv'
<1>1. /\ now \in Nat /\ GuardPolicy /\ Hold \in Nat
      /\ id \in GuardKeys /\ ip \in GuardKeys
  BY GuardBoundsAssumption DEF GuardInv, GuardTypes, GuardKeys
<1> DEFINE next == [Arrival(id, ip) EXCEPT !.pc = "check", !.barred = Cooling(entry[id], now)]
<1>2. /\ UNCHANGED <<now, chosen, entry, log>> /\ store = "redis"
      /\ try' = [try EXCEPT ![q] = next]
  BY DEF CheckIdentity
<1>3. Due(log[id]) \in Int /\ Due(log[ip]) \in Int /\ Cooling(entry[id], now) \in BOOLEAN
  BY <1>1, DueType DEF Cooling
<1>4. /\ next.pc = "check" /\ next.id = id /\ next.ip = ip /\ next.stamp = now
      /\ next.due = Due(log[id]) /\ next.dueAddress = Due(log[ip])
      /\ next.barred = Cooling(entry[id], now)
  BY DEF Arrival, Idle
<1>5. next \in GuardTry
  BY <1>1, <1>3 DEF Arrival, Idle, GuardTry, GuardSteps
<1>6. try'[q] = next
  <2> HIDE DEF next
  <2> QED BY <1>2 DEF GuardInv, GuardTypes
<1> HIDE DEF next
<1>7. /\ guard' = guard /\ store' = store /\ (\A n : Wait(n)' = Wait(n))
      /\ Overflows' = Overflows
      /\ \A e, t : Cooling(e, t)' = Cooling(e, t)
  BY <1>2, ChosenStays
<1>8. StampOK(q)'
  BY <1>1, <1>2, <1>4, <1>6, <1>7 DEF StampOK
<1>9. ASSUME ~Overflows PROVE DueOK(q)'
  <2>1. /\ Due(log[ip]) <= now + guard.reset + 1
        /\ \/ Due(log[ip]) <= now
           \/ /\ entry[ip] # NoEntry /\ Cooling(entry[ip], now)
              /\ Due(log[ip]) <= now + Wait(entry[ip].count)
              /\ Due(log[ip]) <= entry[ip].last + guard.reset + 1
        /\ entry[ip] # NoEntry => entry[ip].last \in Nat
        /\ guard.reset \in Nat
    BY <1>1, <1>9, DueIsCooling DEF GuardInv, GuardTypes, GuardEntry, GuardPolicy
  <2>2. ~next.barred => next.due <= now + Hold
    BY <1>1, <1>3, <1>4, <1>9, DueIsCooling
  <2>3. next.dueAddress <= now + Hold \/ Barring(q)'
    <3>1. CASE Due(log[ip]) <= now
      BY <1>1, <1>3, <1>4, <3>1
    <3>2. CASE ~(Due(log[ip]) <= now)
      <4>1. Due(log[ip]) <= entry[ip].last + Hold + guard.reset + 1
        BY <1>1, <1>3, <2>1, <3>2
      <4> QED BY <1>2, <1>4, <1>6, <1>7, <2>1, <3>2, <4>1 DEF Barring
    <3> QED BY <3>1, <3>2
  <2> QED BY <1>1, <1>2, <1>4, <1>6, <1>7, <2>1, <2>2, <2>3 DEF DueOK, At
<1> QED BY <1>2, <1>5, <1>7, <1>8, <1>9, RequestMoves

\* Steps that end a request and count nothing.
LEMMA FinishKeeps ==
  ASSUME GuardInv, NEW q \in Attempts, Finish(q), UNCHANGED <<now, chosen, entry, log>>
  PROVE  GuardInv'
<1>1. try' = [try EXCEPT ![q] = Idle] /\ try'[q] = Idle
  BY DEF Finish, GuardInv, GuardTypes
<1> QED BY <1>1, IdleIsOK, RequestMoves

\* Check in Redis: the counter of the address.
LEMMA CheckAddressKeeps ==
  ASSUME GuardInv, NEW q \in Attempts, CheckAddress(q)
  PROVE  GuardInv'
<1>1. UNCHANGED <<now, chosen, entry, log>> /\ At(q, "check")
  BY DEF CheckAddress
<1>2. CASE Finish(q)
  BY <1>1, <1>2, FinishKeeps
<1>3. CASE ~Finish(q)
  <2>1. ~try[q].barred /\ ~Cooling(entry[try[q].ip], try[q].stamp) /\ Goto(q, "verify")
    BY <1>3 DEF CheckAddress
  <2> DEFINE next == [try[q] EXCEPT !.pc = "verify"]
  <2>2. /\ try \in [Attempts -> GuardTry] /\ try[q] \in GuardTry /\ now \in Nat
        /\ StampOK(q) /\ (~Overflows => DueOK(q))
    BY DEF GuardInv, GuardTypes, GuardTry
  <2>3. try' = [try EXCEPT ![q] = next] /\ try'[q] = next
    BY <2>1, <2>2 DEF Goto
  <2>4. /\ next \in GuardTry /\ next.pc = "verify" /\ next.id = try[q].id /\ next.ip = try[q].ip
        /\ next.stamp = try[q].stamp
        /\ next.due = try[q].due /\ next.dueAddress = try[q].dueAddress
    BY <2>2 DEF GuardTry, GuardSteps
  <2> HIDE DEF next
  <2>5. guard' = guard /\ store' = store /\ Overflows' = Overflows
    BY <1>1, ChosenStays
  <2>6. StampOK(q)'
    BY <1>1, <2>2, <2>3, <2>4, <2>5 DEF StampOK, At
  <2>7. ~Overflows => DueOK(q)'
    BY <1>1, <2>1, <2>2, <2>3, <2>4 DEF DueOK, Barring, At
  <2> QED BY <1>1, <2>3, <2>4, <2>5, <2>6, <2>7, RequestMoves
<1> QED BY <1>2, <1>3

\* The password is refused.
LEMMA VerifyKeeps ==
  ASSUME GuardInv, NEW q \in Attempts, Verify(q)
  PROVE  GuardInv'
<1>1. UNCHANGED <<now, chosen, entry, log>> /\ At(q, "verify")
  BY DEF Verify
<1> DEFINE next == [try[q] EXCEPT !.pc = "count", !.stamp = now]
<1>2. /\ try \in [Attempts -> GuardTry] /\ try[q] \in GuardTry /\ now \in Nat
      /\ StampOK(q) /\ Hold \in Nat
  BY GuardBoundsAssumption DEF GuardInv, GuardTypes, GuardTry
<1>3. try' = [try EXCEPT ![q] = next] /\ try'[q] = next
  BY <1>2 DEF Verify
<1>4. /\ next \in GuardTry /\ next.pc = "count" /\ next.id = try[q].id /\ next.ip = try[q].ip
      /\ next.stamp = now
  BY <1>2 DEF GuardTry, GuardSteps
<1> HIDE DEF next
<1>5. StampOK(q)'
  BY <1>1, <1>2, <1>3, <1>4 DEF StampOK, At
<1>6. DueOK(q)'
  BY <1>3, <1>4 DEF DueOK, At
<1> QED BY <1>1, <1>3, <1>4, <1>5, <1>6, RequestMoves

\* The request that counts: its key, its stamp.
LEMMA CountingRequest ==
  ASSUME GuardInv, NEW q \in Attempts, try[q].pc \in {"count", "count address"}
  PROVE  /\ try[q].id \in Identities /\ try[q].id \in GuardKeys
         /\ try[q].stamp \in Nat /\ try[q].stamp <= now /\ now - try[q].stamp <= Hold
         /\ try[q].ip \in Addresses /\ try[q].ip \in GuardKeys /\ try[q].ip # try[q].id
BY AddressesAssumption DEF GuardInv, GuardTypes, GuardTry, StampOK, GuardKeys

\* A failure is counted in memory.
LEMMA RegisterMemoryKeeps ==
  ASSUME GuardInv, NEW q \in Attempts, RegisterMemory(q)
  PROVE  GuardInv'
<1> DEFINE id == try[q].id
           ip == try[q].ip
           t == try[q].stamp
<1>1. /\ now' = now /\ UNCHANGED chosen /\ store = "memory" /\ Finish(q) /\ At(q, "count")
      /\ Counted(entry[id], t) <= MaxFailures /\ Counted(entry[ip], t) <= MaxFailures
  BY DEF RegisterMemory
<1>2. PICK a \in Bumped(entry[id], t), b \in Bumped(entry[ip], t) :
        entry' = [entry EXCEPT ![id] = a, ![ip] = b]
  BY DEF RegisterMemory
<1>3. log' = [log EXCEPT ![id] = Recalled(Append(@, t), now), ![ip] = Recalled(Append(@, t), now)]
  BY DEF RegisterMemory
<1>4. /\ id \in GuardKeys /\ id # ip /\ ip \in GuardKeys
      /\ t \in Nat /\ t <= now
  BY <1>1, CountingRequest DEF At
<1>5. /\ entry \in [GuardKeys -> GuardEntry \cup {NoEntry}] /\ log \in [GuardKeys -> Seq(Nat)]
      /\ try \in [Attempts -> GuardTry]
  BY DEF GuardInv, GuardTypes, GuardTry
<1> HIDE DEF id, ip, t
<1>6. /\ entry'[id] = a /\ entry'[ip] = b
      /\ log'[id] = Recalled(Append(log[id], t), now)
      /\ log'[ip] = Recalled(Append(log[ip], t), now)
      /\ \A k \in GuardKeys : k \notin {id, ip} => entry'[k] = entry[k] /\ log'[k] = log[k]
  BY <1>2, <1>3, <1>4, <1>5
<1>7. \A k \in GuardKeys : /\ entry'[k] \in GuardEntry \cup {NoEntry} /\ log'[k] \in Seq(Nat)
                           /\ EntryOK(k)' /\ LogOK(k)'
  <2>1. ASSUME NEW k \in {id, ip}
        PROVE  entry'[k] \in GuardEntry /\ log'[k] \in Seq(Nat) /\ EntryOK(k)' /\ LogOK(k)'
    BY <1>1, <1>2, <1>4, <1>6, CountedKey
  <2>2. ASSUME NEW k \in GuardKeys, k \notin {id, ip}
        PROVE  /\ entry'[k] \in GuardEntry \cup {NoEntry} /\ log'[k] \in Seq(Nat)
               /\ EntryOK(k)' /\ LogOK(k)'
    BY <1>1, <1>5, <1>6, <2>2, KeyStays
  <2> QED BY <2>1, <2>2
<1>8. ASSUME NEW p \in Attempts
      PROVE  try'[p] \in GuardTry /\ StampOK(p)' /\ (~Overflows' => DueOK(p)')
  <2>1. CASE p = q
    <3>1. try'[p] = Idle
      BY <1>1, <1>5, <2>1 DEF Finish
    <3> QED BY <3>1, IdleIsOK
  <2>2. CASE p # q
    <3>1. try'[p] = try[p] /\ try[p] \in GuardTry
      BY <1>1, <1>5, <2>2 DEF Finish
    <3>2. StampOK(p) /\ (~Overflows => DueOK(p)) /\ ~At(p, "check")
      BY <1>1 DEF GuardInv, StampOK, At
    <3>3. guard' = guard /\ store' = store /\ Overflows' = Overflows
      BY <1>1, ChosenStays
    <3> QED BY <1>1, <3>1, <3>2, <3>3 DEF StampOK, DueOK, At
  <2> QED BY <2>1, <2>2
<1>9. /\ entry' = [k \in GuardKeys |-> entry'[k]] /\ log' = [k \in GuardKeys |-> log'[k]]
      /\ try' = [p \in Attempts |-> try'[p]]
      /\ DOMAIN entry' = GuardKeys /\ DOMAIN log' = GuardKeys /\ DOMAIN try' = Attempts
  BY <1>1, <1>2, <1>3, <1>5 DEF Finish
<1> QED BY <1>1, <1>7, <1>8, <1>9, GuardInvNext

\* One counter of Redis.
LEMMA RegisterKey ==
  ASSUME GuardInv, NEW k \in GuardKeys, NEW t \in Nat, t <= now, Register(k, t),
         now' = now, UNCHANGED chosen, Counted(entry[k], t) <= MaxFailures
  PROVE  /\ entry'[k] \in Bumped(entry[k], t)
         /\ \A j \in GuardKeys : /\ entry'[j] \in GuardEntry \cup {NoEntry} /\ log'[j] \in Seq(Nat)
                                 /\ EntryOK(j)' /\ LogOK(j)'
                                 /\ j # k => entry'[j] = entry[j]
         /\ entry' = [j \in GuardKeys |-> entry'[j]] /\ log' = [j \in GuardKeys |-> log'[j]]
         /\ DOMAIN entry' = GuardKeys /\ DOMAIN log' = GuardKeys
<1>1. PICK e \in Bumped(entry[k], t) : entry' = [entry EXCEPT ![k] = e]
  BY DEF Register
<1>2. log' = [log EXCEPT ![k] = Recalled(Append(@, t), now)]
  BY DEF Register
<1>3. /\ entry \in [GuardKeys -> GuardEntry \cup {NoEntry}] /\ log \in [GuardKeys -> Seq(Nat)]
  BY DEF GuardInv, GuardTypes
<1>4. /\ entry'[k] = e /\ log'[k] = Recalled(Append(log[k], t), now)
      /\ \A j \in GuardKeys : j # k => entry'[j] = entry[j] /\ log'[j] = log[j]
  BY <1>1, <1>2, <1>3
<1>5. entry'[k] \in GuardEntry /\ log'[k] \in Seq(Nat) /\ EntryOK(k)' /\ LogOK(k)'
  BY <1>1, <1>4, CountedKey
<1>6. \A j \in GuardKeys : j # k =>
        entry'[j] \in GuardEntry \cup {NoEntry} /\ log'[j] \in Seq(Nat) /\ EntryOK(j)' /\ LogOK(j)'
  BY <1>3, <1>4, KeyStays
<1>7. /\ entry' = [j \in GuardKeys |-> entry'[j]] /\ log' = [j \in GuardKeys |-> log'[j]]
      /\ DOMAIN entry' = GuardKeys /\ DOMAIN log' = GuardKeys
  BY <1>1, <1>2, <1>3
<1> QED BY <1>1, <1>4, <1>5, <1>6, <1>7

\* A failure is counted in Redis: for the account name.
LEMMA RegisterIdentityKeeps ==
  ASSUME GuardInv, NEW q \in Attempts, RegisterIdentity(q)
  PROVE  GuardInv'
<1>1. /\ now' = now /\ UNCHANGED chosen /\ Goto(q, "count address") /\ At(q, "count")
      /\ Counted(entry[try[q].id], try[q].stamp) <= MaxFailures
      /\ Register(try[q].id, try[q].stamp)
  BY DEF RegisterIdentity
<1>2. /\ try[q].id \in GuardKeys /\ \A x \in Addresses : x # try[q].id /\ x \in GuardKeys
      /\ try[q].stamp \in Nat /\ try[q].stamp <= now
  BY <1>1, CountingRequest, AddressesAssumption DEF At, GuardKeys
<1>3. /\ \A j \in GuardKeys : /\ entry'[j] \in GuardEntry \cup {NoEntry} /\ log'[j] \in Seq(Nat)
                              /\ EntryOK(j)' /\ LogOK(j)'
      /\ \A x \in Addresses : entry'[x] = entry[x]
      /\ entry' = [j \in GuardKeys |-> entry'[j]] /\ log' = [j \in GuardKeys |-> log'[j]]
      /\ DOMAIN entry' = GuardKeys /\ DOMAIN log' = GuardKeys
  BY <1>1, <1>2, RegisterKey
<1>4. try \in [Attempts -> GuardTry]
  BY DEF GuardInv, GuardTypes, GuardTry
<1>5. ASSUME NEW p \in Attempts
      PROVE  try'[p] \in GuardTry /\ StampOK(p)' /\ (~Overflows' => DueOK(p)')
  <2>1. CASE p # q
    <3>1. try'[p] = try[p] /\ try[p] \in GuardTry
      BY <1>1, <1>4, <2>1 DEF Goto
    <3>2. try[p].pc # "idle" => try[p].ip \in Addresses
      BY DEF GuardInv, StampOK
    <3> QED BY <1>1, <1>3, <3>1, <3>2, RequestStays
  <2>2. CASE p = q
    <3>1. try'[q] = [try[q] EXCEPT !.pc = "count address"] /\ try[q] \in GuardTry
      BY <1>1, <1>4 DEF Goto
    <3>2. /\ try'[q] \in GuardTry /\ try'[q].pc = "count address"
          /\ try'[q].id = try[q].id /\ try'[q].ip = try[q].ip /\ try'[q].stamp = try[q].stamp
      BY <3>1 DEF GuardTry, GuardSteps
    <3>3. StampOK(q)
      BY DEF GuardInv
    <3> HIDE <3>1
    <3>4. StampOK(q)'
      BY <1>1, <3>2, <3>3 DEF StampOK, At
    <3>5. DueOK(q)'
      BY <3>2 DEF DueOK, At
    <3> QED BY <2>2, <3>2, <3>4, <3>5
  <2> QED BY <2>1, <2>2
<1>6. try' = [p \in Attempts |-> try'[p]] /\ DOMAIN try' = Attempts
  BY <1>1, <1>4 DEF Goto
<1> QED BY <1>1, <1>3, <1>5, <1>6, GuardInvNext

\* A failure is counted in Redis: for the address.
LEMMA RegisterAddressKeeps ==
  ASSUME GuardInv, NEW q \in Attempts, RegisterAddress(q)
  PROVE  GuardInv'
<1>1. /\ now' = now /\ UNCHANGED chosen /\ Finish(q) /\ At(q, "count address")
      /\ Counted(entry[try[q].ip], try[q].stamp) <= MaxFailures
      /\ Register(try[q].ip, try[q].stamp)
  BY DEF RegisterAddress
<1>2. /\ try[q].ip \in Addresses /\ try[q].ip \in GuardKeys /\ now - try[q].stamp <= Hold
      /\ try[q].stamp \in Nat /\ try[q].stamp <= now
  BY <1>1, CountingRequest DEF At
<1>3. /\ \A j \in GuardKeys : /\ entry'[j] \in GuardEntry \cup {NoEntry} /\ log'[j] \in Seq(Nat)
                              /\ EntryOK(j)' /\ LogOK(j)'
      /\ entry'[try[q].ip] \in Bumped(entry[try[q].ip], try[q].stamp)
      /\ \A j \in GuardKeys : j # try[q].ip => entry'[j] = entry[j]
      /\ entry' = [j \in GuardKeys |-> entry'[j]] /\ log' = [j \in GuardKeys |-> log'[j]]
      /\ DOMAIN entry' = GuardKeys /\ DOMAIN log' = GuardKeys
  BY <1>1, <1>2, RegisterKey
<1>4. try \in [Attempts -> GuardTry]
  BY DEF GuardInv, GuardTypes, GuardTry
<1>5. ASSUME NEW p \in Attempts
      PROVE  try'[p] \in GuardTry /\ StampOK(p)' /\ (~Overflows' => DueOK(p)')
  <2>1. CASE p # q
    <3>1. try'[p] = try[p] /\ try[p] \in GuardTry
      BY <1>1, <1>4, <2>1 DEF Finish
    <3>2. CASE try[p].ip = try[q].ip
      BY <1>1, <1>2, <1>3, <3>1, <3>2, AddressCounted
    <3>3. CASE try[p].ip # try[q].ip
      <4>1. try[p].pc # "idle" => try[p].ip \in GuardKeys
        BY DEF GuardInv, StampOK, GuardKeys
      <4> QED BY <1>1, <1>3, <3>1, <3>3, <4>1, RequestStays
    <3> QED BY <3>1, <3>2, <3>3
  <2>2. CASE p = q
    <3>1. try'[p] = Idle
      BY <1>1, <1>4, <2>2 DEF Finish
    <3> QED BY <3>1, IdleIsOK
  <2> QED BY <2>1, <2>2
<1>6. try' = [p \in Attempts |-> try'[p]] /\ DOMAIN try' = Attempts
  BY <1>1, <1>4 DEF Finish
<1> QED BY <1>1, <1>3, <1>5, <1>6, GuardInvNext

\* A success forgets the account name and the address.
LEMMA ResetKeeps ==
  ASSUME GuardInv, NEW q \in Attempts, Reset(q)
  PROVE  GuardInv'
<1> DEFINE id == try[q].id
           ip == try[q].ip
<1>1. /\ now' = now /\ UNCHANGED chosen
      /\ entry' = [entry EXCEPT ![id] = NoEntry, ![ip] = NoEntry]
      /\ log' = [log EXCEPT ![id] = <<>>, ![ip] = <<>>]
  BY DEF Reset
<1>0. At(q, "verify") /\ id \in Identities /\ ip \in Addresses
  BY DEF Reset, At, GuardInv, StampOK
<1>2. /\ entry \in [GuardKeys -> GuardEntry \cup {NoEntry}] /\ log \in [GuardKeys -> Seq(Nat)]
      /\ try \in [Attempts -> GuardTry] /\ id \in GuardKeys /\ ip \in GuardKeys
      /\ now \in Nat /\ GuardPolicy /\ Hold \in Nat
  BY <1>0, GuardBoundsAssumption DEF GuardInv, GuardTypes, GuardTry, GuardKeys
<1>3. /\ guard' = guard /\ store' = store /\ Overflows' = Overflows
      /\ (\A n : Wait(n)' = Wait(n)) /\ \A e, t : Cooling(e, t)' = Cooling(e, t)
  BY <1>1, ChosenStays
<1> HIDE DEF id, ip
<1>4. ASSUME NEW k \in GuardKeys
      PROVE  /\ entry'[k] \in GuardEntry \cup {NoEntry} /\ log'[k] \in Seq(Nat)
             /\ EntryOK(k)' /\ LogOK(k)'
  <2>1. CASE k \in {id, ip}
    <3>1. entry'[k] = NoEntry /\ log'[k] = <<>>
      BY <1>1, <1>2, <2>1
    <3> QED BY <3>1 DEF EntryOK, LogOK
  <2>2. CASE k \notin {id, ip}
    <3>1. entry'[k] = entry[k] /\ log'[k] = log[k]
      BY <1>1, <1>2, <2>2
    <3> QED BY <1>1, <1>2, <3>1, KeyStays
  <2> QED BY <2>1, <2>2
<1>5. ASSUME NEW p \in Attempts
      PROVE  try'[p] \in GuardTry /\ StampOK(p)' /\ (~Overflows' => DueOK(p)')
  <2>1. CASE p = q
    <3>1. try'[p] = Idle
      BY <2>1 DEF Reset
    <3> QED BY <3>1, IdleIsOK
  <2>2. CASE p # q
    <3> DEFINE due == IF try[p].id = try[q].id THEN 0 ELSE try[p].due
               dueAddress == IF try[p].ip = try[q].ip THEN 0 ELSE try[p].dueAddress
    <3>1. try'[p] = [try[p] EXCEPT !.due = due, !.dueAddress = dueAddress]
      BY <2>2 DEF Reset
    <3>2. try[p] \in GuardTry /\ StampOK(p) /\ (~Overflows => DueOK(p))
      BY <1>2 DEF GuardInv
    <3>3. /\ due \in Int /\ (due = 0 \/ due = try[p].due)
          /\ dueAddress \in Int
          /\ dueAddress = 0 \/ (dueAddress = try[p].dueAddress /\ try[p].ip # try[q].ip)
      BY <3>2 DEF GuardTry
    <3> HIDE DEF due, dueAddress
    <3>4. /\ try'[p].pc = try[p].pc /\ try'[p].id = try[p].id /\ try'[p].ip = try[p].ip
          /\ try'[p].stamp = try[p].stamp /\ try'[p].barred = try[p].barred
          /\ try'[p].due = due /\ try'[p].dueAddress = dueAddress
          /\ try'[p] \in GuardTry /\ try[p].stamp \in Nat
      <4> DEFINE old == try[p]
      <4>1. old \in GuardTry /\ try'[p] = [old EXCEPT !.due = due, !.dueAddress = dueAddress]
        BY <3>1, <3>2
      <4> HIDE DEF old
      <4>2. [old EXCEPT !.due = due] \in GuardTry
        BY <3>3, <4>1 DEF GuardTry
      <4>3. /\ try'[p].pc = old.pc /\ try'[p].id = old.id /\ try'[p].ip = old.ip
            /\ try'[p].stamp = old.stamp /\ try'[p].barred = old.barred
            /\ try'[p].due = due /\ try'[p].dueAddress = dueAddress
            /\ old.stamp \in Nat
        BY <4>1 DEF GuardTry
      <4>4. try'[p] \in GuardTry
        <5> DEFINE mid == [old EXCEPT !.due = due]
        <5>1. try'[p] = [mid EXCEPT !.dueAddress = dueAddress] /\ mid \in GuardTry
          BY <4>1, <4>2
        <5> HIDE DEF mid
        <5> QED BY <3>3, <5>1 DEF GuardTry
      <4> QED BY <4>3, <4>4 DEF old
    <3>5. StampOK(p)'
      BY <1>1, <1>3, <3>2, <3>4 DEF StampOK
    <3>6. ASSUME ~Overflows PROVE DueOK(p)'
      <4>1. CASE dueAddress = 0
        BY <1>1, <1>2, <1>3, <3>2, <3>3, <3>4, <3>6, <4>1 DEF DueOK, At, GuardPolicy
      <4>2. CASE dueAddress = try[p].dueAddress /\ try[p].ip # ip
        <5>1. At(p, "check") => entry'[try[p].ip] = entry[try[p].ip]
          <6> SUFFICES ASSUME At(p, "check") PROVE entry'[try[p].ip] = entry[try[p].ip]
            OBVIOUS
          <6>1. try[p].ip \in Addresses /\ try[p].ip # id
            BY <1>0, <3>2, AddressesAssumption DEF StampOK, At
          <6>2. try[p].ip \in GuardKeys
            BY <6>1 DEF GuardKeys
          <6> QED BY <1>1, <1>2, <4>2, <6>1, <6>2
        <5>2. At(p, "check") => (Barring(p) => Barring(p)')
          BY <1>1, <1>3, <3>4, <4>2, <5>1 DEF Barring
        <5> QED BY <1>1, <1>2, <1>3, <3>2, <3>3, <3>4, <3>6, <4>2, <5>2 DEF DueOK, At, GuardPolicy
      <4> QED BY <3>3, <4>1, <4>2 DEF ip
    <3> QED BY <1>3, <3>4, <3>5, <3>6
  <2> QED BY <2>1, <2>2
<1>6. /\ entry' = [k \in GuardKeys |-> entry'[k]] /\ log' = [k \in GuardKeys |-> log'[k]]
      /\ DOMAIN entry' = GuardKeys /\ DOMAIN log' = GuardKeys
  BY <1>1, <1>2
<1>7. try' = [p \in Attempts |-> try'[p]] /\ DOMAIN try' = Attempts
  BY DEF Reset
<1> QED BY <1>1, <1>4, <1>5, <1>6, <1>7, GuardInvNext

\* Time passes.
LEMMA GuardTickKeeps ==
  ASSUME GuardInv, GuardTick
  PROVE  GuardInv'
<1>1. /\ now' = now + 1 /\ UNCHANGED chosen /\ entry' = entry /\ try' = try
      /\ log' = [k \in GuardKeys |-> Recalled(log[k], now + 1)]
      /\ \A q \in Attempts :
           try[q].pc \in {"check", "count", "count address"} => now - try[q].stamp < Hold
  BY DEF GuardTick
<1>2. /\ entry \in [GuardKeys -> GuardEntry \cup {NoEntry}] /\ log \in [GuardKeys -> Seq(Nat)]
      /\ try \in [Attempts -> GuardTry] /\ now \in Nat /\ GuardPolicy /\ Hold \in Nat
      /\ store \in {"memory", "redis"}
  BY GuardBoundsAssumption DEF GuardInv, GuardTypes, GuardTry
<1>3. /\ guard' = guard /\ store' = store /\ Overflows' = Overflows /\ GuardPolicy' = GuardPolicy
      /\ (\A n : Wait(n)' = Wait(n)) /\ \A e, t : Cooling(e, t)' = Cooling(e, t)
  BY <1>1, ChosenStays
<1>0. now' = now + 1 /\ entry' = entry /\ try' = try /\ guard' = guard /\ store' = store
  BY <1>1, <1>3
<1> HIDE <1>1, <1>3
<1>4. ASSUME NEW k \in GuardKeys PROVE log'[k] \in Seq(Nat) /\ EntryOK(k)' /\ LogOK(k)'
  <2>0. log[k] \in Seq(Nat) /\ <<>> \in Seq(Nat)
    BY <1>2
  <2>1. log'[k] \in {log[k], <<>>}
    BY <1>1 DEF Recalled
  <2>2. log'[k] # <<>> => log'[k] = log[k] /\ ~((now + 1) - log[k][Len(log[k])] > guard.reset)
    BY <1>1 DEF Recalled
  <2>3. EntryOK(k) /\ LogOK(k) /\ (entry[k] # NoEntry => entry[k].last \in Nat)
    BY <1>2 DEF GuardInv, GuardEntry
  <2>4. EntryOK(k)'
    <3>1. entry[k] # NoEntry => entry[k].last <= now + 1
      BY <1>2, <2>3 DEF EntryOK
    <3> QED BY <1>0, <1>3, <2>3, <3>1 DEF EntryOK
  <2>5. log'[k] # <<>> => log[k][Len(log[k])] \in Nat
    BY <1>2, <2>2
  <2>6. log'[k] # <<>> => (now + 1) - log[k][Len(log[k])] <= guard.reset
    BY <1>2, <2>2, <2>5 DEF GuardPolicy
  <2>7. LogOK(k)'
    BY <1>0, <2>2, <2>3, <2>6 DEF LogOK
  <2> QED BY <2>0, <2>1, <2>4, <2>7
<1>5. ASSUME NEW q \in Attempts PROVE StampOK(q)' /\ (~Overflows' => DueOK(q)')
  <2>1. /\ StampOK(q) /\ (~Overflows => DueOK(q)) /\ try[q].stamp \in Nat /\ try[q].pc \in GuardSteps
        /\ try[q].due \in Int /\ try[q].dueAddress \in Int
    BY <1>2 DEF GuardInv, GuardTry
  <2>2. try[q].pc \in {"check", "count", "count address"} => now - try[q].stamp < Hold
    BY <1>1
  <2>3. StampOK(q)'
    <3>1. try[q].pc \in {"check", "count", "count address"} => (now + 1) - try[q].stamp <= Hold
      <4>1. now \in Nat /\ Hold \in Nat /\ try[q].stamp \in Nat
        BY <1>2, <2>1
      <4>2. now - try[q].stamp < Hold => (now + 1) - try[q].stamp <= Hold
        BY <4>1
      <4> QED BY <2>2, <4>2, Zenon
    <3>2. try[q].stamp <= now => try[q].stamp <= now + 1
      BY <1>2, <2>1
    <3> QED BY <1>0, <2>1, <3>1, <3>2 DEF StampOK, GuardSteps
  <2>4. Barring(q)' = Barring(q)
    BY <1>0, <1>3 DEF Barring
  <2>5. ASSUME ~Overflows PROVE DueOK(q)'
    <3>1. DueOK(q)
      BY <2>1, <2>5
    <3>2. \A d \in Int : d <= now + Hold => d <= (now + 1) + Hold
      BY <1>2
    <3> QED BY <1>0, <2>1, <2>4, <3>1, <3>2 DEF DueOK, At
  <2> QED BY <1>3, <2>3, <2>5
<1>6. GuardTypes'
  <2>1. log' \in [GuardKeys -> Seq(Nat)]
    BY <1>1, <1>4
  <2>2. GuardPolicy' /\ now' \in Nat
    BY <1>0, <1>2, <1>3
  <2> QED BY <1>0, <1>2, <2>1, <2>2 DEF GuardTypes, GuardTry
<1> QED BY <1>4, <1>5, <1>6 DEF GuardInv

\* Every step of the guard keeps its invariant.
LEMMA NextGuardInv == GuardInv /\ [GuardNext]_<<now, guardVars>> => GuardInv'
<1> SUFFICES ASSUME GuardInv, [GuardNext]_<<now, guardVars>> PROVE GuardInv'
  OBVIOUS
<1>1. CASE UNCHANGED <<now, guardVars>>
  <2>1. UNCHANGED <<now, chosen, entry, log>> /\ try' = try
    BY <1>1 DEF guardVars, chosen
  <2>2. \A k \in GuardKeys : EntryOK(k)' /\ LogOK(k)'
    BY <2>1, KeyStays
  <2>3. \A q \in Attempts : StampOK(q)' /\ (~Overflows' => DueOK(q)')
    BY <2>1, RequestStays
  <2>4. /\ entry \in [GuardKeys -> GuardEntry \cup {NoEntry}] /\ log \in [GuardKeys -> Seq(Nat)]
        /\ try \in [Attempts -> GuardTry]
    BY DEF GuardInv, GuardTypes, GuardTry
  <2> QED BY <2>1, <2>2, <2>3, <2>4, GuardInvNext
<1>2. CASE GuardTick
  BY <1>2, GuardTickKeeps
<1>3. CASE Bypassed
  BY <1>1, <1>3 DEF Bypassed
<1>4. ASSUME NEW q \in Attempts, NEW id \in Identities, NEW ip \in Addresses,
             CheckMemory(q, id, ip) \/ CheckIdentity(q, id, ip)
      PROVE  GuardInv'
  BY <1>4, CheckMemoryKeeps, CheckIdentityKeeps
<1>5. ASSUME NEW q \in Attempts, CheckFails(q) \/ RegisterFails(q) \/ NotCounted(q)
      PROVE  GuardInv'
  <2>1. Finish(q) /\ UNCHANGED <<now, chosen, entry, log>>
    BY <1>5 DEF CheckFails, RegisterFails, NotCounted
  <2> QED BY <2>1, FinishKeeps
<1>6. ASSUME NEW q \in Attempts, CheckAddress(q) \/ Verify(q) \/ Reset(q)
      PROVE  GuardInv'
  BY <1>6, CheckAddressKeeps, VerifyKeeps, ResetKeeps
<1>7. ASSUME NEW q \in Attempts, RegisterMemory(q) \/ RegisterIdentity(q) \/ RegisterAddress(q)
      PROVE  GuardInv'
  BY <1>7, RegisterMemoryKeeps, RegisterIdentityKeeps, RegisterAddressKeeps
<1> QED BY <1>1, <1>2, <1>3, <1>4, <1>5, <1>6, <1>7 DEF GuardNext

\* No password is verified and no reset mail sent while a cooldown runs that the failures
\* counted before the request arrived call for, but for the time a call to Redis may take:
\* however Check's two reads and RegisterFailure's two counts interleave.
THEOREM GuessesAreSpacedHolds == GuardSpec => []GuessesAreSpaced
<1>1. GuardInv => GuessesAreSpaced
  BY DEF GuardInv, GuessesAreSpaced, DueOK, Greatest
<1> QED BY <1>1, InitGuardInv, NextGuardInv, PTL DEF GuardSpec

\* Counting one more failure never cuts a running cooldown short, but for the age of the
\* stamp it is counted with.
THEOREM CooldownNeverShrinksHolds == GuardSpec => CooldownNeverShrinks
<1> DEFINE Counting ==
      \A k \in GuardKeys :
        (entry[k] # NoEntry /\ entry'[k] \notin {NoEntry, entry[k]} /\ ~Overflows) =>
          entry'[k].until >= Least(entry[k].until, entry[k].last + guard.reset)
                               - (now - entry'[k].last)
<1>1. GuardInv /\ [GuardNext]_<<now, guardVars>> => [Counting]_<<now, guardVars>>
  <2> SUFFICES ASSUME GuardInv, [GuardNext]_<<now, guardVars>>, NEW k \in GuardKeys,
                      entry[k] # NoEntry, entry'[k] \notin {NoEntry, entry[k]}, ~Overflows
               PROVE  entry'[k].until >= Least(entry[k].until, entry[k].last + guard.reset)
                                           - (now - entry'[k].last)
    OBVIOUS
  <2>1. \E q \in Attempts : /\ try[q].pc \in {"count", "count address"}
                            /\ Counted(entry[k], try[q].stamp) <= MaxFailures
                            /\ entry'[k] \in Bumped(entry[k], try[q].stamp)
    <3>0. entry \in [GuardKeys -> GuardEntry \cup {NoEntry}]
      BY DEF GuardInv, GuardTypes
    <3>1. PICK q \in Attempts :
            \/ RegisterMemory(q) \/ RegisterIdentity(q) \/ RegisterAddress(q)
            \/ Reset(q) \/ \E id \in Identities, ip \in Addresses : CheckMemory(q, id, ip)
      BY DEF GuardNext, GuardTick, Bypassed, guardVars, CheckIdentity, CheckAddress, CheckFails,
             Verify, RegisterFails, NotCounted
    <3>2. ~Reset(q)
      BY <3>0 DEF Reset
    <3>3. ~ \E id \in Identities, ip \in Addresses : CheckMemory(q, id, ip)
      BY DEF CheckMemory
    <3>4. CASE RegisterMemory(q)
      BY <3>0, <3>4 DEF RegisterMemory, At
    <3>5. CASE RegisterIdentity(q)
      BY <3>0, <3>5 DEF RegisterIdentity, Register, At
    <3>6. CASE RegisterAddress(q)
      BY <3>0, <3>6 DEF RegisterAddress, Register, At
    <3> QED BY <3>1, <3>2, <3>3, <3>4, <3>5, <3>6
  <2>2. PICK q \in Attempts : /\ try[q].pc \in {"count", "count address"}
                              /\ Counted(entry[k], try[q].stamp) <= MaxFailures
                              /\ entry'[k] \in Bumped(entry[k], try[q].stamp)
    BY <2>1
  <2> DEFINE t == try[q].stamp
             old == entry[k]
             new == entry'[k]
  <2>3. t \in Nat /\ t <= now /\ now \in Nat /\ guard.reset \in Nat /\ GuardPolicy
    BY <2>2, CountingRequest DEF GuardInv, GuardTypes, GuardPolicy
  <2>4. new.last = t /\ new.count = Counted(old, t) /\ new.count \in Nat
        /\ new.until = t + Wait(new.count)
    BY <2>2, <2>3, BumpedEntry, ZenonT(60) DEF GuardEntry
  <2>5. /\ old.last \in Nat /\ old.count \in Nat /\ old.last <= now
        /\ old.until = old.last + Wait(old.count)
    BY DEF GuardInv, GuardTypes, GuardEntry, EntryOK
  <2>6. Wait(old.count) \in Nat /\ Wait(new.count) \in Nat
    BY <2>3, <2>4, <2>5, WaitGrows
  <2>7. t - old.last > guard.reset \/ new.count = old.count + 1
    BY <2>4 DEF Counted
  <2>8. t - old.last > guard.reset \/ Wait(old.count) <= Wait(new.count)
    BY <2>3, <2>5, <2>7, WaitGrows
  <2> DEFINE v == Wait(old.count)
             w == Wait(new.count)
  <2> HIDE DEF v, w, t, old, new
  <2>9. new.until >= Least(old.until, old.last + guard.reset) - (now - new.last)
    BY <2>3, <2>4, <2>5, <2>6, <2>8 DEF Least
  <2> QED BY <2>9 DEF old, new
<1> QED BY <1>1, InitGuardInv, NextGuardInv, PTL DEF GuardSpec, CooldownNeverShrinks

=============================================================================
