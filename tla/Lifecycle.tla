----------------------------- MODULE Lifecycle -----------------------------
(***************************************************************************)
(* The API process from its start to its end: main, the goroutine that     *)
(* listens, the handlers it starts, the loop that cleans idempotency       *)
(* records, the readiness probe, and the shutdown with its phases and      *)
(* deadlines.                                                              *)
(*                                                                         *)
(* The database and Redis may go down and come back.  A handler runs as    *)
(* long as it likes and uses the database at the end.  The drain and the   *)
(* telemetry end at their deadlines; stopping the tasks and closing Redis  *)
(* and the database have none and take any time.  While it starts main     *)
(* takes none.                                                             *)
(***************************************************************************)
EXTENDS Config, FiniteSets

CONSTANTS
  Environments,  \* environments the process may be started in
  Requests,      \* requests that may arrive
  LifeHorizon    \* bound on the time a process serves, and on its time past the deadline

\* time.ParseDuration gives a whole number of nanoseconds or an error.
ASSUME EnvironmentsAssumption ==
  \A e \in Environments : \A s \in DOMAIN DurationRanges : e[s] \in Int \cup {Unset, Garbage}

VARIABLES
  raw,       \* the environment of the process
  main,      \* where main is
  listener,  \* the goroutine of ListenAndServe
  request,   \* request[r]: "none", "running" or how it ended
  up,        \* the services that answer, of {"db", "redis"}
  dbOpen,    \* the connection pool of the database has not been closed
  loop,      \* the clean-up loop: "none", "running", "cancelled", "ended"
  probe,     \* the probe in progress, or its last answer
  clock,     \* time
  startedAt, totalAt, stepAt,  \* start of the grace period; deadlines of the shutdown
  flushed,   \* telemetry providers that were shut down
  overtime   \* history: the HTTP drain ran into its deadline

lifeVars == <<raw, main, listener, request, up, dbOpen, loop, probe, clock, startedAt, totalAt,
              stepAt, flushed, overtime>>
serving == <<request, up, dbOpen, loop, probe>>
shutdown == <<totalAt, stepAt, flushed, overtime>>

cfg == Read(raw)
Least2(a, b) == IF a < b THEN a ELSE b

Booting == {"load", "observability", "open", "migrate", "seed", "wire", "go", "notify"}
Stopping == {"draining", "flushing", "stop_tasks", "close_redis", "close_db", "return"}
Ended == {"exited", "failed"}

NoProbe == [pc |-> "none", db |-> FALSE, redis |-> FALSE, ready |-> FALSE]

LifeInit ==
  /\ raw \in Environments
  /\ main = "load" /\ listener = "none"
  /\ request = [r \in Requests |-> "none"]
  /\ up = {"db", "redis"} /\ dbOpen = FALSE /\ loop = "none" /\ probe = NoProbe
  /\ clock = 0 /\ startedAt = 0 /\ totalAt = 0 /\ stepAt = 0 /\ flushed = 0 /\ overtime = FALSE

-----------------------------------------------------------------------------
(* InitializeApp and main, until a signal arrives.                         *)

Cut == [r \in Requests |-> IF request[r] = "running" THEN "cut" ELSE request[r]]
\* The process is gone.
Exit(how) ==
  /\ main' = how /\ listener' = "closed" /\ request' = Cut
  /\ loop' = IF loop = "none" THEN "none" ELSE "ended"
  /\ UNCHANGED <<raw, up, dbOpen, probe, clock, startedAt, shutdown>>

Boot(next) ==
  /\ main' = next
  /\ UNCHANGED <<raw, listener, request, up, probe, clock, shutdown>>

Load ==
  /\ main = "load"
  /\ \/ /\ Loads(raw)
        /\ Boot("observability") /\ UNCHANGED <<dbOpen, loop, startedAt>>
     \/ ~Loads(raw) /\ Exit("failed")
InitRuntime ==
  /\ main = "observability"
  /\ Boot("open") /\ UNCHANGED <<dbOpen, loop, startedAt>>
\* Open, Migrate and Seed.
ProvideRuntimeDB ==
  /\ main \in {"open", "migrate", "seed"} /\ "db" \in up
  /\ Boot(CASE main = "open" -> "migrate" [] main = "migrate" -> "seed" [] main = "seed" -> "wire")
  /\ dbOpen' = TRUE
  /\ UNCHANGED <<loop, startedAt>>
\* The remaining providers: the grace period begins and the clean-up loop starts.
Wire ==
  /\ main = "wire"
  /\ Boot("go")
  /\ startedAt' = clock
  /\ loop' = IF CleanupLoop(cfg) THEN "running" ELSE "none"
  /\ UNCHANGED dbOpen
\* An error of a provider, or no database: log.Fatal.
BootFails ==
  /\ main \in {"observability", "open", "migrate", "seed", "wire"}
  /\ Exit("failed")

\* go ListenAndServe, then signal.Notify.
Go ==
  /\ main = "go"
  /\ main' = "notify" /\ listener' = "starting"
  /\ UNCHANGED <<raw, serving, clock, startedAt, shutdown>>
Notify ==
  /\ main = "notify"
  /\ Boot("serving") /\ UNCHANGED <<dbOpen, loop, startedAt>>
\* A signal that comes before Notify ends the process at once.
KilledEarly ==
  /\ main \in Booting
  /\ Exit("failed")

\* ListenAndServe returns at once if Shutdown was called first.
Listen ==
  /\ listener = "starting" /\ main \notin Ended
  /\ listener' = IF main \in Stopping THEN "closed" ELSE "listening"
  /\ UNCHANGED <<raw, main, serving, clock, startedAt, shutdown>>
\* The port is taken: log.Fatal.
ListenFails ==
  /\ listener = "starting" /\ main \in {"notify", "serving"}
  /\ Exit("failed")

-----------------------------------------------------------------------------
(* Requests and probes.                                                    *)

Serving(r, q) ==
  /\ request' = [request EXCEPT ![r] = q]
  /\ UNCHANGED <<raw, main, listener, up, dbOpen, loop, probe, clock, startedAt, shutdown>>

Accept(r) == listener = "listening" /\ request[r] = "none" /\ Serving(r, "running")
Handle(r) ==
  /\ request[r] = "running"
  /\ Serving(r, IF ~dbOpen THEN "broken" ELSE IF "db" \in up THEN "ok" ELSE "error")

Probing(p) ==
  /\ probe' = p
  /\ UNCHANGED <<raw, main, listener, request, up, dbOpen, loop, clock, startedAt, shutdown>>

\* ProbeRunner.Ready: not before the grace period is over; then one check after the other.
Grace == cfg["ServerStartGracePeriod"] > 0 /\ clock - startedAt < cfg["ServerStartGracePeriod"]
ProbeDB ==
  /\ listener = "listening" /\ probe.pc # "redis"
  /\ Probing(IF Grace THEN [NoProbe EXCEPT !.pc = "answered"]
             ELSE [NoProbe EXCEPT !.pc = "redis", !.db = dbOpen /\ "db" \in up])
ProbeRedis ==
  /\ probe.pc = "redis" /\ main \notin Ended
  /\ LET pings == "redis" \in up /\ main \notin {"close_db", "return"}
         healthy == "redis" \in provideReadinessProbeRunner(cfg) => pings
     IN Probing([probe EXCEPT !.pc = "answered", !.redis = pings, !.ready = probe.db /\ healthy])

\* A service goes down or comes back.
Outage ==
  /\ main \notin Ended
  /\ \E s \in {"db", "redis"} : up' = IF s \in up THEN up \ {s} ELSE up \cup {s}
  /\ UNCHANGED <<raw, main, listener, request, dbOpen, loop, probe, clock, startedAt, shutdown>>

\* A round of the clean-up loop may run on after the loop was cancelled: nobody waits for it.
LoopEnds ==
  /\ loop = "cancelled" /\ main \notin Ended
  /\ loop' = "ended"
  /\ UNCHANGED <<raw, main, listener, request, up, dbOpen, probe, clock, startedAt, shutdown>>

-----------------------------------------------------------------------------
(* Shutdown.                                                               *)

Running == {r \in Requests : request[r] = "running"}

\* SIGINT or SIGTERM: the listener closes and the drain begins.
Signal ==
  /\ main = "serving"
  /\ main' = "draining"
  /\ listener' = IF listener = "listening" THEN "closed" ELSE listener
  /\ totalAt' = clock + cfg["ShutdownTimeout"]
  /\ stepAt' = Least2(totalAt', clock + cfg["ShutdownHTTPDrainTimeout"])
  /\ UNCHANGED <<raw, serving, clock, startedAt, flushed, overtime>>

\* Faulty: the context of the telemetry shutdown is not derived from the total one.
FlushDeadlineAlone == clock + cfg["ShutdownObservabilityTimeout"]
FlushDeadline == Least2(totalAt, clock + cfg["ShutdownObservabilityTimeout"])

\* Faulty: the server is closed rather than shut down.
DrainedAtOnce ==
  /\ main = "draining"
  /\ main' = "flushing" /\ stepAt' = FlushDeadline
  /\ UNCHANGED <<raw, listener, serving, clock, startedAt, totalAt, flushed, overtime>>

\* Server.Shutdown returns when no handler runs, or at its deadline.
Drained ==
  /\ main = "draining" /\ Running = {}
  /\ main' = "flushing" /\ stepAt' = FlushDeadline
  /\ UNCHANGED <<raw, listener, serving, clock, startedAt, totalAt, flushed, overtime>>
\* Faulty: the drain has no deadline.
DrainUnbounded ==
  /\ main = "draining" /\ Running = {} /\ clock >= stepAt
  /\ main' = "flushing" /\ stepAt' = FlushDeadline /\ overtime' = TRUE
  /\ UNCHANGED <<raw, listener, serving, clock, startedAt, totalAt, flushed>>
DrainTimeout ==
  /\ main = "draining" /\ Running # {} /\ clock >= stepAt
  /\ main' = "flushing" /\ stepAt' = FlushDeadline /\ overtime' = TRUE
  /\ UNCHANGED <<raw, listener, serving, clock, startedAt, totalAt, flushed>>

\* Runtime.Shutdown: the providers of logs, metrics and traces, one after the other; past
\* the deadline each returns at once.
Flush ==
  /\ main = "flushing"
  /\ flushed' = flushed + 1
  /\ main' = IF flushed' = 3 THEN "stop_tasks" ELSE "flushing"
  /\ UNCHANGED <<raw, listener, serving, clock, startedAt, totalAt, stepAt, overtime>>

StopBackgroundTasks ==
  /\ main = "stop_tasks"
  /\ main' = "close_redis"
  /\ loop' = IF loop = "running" THEN "cancelled" ELSE loop
  /\ UNCHANGED <<raw, listener, request, up, dbOpen, probe, clock, startedAt, shutdown>>
CloseRedis ==
  /\ main = "close_redis"
  /\ main' = "close_db"
  /\ UNCHANGED <<raw, listener, serving, clock, startedAt, shutdown>>
CloseDB ==
  /\ main = "close_db"
  /\ main' = "return" /\ dbOpen' = FALSE
  /\ UNCHANGED <<raw, listener, request, up, loop, probe, clock, startedAt, shutdown>>
Return == main = "return" /\ Exit("exited")

Tick ==
  /\ \/ main = "serving" /\ clock < LifeHorizon
     \/ main \in {"draining", "flushing"} /\ clock < stepAt
     \/ main \in {"stop_tasks", "close_redis", "close_db"} /\ clock < totalAt + LifeHorizon
  /\ clock' = clock + 1
  /\ UNCHANGED <<raw, main, listener, serving, startedAt, shutdown>>

-----------------------------------------------------------------------------
MainStep ==
  \/ Load \/ InitRuntime \/ ProvideRuntimeDB \/ Wire \/ Go \/ Notify
  \/ Drained \/ DrainTimeout \/ Flush \/ StopBackgroundTasks \/ CloseRedis \/ CloseDB \/ Return
LifeNext ==
  \/ MainStep
  \/ BootFails \/ KilledEarly \/ Listen \/ ListenFails \/ Signal
  \/ \E r \in Requests : Accept(r) \/ Handle(r)
  \/ ProbeDB \/ ProbeRedis \/ Outage \/ LoopEnds \/ Tick

\* Goroutines that can run do; the clock advances.
LifeSpec == LifeInit /\ [][LifeNext]_lifeVars /\ WF_lifeVars(MainStep) /\ WF_lifeVars(Tick)

-----------------------------------------------------------------------------
(* Properties.                                                             *)

\* In a production-like environment that passes Validate, whatever the environment sets,
\* the limits of the authentication and the administration routes are kept in Redis, refuse
\* requests when Redis does not answer, and reach Redis over verified TLS.
ProductionFailsClosed ==
  main \notin {"load", "failed"} /\ isProdLike(cfg["Env"]) =>
    /\ LimiterBackend(cfg) = "redis"
    /\ \A s \in GuardedScopes : FailureMode(cfg, s) = "fail_closed"
    /\ cfg["RedisTLSEnabled"] /\ ~cfg["RedisTLSInsecureSkipVerify"]

\* A probe that says "ready" although Redis did not answer it comes from a process whose
\* limiters and idempotency records are not in Redis; never from a production-like one.
ReadinessSeesOutage ==
  probe.pc = "answered" /\ probe.ready /\ ~probe.redis =>
    /\ ~isProdLike(cfg["Env"])
    /\ LimiterBackend(cfg) = "local" /\ provideIdempotencyStore(cfg) # "redis"

\* A request that was accepted is cut off, or finds the database closed, only if it was
\* still running at the deadline of the HTTP drain (or the process failed to start).
DrainsBeforeClosing ==
  main # "failed" /\ (\E r \in Requests : request[r] \in {"cut", "broken"}) => overtime

\* SHUTDOWN_TIMEOUT is the ceiling of the drain and the telemetry together, whatever their
\* own deadlines are and however long handlers run; not of what is closed after them.
WithinCeiling == main \in {"draining", "flushing"} => clock <= totalAt

\* A signal to a serving process ends it, even if handlers never return.
ShutdownEnds == main = "draining" ~> main = "exited"

=============================================================================
