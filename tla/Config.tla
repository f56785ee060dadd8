------------------------------- MODULE Config -------------------------------
(***************************************************************************)
(* How the process gets its configuration: Load reads the environment,     *)
(* Validate accepts or refuses the result, and the providers choose from   *)
(* it what the process is built of.                                        *)
(*                                                                         *)
(* An environment maps the names of settings to values; Unset stands for   *)
(* an empty or missing variable and Garbage for text that does not parse   *)
(* as the type of the setting.  Only AUTH_GOOGLE_ENABLED is looked up as   *)
(* well as read: there Unset means missing, and an empty variable is       *)
(* Garbage (set, with no value).  Durations are in units of 2 ms, so that  *)
(* thirty days are within TLC's integers, and floats in tenths.  Strings   *)
(* are kept as far as a rule tells them apart; a secret is its length,     *)
(* whether it looks like a placeholder, and an identity.  Names and        *)
(* prefixes that no rule reads are left out.                               *)
(***************************************************************************)
EXTENDS Integers

CONSTANTS Unset, Garbage, NaN

ASSUME NaNAssumption == NaN \notin Int

Ms(n) == n \div 2
Sec == Ms(1000)
Minute == 60 * Sec
Hour == 60 * Minute
MaxInt == 2147483647  \* stands for "no upper bound"

-----------------------------------------------------------------------------
(* Load: what is read, and the value of a variable that is not set.        *)

BoolDefaults ==
  [CookieSecure |-> TRUE, AuthLocalEnabled |-> TRUE,
   AuthLocalRequireEmailVerification |-> FALSE, AuthAbuseProtectionEnabled |-> TRUE,
   BypassTrustedActors |-> FALSE, AdminListCacheEnabled |-> TRUE,
   NegativeLookupCacheEnabled |-> TRUE, RBACPermissionCacheEnabled |-> TRUE,
   FeatureFlagEvalCacheRedis |-> TRUE, RateLimitRedisEnabled |-> TRUE,
   IdempotencyEnabled |-> TRUE, IdempotencyRedisEnabled |-> TRUE,
   IdempotencyDBCleanupEnabled |-> TRUE, RedisTLSEnabled |-> FALSE,
   RedisTLSInsecureSkipVerify |-> FALSE, OTELEnabled |-> TRUE, MinIOUseSSL |-> FALSE]

\* Default and accepted range of the numbers and durations.
Bounds(def, lo, hi) == [def |-> def, lo |-> lo, hi |-> hi]

IntRanges ==
  [AuthPasswordForgotRateLimitPerMin |-> Bounds(5, 1, MaxInt),
   AuthRateLimitPerMin |-> Bounds(30, 1, MaxInt), APIRateLimitPerMin |-> Bounds(120, 1, MaxInt),
   RateLimitLoginPerMin |-> Bounds(20, 1, MaxInt), RateLimitRefreshPerMin |-> Bounds(30, 1, MaxInt),
   RateLimitAdminWritePerMin |-> Bounds(30, 1, MaxInt),
   RateLimitAdminSyncPerMin |-> Bounds(10, 1, MaxInt),
   AuthAbuseFreeAttempts |-> Bounds(3, 0, 20), IdempotencyDBCleanupBatch |-> Bounds(500, 1, 10000),
   RedisMaxRetries |-> Bounds(3, -1, 20), RedisPoolSize |-> Bounds(10, 1, 1000),
   RedisMinIdleConns |-> Bounds(2, 0, MaxInt)]

FloatRanges ==
  [RateLimitBurstMultiplier |-> Bounds(15, 10, 100), AuthAbuseMultiplier |-> Bounds(20, 10, 100),
   OTELTraceSamplingRatio |-> Bounds(10, 0, 10)]

DurationRanges ==
  [JWTAccessTTL |-> Bounds(15 * Minute, 1, Hour), JWTRefreshTTL |-> Bounds(168 * Hour, 1, 720 * Hour),
   AuthEmailVerifyTokenTTL |-> Bounds(30 * Minute, 1, 24 * Hour),
   AuthPasswordResetTokenTTL |-> Bounds(15 * Minute, 1, 24 * Hour),
   OTELMetricsExportInterval |-> Bounds(10 * Sec, 1, MaxInt),
   ReadinessProbeTimeout |-> Bounds(Sec, 1, MaxInt),
   IdempotencyTTL |-> Bounds(24 * Hour, 1, 168 * Hour),
   IdempotencyDBCleanupInterval |-> Bounds(5 * Minute, Sec, Hour),
   AdminListCacheTTL |-> Bounds(30 * Sec, 1, 10 * Minute),
   NegativeLookupCacheTTL |-> Bounds(15 * Sec, 1, Minute),
   RBACPermissionCacheTTL |-> Bounds(5 * Minute, 1, 30 * Minute),
   RateLimitSustainedWindow |-> Bounds(Minute, Sec, 15 * Minute),
   AuthAbuseBaseDelay |-> Bounds(2 * Sec, Sec, Minute),
   AuthAbuseMaxDelay |-> Bounds(5 * Minute, -MaxInt, Hour),
   AuthAbuseResetWindow |-> Bounds(30 * Minute, Minute, 24 * Hour),
   ServerStartGracePeriod |-> Bounds(2 * Sec, -MaxInt, MaxInt),
   RedisDialTimeout |-> Bounds(5 * Sec, Ms(100), 30 * Sec),
   RedisReadTimeout |-> Bounds(3 * Sec, Ms(100), 30 * Sec),
   RedisWriteTimeout |-> Bounds(3 * Sec, Ms(100), 30 * Sec),
   RedisMinRetryBackoff |-> Bounds(Ms(8), 0, 5 * Sec),
   RedisMaxRetryBackoff |-> Bounds(Ms(512), -MaxInt, 30 * Sec),
   RedisPoolTimeout |-> Bounds(4 * Sec, Ms(100), 30 * Sec),
   ShutdownTimeout |-> Bounds(20 * Sec, 1, MaxInt),
   ShutdownHTTPDrainTimeout |-> Bounds(10 * Sec, 1, MaxInt),
   ShutdownObservabilityTimeout |-> Bounds(8 * Sec, 1, MaxInt)]

NoSecret == [chars |-> 0, placeholder |-> FALSE, id |-> 0]
Scopes == {"RateLimitOutagePolicyAPI", "RateLimitOutagePolicyAuth", "RateLimitOutagePolicyForgot",
           "RateLimitOutagePolicyLogin", "RateLimitOutagePolicyRefresh",
           "RateLimitOutagePolicyAdminW", "RateLimitOutagePolicyAdminS"}

\* Strings and lists.  PemFile is what the CA file holds; the list of protected
\* permissions is well formed or not.
StringDefaults ==
  [Env |-> "development", DatabaseURL |-> "", JWTAccessSecret |-> NoSecret,
   JWTRefreshSecret |-> NoSecret, RefreshTokenPepper |-> NoSecret, StateSigningSecret |-> NoSecret,
   CookieSameSite |-> "lax", GoogleClientID |-> "", GoogleClientSecret |-> "",
   RBACProtectedPermissions |-> "well formed", BypassTrustedActorCIDRs |-> {},
   BypassTrustedActorSubjects |-> {}, RedisKeyNamespace |-> "v1", RedisAddr |-> "localhost:6379",
   RedisUsername |-> "", RedisPassword |-> "", RedisTLSServerName |-> "",
   RedisTLSCACertFile |-> "", OTELExporterOTLPEndpoint |-> "localhost:4317",
   OTELLogLevel |-> "info", MinIOEndpoint |-> "localhost:9000", MinIOAccessKey |-> "",
   MinIOSecretKey |-> "", MinIOBucketName |-> "avatars",
   RateLimitOutagePolicyAPI |-> "fail_open", RateLimitOutagePolicyAuth |-> "fail_closed",
   RateLimitOutagePolicyForgot |-> "fail_closed", RateLimitOutagePolicyLogin |-> "fail_closed",
   RateLimitOutagePolicyRefresh |-> "fail_closed", RateLimitOutagePolicyAdminW |-> "fail_closed",
   RateLimitOutagePolicyAdminS |-> "fail_closed"]

Settings ==
  DOMAIN BoolDefaults \cup DOMAIN IntRanges \cup DOMAIN FloatRanges \cup DOMAIN DurationRanges
    \cup DOMAIN StringDefaults \cup {"AuthGoogleEnabled"}

Blank == " "
TrimSpace(v) == IF v = Blank THEN "" ELSE v
ToLower(v) ==
  CASE v = "FAIL_OPEN" -> "fail_open" [] v = "Production" -> "production"
    [] v = "Strict" -> "strict" [] OTHER -> v

\* A bool, int or float that does not parse takes its default, silently.
getEnv(raw, def) == IF raw = Unset THEN def ELSE raw
getEnvParsed(raw, def) == IF raw \in {Unset, Garbage} THEN def ELSE raw

\* Classes of environments; a name may be in neither.
isLocalLikeEnv(env) == ToLower(TrimSpace(env)) \in {"development", "dev", "local", "test"}
isProdLike(env) ==
  ToLower(TrimSpace(env)) \in {"production", "prod", "staging", "stage", "preprod"}

\* Without credentials Google sign-in is off by default in local environments, unless
\* the variable is there at all.
GoogleEnabled(raw) ==
  IF /\ raw["AuthGoogleEnabled"] = Unset
     /\ Unset \in {raw["GoogleClientID"], raw["GoogleClientSecret"]}
     /\ isLocalLikeEnv(getEnv(raw["Env"], StringDefaults["Env"]))
  THEN FALSE ELSE getEnvParsed(raw["AuthGoogleEnabled"], TRUE)

\* Strings that Load trims, and strings it takes in lower case.
Trimmed == {"RedisUsername", "RedisTLSServerName", "RedisTLSCACertFile"}
Lowered == {"CookieSameSite", "OTELLogLevel"}

Read(raw) ==
  [s \in Settings |->
     CASE s \in DOMAIN BoolDefaults -> getEnvParsed(raw[s], BoolDefaults[s])
       [] s \in DOMAIN IntRanges -> getEnvParsed(raw[s], IntRanges[s].def)
       [] s \in DOMAIN FloatRanges -> getEnvParsed(raw[s], FloatRanges[s].def)
       [] s \in DOMAIN DurationRanges -> getEnv(raw[s], DurationRanges[s].def)
       [] s \in Scopes -> ToLower(TrimSpace(getEnv(raw[s], StringDefaults[s])))
       [] s \in Trimmed -> TrimSpace(getEnv(raw[s], StringDefaults[s]))
       [] s \in Lowered -> ToLower(getEnv(raw[s], StringDefaults[s]))
       [] s = "AuthGoogleEnabled" -> GoogleEnabled(raw)
       [] OTHER -> getEnv(raw[s], StringDefaults[s])]

-----------------------------------------------------------------------------
(* Validate: the rules, in the order of the code.                          *)

\* x < lo \/ x > hi is false of NaN.
OutOfRange(x, lo, hi) == x # NaN /\ (x < lo \/ x > hi)
InRange(c, ranges) == \A s \in DOMAIN ranges : ~OutOfRange(c[s], ranges[s].lo, ranges[s].hi)

ValidSecrets(c) ==
  /\ c["DatabaseURL"] # ""
  /\ c["JWTAccessSecret"].chars >= 32 /\ c["JWTRefreshSecret"].chars >= 32
  /\ c["JWTAccessSecret"] # c["JWTRefreshSecret"]
  /\ c["RefreshTokenPepper"].chars >= 16 /\ c["StateSigningSecret"].chars >= 16

ValidAuth(c) ==
  /\ c["AuthLocalEnabled"] \/ c["AuthGoogleEnabled"]
  /\ c["AuthGoogleEnabled"] => c["GoogleClientID"] # "" /\ c["GoogleClientSecret"] # ""
  /\ c["AuthLocalRequireEmailVerification"] => c["AuthLocalEnabled"]
  /\ c["RBACProtectedPermissions"] = "well formed"

isValidRateLimitOutagePolicy(v) == ToLower(TrimSpace(v)) \in {"", "fail_open", "fail_closed"}
ValidLimits(c) ==
  /\ InRange(c, [IntRanges EXCEPT !["IdempotencyDBCleanupBatch"] = Bounds(0, -MaxInt, MaxInt)])
  /\ InRange(c, FloatRanges)
  /\ \A s \in Scopes : isValidRateLimitOutagePolicy(c[s])
  /\ c["AuthAbuseMaxDelay"] >= c["AuthAbuseBaseDelay"]
  /\ "malformed" \notin c["BypassTrustedActorCIDRs"]
  /\ c["BypassTrustedActors"] =>
       c["BypassTrustedActorCIDRs"] # {} \/ c["BypassTrustedActorSubjects"] # {}

\* Some durations are only looked at when they are used.
CleanupRuns(c) ==
  c["IdempotencyEnabled"] /\ ~c["IdempotencyRedisEnabled"] /\ c["IdempotencyDBCleanupEnabled"]
Checked(c, s) ==
  CASE s = "AdminListCacheTTL" -> c["AdminListCacheEnabled"]
    [] s = "NegativeLookupCacheTTL" -> c["NegativeLookupCacheEnabled"]
    [] s = "RBACPermissionCacheTTL" -> c["RBACPermissionCacheEnabled"]
    [] s = "IdempotencyDBCleanupInterval" -> CleanupRuns(c)
    [] OTHER -> TRUE
ValidDurations(c) ==
  /\ InRange(c, [s \in {d \in DOMAIN DurationRanges : Checked(c, d)} |-> DurationRanges[s]])
  /\ CleanupRuns(c) => ~OutOfRange(c["IdempotencyDBCleanupBatch"], 1, 10000)

redisRequired(c) ==
  \/ c["RateLimitRedisEnabled"] \/ c["AuthAbuseProtectionEnabled"]
  \/ c["IdempotencyEnabled"] /\ c["IdempotencyRedisEnabled"]
  \/ c["AdminListCacheEnabled"] \/ c["NegativeLookupCacheEnabled"]
  \/ c["RBACPermissionCacheEnabled"] \/ c["FeatureFlagEvalCacheRedis"]

ValidRedis(c) ==
  /\ TrimSpace(c["RedisKeyNamespace"]) # "malformed"
  /\ redisRequired(c) => TrimSpace(c["RedisAddr"]) # ""
  /\ ~c["RedisTLSEnabled"] => /\ c["RedisTLSServerName"] = "" /\ c["RedisTLSCACertFile"] = ""
                              /\ ~c["RedisTLSInsecureSkipVerify"]
  /\ c["RedisTLSCACertFile"] \in {"", "certificates"}
  /\ c["RedisMaxRetryBackoff"] >= c["RedisMinRetryBackoff"]
  /\ c["RedisMinIdleConns"] <= c["RedisPoolSize"]

ValidShutdown(c) ==
  /\ c["ShutdownHTTPDrainTimeout"] <= c["ShutdownTimeout"]
  /\ c["ShutdownObservabilityTimeout"] <= c["ShutdownTimeout"]

isValidLogLevel(v) == v \in {"debug", "info", "warn", "error"}
ValidTelemetry(c) ==
  /\ c["OTELEnabled"] => c["OTELExporterOTLPEndpoint"] # ""
  /\ isValidLogLevel(c["OTELLogLevel"])

isLoopbackAddr(addr) == TrimSpace(addr) \in {"localhost:6379", "127.0.0.1:6379", "0.0.0.0:6379"}
looksPlaceholder(secret) == secret.placeholder

\* The scopes that may not fail open in production.
GuardedScopes == {"RateLimitOutagePolicyAuth", "RateLimitOutagePolicyForgot",
                  "RateLimitOutagePolicyLogin", "RateLimitOutagePolicyAdminW",
                  "RateLimitOutagePolicyAdminS"}

\* Faulty: the limiter may be local in production.
ValidProductionLocalLimiter(c) ==
  isProdLike(c["Env"]) =>
    /\ c["CookieSecure"] /\ c["CookieSameSite"] \in {"lax", "strict"}
    /\ \A s \in GuardedScopes : c[s] # "fail_open"
    /\ c["MinIOUseSSL"]

ValidProduction(c) ==
  isProdLike(c["Env"]) =>
    /\ c["CookieSecure"] /\ c["CookieSameSite"] \in {"lax", "strict"}
    /\ c["RateLimitRedisEnabled"] /\ ~isLoopbackAddr(c["RedisAddr"])
    /\ ~OutOfRange(c["OTELTraceSamplingRatio"], 0, 2)
    /\ \A s \in {"JWTAccessSecret", "JWTRefreshSecret", "RefreshTokenPepper", "StateSigningSecret"} :
         ~looksPlaceholder(c[s])
    /\ \A s \in GuardedScopes : c[s] # "fail_open"
    /\ \A s \in {"MinIOEndpoint", "MinIOBucketName", "MinIOAccessKey", "MinIOSecretKey"} :
         TrimSpace(c[s]) # ""
    /\ c["MinIOUseSSL"]

ValidNonLocal(c) ==
  redisRequired(c) /\ ~isLocalLikeEnv(c["Env"]) =>
    /\ TrimSpace(c["RedisUsername"]) # "" /\ TrimSpace(c["RedisPassword"]) # ""
    /\ c["RedisTLSEnabled"] /\ TrimSpace(c["RedisTLSServerName"]) # ""
    /\ ~c["RedisTLSInsecureSkipVerify"]

Validate(c) ==
  /\ ValidSecrets(c) /\ ValidAuth(c) /\ ValidLimits(c) /\ ValidDurations(c) /\ ValidRedis(c)
  /\ ValidShutdown(c) /\ ValidTelemetry(c) /\ ValidProduction(c) /\ ValidNonLocal(c)

\* A duration that does not parse is an error of its own.
Loads(raw) == (\A s \in DOMAIN DurationRanges : raw[s] # Garbage) /\ Validate(Read(raw))

-----------------------------------------------------------------------------
(* Providers.                                                              *)

\* Whether there is a client is the condition under which Validate asks for an address.
provideRedisClient(c) == redisRequired(c)

\* The mode of each limiter when Redis does not answer; the last argument is the provider's
\* fallback.
toRateLimitFailureMode(raw, fallback) ==
  IF ToLower(TrimSpace(raw)) \in {"fail_open", "fail_closed"} THEN ToLower(TrimSpace(raw)) ELSE fallback
FailureMode(c, scope) ==
  toRateLimitFailureMode(c[scope],
    IF scope = "RateLimitOutagePolicyAPI" THEN "fail_open" ELSE "fail_closed")
LimiterBackend(c) ==
  IF c["RateLimitRedisEnabled"] /\ provideRedisClient(c) THEN "redis" ELSE "local"

provideAuthAbuseGuard(c) ==
  IF ~c["AuthAbuseProtectionEnabled"] THEN "none"
  ELSE IF provideRedisClient(c) THEN "redis" ELSE "memory"
CacheStore(c, setting) == IF c[setting] /\ provideRedisClient(c) THEN "redis" ELSE "none"
provideFeatureFlagEvaluationCacheStore(c) ==
  IF c["FeatureFlagEvalCacheRedis"] /\ provideRedisClient(c) THEN "redis" ELSE "memory"
provideIdempotencyStore(c) ==
  IF ~c["IdempotencyEnabled"] THEN "none"
  ELSE IF c["IdempotencyRedisEnabled"] /\ provideRedisClient(c) THEN "redis" ELSE "database"
CleanupLoop(c) == CleanupRuns(c) /\ provideIdempotencyStore(c) = "database"

\* Faulty: Redis is only probed for the sake of idempotency.
ProbesForIdempotency(c) ==
  {"db"} \cup IF provideIdempotencyStore(c) = "redis" THEN {"redis"} ELSE {}

provideReadinessProbeRunner(c) ==
  {"db"} \cup
    IF \/ c["RateLimitRedisEnabled"]
       \/ c["IdempotencyEnabled"] /\ c["IdempotencyRedisEnabled"]
    THEN {"redis"} ELSE {}

=============================================================================
