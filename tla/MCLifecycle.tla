---------------------------- MODULE MCLifecycle ----------------------------
(***************************************************************************)
(* A finite instance of the configuration, the life of the process and its *)
(* object storage.  The three share no state but the configuration, so the *)
(* run takes one of them at a time: "config" loads a few thousand          *)
(* environments and no more, "process" runs a process in a few of them,    *)
(* "storage" uploads and deletes avatars.                                  *)
(***************************************************************************)
EXTENDS Lifecycle, Avatars, TLC

VARIABLE part

Secret(id) == [chars |-> 40, placeholder |-> FALSE, id |-> id]
Empty == [s \in Settings |-> Unset]

Dev ==
  [Empty EXCEPT !["DatabaseURL"] = "postgres", !["JWTAccessSecret"] = Secret(1),
    !["JWTRefreshSecret"] = Secret(2), !["RefreshTokenPepper"] = Secret(3),
    !["StateSigningSecret"] = Secret(4)]
Prod ==
  [Dev EXCEPT !["Env"] = "production", !["GoogleClientID"] = "id", !["GoogleClientSecret"] = "key",
    !["RedisAddr"] = "redis:6379", !["RedisUsername"] = "api", !["RedisPassword"] = "key",
    !["RedisTLSEnabled"] = TRUE, !["RedisTLSServerName"] = "redis",
    !["OTELTraceSamplingRatio"] = 1, !["MinIOAccessKey"] = "id", !["MinIOSecretKey"] = "key",
    !["MinIOUseSSL"] = TRUE]

\* Changes to an environment: every boolean and every outage policy, and numbers and
\* strings at and beyond the limits of their rules.
Changes ==
  ((DOMAIN BoolDefaults) \X {TRUE, FALSE})
    \cup (Scopes \X {Blank, "fail_open", "FAIL_OPEN", "fail_closed", "fail_softly"})
    \cup {<<"Env", e>> : e \in {"staging", "Production", "qa", "test"}}
    \cup {<<"AuthGoogleEnabled", FALSE>>, <<"AuthGoogleEnabled", Garbage>>,
          <<"RedisAddr", "localhost:6379">>, <<"RedisTLSServerName", Blank>>,
          <<"CookieSameSite", "Strict">>, <<"RateLimitRedisEnabled", Garbage>>,
          <<"RedisTLSInsecureSkipVerify", Garbage>>, <<"JWTRefreshSecret", Secret(1)>>,
          <<"JWTAccessTTL", Garbage>>, <<"JWTAccessTTL", Hour + 1>>,
          <<"AuthAbuseMultiplier", NaN>>, <<"OTELTraceSamplingRatio", 10>>,
          <<"OTELTraceSamplingRatio", NaN>>, <<"RedisMinIdleConns", 11>>,
          <<"IdempotencyDBCleanupBatch", 0>>, <<"AuthAbuseMaxDelay", Sec>>}

Changed(raw0, a, b) == [raw0 EXCEPT ![a[1]] = a[2], ![b[1]] = b[2]]
ConfigEnvironments == {Changed(raw0, a, b) : raw0 \in {Dev, Prod}, a \in Changes, b \in Changes}

\* Deadlines of a few units: the phases fit into the total or do not; and without Redis.
Timed(raw0, total, drain, flush) ==
  [raw0 EXCEPT !["ShutdownTimeout"] = total, !["ShutdownHTTPDrainTimeout"] = drain,
     !["ShutdownObservabilityTimeout"] = flush, !["ServerStartGracePeriod"] = 1]
ProcessEnvironments ==
  {Timed([Prod EXCEPT !["IdempotencyRedisEnabled"] = FALSE], 3, 2, 2),
   Timed([Dev EXCEPT !["RateLimitRedisEnabled"] = FALSE, !["IdempotencyRedisEnabled"] = FALSE],
         2, 1, 1)}
MCEnvironments == {Dev} \cup ConfigEnvironments \cup ProcessEnvironments

\* User 1 and user 12: the id of one begins with the other's.
MCUsers == {<<"1">>, <<"1", "2">>}
MCKeys == {ObjectKey(u, n) : u \in MCUsers, n \in {"a"}} \cup {<<"avatars/user-", "1", "/", "..", "2", "/", "a">>}

Init ==
  /\ part \in {"config", "process", "storage"}
  /\ StorageInit /\ (part # "storage" => bucket)
  /\ LifeInit
  /\ raw \in (CASE part = "config" -> ConfigEnvironments
                [] part = "process" -> ProcessEnvironments [] OTHER -> {Dev})
Next ==
  /\ UNCHANGED part
  /\ \/ /\ part # "storage" /\ LifeNext /\ UNCHANGED storeVars
        /\ part = "config" => main = "load" /\ UNCHANGED up
     \/ part = "storage" /\ StorageNext /\ UNCHANGED lifeVars
Spec == Init /\ [][Next]_<<part, lifeVars, storeVars>>
          /\ WF_<<part, lifeVars, storeVars>>(part = "process" /\ MainStep /\ UNCHANGED <<part, storeVars>>)
          /\ WF_<<part, lifeVars, storeVars>>(part = "process" /\ Tick /\ UNCHANGED <<part, storeVars>>)

=============================================================================
