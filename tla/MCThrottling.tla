---------------------------- MODULE MCThrottling ----------------------------
(***************************************************************************)
(* A finite instance of the two throttling components.  Login and          *)
(* forgot-password pass a rate limiter and then the abuse guard, which     *)
(* share nothing but the clock: neither reads or writes what the other     *)
(* keeps.  So the run looks at one of them at a time and leaves the other  *)
(* at rest, instead of multiplying their states.                           *)
(***************************************************************************)
EXTENDS RateLimiter, AbuseGuard, TLC

VARIABLE part  \* the component at work: "limiter" or "guard"

\* One client, a probe and a trusted service; the client's key is its address
\* or its subject.
MCCallers ==
  {[ip |-> "10.0.0.1", subject |-> "7", probe |-> FALSE],
   [ip |-> "10.0.0.1", subject |-> "", probe |-> TRUE],
   [ip |-> "10.0.0.1", subject |-> "batch", probe |-> FALSE]}

\* Two requests per window of 5/3 s; and 10 a minute with a window of 1 s, which
\* is rounded up to one request per window while the bucket refills in 6 s; and 60 a
\* minute, whose bucket expires and starts again as soon as it is full.
MCRates == {[perMinute |-> 72, window |-> 5, multiplier |-> 3],
            [perMinute |-> 10, window |-> 3, multiplier |-> 2],
            [perMinute |-> 60, window |-> 3, multiplier |-> 2]}

\* A maximal delay within the reset window, and one beyond it.
MCGuardPolicies == {[free |-> 1, base |-> 2, multiplier |-> 2, max |-> 3, reset |-> 3],
                    [free |-> 0, base |-> 2, multiplier |-> 2, max |-> 5, reset |-> 2]}

AtRest(choice, choices) == choice = CHOOSE c \in choices : TRUE
Init ==
  /\ part \in {"limiter", "guard"}
  /\ LimiterInit /\ GuardInit
  /\ part = "limiter" =>
       AtRest(<<guard, store, scope>>, {normalizeAuthAbusePolicy(p) : p \in GuardPolicies}
                                         \X {"memory", "redis"} \X {"login", "forgot"})
  /\ part = "guard" =>
       AtRest(<<policy, backend, bySubject, lag>>,
              {normalizePolicy(toRateLimitPolicy(s)) : s \in Rates}
                \X {"local", "redis"} \X BOOLEAN \X Lags)
LimiterStep == part = "limiter" /\ LimiterNext /\ UNCHANGED <<part, guardVars>>
GuardStep == part = "guard" /\ GuardNext /\ UNCHANGED <<part, limiterVars>>
Spec == Init /\ [][LimiterStep \/ GuardStep]_<<part, now, limiterVars, guardVars>>

Symmetric == Permutations(Attempts) \cup Permutations(Addresses)

=============================================================================
