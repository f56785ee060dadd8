--------------------------- MODULE MCFeatureFlags ---------------------------
(* A small instance of FeatureFlags for TLC. *)
EXTENDS FeatureFlags, TLC

\* A user in bucket 50 with one role.
MCContexts ==
  {[user |-> "u1", roles |-> {"beta"}, org |-> "acme", environment |-> "prod"]}

MCBucket(f, u) == 50

Targeted(type, match, on, priority) ==
  [type |-> type, match |-> match, percentage |-> 7, enabled |-> on, priority |-> priority]
Percent(p, on) ==
  [type |-> "percent", match |-> "x", percentage |-> p, enabled |-> on, priority |-> 1]

\* Rules of every type, a lower priority by default, both sides of a rollout's limit, and
\* three rules that are refused.
MCRuleInputs ==
  {Targeted("user", "u1", FALSE, 1), Targeted("user", "u1", TRUE, 0),
   Targeted("role", "beta", TRUE, 1), Targeted("org", "acme", FALSE, 1),
   Targeted("environment", "prod", TRUE, 1),
   Percent(50, TRUE), Percent(51, FALSE), Percent(101, TRUE),
   Targeted("org", Nil, TRUE, 1), Targeted("plan", "free", TRUE, 1)}

Symmetric == Permutations(Readers) \cup Permutations(Admins)
=============================================================================
