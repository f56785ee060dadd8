\* Both stores, one flag with up to two rules, one evaluation and two mutations at a time.
SPECIFICATION Spec
CONSTANTS
  Flags = {f1}
  RuleIds = {1, 2}
  RuleInputs <- MCRuleInputs
  Contexts <- MCContexts
  Bucket <- MCBucket
  Readers = {p1}
  Admins = {a1, a2}
  Nil = Nil
  Stores = {"memory", "redis"}
  Failures = TRUE
SYMMETRY Symmetric
INVARIANTS MostSpecificRuleDecides QuietEntriesAreFresh
