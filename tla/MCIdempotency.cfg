\* Both stores; two requests that may carry the same key and different bodies.
SPECIFICATION FairSpec
CONSTANTS
  Keys = {k1}
  Fingerprints = {f1, f2}
  Outcomes = {o1, o2}
  Reqs = {p1, p2}
  Nil = Nil
  TTL = 2
  BatchSize = 1
  Stores = {"db", "redis"}
  Failures = TRUE
INVARIANTS TypeOK ReplayIsOwn
PROPERTIES OncePerWindow StableReplay KeyNeverStuck
