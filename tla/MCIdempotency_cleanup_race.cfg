\* Complete renews the expiry of a record between the cleanup's subselect and its DELETE.
SPECIFICATION Spec
CONSTANTS
  Keys = {k1}
  Fingerprints = {f1}
  Outcomes = {o1}
  Reqs = {p1, p2}
  Nil = Nil
  TTL = 2
  BatchSize = 1
  Stores = {"db"}
  Failures = FALSE
SYMMETRY Symmetric
PROPERTY ExecuteOnce
