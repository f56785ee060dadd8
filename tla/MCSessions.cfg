\* Two requests of one user on PostgreSQL, with statement failures and requests
\* dying midway.
SPECIFICATION Spec
CONSTANTS
  Users = {u1}
  Ids = {l1, t1, t2}
  LegacyIds = {l1}
  Reqs = {p1, p2}
  RevokeAllReasons = {"logout"}
  Nil = Nil
  Failures = TRUE
SYMMETRY Symmetric
INVARIANTS TypeOK OneLiveTokenPerFamily OneSuccessor RevocationEndsFamilies
PROPERTIES RevocationIsFinal ImplementsFamilies
