\* PostgreSQL: a rotation commits while the family's UPDATE is running.
SPECIFICATION Spec
CONSTANTS
  Users = {u1}
  Ids = {t1, t2, t3}
  LegacyIds = {}
  Reqs = {p1, p2}
  RevokeAllReasons = {"logout"}
  Nil = Nil
  Failures = FALSE
INVARIANTS ReuseEndsFamily
