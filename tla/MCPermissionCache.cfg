\* Both stores, two users whom an RBAC mutation may change, two requests that may
\* share a flight.
SPECIFICATION FairSpec
CONSTANTS
  Users = {u1, u2}
  Tokens = {t1}
  Hosts = {h1}
  Requests = {p1, p2}
  Admins = {a1}
  MaxChanges = 1
  Nil = Nil
  Stores = {"memory", "redis"}
  Failures = TRUE
INVARIANTS TypeOK AnswerIsOwn InvalidationEndsEntries
PROPERTIES CheckEnds
