\* One e-mail, which is the bootstrap administrator's; two requests at a time, two
\* tokens and one session, with and without mandatory verification.
SPECIFICATION Spec
CONSTANTS
  Emails = {e1}
  Passwords = {w1, w2}
  Tokens = {t1, t2}
  SessionIds = {s1}
  Reqs = {p1, p2}
  BootstrapAdmin = e1
  Nil = Nil
  Failures = TRUE
SYMMETRY Symmetric
INVARIANTS SupersededTokenIsDead OneRegistrant ChangeEndsSessions
  OnlyVerifiedSignIn OrphanOnlyAfterFailure
PROPERTIES TokenAppliedOnce
