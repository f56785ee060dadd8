\* A sign-in that verified the old password finishes after the password was changed.
SPECIFICATION Spec
CONSTANTS
  Emails = {e1}
  Passwords = {w1, w2}
  Tokens = {t1, t2}
  SessionIds = {s1, s2}
  Reqs = {p1, p2}
  BootstrapAdmin = e1
  Nil = Nil
  Failures = TRUE
SYMMETRY Symmetric
INVARIANTS OldPasswordLocksOut
