\* Two list requests for one key and two mutations, with both stores.
SPECIFICATION PartSpec
CONSTANTS
  Queries = {q}
  Records = {i}
  Readers = {r1, r2}
  Processes = {p1, p2}
  Admins = {a1, a2}
  Watched = {"users"}
  Ops = {"create_role", "update_role", "delete_role", "permission", "set_roles", "sync"}
  MaxChanges = 2
  Stores = {"memory", "redis"}
  Nil = Nil
SYMMETRY Symmetric
INVARIANTS AnswersKeepUp NotFoundIsReal
