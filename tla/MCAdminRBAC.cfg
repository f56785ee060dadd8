\* Seeded roles 1 and 2, a role 3 that administrators have made or will make, two requests.
SPECIFICATION Spec
CONSTANTS
  Users = {u1, u2}
  Callers = {u1}
  RoleIds = {1, 2, 3}
  PermIds = {1, 2, 3}
  Names = {"admin", "user", "ops", ""}
  Tokens = {"roles:write", "permissions:write", "docs:read"}
  ProtectedRoles = {"user"}
  ProtectedPermissions = {"roles:write"}
  Defaults = {"roles:write", "permissions:write"}
  Synced = {"roles:write", "permissions:write"}
  Bootstrap = u1
  RoleInputs <- MCRoleInputs
  PermInputs <- MCPermInputs
  Admins = {a1, a2}
  MaxRequests = 2
  Nil = Nil
  Gone = Gone
  Failures = TRUE
SYMMETRY Symmetric
INVARIANTS NoCacheLeftBehind
PROPERTIES GuardPreventsLockOut ProtectedRolesStay
\* MaxRequests ends every behaviour.
CHECK_DEADLOCK FALSE
