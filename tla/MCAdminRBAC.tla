---------------------------- MODULE MCAdminRBAC ----------------------------
(* A small instance of AdminRBAC for TLC. *)
EXTENDS AdminRBAC, TLC

\* Symmetric sets: requests only, since SeedSync handles permissions in CHOOSE's order.
Symmetric == Permutations(Admins)

MCRoleInputs == {{1}, {3}}
MCPermInputs == {{}, {"roles:write", "permissions:write"}}
=============================================================================
