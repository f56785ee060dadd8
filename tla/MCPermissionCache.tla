------------------------- MODULE MCPermissionCache -------------------------
(* Small instances of PermissionCache for TLC. *)
EXTENDS PermissionCache, TLC

Symmetric ==
  Permutations(Users) \cup Permutations(Tokens) \cup Permutations(Hosts)
    \cup Permutations(Requests) \cup Permutations(Admins)
=============================================================================
