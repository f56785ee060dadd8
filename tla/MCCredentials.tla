--------------------------- MODULE MCCredentials ---------------------------
(* Small instances of Credentials for TLC. *)
EXTENDS Credentials, TLC

Symmetric ==
  Permutations(Passwords) \cup Permutations(Tokens) \cup Permutations(SessionIds)
    \cup Permutations(Reqs)
=============================================================================
