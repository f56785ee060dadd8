----------------------------- MODULE MCSessions -----------------------------
(* Finite instances of Sessions.                                           *)
EXTENDS Sessions, TLC

\* Users, requests and tokens minted by this code are interchangeable.
Symmetric ==
  Permutations(Users) \cup Permutations(Reqs) \cup Permutations(Ids \ LegacyIds)

=============================================================================
