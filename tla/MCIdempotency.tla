--------------------------- MODULE MCIdempotency ---------------------------
(* Small instances of Idempotency for TLC. *)
EXTENDS Idempotency, TLC

Symmetric ==
  Permutations(Reqs) \cup Permutations(Keys) \cup Permutations(Fingerprints)
    \cup Permutations(Outcomes)
=============================================================================
