--------------------------- MODULE TokenFamilies ---------------------------
(***************************************************************************)
(* What the session subsystem promises about refresh tokens, with no       *)
(* table, statement or request in sight.  Tokens come in families.  A      *)
(* family is opened by a login, holds at most one live token, hands it on  *)
(* to a fresh token at every refresh, and once ended stays ended.          *)
(***************************************************************************)
CONSTANTS Ids, LegacyIds

VARIABLES
  used,  \* tokens minted so far
  live   \* live[f]: the live tokens of the family that token f opened

Init ==
  /\ used = LegacyIds
  /\ \E alive \in SUBSET LegacyIds :
       live = [f \in Ids |-> IF f \in alive THEN {f} ELSE {}]

\* A login opens the family named after its first token.
Open(f) ==
  /\ f \notin used
  /\ used' = used \cup {f}
  /\ live' = [live EXCEPT ![f] = {f}]

\* A refresh trades the live token of a family for one never seen before.
Advance(f, old, new) ==
  /\ live[f] = {old}
  /\ new \notin used
  /\ used' = used \cup {new}
  /\ live' = [live EXCEPT ![f] = {new}]

\* Logout, revocation, reuse detection or expiry end some families together.
End ==
  /\ UNCHANGED used
  /\ LET before == live IN
     \E ended \in SUBSET Ids : live' = [f \in Ids |-> IF f \in ended THEN {} ELSE before[f]]

Next ==
  \/ End
  \/ \E f \in Ids : Open(f)
  \/ \E f \in Ids : \E old \in live[f], new \in Ids : Advance(f, old, new)

Spec == Init /\ [][Next]_<<used, live>>

=============================================================================
