---------------------------- MODULE MCListCache ----------------------------
(***************************************************************************)
(* A finite instance of ListCache.  Whether a record is known to be        *)
(* missing decides nothing about the lists, so the run either asks for     *)
(* lists while administrators change them, or looks roles up while they    *)
(* come and go.  For the list that is asked for the other operations are   *)
(* like these two: one that makes several changes and one that makes one.  *)
(***************************************************************************)
EXTENDS ListCache, TLC

VARIABLE part  \* "lists" or "records"

ListOps == {"create_role", "set_roles"}

\* A change of the lists that nobody asks for is left to the other part.
InPart ==
  CASE part = "lists" ->
         /\ \A a \in Admins : adm'[a].op \in ListOps \cup {Nil}
         /\ store = "memory" => \E p \in Processes : \A r \in Readers : reader'[r].on \in {p, Nil}
         /\ version' # version => \A l \in Watched : version'[l] # version[l]
    [] part = "records" ->
         /\ \A r \in Readers : reader'[r] = IdleReader

PartInit ==
  /\ part \in {"lists", "records"} /\ Init
  /\ part = "lists" => \A i \in Records : role[i] = "unused"
PartNext == UNCHANGED part /\ Next /\ InPart
PartSpec == PartInit /\ [][PartNext]_<<part, vars>>

Symmetric == Permutations(Readers) \cup Permutations(Admins) \cup Permutations(Processes)

=============================================================================
