------------------------------- MODULE MCMembers -------------------------------
(***************************************************************************)
(* Two people.  A rider's rows and an operator's never meet, so a run      *)
(* follows one rider alone, or operators and the staff they invite.        *)
(***************************************************************************)
EXTENDS Members, TLC

Apart == \A u, v \in Users : u # v /\ account[u].role = "rider" => Free(v)
Symmetry == Permutations(Users) \cup Permutations(Nodes) \cup Permutations(Clients)
================================================================================
