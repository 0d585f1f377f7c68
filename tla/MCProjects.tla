----------------------------- MODULE MCProjects ------------------------------
(* Projects with two users of one tenant and one of another.               *)
EXTENDS Projects, TLC

CONSTANTS t1, t2, ann, bob, eve

MCHome == ann :> t1 @@ bob :> t1 @@ eve :> t2

Symmetry == Permutations(Rows) \cup Permutations(Slots)
==============================================================================
