------------------------------- MODULE MCFiles -------------------------------
(* Two users of one tenant and one of another.                             *)
EXTENDS Files, TLC

CONSTANTS t1, t2, ann, bob, eve

MCHome == ann :> t1 @@ bob :> t1 @@ eve :> t2

Symmetry == Permutations(Files) \cup Permutations(Slots) \cup Permutations({ann, bob})
==============================================================================
