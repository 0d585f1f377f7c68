------------------------------- MODULE MCTasks -------------------------------
(* Two users of one tenant and one of another.                             *)
EXTENDS Tasks, TLC

CONSTANTS t1, t2, ann, bob, eve

MCHome == ann :> t1 @@ bob :> t1 @@ eve :> t2

Symmetry == Permutations(Workspaces) \cup Permutations(Projects)
            \cup Permutations(Tasks) \cup Permutations(Slots)
==============================================================================
