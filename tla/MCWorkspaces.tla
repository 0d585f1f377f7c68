---------------------------- MODULE MCWorkspaces -----------------------------
(* Instances of Workspaces for TLC.                                        *)
EXTENDS Workspaces, TLC

CONSTANTS t1, t2, u1, u2, u3

(* Two tenants: u1 and u2 are colleagues, u3 is a stranger.                *)
TwoTenants == u1 :> t1 @@ u2 :> t1 @@ u3 :> t2

OneTenant == u1 :> t1 @@ u2 :> t1 @@ u3 :> t1

RequestSymmetry == Permutations(Requests)
==============================================================================
