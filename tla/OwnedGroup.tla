------------------------------ MODULE OwnedGroup -----------------------------
(***************************************************************************)
(* What membership promises: a group is founded by its first owner, people *)
(* join, leave and change roles one at a time, and no change ever takes    *)
(* the last owner away.                                                    *)
(***************************************************************************)
CONSTANTS Groups, People

VARIABLE role     \* role[g][p]: "none", "member" or "owner"

OwnersOf(g) == {p \in People : role[g][p] = "owner"}

GroupInit == role = [g \in Groups |-> [p \in People |-> "none"]]

Found(g, p) ==
    /\ \A q \in People : role[g][q] = "none"
    /\ role' = [role EXCEPT ![g][p] = "owner"]

(* Somebody other than p owns the group, or p is an owner afterwards.      *)
Change(g, p, newRole) ==
    /\ OwnersOf(g) # {}
    /\ newRole = "owner" \/ OwnersOf(g) \ {p} # {}
    /\ role' = [role EXCEPT ![g][p] = newRole]

GroupNext ==
    \E g \in Groups, p \in People :
        \/ Found(g, p)
        \/ \E newRole \in {"none", "member", "owner"} : Change(g, p, newRole)

GroupSpec == GroupInit /\ [][GroupNext]_role
==============================================================================
