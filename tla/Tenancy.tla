------------------------------- MODULE Tenancy -------------------------------
(***************************************************************************)
(* What the rest of the system may rely on of workspaces: a workspace      *)
(* belongs to one tenant for ever, and only users of that tenant join it.  *)
(***************************************************************************)
CONSTANTS Users, Home, Workspaces, None

VARIABLES owner,    \* owner[w]: the tenant of workspace w, None before it exists
          members   \* members[w]: the users in it

tenancyVars == <<owner, members>>

TenancyInit ==
    /\ owner = [w \in Workspaces |-> None]
    /\ members = [w \in Workspaces |-> {}]

Found(w, u) ==
    /\ owner[w] = None
    /\ owner' = [owner EXCEPT ![w] = Home[u]]
    /\ members' = [members EXCEPT ![w] = {u}]

Join(w, u) ==
    /\ owner[w] = Home[u]
    /\ members' = [members EXCEPT ![w] = @ \cup {u}]
    /\ UNCHANGED owner

Leave(w, u) ==
    /\ members' = [members EXCEPT ![w] = @ \ {u}]
    /\ UNCHANGED owner

TenancyNext ==
    \E w \in Workspaces, u \in Users : Found(w, u) \/ Join(w, u) \/ Leave(w, u)

TenancySpec == TenancyInit /\ [][TenancyNext]_tenancyVars
==============================================================================
