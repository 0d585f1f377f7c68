-------------------------------- MODULE Actors --------------------------------
(***************************************************************************)
(* Who asks for projects and tasks: users, each of one tenant for ever, in *)
(* a number of requests at a time.                                         *)
(***************************************************************************)
CONSTANTS Users,     \* users
          Home,      \* Home[u]: the tenant of user u (never changes)
          Callers,   \* the users an API key was created by
          Projects,  \* ids of projects
          Slots,     \* requests in flight at a time
          None       \* no tenant, user, project or row

ASSUME ActorsAssumption ==
    /\ DOMAIN Home = Users
    /\ Callers \subseteq Users
    /\ None \notin Projects \cup Users \cup {Home[u] : u \in Users}

Tenants == {Home[u] : u \in Users}
==============================================================================
