------------------------------ MODULE Workspaces -----------------------------
(***************************************************************************)
(* Workspaces and their members: the requests of workspace.service.ts.     *)
(* Every handler reads (is the caller an owner? does the target exist? how *)
(* many owners are there?) and writes in a later statement, with no        *)
(* transaction around them; each statement is a step, and the statements   *)
(* of different requests interleave.  A request that fails a check before  *)
(* it has written anything leaves no trace.  Projects come from            *)
(* project.service.ts, which asks no workspace whose it is; a workspace    *)
(* may hold projects of several tenants.                                   *)
(***************************************************************************)
EXTENDS Integers, FiniteSets

CONSTANTS Tenants,      \* tenants
          Users,        \* users
          Home,         \* Home[u]: the tenant of user u (never changes)
          Callers,      \* the users an API key was created by: tenant owners
          Workspaces,   \* ids of workspaces
          OneManager,   \* workspaces whose membership calls do not overlap
          Names,        \* names users choose
          Requests,     \* requests in flight
          MaxPrefix,    \* bound on the "[ARCHIVED] " prefixes of a name
          None          \* no tenant

ASSUME WorkspacesAssumption ==
    /\ Home \in [Users -> Tenants]
    /\ Callers \subseteq Users
    /\ OneManager \subseteq Workspaces
    /\ IsFiniteSet(Users)
    /\ MaxPrefix \in Nat
    /\ None \notin Tenants

VARIABLES ws,         \* the Workspace table; tenant None: there is no such row
          role,       \* the WorkspaceMember table: role[w][u], "none" if no row
          live,       \* live[w]: the tenants with an active project in w
          archived,   \* archived[w]: the tenants archiveWorkspace has archived
                      \* projects of in w
          req         \* the requests

vars == <<ws, role, live, archived, req>>

-----------------------------------------------------------------------------
Roles == {"none", "member", "owner"}

(* A name and the prefixes before it.                                      *)
NameValues == [chosen : Names, prefixes : Nat]

(* What a user may type: names are free text, prefixes included.           *)
TypedNames == [chosen : Names, prefixes : 0..MaxPrefix]

Prefixed(name) == [name EXCEPT !.prefixes = @ + 1]

Steps == {"idle", "create", "update", "projects", "readName", "storeName",
          "findUser", "checkMember", "insert", "findTarget", "count", "write",
          "done", "failed"}

(* actor: the user of the caller's API key; newRole "none" is a removal.   *)
RequestRecords ==
    [pc : Steps, actor : Users, ws : Workspaces, target : Users, newRole : Roles,
     name : NameValues]

Exists(w) == ws[w].tenant # None

OwnersOf(w) == {u \in Users : role[w][u] = "owner"}

(* The workspaces of a tenant that have a name.                            *)
HoldersOf(t, name) == {w \in Workspaces : ws[w].tenant = t /\ ws[w].name = name}

Goto(r, step) == req' = [req EXCEPT ![r].pc = step]

-----------------------------------------------------------------------------
Init ==
    \E u \in Users, w \in Workspaces, n \in TypedNames :
        /\ ws = [v \in Workspaces |-> [tenant |-> None, name |-> n]]
        /\ role = [v \in Workspaces |-> [x \in Users |-> "none"]]
        /\ live = [v \in Workspaces |-> {}]
        /\ archived = [v \in Workspaces |-> {}]
        /\ req = [r \in Requests |->
                     [pc |-> "idle", actor |-> u, ws |-> w, target |-> u,
                      newRole |-> "none", name |-> n]]

(* createWorkspace looks for the name first ...                            *)
CreateCheck(r) ==
    /\ req[r].pc = "idle"
    /\ \E u \in Callers, n \in TypedNames :
           /\ HoldersOf(Home[u], n) = {}
           /\ req' = [req EXCEPT ![r].pc = "create", ![r].actor = u, ![r].name = n]
    /\ UNCHANGED <<ws, role, live, archived>>

(* ... and creates workspace and owner in one transaction; the unique      *)
(* index on (tenantId, name) has the last word.                            *)
CreateCommit(r) ==
    LET u == req[r].actor
    IN  /\ req[r].pc = "create"
        /\ IF HoldersOf(Home[u], req[r].name) # {}
           THEN Goto(r, "failed") /\ UNCHANGED <<ws, role, live, archived>>
           ELSE \E w \in Workspaces :
                   /\ ~ Exists(w)
                   /\ ws' = [ws EXCEPT ![w] = [tenant |-> Home[u], name |-> req[r].name]]
                   /\ role' = [role EXCEPT ![w][u] = "owner"]
                   /\ Goto(r, "done")
                   /\ UNCHANGED <<live, archived>>

(* The check all other handlers start with: the caller's row in the        *)
(* workspace says owner.  The tenant takes no part in it.                  *)
Authorise(r) ==
    /\ req[r].pc = "idle"
    /\ \E u \in Callers, w \in Workspaces :
           /\ role[w][u] = "owner"
           /\ \/ \E n \in TypedNames :
                     req' = [req EXCEPT ![r].pc = "update", ![r].actor = u, ![r].ws = w,
                                        ![r].name = n]
              \/ req' = [req EXCEPT ![r].pc = "projects", ![r].actor = u, ![r].ws = w]
              \/ \E v \in Users, x \in Roles, step \in {"findUser", "findTarget"} :
                     /\ step = "findUser" => x # "none"
                     /\ req' = [req EXCEPT ![r].pc = step, ![r].actor = u, ![r].ws = w,
                                           ![r].target = v, ![r].newRole = x]
    /\ UNCHANGED <<ws, role, live, archived>>

(* The end of updateWorkspace: by id, writing the caller's tenant too.     *)
UpdateStore(r) ==
    LET w == req[r].ws
        t == Home[req[r].actor]
    IN  /\ req[r].pc = "update"
        /\ IF HoldersOf(t, req[r].name) \ {w} # {}
           THEN Goto(r, "failed") /\ UNCHANGED ws
           ELSE /\ ws' = [ws EXCEPT ![w] = [tenant |-> t, name |-> req[r].name]]
                /\ Goto(r, "done")
        /\ UNCHANGED <<role, live, archived>>

(* createProject: the workspace comes from the request, and the foreign    *)
(* key asks no more of it than that it exists.                             *)
CreateProject(u, w) ==
    /\ Exists(w)
    /\ live' = [live EXCEPT ![w] = @ \cup {Home[u]}]
    /\ UNCHANGED <<ws, role, archived, req>>

(* Mutant of ArchiveProjects: updateMany without its tenantId.             *)
ArchiveAllProjects(r) ==
    LET w == req[r].ws
    IN  /\ req[r].pc = "projects"
        /\ live' = [live EXCEPT ![w] = {}]
        /\ archived' = [archived EXCEPT ![w] = @ \cup live[w]]
        /\ Goto(r, "readName")
        /\ UNCHANGED <<ws, role>>

(* archiveWorkspace: first the projects whose workspaceId is this one and  *)
(* whose own tenantId is the caller's; then the name is read, and written  *)
(* with the prefix.                                                        *)
ArchiveProjects(r) ==
    LET w == req[r].ws
        t == Home[req[r].actor]
    IN  /\ req[r].pc = "projects"
        /\ live' = [live EXCEPT ![w] = @ \ {t}]
        /\ archived' = [archived EXCEPT ![w] = @ \cup (live[w] \cap {t})]
        /\ Goto(r, "readName")
        /\ UNCHANGED <<ws, role>>

ArchiveReadName(r) ==
    /\ req[r].pc = "readName"
    /\ req' = [req EXCEPT ![r].pc = "storeName", ![r].name = ws[req[r].ws].name]
    /\ UNCHANGED <<ws, role, live, archived>>

ArchiveStoreName(r) ==
    LET w == req[r].ws
        name == Prefixed(req[r].name)
    IN  /\ req[r].pc = "storeName"
        /\ name.prefixes <= MaxPrefix
        /\ IF HoldersOf(ws[w].tenant, name) \ {w} # {}
           THEN Goto(r, "failed") /\ UNCHANGED ws
           ELSE ws' = [ws EXCEPT ![w].name = name] /\ Goto(r, "done")
        /\ UNCHANGED <<role, live, archived>>

-----------------------------------------------------------------------------
(* Mutant of FindUser: the user is looked up by id alone.                  *)
FindAnyUser(r) ==
    /\ req[r].pc = "findUser"
    /\ Goto(r, "checkMember")
    /\ UNCHANGED <<ws, role, live, archived>>

(* addMember: the new member is a user of the caller's tenant ...          *)
FindUser(r) ==
    /\ req[r].pc = "findUser"
    /\ Home[req[r].target] = Home[req[r].actor]
    /\ Goto(r, "checkMember")
    /\ UNCHANGED <<ws, role, live, archived>>

(* ... and not yet a member ...                                            *)
CheckMember(r) ==
    /\ req[r].pc = "checkMember"
    /\ role[req[r].ws][req[r].target] = "none"
    /\ Goto(r, "insert")
    /\ UNCHANGED <<ws, role, live, archived>>

(* ... which the unique index on (workspaceId, userId) has the last word   *)
(* on.                                                                     *)
InsertMember(r) ==
    /\ req[r].pc = "insert"
    /\ IF role[req[r].ws][req[r].target] = "none"
       THEN /\ role' = [role EXCEPT ![req[r].ws][req[r].target] = req[r].newRole]
            /\ Goto(r, "done")
       ELSE Goto(r, "failed") /\ UNCHANGED role
    /\ UNCHANGED <<ws, live, archived>>

(* removeMember and updateMemberRole read the target's row; the owners are *)
(* counted only if an owner is to lose the role.                           *)
FindTarget(r) ==
    LET current == role[req[r].ws][req[r].target]
    IN  /\ req[r].pc = "findTarget"
        /\ current # "none"
        /\ Goto(r, IF current = "owner" /\ req[r].newRole # "owner"
                   THEN "count" ELSE "write")
        /\ UNCHANGED <<ws, role, live, archived>>

(* Mutant of CountOwners: the count is compared with zero.                 *)
CountOwnersOffByOne(r) ==
    /\ req[r].pc = "count"
    /\ Cardinality(OwnersOf(req[r].ws)) # 0
    /\ Goto(r, "write")
    /\ UNCHANGED <<ws, role, live, archived>>

(* The last owner may not go.                                              *)
CountOwners(r) ==
    /\ req[r].pc = "count"
    /\ Cardinality(OwnersOf(req[r].ws)) # 1
    /\ Goto(r, "write")
    /\ UNCHANGED <<ws, role, live, archived>>

(* The delete or the update; a row that is gone by now is an error.        *)
WriteRole(r) ==
    /\ req[r].pc = "write"
    /\ IF role[req[r].ws][req[r].target] # "none"
       THEN /\ role' = [role EXCEPT ![req[r].ws][req[r].target] = req[r].newRole]
            /\ Goto(r, "done")
       ELSE Goto(r, "failed") /\ UNCHANGED role
    /\ UNCHANGED <<ws, live, archived>>

(* A check that fails, a failing query or a dying process ends a request   *)
(* between any two steps.                                                  *)
Fail(r) ==
    /\ req[r].pc \notin {"idle", "done", "failed"}
    /\ Goto(r, "failed")
    /\ UNCHANGED <<ws, role, live, archived>>

-----------------------------------------------------------------------------
(* The requests that change the members of a workspace with one manager do *)
(* not overlap.                                                            *)
MemberSteps == {"findUser", "checkMember", "insert", "findTarget", "count", "write"}

OneAtATime ==
    \A r, s \in Requests :
        (r # s /\ req[r].pc \in MemberSteps /\ req[s].pc \in MemberSteps
            /\ req[r].ws = req[s].ws) => req[r].ws \notin OneManager

Next ==
    /\ \/ \E r \in Requests :
              \/ CreateCheck(r) \/ CreateCommit(r)
              \/ Authorise(r) \/ UpdateStore(r)
              \/ ArchiveProjects(r) \/ ArchiveReadName(r) \/ ArchiveStoreName(r)
              \/ FindUser(r) \/ CheckMember(r) \/ InsertMember(r)
              \/ FindTarget(r) \/ CountOwners(r) \/ WriteRole(r)
              \/ Fail(r)
       \/ \E u \in Callers, w \in Workspaces : CreateProject(u, w)
    /\ OneAtATime'

Spec == Init /\ [][Next]_vars

-----------------------------------------------------------------------------
(* Every variable has its type.                                            *)
TypeOK ==
    /\ ws \in [Workspaces -> [tenant : Tenants \cup {None}, name : NameValues]]
    /\ role \in [Workspaces -> [Users -> Roles]]
    /\ live \in [Workspaces -> SUBSET Tenants]
    /\ archived \in [Workspaces -> SUBSET Tenants]
    /\ req \in [Requests -> RequestRecords]

(* Tenant isolation: the members of a workspace are users of its tenant,   *)
(* though no query on WorkspaceMember names a tenant and updateWorkspace   *)
(* writes one.                                                             *)
TenantIsolation ==
    \A w \in Workspaces, u \in Users :
        role[w][u] # "none" => ws[w].tenant = Home[u]

(* A tenant never has two workspaces of one name, though the checks and    *)
(* the writes of concurrent creations, renamings and archivings interleave.*)
NamesUnique ==
    \A v, w \in Workspaces :
        (Exists(v) /\ ws[v].tenant = ws[w].tenant /\ ws[v].name = ws[w].name) => v = w

(* Archiving a workspace touches no other tenant's projects, though such   *)
(* projects may lie in it (createProject does not ask whose it is), the    *)
(* caller is checked only against the member table, and the workspace's    *)
(* tenant is not looked at: they stay as they are, whatever interleaves.   *)
ArchivesOwnTenant ==
    \A w \in Workspaces : archived[w] \subseteq {ws[w].tenant}

WorkspacesStay ==
    \A w \in Workspaces : Exists(w) => ws'[w].tenant = ws[w].tenant

(* No request, renaming and archiving included, moves a workspace to       *)
(* another tenant.                                                         *)
NeverMoves == [][WorkspacesStay]_vars

(* One at a time, the membership requests are changes of an owned group,   *)
(* which never loses its last owner.                                       *)
Membership == INSTANCE OwnedGroup
    WITH Groups <- OneManager, People <- Users, role <- [w \in OneManager |-> role[w]]

ImplementsOwnedGroup == Membership!GroupSpec

(* What other components rely on: workspaces keep their tenant, and only   *)
(* its users join, one at a time.                                          *)
Belonging == INSTANCE Tenancy
    WITH owner <- [w \in Workspaces |-> ws[w].tenant],
         members <- [w \in Workspaces |-> {u \in Users : role[w][u] # "none"}]

ImplementsTenancy == Belonging!TenancySpec
==============================================================================
