--------------------------- MODULE WorkspacesProofs --------------------------
(***************************************************************************)
(* Tenant isolation and ownership of workspaces for any number of tenants, *)
(* users, workspaces and concurrent requests.                              *)
(***************************************************************************)
EXTENDS Workspaces, FiniteSetTheorems, TLAPS

(* The steps of a request that has passed Authorise.                       *)
Authorised == {"update", "projects", "readName", "storeName", "findUser",
               "checkMember", "insert", "findTarget", "count", "write"}

(* An authorised request works on a workspace of its caller's tenant, and  *)
(* once FindUser has passed, on a user of that tenant.                     *)
RequestHome(r) ==
    /\ req[r].pc \in Authorised =>
           /\ Exists(req[r].ws)
           /\ ws[req[r].ws].tenant = Home[req[r].actor]
    /\ req[r].pc \in {"checkMember", "insert"} =>
           Home[req[r].target] = Home[req[r].actor]

RequestsHome == \A r \in Requests : RequestHome(r)

(* TenantIsolation alone is not inductive: addMember and updateWorkspace   *)
(* write what earlier steps have checked.                                  *)
IsolationInv == TypeOK /\ TenantIsolation /\ RequestsHome

-----------------------------------------------------------------------------
(* Every user has a tenant.                                                *)
LEMMA HomeType == \A u \in Users : Home[u] \in Tenants /\ Home[u] # None
BY WorkspacesAssumption

(* Goto moves one request and changes nothing else of it.                  *)
LEMMA GotoEffect ==
    ASSUME TypeOK, NEW r \in Requests, NEW step \in Steps, Goto(r, step)
    PROVE  /\ req' \in [Requests -> RequestRecords]
           /\ req'[r].pc = step
           /\ req'[r].actor = req[r].actor /\ req'[r].ws = req[r].ws
           /\ req'[r].target = req[r].target
           /\ \A s \in Requests \ {r} : req'[s] = req[s]
BY DEF Goto, TypeOK, RequestRecords

(* Every other action ends by moving its request to a next step.           *)
LEMMA Moves ==
    ASSUME NEW r \in Requests
    PROVE  /\ ArchiveProjects(r) => Goto(r, "readName")
           /\ FindUser(r) => Goto(r, "checkMember")
           /\ CheckMember(r) => Goto(r, "insert")
           /\ InsertMember(r) => Goto(r, "done") \/ Goto(r, "failed")
           /\ FindTarget(r) => Goto(r, "count") \/ Goto(r, "write")
           /\ CountOwners(r) => Goto(r, "write")
           /\ WriteRole(r) => Goto(r, "done") \/ Goto(r, "failed")
           /\ CreateCommit(r) => Goto(r, "done") \/ Goto(r, "failed")
           /\ UpdateStore(r) => Goto(r, "done") \/ Goto(r, "failed")
           /\ ArchiveStoreName(r) => Goto(r, "done") \/ Goto(r, "failed")
           /\ Fail(r) => Goto(r, "failed")
<1>1. ArchiveProjects(r) => Goto(r, "readName")
    BY DEF ArchiveProjects
<1>2. FindUser(r) => Goto(r, "checkMember")
    BY DEF FindUser
<1>3. CheckMember(r) => Goto(r, "insert")
    BY DEF CheckMember
<1>4. InsertMember(r) => Goto(r, "done") \/ Goto(r, "failed")
    BY DEF InsertMember
<1>5. FindTarget(r) => Goto(r, "count") \/ Goto(r, "write")
    BY DEF FindTarget, Goto
<1>6. CountOwners(r) => Goto(r, "write")
    BY DEF CountOwners
<1>7. WriteRole(r) => Goto(r, "done") \/ Goto(r, "failed")
    BY DEF WriteRole
<1>8. CreateCommit(r) => Goto(r, "done") \/ Goto(r, "failed")
    BY DEF CreateCommit
<1>9. UpdateStore(r) => Goto(r, "done") \/ Goto(r, "failed")
    BY DEF UpdateStore
<1>10. ArchiveStoreName(r) => Goto(r, "done") \/ Goto(r, "failed")
    BY DEF ArchiveStoreName
<1>11. Fail(r) => Goto(r, "failed")
    BY DEF Fail
<1> QED
    BY <1>1, <1>2, <1>3, <1>4, <1>5, <1>6, <1>7, <1>8, <1>9, <1>10, <1>11

(* A request that gets past the role check acts for an owner of its        *)
(* workspace.                                                              *)
LEMMA AuthoriseEffect ==
    ASSUME TypeOK, NEW r \in Requests, Authorise(r)
    PROVE  /\ req' \in [Requests -> RequestRecords]
           /\ role[req'[r].ws][req'[r].actor] = "owner"
           /\ req'[r].pc \in {"update", "projects", "findUser", "findTarget"}
           /\ \A s \in Requests \ {r} : req'[s] = req[s]
<1>1. PICK u \in Callers, w \in Workspaces :
         /\ role[w][u] = "owner"
         /\ \/ \E n \in TypedNames :
                   req' = [req EXCEPT ![r].pc = "update", ![r].actor = u, ![r].ws = w,
                                      ![r].name = n]
            \/ req' = [req EXCEPT ![r].pc = "projects", ![r].actor = u, ![r].ws = w]
            \/ \E v \in Users, x \in Roles, step \in {"findUser", "findTarget"} :
                   /\ step = "findUser" => x # "none"
                   /\ req' = [req EXCEPT ![r].pc = step, ![r].actor = u, ![r].ws = w,
                                         ![r].target = v, ![r].newRole = x]
    BY DEF Authorise
<1>2. req[r] \in RequestRecords /\ u \in Users
    BY WorkspacesAssumption DEF TypeOK
<1>3. ASSUME NEW new \in RequestRecords, req' = [req EXCEPT ![r] = new],
             new.ws = w, new.actor = u,
             new.pc \in {"update", "projects", "findUser", "findTarget"}
      PROVE  /\ req' \in [Requests -> RequestRecords]
             /\ role[req'[r].ws][req'[r].actor] = "owner"
             /\ req'[r].pc \in {"update", "projects", "findUser", "findTarget"}
             /\ \A s \in Requests \ {r} : req'[s] = req[s]
    BY <1>1, <1>3 DEF TypeOK
<1>4. ASSUME NEW n \in TypedNames,
             req' = [req EXCEPT ![r].pc = "update", ![r].actor = u, ![r].ws = w,
                                ![r].name = n]
      PROVE  \E new \in RequestRecords :
                 /\ req' = [req EXCEPT ![r] = new]
                 /\ new.ws = w /\ new.actor = u
                 /\ new.pc \in {"update", "projects", "findUser", "findTarget"}
    <2> DEFINE new == [req[r] EXCEPT !.pc = "update", !.actor = u, !.ws = w, !.name = n]
    <2>1. req' = [req EXCEPT ![r] = new]
        BY <1>4 DEF TypeOK
    <2>2. n \in NameValues /\ "update" \in Steps
        BY DEF TypedNames, NameValues, Steps
    <2>3. /\ new \in RequestRecords
          /\ new.ws = w /\ new.actor = u /\ new.pc = "update"
        BY <1>2, <2>2 DEF RequestRecords
    <2> QED
        BY <2>1, <2>3
<1>5. ASSUME req' = [req EXCEPT ![r].pc = "projects", ![r].actor = u, ![r].ws = w]
      PROVE  \E new \in RequestRecords :
                 /\ req' = [req EXCEPT ![r] = new]
                 /\ new.ws = w /\ new.actor = u
                 /\ new.pc \in {"update", "projects", "findUser", "findTarget"}
    <2> DEFINE new == [req[r] EXCEPT !.pc = "projects", !.actor = u, !.ws = w]
    <2>1. req' = [req EXCEPT ![r] = new]
        BY <1>5 DEF TypeOK
    <2>2. /\ new \in RequestRecords
          /\ new.ws = w /\ new.actor = u /\ new.pc = "projects"
        BY <1>2 DEF RequestRecords, Steps
    <2> QED
        BY <2>1, <2>2
<1>6. ASSUME NEW v \in Users, NEW x \in Roles, NEW step \in {"findUser", "findTarget"},
             req' = [req EXCEPT ![r].pc = step, ![r].actor = u, ![r].ws = w,
                                ![r].target = v, ![r].newRole = x]
      PROVE  \E new \in RequestRecords :
                 /\ req' = [req EXCEPT ![r] = new]
                 /\ new.ws = w /\ new.actor = u
                 /\ new.pc \in {"update", "projects", "findUser", "findTarget"}
    <2> DEFINE new == [req[r] EXCEPT !.pc = step, !.actor = u, !.ws = w, !.target = v,
                                     !.newRole = x]
    <2>1. req' = [req EXCEPT ![r] = new]
        BY <1>6 DEF TypeOK
    <2>2. step \in Steps
        BY DEF Steps
    <2>3. /\ new \in RequestRecords
          /\ new.ws = w /\ new.actor = u /\ new.pc = step
        BY <1>2, <2>2 DEF RequestRecords
    <2> QED
        BY <2>1, <2>3
<1> QED
    BY <1>1, <1>3, <1>4, <1>5, <1>6

(* A creation that gets past its check moves alone.                        *)
LEMMA CreateCheckEffect ==
    ASSUME TypeOK, NEW r \in Requests, CreateCheck(r)
    PROVE  /\ req' \in [Requests -> RequestRecords]
           /\ req'[r].pc = "create"
           /\ \A s \in Requests \ {r} : req'[s] = req[s]
<1>1. PICK u \in Callers, n \in TypedNames :
         req' = [req EXCEPT ![r].pc = "create", ![r].actor = u, ![r].name = n]
    BY DEF CreateCheck
<1>2. req' = [req EXCEPT ![r] = [req[r] EXCEPT !.pc = "create", !.actor = u,
                                               !.name = n]]
    BY <1>1 DEF TypeOK
<1>3. [req[r] EXCEPT !.pc = "create", !.actor = u, !.name = n] \in RequestRecords
    <2>1. req[r] \in RequestRecords
        BY DEF TypeOK
    <2>2. u \in Users /\ n \in NameValues /\ "create" \in Steps
        BY WorkspacesAssumption DEF TypedNames, NameValues, Steps
    <2> QED
        BY <2>1, <2>2 DEF RequestRecords
<1> QED
    BY <1>2, <1>3 DEF TypeOK, RequestRecords

(* Reading the name of a workspace moves the request alone.                *)
LEMMA ReadNameEffect ==
    ASSUME TypeOK, NEW r \in Requests, ArchiveReadName(r)
    PROVE  /\ req' \in [Requests -> RequestRecords]
           /\ req'[r].pc = "storeName"
           /\ req'[r].actor = req[r].actor /\ req'[r].ws = req[r].ws
           /\ \A s \in Requests \ {r} : req'[s] = req[s]
<1>1. req' = [req EXCEPT ![r] = [req[r] EXCEPT !.pc = "storeName",
                                               !.name = ws[req[r].ws].name]]
    BY DEF ArchiveReadName, TypeOK
<1>2. ws[req[r].ws].name \in NameValues
    BY DEF TypeOK, RequestRecords
<1>3. [req[r] EXCEPT !.pc = "storeName", !.name = ws[req[r].ws].name] \in RequestRecords
    BY <1>2 DEF TypeOK, RequestRecords, Steps
<1> QED
    BY <1>1, <1>3 DEF TypeOK, RequestRecords

-----------------------------------------------------------------------------
(* What the steps do to the tables.                                        *)
TablesType ==
    /\ ws \in [Workspaces -> [tenant : Tenants \cup {None}, name : NameValues]]
    /\ role \in [Workspaces -> [Users -> Roles]]
    /\ live \in [Workspaces -> SUBSET Tenants]
    /\ archived \in [Workspaces -> SUBSET Tenants]

(* Writing a role changes one entry of the member table.                   *)
LEMMA WriteNewRole ==
    ASSUME TypeOK, NEW r \in Requests, UNCHANGED <<ws, live, archived>>,
           role' = [role EXCEPT ![req[r].ws][req[r].target] = req[r].newRole]
    PROVE  /\ TablesType'
           /\ role'[req[r].ws][req[r].target] = req[r].newRole
           /\ \A w \in Workspaces, u \in Users :
                  w # req[r].ws \/ u # req[r].target => role'[w][u] = role[w][u]
<1>1. /\ req[r].ws \in Workspaces /\ req[r].target \in Users
      /\ req[r].newRole \in Roles
    BY DEF TypeOK, RequestRecords
<1>2. [role[req[r].ws] EXCEPT ![req[r].target] = req[r].newRole] \in [Users -> Roles]
    BY <1>1 DEF TypeOK
<1> QED
    BY <1>1, <1>2 DEF TypeOK, TablesType

(* Every step keeps the types.                                             *)
LEMMA StepTypeOK ==
    ASSUME TypeOK, [Next]_vars
    PROVE  TypeOK'
<1> USE WorkspacesAssumption
<1>0. \A s \in Requests : req[s] \in RequestRecords
    BY DEF TypeOK
<1>1. ASSUME NEW r \in Requests, NEW step \in Steps, Goto(r, step), TablesType'
      PROVE  TypeOK'
    BY <1>1, GotoEffect DEF TypeOK, TablesType
<1>2. ASSUME UNCHANGED <<ws, role, live, archived>> PROVE TablesType'
    BY <1>2 DEF TypeOK, TablesType
<1>3. CASE UNCHANGED vars
    BY <1>3 DEF vars, TypeOK
<1>4. ASSUME NEW r \in Requests, CreateCheck(r) PROVE TypeOK'
    BY <1>2, <1>4, CreateCheckEffect DEF CreateCheck, TypeOK, TablesType
<1>5. ASSUME NEW r \in Requests, CreateCommit(r) PROVE TablesType'
    <2>1. /\ Home[req[r].actor] \in Tenants
          /\ req[r].name \in NameValues
          /\ req[r].actor \in Users
        BY <1>0 DEF RequestRecords
    <2>2. CASE UNCHANGED <<ws, role, live, archived>>
        BY <1>2, <2>2
    <2>3. ASSUME NEW w \in Workspaces,
                 ws' = [ws EXCEPT ![w] = [tenant |-> Home[req[r].actor],
                                          name |-> req[r].name]],
                 role' = [role EXCEPT ![w][req[r].actor] = "owner"],
                 UNCHANGED <<live, archived>>
          PROVE  TablesType'
        BY <2>1, <2>3 DEF TypeOK, TablesType, Roles
    <2> QED
        BY <1>5, <2>2, <2>3 DEF CreateCommit
<1>6. ASSUME NEW r \in Requests, Authorise(r) PROVE TypeOK'
    BY <1>2, <1>6, AuthoriseEffect DEF Authorise, TypeOK, TablesType
<1>7. ASSUME NEW r \in Requests, UpdateStore(r) PROVE TablesType'
    <2>1. /\ Home[req[r].actor] \in Tenants
          /\ req[r].name \in NameValues
        BY <1>0 DEF RequestRecords
    <2> QED
        BY <1>7, <2>1 DEF UpdateStore, TypeOK, TablesType
<1>8. ASSUME NEW r \in Requests, ArchiveProjects(r) PROVE TablesType'
    <2>1. req[r].ws \in Workspaces
        BY <1>0 DEF RequestRecords
    <2>2. /\ live[req[r].ws] \ {Home[req[r].actor]} \in SUBSET Tenants
          /\ archived[req[r].ws] \cup (live[req[r].ws] \cap {Home[req[r].actor]})
                 \in SUBSET Tenants
        BY <2>1 DEF TypeOK
    <2> QED
        BY <1>8, <2>1, <2>2 DEF ArchiveProjects, TypeOK, TablesType
<1>9. ASSUME NEW r \in Requests, ArchiveReadName(r) PROVE TypeOK'
    BY <1>2, <1>9, ReadNameEffect DEF ArchiveReadName, TypeOK, TablesType
<1>10. ASSUME NEW r \in Requests, ArchiveStoreName(r) PROVE TablesType'
    <2>1. Prefixed(req[r].name) \in NameValues
        BY <1>0 DEF RequestRecords, Prefixed, NameValues
    <2>2. [ws[req[r].ws] EXCEPT !.name = Prefixed(req[r].name)]
              \in [tenant : Tenants \cup {None}, name : NameValues]
        BY <1>0, <2>1 DEF TypeOK, RequestRecords
    <2>3. CASE UNCHANGED <<ws, role, live, archived>>
        BY <1>2, <2>3
    <2>4. CASE /\ ws' = [ws EXCEPT ![req[r].ws].name = Prefixed(req[r].name)]
               /\ UNCHANGED <<role, live, archived>>
        BY <2>2, <2>4 DEF TypeOK, TablesType
    <2> QED
        BY <1>10, <2>3, <2>4 DEF ArchiveStoreName
<1>11. ASSUME NEW r \in Requests, InsertMember(r) \/ WriteRole(r) PROVE TablesType'
    BY <1>2, <1>11, WriteNewRole DEF InsertMember, WriteRole
<1>12. ASSUME NEW r \in Requests,
              FindUser(r) \/ CheckMember(r) \/ FindTarget(r) \/ CountOwners(r) \/ Fail(r)
       PROVE  TablesType'
    BY <1>2, <1>12 DEF FindUser, CheckMember, FindTarget, CountOwners, Fail
<1>13. {"readName", "checkMember", "insert", "done", "failed", "count", "write"}
           \subseteq Steps
    BY DEF Steps
<1>14. ASSUME NEW u \in Callers, NEW w \in Workspaces, CreateProject(u, w) PROVE TypeOK'
    <2>1. live[w] \cup {Home[u]} \in SUBSET Tenants
        BY DEF TypeOK
    <2> QED
        BY <1>14, <2>1 DEF CreateProject, TypeOK
<1> QED
    BY <1>1, <1>3, <1>4, <1>5, <1>6, <1>7, <1>8, <1>9, <1>10, <1>11, <1>12, <1>13,
       <1>14, Moves DEF Next

(* The variables of Workspaces keep their types.                           *)
THEOREM TypeCorrect == Spec => []TypeOK
<1>1. Init => TypeOK
    BY DEF Init, TypeOK, TypedNames, NameValues, Roles, RequestRecords, Steps
<1> QED
    BY <1>1, StepTypeOK, PTL DEF Spec

-----------------------------------------------------------------------------
(* A workspace is never moved.                                             *)
LEMMA TenantStays ==
    ASSUME IsolationInv, [Next]_vars
    PROVE  WorkspacesStay
<1>1. ASSUME NEW r \in Requests, CreateCommit(r) PROVE WorkspacesStay
    <2>1. CASE UNCHANGED ws
        BY <2>1 DEF WorkspacesStay
    <2>2. ASSUME NEW w \in Workspaces, ~ Exists(w),
                 ws' = [ws EXCEPT ![w] = [tenant |-> Home[req[r].actor],
                                          name |-> req[r].name]]
          PROVE  WorkspacesStay
        BY <2>2 DEF WorkspacesStay, Exists, IsolationInv, TypeOK
    <2> QED
        BY <1>1, <2>1, <2>2 DEF CreateCommit
<1>2. ASSUME NEW r \in Requests, UpdateStore(r) PROVE WorkspacesStay
    <2>1. ws[req[r].ws].tenant = Home[req[r].actor]
        BY <1>2 DEF IsolationInv, RequestsHome, RequestHome, Authorised, UpdateStore
    <2>2. CASE UNCHANGED ws
        BY <2>2 DEF WorkspacesStay
    <2>3. CASE ws' = [ws EXCEPT ![req[r].ws] = [tenant |-> Home[req[r].actor],
                                                name |-> req[r].name]]
        BY <2>1, <2>3 DEF WorkspacesStay, IsolationInv, TypeOK
    <2> QED
        BY <1>2, <2>2, <2>3 DEF UpdateStore
<1>3. ASSUME NEW r \in Requests, ArchiveStoreName(r) PROVE WorkspacesStay
    <2>1. CASE UNCHANGED ws
        BY <2>1 DEF WorkspacesStay
    <2>2. CASE ws' = [ws EXCEPT ![req[r].ws].name = Prefixed(req[r].name)]
        BY <2>2 DEF WorkspacesStay, IsolationInv, TypeOK
    <2> QED
        BY <1>3, <2>1, <2>2 DEF ArchiveStoreName
<1>4. CASE UNCHANGED ws
    BY <1>4 DEF WorkspacesStay
<1> QED
    BY <1>1, <1>2, <1>3, <1>4
    DEF Next, vars, CreateProject, CreateCheck, Authorise, ArchiveProjects,
        ArchiveReadName, FindUser, CheckMember, InsertMember, FindTarget, CountOwners, WriteRole, Fail

(* What RequestHome says survives the steps of other requests.             *)
LEMMA RequestFrame ==
    ASSUME IsolationInv, [Next]_vars, NEW r \in Requests, req'[r] = req[r]
    PROVE  RequestHome(r)'
<1>1. req[r].ws \in Workspaces
    BY DEF IsolationInv, TypeOK, RequestRecords
<1> QED
    BY <1>1, TenantStays DEF IsolationInv, RequestsHome, RequestHome, WorkspacesStay, Exists

(* A request that goes on from one authorised step to another.             *)
LEMMA RequestGoesOn ==
    ASSUME IsolationInv, [Next]_vars, NEW r \in Requests,
           req'[r].pc \in Authorised => req[r].pc \in Authorised,
           req'[r].actor = req[r].actor, req'[r].ws = req[r].ws,
           req'[r].pc \in {"checkMember", "insert"} =>
               Home[req'[r].target] = Home[req'[r].actor]
    PROVE  RequestHome(r)'
<1>1. req[r].ws \in Workspaces
    BY DEF IsolationInv, TypeOK, RequestRecords
<1> QED
    BY <1>1, TenantStays DEF IsolationInv, RequestsHome, RequestHome, WorkspacesStay, Exists

(* Every step keeps authorised requests within their tenant.               *)
LEMMA StepRequestsHome ==
    ASSUME IsolationInv, [Next]_vars
    PROVE  RequestsHome'
<1> USE DEF Authorised
<1>0. TypeOK
    BY DEF IsolationInv
<1>1. ASSUME NEW r \in Requests, \A s \in Requests \ {r} : req'[s] = req[s],
             RequestHome(r)'
      PROVE  RequestsHome'
    BY <1>1, RequestFrame DEF RequestsHome
<1>2. CASE UNCHANGED req
    BY <1>2, RequestFrame DEF RequestsHome
<1>3. ASSUME NEW r \in Requests, CreateCheck(r) PROVE RequestsHome'
    BY <1>0, <1>1, <1>3, CreateCheckEffect DEF RequestHome
<1>4. ASSUME NEW r \in Requests, Authorise(r) PROVE RequestsHome'
    <2>1. /\ req'[r].ws \in Workspaces /\ req'[r].actor \in Users
          /\ role[req'[r].ws][req'[r].actor] = "owner"
        BY <1>0, <1>4, AuthoriseEffect DEF RequestRecords
    <2>2. ws[req'[r].ws].tenant = Home[req'[r].actor]
        BY <2>1 DEF IsolationInv, TenantIsolation
    <2>3. ws' = ws
        BY <1>4 DEF Authorise
    <2>4. RequestHome(r)'
        BY <1>0, <1>4, <2>1, <2>2, <2>3, AuthoriseEffect, HomeType DEF RequestHome, Exists
    <2> QED
        BY <1>0, <1>1, <1>4, <2>4, AuthoriseEffect
<1>5. ASSUME NEW r \in Requests, ArchiveReadName(r) PROVE RequestsHome'
    <2>1. req[r].pc = "readName"
        BY <1>5 DEF ArchiveReadName
    <2> QED
        BY <1>0, <1>1, <1>5, <2>1, ReadNameEffect, RequestGoesOn
<1>6. ASSUME NEW r \in Requests, NEW step \in Steps, Goto(r, step),
             step \in Authorised => req[r].pc \in Authorised,
             step \in {"checkMember", "insert"} =>
                 Home[req[r].target] = Home[req[r].actor]
      PROVE  RequestsHome'
    BY <1>0, <1>1, <1>6, GotoEffect, RequestGoesOn
<1>7. {"readName", "checkMember", "insert", "done", "failed", "count", "write"}
          \subseteq Steps
    BY DEF Steps
<1>8. ASSUME NEW r \in Requests, FindUser(r) PROVE RequestsHome'
    BY <1>6, <1>7, <1>8, Moves DEF FindUser
<1>9. ASSUME NEW r \in Requests, CheckMember(r) PROVE RequestsHome'
    BY <1>6, <1>7, <1>9, Moves DEF CheckMember, IsolationInv, RequestsHome, RequestHome
<1>10. ASSUME NEW r \in Requests, ArchiveProjects(r) PROVE RequestsHome'
    BY <1>6, <1>7, <1>10, Moves DEF ArchiveProjects
<1>11. ASSUME NEW r \in Requests, FindTarget(r) PROVE RequestsHome'
    <2>1. req[r].pc \in Authorised
        BY <1>11 DEF FindTarget
    <2> QED
        BY <1>6, <1>7, <1>11, <2>1, Moves
<1>12. ASSUME NEW r \in Requests, CountOwners(r) PROVE RequestsHome'
    BY <1>6, <1>7, <1>12, Moves DEF CountOwners
<1>13. ASSUME NEW r \in Requests, Goto(r, "done") \/ Goto(r, "failed")
       PROVE  RequestsHome'
    BY <1>6, <1>7, <1>13
<1> QED
    BY <1>2, <1>3, <1>4, <1>5, <1>8, <1>9, <1>10, <1>11, <1>12, <1>13, Moves
    DEF Next, vars, CreateProject

(* Every step keeps the members of a workspace within its tenant.          *)
LEMMA StepTenantIsolation ==
    ASSUME IsolationInv, [Next]_vars
    PROVE  TenantIsolation'
<1>0. TypeOK /\ TypeOK'
    BY StepTypeOK DEF IsolationInv
<1>1. ASSUME UNCHANGED role PROVE TenantIsolation'
    <2> SUFFICES ASSUME NEW w \in Workspaces, NEW u \in Users, role[w][u] # "none"
                 PROVE  ws'[w].tenant = Home[u]
        BY <1>1 DEF TenantIsolation
    <2>1. ws[w].tenant = Home[u]
        BY DEF IsolationInv, TenantIsolation
    <2> QED
        BY <2>1, HomeType, TenantStays DEF WorkspacesStay, Exists
<1>2. ASSUME NEW r \in Requests, UNCHANGED <<ws, live, archived>>,
             role' = [role EXCEPT ![req[r].ws][req[r].target] = req[r].newRole],
             ws[req[r].ws].tenant = Home[req[r].target]
      PROVE  TenantIsolation'
    BY <1>0, <1>2, WriteNewRole DEF IsolationInv, TenantIsolation
<1>3. ASSUME NEW r \in Requests, InsertMember(r) PROVE TenantIsolation'
    <2>1. ws[req[r].ws].tenant = Home[req[r].target]
        BY <1>3 DEF InsertMember, IsolationInv, RequestsHome, RequestHome, Authorised
    <2> QED
        BY <1>1, <1>2, <1>3, <2>1 DEF InsertMember
<1>4. ASSUME NEW r \in Requests, WriteRole(r) PROVE TenantIsolation'
    <2>1. CASE role[req[r].ws][req[r].target] # "none"
        <3>1. req[r].ws \in Workspaces /\ req[r].target \in Users
            BY <1>0 DEF TypeOK, RequestRecords
        <3>2. ws[req[r].ws].tenant = Home[req[r].target]
            BY <2>1, <3>1 DEF IsolationInv, TenantIsolation
        <3> QED
            BY <1>2, <1>4, <2>1, <3>2 DEF WriteRole
    <2> QED
        BY <1>1, <1>4, <2>1 DEF WriteRole
<1>5. ASSUME NEW r \in Requests, CreateCommit(r) PROVE TenantIsolation'
    <2>1. ASSUME NEW w \in Workspaces, ~ Exists(w),
                 ws' = [ws EXCEPT ![w] = [tenant |-> Home[req[r].actor],
                                          name |-> req[r].name]],
                 role' = [role EXCEPT ![w][req[r].actor] = "owner"]
          PROVE  TenantIsolation'
        <3> SUFFICES ASSUME NEW v \in Workspaces, NEW u \in Users, role'[v][u] # "none"
                     PROVE  ws'[v].tenant = Home[u]
            BY DEF TenantIsolation
        <3>1. CASE v = w
            <4>1. role[w][u] = "none"
                BY <2>1, HomeType DEF IsolationInv, TenantIsolation, Exists
            <4>2. u = req[r].actor
                BY <1>0, <2>1, <3>1, <4>1 DEF TypeOK
            <4> QED
                BY <1>0, <2>1, <3>1, <4>2 DEF TypeOK
        <3>2. CASE v # w
            BY <1>0, <2>1, <3>2 DEF TypeOK, IsolationInv, TenantIsolation
        <3> QED
            BY <3>1, <3>2
    <2> QED
        BY <1>1, <1>5, <2>1 DEF CreateCommit
<1> QED
    BY <1>1, <1>3, <1>4, <1>5
    DEF Next, vars, CreateProject, CreateCheck, Authorise, UpdateStore, ArchiveProjects,
        ArchiveReadName, ArchiveStoreName, FindUser, CheckMember, FindTarget, CountOwners, Fail

-----------------------------------------------------------------------------
(* Nothing is shared to begin with.                                        *)
LEMMA InitIsolation == Init => IsolationInv
<1>1. Init => TypeOK
    BY DEF Init, TypeOK, TypedNames, NameValues, Roles, RequestRecords, Steps
<1>2. Init => TenantIsolation
    BY DEF Init, TenantIsolation
<1>3. Init => RequestsHome
    BY DEF Init, RequestsHome, RequestHome, Authorised
<1> QED
    BY <1>1, <1>2, <1>3 DEF IsolationInv

(* The inductive invariant of isolation holds in every reachable state.    *)
LEMMA IsolationInvariant == Spec => []IsolationInv
<1>1. IsolationInv /\ [Next]_vars => IsolationInv'
    BY StepTypeOK, StepTenantIsolation, StepRequestsHome DEF IsolationInv
<1> QED
    BY <1>1, InitIsolation, PTL DEF Spec

(* The members of a workspace are users of its tenant.                     *)
THEOREM Isolation == Spec => []TenantIsolation
<1>1. IsolationInv => TenantIsolation
    BY DEF IsolationInv
<1> QED
    BY <1>1, IsolationInvariant, PTL

(* No workspace ever changes its tenant.                                   *)
THEOREM TenantFinal == Spec => NeverMoves
<1>1. IsolationInv /\ [Next]_vars => [WorkspacesStay]_vars
    BY TenantStays
<1> QED
    BY <1>1, IsolationInvariant, PTL DEF Spec, NeverMoves

-----------------------------------------------------------------------------
(* A tenant's names: each write excludes the other holders of the name.    *)
LEMMA StepNamesUnique ==
    ASSUME TypeOK, NamesUnique, [Next]_vars
    PROVE  NamesUnique'
<1> USE DEF NamesUnique, Exists
<1>1. CASE UNCHANGED ws
    BY <1>1
<1>2. ASSUME NEW w \in Workspaces, ws' = [ws EXCEPT ![w] = ws'[w]],
             HoldersOf(ws'[w].tenant, ws'[w].name) \ {w} = {}
      PROVE  NamesUnique'
    <2>1. \A v \in Workspaces \ {w} :
              /\ ws'[v] = ws[v]
              /\ ~ (ws'[v].tenant = ws'[w].tenant /\ ws'[v].name = ws'[w].name)
        BY <1>2 DEF HoldersOf, TypeOK
    <2> QED
        BY <1>2, <2>1
<1>3. ASSUME NEW r \in Requests, CreateCommit(r) PROVE NamesUnique'
    <2>1. ASSUME NEW w \in Workspaces, HoldersOf(Home[req[r].actor], req[r].name) = {},
                 ws' = [ws EXCEPT ![w] = [tenant |-> Home[req[r].actor],
                                          name |-> req[r].name]]
          PROVE  NamesUnique'
        <3>1. /\ ws' = [ws EXCEPT ![w] = ws'[w]]
              /\ ws'[w].tenant = Home[req[r].actor] /\ ws'[w].name = req[r].name
            BY <2>1 DEF TypeOK
        <3>2. HoldersOf(ws'[w].tenant, ws'[w].name) \ {w} = {}
            BY <2>1, <3>1
        <3> QED
            BY <1>2, <3>1, <3>2
    <2> QED
        BY <1>1, <1>3, <2>1 DEF CreateCommit
<1>4. ASSUME NEW r \in Requests, UpdateStore(r) PROVE NamesUnique'
    <2>1. req[r].ws \in Workspaces
        BY DEF TypeOK, RequestRecords
    <2>2. CASE /\ HoldersOf(Home[req[r].actor], req[r].name) \ {req[r].ws} = {}
               /\ ws' = [ws EXCEPT ![req[r].ws] = [tenant |-> Home[req[r].actor],
                                                   name |-> req[r].name]]
        <3>1. /\ ws' = [ws EXCEPT ![req[r].ws] = ws'[req[r].ws]]
              /\ ws'[req[r].ws].tenant = Home[req[r].actor]
              /\ ws'[req[r].ws].name = req[r].name
            BY <2>1, <2>2 DEF TypeOK
        <3>2. HoldersOf(ws'[req[r].ws].tenant, ws'[req[r].ws].name) \ {req[r].ws} = {}
            BY <2>2, <3>1
        <3> QED
            BY <1>2, <2>1, <3>1, <3>2
    <2> QED
        BY <1>1, <1>4, <2>2 DEF UpdateStore
<1>5. ASSUME NEW r \in Requests, ArchiveStoreName(r) PROVE NamesUnique'
    <2>1. req[r].ws \in Workspaces
        BY DEF TypeOK, RequestRecords
    <2>2. CASE /\ HoldersOf(ws[req[r].ws].tenant, Prefixed(req[r].name)) \ {req[r].ws} = {}
               /\ ws' = [ws EXCEPT ![req[r].ws].name = Prefixed(req[r].name)]
        <3>1. ws'[req[r].ws] = [ws[req[r].ws] EXCEPT !.name = Prefixed(req[r].name)]
            BY <2>1, <2>2 DEF TypeOK
        <3>2. /\ ws'[req[r].ws].tenant = ws[req[r].ws].tenant
              /\ ws'[req[r].ws].name = Prefixed(req[r].name)
            BY <2>1, <3>1 DEF TypeOK
        <3>3. ws' = [ws EXCEPT ![req[r].ws] = ws'[req[r].ws]]
            BY <2>1, <2>2, <3>1 DEF TypeOK
        <3>4. HoldersOf(ws'[req[r].ws].tenant, ws'[req[r].ws].name) \ {req[r].ws} = {}
            BY <2>2, <3>2
        <3> QED
            BY <1>2, <2>1, <3>3, <3>4
    <2> QED
        BY <1>1, <1>5, <2>2 DEF ArchiveStoreName
<1> QED
    BY <1>1, <1>3, <1>4, <1>5
    DEF Next, vars, CreateProject, CreateCheck, Authorise, ArchiveProjects,
        ArchiveReadName, FindUser, CheckMember, InsertMember, FindTarget, CountOwners, WriteRole, Fail

(* No tenant has two workspaces of one name.                               *)
THEOREM UniqueNames == Spec => []NamesUnique
<1>1. Init => TypeOK /\ NamesUnique
    BY InitIsolation DEF IsolationInv, Init, NamesUnique, Exists
<1>2. TypeOK /\ NamesUnique /\ [Next]_vars => (TypeOK /\ NamesUnique)'
    BY StepTypeOK, StepNamesUnique
<1> QED
    BY <1>1, <1>2, PTL DEF Spec

-----------------------------------------------------------------------------
(* Whoever archives is of the workspace's tenant, and so are the projects  *)
(* its filter reaches; the workspace keeps its tenant.                     *)
LEMMA StepArchives ==
    ASSUME IsolationInv, ArchivesOwnTenant, [Next]_vars
    PROVE  ArchivesOwnTenant'
<1>0. TypeOK
    BY DEF IsolationInv
<1>1. \A w \in Workspaces : archived[w] \subseteq {ws'[w].tenant}
    <2> SUFFICES ASSUME NEW w \in Workspaces, NEW t \in archived[w]
                 PROVE  t = ws'[w].tenant
        OBVIOUS
    <2>1. t = ws[w].tenant /\ t \in Tenants
        BY <1>0 DEF ArchivesOwnTenant, TypeOK
    <2>2. Exists(w)
        BY <2>1, WorkspacesAssumption DEF Exists
    <2> QED
        BY <2>1, <2>2, TenantStays DEF WorkspacesStay
<1>2. CASE UNCHANGED archived
    BY <1>1, <1>2 DEF ArchivesOwnTenant
<1>3. ASSUME NEW r \in Requests, ArchiveProjects(r) PROVE ArchivesOwnTenant'
    <2>1. req[r].ws \in Workspaces
        BY <1>0 DEF TypeOK, RequestRecords
    <2>2. ws[req[r].ws].tenant = Home[req[r].actor]
        BY <1>3 DEF ArchiveProjects, IsolationInv, RequestsHome, RequestHome, Authorised
    <2>3. UNCHANGED ws
        BY <1>3 DEF ArchiveProjects
    <2>4. \A w \in Workspaces :
              archived'[w] = IF w = req[r].ws
                             THEN archived[w] \cup (live[w] \cap {Home[req[r].actor]})
                             ELSE archived[w]
        BY <1>0, <1>3, <2>1 DEF ArchiveProjects, TypeOK
    <2>5. \A w \in Workspaces : archived'[w] \subseteq {ws[w].tenant}
        <3> SUFFICES ASSUME NEW w \in Workspaces, NEW t \in archived'[w]
                     PROVE  t = ws[w].tenant
            OBVIOUS
        <3>1. CASE t \in archived[w]
            BY <1>1, <2>3, <3>1
        <3>2. CASE t \notin archived[w]
            BY <2>2, <2>4, <3>2
        <3> QED
            BY <3>1, <3>2
    <2> QED
        BY <2>3, <2>5 DEF ArchivesOwnTenant
<1>4. ASSUME NEW r \in Requests, CreateCommit(r) PROVE UNCHANGED archived
    BY <1>4 DEF CreateCommit
<1> QED
    BY <1>2, <1>3, <1>4
    DEF Next, vars, CreateProject, CreateCheck, Authorise, UpdateStore, ArchiveReadName,
        ArchiveStoreName, FindUser, CheckMember, InsertMember, FindTarget, CountOwners,
        WriteRole, Fail

(* Archiving a workspace touches no other tenant's projects.               *)
THEOREM ArchivesHome == Spec => []ArchivesOwnTenant
<1>1. Init => ArchivesOwnTenant
    BY DEF Init, ArchivesOwnTenant
<1>2. IsolationInv /\ ArchivesOwnTenant /\ [Next]_vars => ArchivesOwnTenant'
    BY StepArchives
<1> QED
    BY <1>1, <1>2, IsolationInvariant, PTL DEF Spec

-----------------------------------------------------------------------------
(* What Tenancy sees of the tables.                                        *)
OwnerMap == [w \in Workspaces |-> ws[w].tenant]

MemberMap == [w \in Workspaces |-> {u \in Users : role[w][u] # "none"}]

(* A map of members is known by its values.                                *)
LEMMA MemberMapIs ==
    ASSUME NEW w \in Workspaces, NEW S,
           \A v \in Workspaces : MemberMap'[v] = IF v = w THEN S ELSE MemberMap[v]
    PROVE  MemberMap' = [MemberMap EXCEPT ![w] = S]
<1>1. DOMAIN MemberMap = Workspaces /\ DOMAIN MemberMap' = Workspaces
    BY DEF MemberMap
<1>2. MemberMap' = [v \in Workspaces |-> MemberMap'[v]]
    BY DEF MemberMap
<1> QED
    BY <1>1, <1>2

(* What one user does to one workspace is a step of Tenancy.               *)
LEMMA TenancyStep ==
    ASSUME NEW w \in Workspaces, NEW u \in Users,
           Belonging!Found(w, u) \/ Belonging!Join(w, u) \/ Belonging!Leave(w, u)
    PROVE  Belonging!TenancyNext
BY Zenon DEF Belonging!TenancyNext

(* To write a role is to join or to leave.                                 *)
LEMMA RoleWrittenTenancy ==
    ASSUME IsolationInv, NEW r \in Requests, UNCHANGED <<ws, live, archived>>,
           role' = [role EXCEPT ![req[r].ws][req[r].target] = req[r].newRole],
           ws[req[r].ws].tenant = Home[req[r].target]
    PROVE  Belonging!TenancyNext
<1>0. PICK w \in Workspaces, u \in Users : w = req[r].ws /\ u = req[r].target /\ TypeOK
    BY DEF IsolationInv, TypeOK, RequestRecords
<1>1. /\ TablesType' /\ role'[w][u] = req[r].newRole
      /\ \A v \in Workspaces, x \in Users : v # w \/ x # u => role'[v][x] = role[v][x]
    BY <1>0, WriteNewRole
<1>2. UNCHANGED OwnerMap /\ OwnerMap[w] = Home[u]
    BY <1>0 DEF OwnerMap
<1>3. CASE req[r].newRole = "none"
    <2>1. \A v \in Workspaces :
             MemberMap'[v] = IF v = w THEN MemberMap[v] \ {u} ELSE MemberMap[v]
        BY <1>0, <1>1, <1>3 DEF MemberMap
    <2>2. MemberMap' = [MemberMap EXCEPT ![w] = @ \ {u}]
        BY <2>1, MemberMapIs
    <2>3. Belonging!Leave(w, u)
        BY <1>2, <2>2 DEF Belonging!Leave, OwnerMap, MemberMap
    <2> QED
        BY <1>0, <2>3, TenancyStep
<1>4. CASE req[r].newRole # "none"
    <2>1. \A v \in Workspaces :
             MemberMap'[v] = IF v = w THEN MemberMap[v] \cup {u} ELSE MemberMap[v]
        BY <1>0, <1>1, <1>4 DEF MemberMap
    <2>2. MemberMap' = [MemberMap EXCEPT ![w] = @ \cup {u}]
        BY <2>1, MemberMapIs
    <2>3. Belonging!Join(w, u)
        BY <1>2, <2>2 DEF Belonging!Join, OwnerMap, MemberMap
    <2> QED
        BY <1>0, <2>3, TenancyStep
<1> QED
    BY <1>3, <1>4

(* To create a workspace is to found it.                                   *)
LEMMA CreatedTenancy ==
    ASSUME IsolationInv, NEW r \in Requests, NEW w \in Workspaces, ~ Exists(w),
           ws' = [ws EXCEPT ![w] = [tenant |-> Home[req[r].actor], name |-> req[r].name]],
           role' = [role EXCEPT ![w][req[r].actor] = "owner"]
    PROVE  Belonging!TenancyNext
<1>0. PICK u \in Users : u = req[r].actor /\ TypeOK
    BY DEF IsolationInv, TypeOK, RequestRecords
<1>1. OwnerMap[w] = None
    BY DEF OwnerMap, Exists
<1>2. \A x \in Users : role[w][x] = "none"
    BY HomeType DEF IsolationInv, TenantIsolation, Exists
<1>3. OwnerMap' = [OwnerMap EXCEPT ![w] = Home[u]]
    BY <1>0 DEF OwnerMap, TypeOK
<1>4. \A v \in Workspaces : MemberMap'[v] = IF v = w THEN {u} ELSE MemberMap[v]
    BY <1>0, <1>2 DEF MemberMap, TypeOK
<1>5. MemberMap' = [MemberMap EXCEPT ![w] = {u}]
    BY <1>4 DEF MemberMap
<1>6. Belonging!Found(w, u)
    BY <1>1, <1>3, <1>5 DEF Belonging!Found, OwnerMap, MemberMap
<1> QED
    BY <1>0, <1>6, TenancyStep

(* Every step founds, joins or leaves, or is not seen.                     *)
LEMMA StepTenancy ==
    ASSUME IsolationInv, [Next]_vars
    PROVE  [Belonging!TenancyNext]_(Belonging!tenancyVars)
<1>0. TypeOK
    BY DEF IsolationInv
<1>1. ASSUME UNCHANGED role, \A w \in Workspaces : ws'[w].tenant = ws[w].tenant
      PROVE  UNCHANGED Belonging!tenancyVars
    BY <1>1 DEF Belonging!tenancyVars
<1>2. ASSUME NEW r \in Requests, CreateCommit(r)
      PROVE  Belonging!TenancyNext \/ UNCHANGED <<ws, role>>
    BY <1>2, CreatedTenancy DEF CreateCommit
<1>3. ASSUME NEW r \in Requests, UpdateStore(r)
      PROVE  UNCHANGED role /\ \A w \in Workspaces : ws'[w].tenant = ws[w].tenant
    <2>1. ws[req[r].ws].tenant = Home[req[r].actor]
        BY <1>3 DEF IsolationInv, RequestsHome, RequestHome, Authorised, UpdateStore
    <2> QED
        <3>1. /\ UNCHANGED role
              /\ \/ ws' = ws
                 \/ ws' = [ws EXCEPT ![req[r].ws] =
                              [tenant |-> Home[req[r].actor], name |-> req[r].name]]
            BY <1>3 DEF UpdateStore
        <3>2. DOMAIN ws = Workspaces
            BY <1>0 DEF TypeOK
        <3>3. ASSUME NEW w \in Workspaces PROVE ws'[w].tenant = ws[w].tenant
            BY <2>1, <3>1, <3>2
        <3> QED
            BY <3>1, <3>3
<1>4. ASSUME NEW r \in Requests, ArchiveStoreName(r)
      PROVE  UNCHANGED role /\ \A w \in Workspaces : ws'[w].tenant = ws[w].tenant
    BY <1>0, <1>4 DEF ArchiveStoreName, TypeOK
<1>5. ASSUME NEW r \in Requests, InsertMember(r)
      PROVE  Belonging!TenancyNext \/ UNCHANGED <<ws, role>>
    <2>1. ws[req[r].ws].tenant = Home[req[r].target]
        BY <1>5 DEF InsertMember, IsolationInv, RequestsHome, RequestHome, Authorised
    <2> QED
        BY <1>5, <2>1, RoleWrittenTenancy DEF InsertMember
<1>6. ASSUME NEW r \in Requests, WriteRole(r)
      PROVE  Belonging!TenancyNext \/ UNCHANGED <<ws, role>>
    <2>1. CASE role[req[r].ws][req[r].target] # "none"
        <3>1. req[r].ws \in Workspaces /\ req[r].target \in Users
            BY <1>0 DEF TypeOK, RequestRecords
        <3>2. ws[req[r].ws].tenant = Home[req[r].target]
            BY <2>1, <3>1 DEF IsolationInv, TenantIsolation
        <3> QED
            BY <1>6, <2>1, <3>2, RoleWrittenTenancy DEF WriteRole
    <2> QED
        BY <1>6, <2>1 DEF WriteRole
<1>7. CASE UNCHANGED <<ws, role>>
    BY <1>1, <1>7
<1> QED
    BY <1>1, <1>2, <1>3, <1>4, <1>5, <1>6, <1>7
    DEF Next, vars, CreateProject, CreateCheck, Authorise, ArchiveProjects,
        ArchiveReadName, FindUser, CheckMember, FindTarget, CountOwners, Fail

(* Workspaces are what Tenancy tells the other components of them, for any *)
(* number of requests: the refinement mapping of ImplementsTenancy.        *)
THEOREM RefinesTenancy == Spec => ImplementsTenancy
<1>1. Init => Belonging!TenancyInit
    BY DEF Init, Belonging!TenancyInit
<1> QED
    BY <1>1, StepTenancy, IsolationInvariant, PTL
    DEF Spec, ImplementsTenancy, Belonging!TenancySpec

-----------------------------------------------------------------------------
(* A workspace with one manager has an owner from the start.               *)
AlwaysOwned == \A w \in OneManager : Exists(w) => OwnersOf(w) # {}

(* Who is about to take the owner role from somebody leaves an owner.      *)
LeavesAnOwner ==
    \A r \in Requests :
        req[r].pc = "write" /\ req[r].ws \in OneManager /\ req[r].newRole # "owner" =>
            OwnersOf(req[r].ws) \ {req[r].target} # {}

OwnerInv == IsolationInv /\ OneAtATime /\ AlwaysOwned /\ LeavesAnOwner

(* What a step of request r does to the member table, and to the requests  *)
(* that are about to write a role.                                         *)
LEMMA RoleCases ==
    ASSUME IsolationInv, NEW r \in Requests,
           \/ CreateCheck(r) \/ CreateCommit(r)
           \/ Authorise(r) \/ UpdateStore(r)
           \/ ArchiveProjects(r) \/ ArchiveReadName(r) \/ ArchiveStoreName(r)
           \/ FindUser(r) \/ CheckMember(r) \/ InsertMember(r)
           \/ FindTarget(r) \/ CountOwners(r) \/ WriteRole(r)
           \/ Fail(r)
    PROVE  /\ \A s \in Requests \ {r} : req'[s] = req[s]
           /\ req'[r].pc = "write" =>
                  /\ FindTarget(r) \/ CountOwners(r)
                  /\ req'[r].ws = req[r].ws /\ req'[r].target = req[r].target
                  /\ req'[r].newRole = req[r].newRole
                  /\ UNCHANGED role
           /\ \/ UNCHANGED role /\ \A w \in Workspaces : Exists(w)' => Exists(w)
              \/ \E w \in Workspaces :
                     /\ ~ Exists(w)
                     /\ req[r].actor \in Users
                     /\ role' = [role EXCEPT ![w][req[r].actor] = "owner"]
                     /\ \A v \in Workspaces \ {w} : Exists(v)' => Exists(v)
              \/ /\ \/ InsertMember(r) /\ role[req[r].ws][req[r].target] = "none"
                    \/ WriteRole(r)
                 /\ role' = [role EXCEPT ![req[r].ws][req[r].target] = req[r].newRole]
                 /\ UNCHANGED <<ws, live, archived>>
<1>0. TypeOK /\ req[r] \in RequestRecords /\ req \in [Requests -> RequestRecords]
    BY DEF IsolationInv, TypeOK
<1>1. ASSUME NEW step \in Steps, Goto(r, step)
      PROVE  /\ \A s \in Requests \ {r} : req'[s] = req[s]
             /\ req'[r].pc = step /\ req'[r].ws = req[r].ws
             /\ req'[r].target = req[r].target /\ req'[r].newRole = req[r].newRole
    BY <1>0, <1>1 DEF Goto, RequestRecords
<1>2. {"readName", "checkMember", "insert", "done", "failed", "count", "write"}
          \subseteq Steps
    BY DEF Steps
<1>3. CASE CreateCheck(r)
    BY <1>0, <1>3, CreateCheckEffect DEF CreateCheck, Exists
<1>4. CASE CreateCommit(r)
    <2>1. /\ Goto(r, "done") \/ Goto(r, "failed")
          /\ req[r].actor \in Users
        BY <1>0, <1>4, Moves DEF RequestRecords
    <2>2. CASE UNCHANGED <<ws, role, live, archived>>
        BY <1>1, <1>2, <2>1, <2>2 DEF Exists
    <2>3. ASSUME NEW w \in Workspaces, ~ Exists(w),
                 ws' = [ws EXCEPT ![w] = [tenant |-> Home[req[r].actor],
                                          name |-> req[r].name]],
                 role' = [role EXCEPT ![w][req[r].actor] = "owner"]
          PROVE  \A v \in Workspaces \ {w} : Exists(v)' => Exists(v)
        BY <1>0, <2>3 DEF TypeOK, Exists
    <2> QED
        BY <1>1, <1>2, <1>4, <2>1, <2>2, <2>3 DEF CreateCommit
<1>5. CASE Authorise(r)
    BY <1>0, <1>5, AuthoriseEffect DEF Authorise, Exists
<1>6. CASE UpdateStore(r)
    <2>1. /\ Exists(req[r].ws) /\ req[r].ws \in Workspaces
          /\ ws[req[r].ws].tenant = Home[req[r].actor]
        BY <1>0, <1>6 DEF UpdateStore, IsolationInv, RequestsHome, RequestHome, Authorised,
                          RequestRecords
    <2>2. \A w \in Workspaces : Exists(w)' => Exists(w)
        BY <1>0, <1>6, <2>1 DEF UpdateStore, Exists, TypeOK
    <2> QED
        BY <1>1, <1>2, <1>6, <2>2, Moves DEF UpdateStore
<1>7. CASE ArchiveReadName(r)
    BY <1>0, <1>7, ReadNameEffect DEF ArchiveReadName, Exists
<1>8. CASE ArchiveStoreName(r)
    <2>1. \A w \in Workspaces : Exists(w)' => Exists(w)
        BY <1>0, <1>8 DEF ArchiveStoreName, Exists, TypeOK
    <2> QED
        BY <1>1, <1>2, <1>8, <2>1, Moves DEF ArchiveStoreName
<1>9. CASE ArchiveProjects(r) \/ FindUser(r) \/ CheckMember(r) \/ Fail(r)
    BY <1>1, <1>2, <1>9, Moves DEF ArchiveProjects, FindUser, CheckMember, Fail, Exists
<1>10. CASE FindTarget(r) \/ CountOwners(r)
    BY <1>1, <1>2, <1>10, Moves DEF FindTarget, CountOwners, Exists
<1>11. CASE InsertMember(r) \/ WriteRole(r)
    BY <1>1, <1>2, <1>11, Moves DEF InsertMember, WriteRole, Exists
<1> QED
    BY <1>3, <1>4, <1>5, <1>6, <1>7, <1>8, <1>9, <1>10, <1>11

(* Owners who keep the role when one user's row of one workspace changes.  *)
LEMMA OwnersAfter ==
    ASSUME TypeOK, NEW w \in Workspaces, NEW u \in Users, NEW x,
           role' = [role EXCEPT ![w][u] = x]
    PROVE  /\ \A v \in Workspaces \ {w} : role'[v] = role[v] /\ OwnersOf(v)' = OwnersOf(v)
           /\ OwnersOf(w) \ {u} \subseteq OwnersOf(w)'
           /\ x = "owner" => u \in OwnersOf(w)'
BY DEF TypeOK, OwnersOf

(* An owner that is not the only one leaves another behind.                *)
LEMMA AnotherOwner ==
    ASSUME NEW w, NEW u, OwnersOf(w) # {}, Cardinality(OwnersOf(w)) # 1
    PROVE  OwnersOf(w) \ {u} # {}
<1> SUFFICES ASSUME OwnersOf(w) \subseteq {u}
             PROVE  FALSE
    OBVIOUS
<1>1. OwnersOf(w) = {u}
    OBVIOUS
<1>2. Cardinality({u}) = 1
    BY FS_Singleton
<1> QED
    BY <1>1, <1>2

(* The write of a membership request takes no last owner away.             *)
LEMMA OwnerRemains ==
    ASSUME OwnerInv, NEW r \in Requests, req[r].ws \in OneManager,
           \/ InsertMember(r) /\ role[req[r].ws][req[r].target] = "none"
           \/ WriteRole(r)
    PROVE  /\ OwnersOf(req[r].ws) # {}
           /\ req[r].newRole = "owner" \/ OwnersOf(req[r].ws) \ {req[r].target} # {}
<1>1. Exists(req[r].ws)
    BY DEF OwnerInv, IsolationInv, RequestsHome, RequestHome, Authorised, InsertMember,
           WriteRole
<1>2. OwnersOf(req[r].ws) # {}
    BY <1>1 DEF OwnerInv, AlwaysOwned
<1>3. CASE WriteRole(r)
    BY <1>2, <1>3 DEF WriteRole, OwnerInv, LeavesAnOwner
<1>4. CASE role[req[r].ws][req[r].target] = "none"
    BY <1>2, <1>4 DEF OwnersOf
<1> QED
    BY <1>2, <1>3, <1>4

(* Every step keeps the groups owned.                                      *)
LEMMA OwnerStep ==
    ASSUME OwnerInv, IsolationInv', [Next]_vars
    PROVE  OwnerInv'
<1>0. TypeOK /\ IsolationInv /\ OneManager \subseteq Workspaces
    BY WorkspacesAssumption DEF OwnerInv, IsolationInv
<1>1. CASE UNCHANGED <<ws, role, req>>
    BY <1>1 DEF OwnerInv, OneAtATime, AlwaysOwned, LeavesAnOwner, Exists, OwnersOf
<1>2. ASSUME NEW r \in Requests, OneAtATime',
             \/ CreateCheck(r) \/ CreateCommit(r)
             \/ Authorise(r) \/ UpdateStore(r)
             \/ ArchiveProjects(r) \/ ArchiveReadName(r) \/ ArchiveStoreName(r)
             \/ FindUser(r) \/ CheckMember(r) \/ InsertMember(r)
             \/ FindTarget(r) \/ CountOwners(r) \/ WriteRole(r)
             \/ Fail(r)
      PROVE  OwnerInv'
    <2>1. \A s \in Requests \ {r} : req'[s] = req[s]
        BY <1>0, <1>2, RoleCases
    <2>2. req'[r].pc = "write" =>
              /\ FindTarget(r) \/ CountOwners(r)
              /\ req'[r].ws = req[r].ws /\ req'[r].target = req[r].target
              /\ req'[r].newRole = req[r].newRole
              /\ UNCHANGED role
        BY <1>0, <1>2, RoleCases
    <2>3. ASSUME NEW s \in Requests, NEW w \in OneManager, NEW u,
                 req'[s].pc = "write", w = req'[s].ws, u = req'[s].target,
                 req'[s].newRole # "owner", UNCHANGED role
          PROVE  OwnersOf(w) \ {u} # {}
        <3>1. CASE s # r
            BY <2>1, <2>3, <3>1 DEF OwnerInv, LeavesAnOwner
        <3>2. CASE s = r
            <4>1. /\ FindTarget(r) \/ CountOwners(r)
                  /\ w = req[r].ws /\ u = req[r].target
                  /\ req[r].newRole # "owner"
                BY <2>2, <2>3, <3>2
            <4>2. Exists(w)
                BY <4>1 DEF OwnerInv, IsolationInv, RequestsHome, RequestHome, Authorised,
                            FindTarget, CountOwners
            <4>3. OwnersOf(w) # {}
                BY <2>3, <4>2 DEF OwnerInv, AlwaysOwned
            <4>4. CASE CountOwners(r)
                BY <4>1, <4>3, <4>4, AnotherOwner DEF CountOwners
            <4>5. CASE FindTarget(r)
                <5>1. role[w][u] # "owner"
                    BY <1>0, <2>3, <3>2, <4>1, <4>5
                    DEF FindTarget, Goto, TypeOK, RequestRecords
                <5> QED
                    BY <4>3, <5>1 DEF OwnersOf
            <4> QED
                BY <4>1, <4>4, <4>5
        <3> QED
            BY <3>1, <3>2
    <2>4. CASE UNCHANGED role /\ \A w \in Workspaces : Exists(w)' => Exists(w)
        <3>1. AlwaysOwned'
            BY <1>0, <2>4 DEF OwnerInv, AlwaysOwned, OwnersOf
        <3>2. ASSUME NEW s \in Requests, req'[s].pc = "write", req'[s].ws \in OneManager,
                     req'[s].newRole # "owner"
              PROVE  OwnersOf(req[s].ws)' \ {req'[s].target} # {}
            <4>1. PICK w, u : w \in OneManager /\ w = req'[s].ws /\ u = req'[s].target
                BY <3>2
            <4>2. OwnersOf(w) \ {u} # {}
                BY <2>3, <2>4, <3>2, <4>1
            <4> QED
                BY <2>4, <4>1, <4>2 DEF OwnersOf
        <3>3. LeavesAnOwner'
            BY <3>2 DEF LeavesAnOwner
        <3> QED
            BY <1>2, <3>1, <3>3 DEF OwnerInv
    <2>5. ASSUME NEW w \in Workspaces, NEW u \in Users, NEW x,
                 role' = [role EXCEPT ![w][u] = x],
                 w \in OneManager => OwnersOf(w)' # {},
                 \A v \in Workspaces \ {w} : Exists(v)' => Exists(v),
                 \A s \in Requests \ {r} : req[s].pc = "write" /\ req[s].ws \in OneManager =>
                     req[s].ws # w,
                 req'[r].pc # "write"
          PROVE  OwnerInv'
        <3>1. \A v \in Workspaces \ {w} : OwnersOf(v)' = OwnersOf(v)
            BY <1>0, <2>5, OwnersAfter
        <3>2. AlwaysOwned'
            BY <1>0, <2>5, <3>1 DEF OwnerInv, AlwaysOwned
        <3>3. ASSUME NEW s \in Requests, req'[s].pc = "write", req'[s].ws \in OneManager,
                     req'[s].newRole # "owner"
              PROVE  OwnersOf(req[s].ws)' \ {req'[s].target} # {}
            <4>1. /\ s # r /\ req'[s] = req[s] /\ req[s].ws \in Workspaces \ {w}
                BY <1>0, <2>1, <2>5, <3>3
            <4>2. OwnersOf(req[s].ws) \ {req[s].target} # {}
                BY <3>3, <4>1 DEF OwnerInv, LeavesAnOwner
            <4>3. PICK v \in Workspaces \ {w} : v = req[s].ws
                BY <4>1
            <4>4. OwnersOf(v)' \ {req[s].target} # {}
                BY <3>1, <4>2, <4>3
            <4> QED
                BY <4>1, <4>3, <4>4 DEF OwnersOf
        <3>4. LeavesAnOwner'
            BY <3>3 DEF LeavesAnOwner
        <3> QED
            BY <1>2, <3>2, <3>4 DEF OwnerInv
    <2>6. ASSUME NEW w \in Workspaces, ~ Exists(w), req[r].actor \in Users,
                 role' = [role EXCEPT ![w][req[r].actor] = "owner"],
                 \A v \in Workspaces \ {w} : Exists(v)' => Exists(v)
          PROVE  OwnerInv'
        <3>1. OwnersOf(w)' # {}
            BY <1>0, <2>6, OwnersAfter
        <3>2. \A s \in Requests : req[s].pc = "write" => req[s].ws # w
            BY <2>6 DEF OwnerInv, IsolationInv, RequestsHome, RequestHome, Authorised
        <3>3. role' # role
            <4>1. role[w][req[r].actor] = "none"
                BY <1>0, <2>6, HomeType DEF IsolationInv, TenantIsolation, Exists
            <4>2. role'[w][req[r].actor] = "owner"
                BY <1>0, <2>6 DEF TypeOK
            <4> QED
                BY <4>1, <4>2
        <3> QED
            BY <2>2, <2>5, <2>6, <3>1, <3>2, <3>3
    <2>7. ASSUME \/ InsertMember(r) /\ role[req[r].ws][req[r].target] = "none"
                 \/ WriteRole(r),
                 role' = [role EXCEPT ![req[r].ws][req[r].target] = req[r].newRole],
                 UNCHANGED <<ws, live, archived>>
          PROVE  OwnerInv'
        <3>1. /\ req[r].ws \in Workspaces /\ req[r].target \in Users
              /\ req[r].pc \in {"insert", "write"}
            BY <1>0, <2>7 DEF TypeOK, RequestRecords, InsertMember, WriteRole
        <3>2. PICK w \in Workspaces, u \in Users : w = req[r].ws /\ u = req[r].target
            BY <3>1
        <3>3. w \in OneManager => OwnersOf(w)' # {}
            <4>1. w \in OneManager => req[r].newRole = "owner" \/ OwnersOf(w) \ {u} # {}
                BY <2>7, <3>2, OwnerRemains
            <4> QED
                BY <1>0, <2>7, <3>2, <4>1, OwnersAfter
        <3>4. ASSUME NEW s \in Requests \ {r}, req[s].pc = "write", req[s].ws \in OneManager
              PROVE  req[s].ws # w
            BY <3>1, <3>2, <3>4 DEF OwnerInv, OneAtATime, MemberSteps
        <3>5. req'[r].pc # "write"
            BY <2>2, <2>7, <3>1 DEF FindTarget, CountOwners, InsertMember, WriteRole
        <3> QED
            BY <2>5, <2>7, <3>2, <3>3, <3>4, <3>5 DEF Exists
    <2> QED
        BY <1>0, <1>2, <2>4, <2>6, <2>7, RoleCases
<1> QED
    BY <1>1, <1>2 DEF Next, vars, CreateProject

(* What OwnedGroup sees of the member table.                               *)
GroupRoles == [w \in OneManager |-> role[w]]

(* A change of one entry is a change of the group that is seen of it.      *)
LEMMA GroupMap ==
    ASSUME TypeOK, NEW w \in OneManager, NEW u \in Users, NEW x,
           role' = [role EXCEPT ![w][u] = x]
    PROVE  GroupRoles' = [GroupRoles EXCEPT ![w][u] = x]
<1>1. OneManager \subseteq Workspaces
    BY WorkspacesAssumption
<1>2. \A v \in OneManager : role'[v] = IF v = w THEN [role[w] EXCEPT ![u] = x] ELSE role[v]
    BY <1>1 DEF TypeOK
<1> QED
    BY <1>2 DEF GroupRoles

(* Every step founds or changes one group, or is not seen.                 *)
LEMMA StepOwnedGroup ==
    ASSUME OwnerInv, [Next]_vars
    PROVE  [Membership!GroupNext]_([w \in OneManager |-> role[w]])
<1>0. TypeOK /\ IsolationInv /\ OneManager \subseteq Workspaces
    BY WorkspacesAssumption DEF OwnerInv, IsolationInv
<1>1. CASE UNCHANGED role
    BY <1>1
<1>2. ASSUME NEW w \in Workspaces \ OneManager, NEW u, NEW x,
             role' = [role EXCEPT ![w][u] = x]
      PROVE  UNCHANGED [v \in OneManager |-> role[v]]
    BY <1>0, <1>2 DEF TypeOK
<1>3. ASSUME NEW w \in OneManager, ~ Exists(w), NEW u \in Users,
             role' = [role EXCEPT ![w][u] = "owner"]
      PROVE  Membership!GroupNext
    <2>1. \A q \in Users : role[w][q] = "none"
        BY <1>0, <1>3, HomeType DEF IsolationInv, TenantIsolation, Exists
    <2>2. GroupRoles' = [GroupRoles EXCEPT ![w][u] = "owner"]
        BY <1>0, <1>3, GroupMap
    <2>3. Membership!Found(w, u)
        BY <1>3, <2>1, <2>2 DEF Membership!Found, GroupRoles
    <2> QED
        BY <1>3, <2>3 DEF Membership!GroupNext
<1>4. ASSUME NEW w \in OneManager, NEW u \in Users, NEW x \in Roles,
             role' = [role EXCEPT ![w][u] = x], OwnersOf(w) # {},
             x = "owner" \/ OwnersOf(w) \ {u} # {}
      PROVE  Membership!GroupNext
    <2>1. Membership!OwnersOf(w) = OwnersOf(w)
        BY DEF Membership!OwnersOf, OwnersOf
    <2>2. GroupRoles' = [GroupRoles EXCEPT ![w][u] = x]
        BY <1>0, <1>4, GroupMap
    <2>3. Membership!Change(w, u, x)
        BY <1>4, <2>1, <2>2 DEF Membership!Change, GroupRoles
    <2> QED
        BY <1>4, <2>3 DEF Membership!GroupNext, Roles
<1>5. ASSUME NEW r \in Requests,
             \/ CreateCheck(r) \/ CreateCommit(r)
             \/ Authorise(r) \/ UpdateStore(r)
             \/ ArchiveProjects(r) \/ ArchiveReadName(r) \/ ArchiveStoreName(r)
             \/ FindUser(r) \/ CheckMember(r) \/ InsertMember(r)
             \/ FindTarget(r) \/ CountOwners(r) \/ WriteRole(r)
             \/ Fail(r)
      PROVE  [Membership!GroupNext]_([w \in OneManager |-> role[w]])
    <2>1. ASSUME NEW w \in Workspaces, ~ Exists(w), req[r].actor \in Users,
                 role' = [role EXCEPT ![w][req[r].actor] = "owner"]
          PROVE  [Membership!GroupNext]_([v \in OneManager |-> role[v]])
        BY <1>2, <1>3, <2>1
    <2>2. ASSUME \/ InsertMember(r) /\ role[req[r].ws][req[r].target] = "none"
                 \/ WriteRole(r),
                 role' = [role EXCEPT ![req[r].ws][req[r].target] = req[r].newRole]
          PROVE  [Membership!GroupNext]_([v \in OneManager |-> role[v]])
        <3>1. PICK w \in Workspaces, u \in Users, x \in Roles :
                  w = req[r].ws /\ u = req[r].target /\ x = req[r].newRole
            BY <1>0 DEF TypeOK, RequestRecords
        <3>2. CASE w \notin OneManager
            BY <1>2, <2>2, <3>1, <3>2
        <3>3. CASE w \in OneManager
            <4>1. OwnersOf(w) # {} /\ (x = "owner" \/ OwnersOf(w) \ {u} # {})
                BY <2>2, <3>1, <3>3, OwnerRemains
            <4>2. role' = [role EXCEPT ![w][u] = x]
                BY <2>2, <3>1
            <4>3. Membership!GroupNext
                BY <1>4, <3>1, <3>3, <4>1, <4>2
            <4> QED
                BY <4>3
        <3> QED
            BY <3>2, <3>3
    <2> QED
        BY <1>0, <1>1, <1>5, <2>1, <2>2, RoleCases
<1>6. CASE UNCHANGED <<ws, role>>
    BY <1>1, <1>6
<1> QED
    BY <1>5, <1>6 DEF Next, vars, CreateProject

(* The unlocked read of the owner count and the later write keep the last  *)
(* owner as long as the membership calls of a workspace do not overlap:    *)
(* they are then the changes of an owned group.                            *)
THEOREM RefinesOwnedGroup == Spec => ImplementsOwnedGroup
<1>1. Init => Membership!GroupInit
    BY WorkspacesAssumption DEF Init, Membership!GroupInit
<1>2. Init /\ IsolationInv => OwnerInv
    BY WorkspacesAssumption
    DEF Init, OwnerInv, OneAtATime, AlwaysOwned, LeavesAnOwner, MemberSteps, Exists
<1>3. OwnerInv /\ IsolationInv' /\ [Next]_vars => OwnerInv'
    BY OwnerStep
<1>4. OwnerInv /\ [Next]_vars => [Membership!GroupNext]_([w \in OneManager |-> role[w]])
    BY StepOwnedGroup
<1> QED
    BY <1>1, <1>2, <1>3, <1>4, IsolationInvariant, PTL
    DEF Spec, ImplementsOwnedGroup, Membership!GroupSpec
=============================================================================
