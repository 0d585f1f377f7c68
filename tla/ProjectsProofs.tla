---------------------------- MODULE ProjectsProofs ---------------------------
(***************************************************************************)
(* Projects stay in their tenant and keep an owner; their tasks stay with  *)
(* them and go to people of their workspace; for any number of tenants,    *)
(* users, workspaces, projects, tasks and requests in flight.              *)
(***************************************************************************)
EXTENDS Projects, Tasks, FiniteSetTheorems, TLAPS

(* What request s has found out and will rely on: its project is of its    *)
(* caller's tenant, and so is the user it is about to insert; the row it   *)
(* is about to write belongs to its project.                               *)
Sound(s) ==
    req[s].pc # "idle" =>
        /\ req[s].actor \in Users /\ req[s].project \in Projects
        /\ project[req[s].project].tenant = Home[req[s].actor]
        /\ req[s].pc \in {"findUser", "insert"} =>
               req[s].target \in Users /\ req[s].role \in Roles
        /\ req[s].pc = "insert" => Home[req[s].target] = Home[req[s].actor]
        /\ req[s].pc \in {"findRow", "write"} => req[s].row \in Rows
        /\ req[s].pc = "write" =>
               /\ row[req[s].row].role # "unused"
               /\ row[req[s].row].project = req[s].project

RequestsSound == \A s \in Slots : Sound(s)

(* A row, removed or not, is of a project and a user of one tenant.        *)
RowsPlaced ==
    \A i \in Rows : row[i].role # "unused" =>
        /\ row[i].project \in Projects /\ row[i].user \in Users
        /\ project[row[i].project].tenant = Home[row[i].user]

(* The table alone is not inductive: the user is looked up one statement   *)
(* before the row is inserted.                                             *)
IsolationInv == TypeOK /\ RowsPlaced /\ RequestsSound

-----------------------------------------------------------------------------
(* Every user has a tenant, and a tenant is something.                     *)
LEMMA HomeType == \A u \in Users : Home[u] \in Tenants /\ Home[u] # None
BY ActorsAssumption DEF Tenants

LEMMA IdleType == Idle \in RequestRecords /\ Idle.pc = "idle"
BY DEF Idle, RequestRecords, Steps

(* What every step leaves behind: the other requests, the tenants of the   *)
(* projects that exist, and what the rows that were ever used are about.   *)
Keeps(s) ==
    /\ \A r \in Slots \ {s} : req'[r] = req[r]
    /\ \A p \in Projects : Exists(p) => project'[p].tenant = project[p].tenant
    /\ \A i \in Rows : row[i].role # "unused" =>
           /\ row'[i].role # "unused"
           /\ row'[i].project = row[i].project /\ row'[i].user = row[i].user

(* What the other requests have found out stays true.                      *)
LEMMA OthersSound ==
    ASSUME IsolationInv, NEW s \in Slots, Keeps(s), NEW r \in Slots \ {s}
    PROVE  Sound(r)'
<1>1. Sound(r) /\ req'[r] = req[r]
    BY DEF IsolationInv, RequestsSound, Keeps
<1>2. SUFFICES ASSUME req[r].pc # "idle" PROVE Sound(r)'
    BY <1>1 DEF Sound
<1>3. project'[req[r].project].tenant = project[req[r].project].tenant
    BY <1>1, <1>2, HomeType DEF Sound, Keeps, Exists
<1>4. req[r].pc = "write" =>
          /\ row'[req[r].row].role # "unused"
          /\ row'[req[r].row].project = req[r].project
    BY <1>1, <1>2 DEF Sound, Keeps
<1> QED
    BY <1>1, <1>2, <1>3, <1>4 DEF Sound

(* A step that ends the request, or takes it one statement further.        *)
LEMMA FinishEffect ==
    ASSUME TypeOK, NEW s \in Slots, Finish(s)
    PROVE  /\ req' \in [Slots -> RequestRecords]
           /\ req'[s] = Idle /\ \A r \in Slots \ {s} : req'[r] = req[r]
BY IdleType DEF TypeOK, Finish

LEMMA GotoEffect ==
    ASSUME TypeOK, NEW s \in Slots, NEW step \in Steps, Goto(s, step)
    PROVE  /\ req' \in [Slots -> RequestRecords]
           /\ req'[s] = [req[s] EXCEPT !.pc = step]
           /\ \A r \in Slots \ {s} : req'[r] = req[r]
<1>1. [req[s] EXCEPT !.pc = step] \in RequestRecords
    BY DEF TypeOK, RequestRecords
<1> QED
    BY <1>1 DEF TypeOK, Goto

LEMMA BeginEffect ==
    ASSUME TypeOK, NEW s \in Slots, NEW x \in RequestRecords, req' = [req EXCEPT ![s] = x]
    PROVE  /\ req' \in [Slots -> RequestRecords]
           /\ req'[s] = x /\ \A r \in Slots \ {s} : req'[r] = req[r]
BY DEF TypeOK

(* A request that leaves both tables alone.                                *)
LEMMA QuietStep ==
    ASSUME IsolationInv, NEW s \in Slots, UNCHANGED <<project, row>>,
           req' \in [Slots -> RequestRecords],
           \A r \in Slots \ {s} : req'[r] = req[r], Sound(s)'
    PROVE  IsolationInv' /\ Keeps(s)
<1>1. TypeOK'
    BY DEF IsolationInv, TypeOK
<1>2. RowsPlaced'
    BY DEF IsolationInv, RowsPlaced
<1>3. Keeps(s)
    BY DEF Keeps
<1> QED
    BY <1>1, <1>2, <1>3, OthersSound DEF IsolationInv, RequestsSound

(* getProject, whichever request it is for, finds a project that exists.   *)
LEMMA GetStep ==
    ASSUME IsolationInv, NEW s \in Slots,
           GetProject(s) \/ GetForAdd(s) \/ GetForChange(s)
    PROVE  IsolationInv' /\ Keeps(s)
<1>0. TypeOK /\ None \in Users \cup {None} /\ UNCHANGED <<project, row>>
    BY DEF IsolationInv, GetProject, GetForAdd, GetForChange
<1>1. CASE GetProject(s)
    <2>1. PICK u \in Callers, p \in Projects, step \in {"update", "archive"} :
              /\ Permitted(p, u)
              /\ req' = [req EXCEPT ![s] =
                            [Idle EXCEPT !.pc = step, !.actor = u, !.project = p]]
        BY <1>1 DEF GetProject
    <2> DEFINE x == [Idle EXCEPT !.pc = step, !.actor = u, !.project = p]
    <2>2. u \in Users
        BY ActorsAssumption
    <2>3. /\ x \in RequestRecords /\ x.pc = step /\ x.actor = u /\ x.project = p
        BY <2>2 DEF Idle, RequestRecords, Steps
    <2> HIDE DEF x
    <2>4. /\ req' \in [Slots -> RequestRecords] /\ req'[s] = x
          /\ \A r \in Slots \ {s} : req'[r] = req[r]
        BY <1>0, <2>1, <2>3, BeginEffect DEF x
    <2>5. Sound(s)'
        BY <1>0, <2>1, <2>2, <2>3, <2>4 DEF Sound, Permitted
    <2> QED
        BY <1>0, <2>4, <2>5, QuietStep
<1>2. CASE GetForAdd(s)
    <2>1. PICK u \in Callers, p \in Projects, v \in Users, y \in Roles :
              /\ Permitted(p, u)
              /\ req' = [req EXCEPT ![s] =
                            [Idle EXCEPT !.pc = "findUser", !.actor = u, !.project = p,
                                         !.target = v, !.role = y]]
        BY <1>2 DEF GetForAdd
    <2> DEFINE x == [Idle EXCEPT !.pc = "findUser", !.actor = u, !.project = p,
                                 !.target = v, !.role = y]
    <2>2. u \in Users
        BY ActorsAssumption
    <2>3. /\ x \in RequestRecords /\ x.pc = "findUser" /\ x.actor = u /\ x.project = p
          /\ x.target = v /\ x.role = y
        BY <2>2 DEF Idle, RequestRecords, Steps
    <2> HIDE DEF x
    <2>4. /\ req' \in [Slots -> RequestRecords] /\ req'[s] = x
          /\ \A r \in Slots \ {s} : req'[r] = req[r]
        BY <1>0, <2>1, <2>3, BeginEffect DEF x
    <2>5. Sound(s)'
        BY <1>0, <2>1, <2>2, <2>3, <2>4 DEF Sound, Permitted
    <2> QED
        BY <1>0, <2>4, <2>5, QuietStep
<1>3. CASE GetForChange(s)
    <2>1. PICK u \in Callers, p \in Projects, i \in Rows, y \in Roles \cup {"none"} :
              /\ Permitted(p, u)
              /\ req' = [req EXCEPT ![s] =
                            [Idle EXCEPT !.pc = "findRow", !.actor = u, !.project = p,
                                         !.row = i, !.role = y,
                                         !.owners = Cardinality(OwnersOf(p))]]
        BY <1>3 DEF GetForChange
    <2> DEFINE n == Cardinality(OwnersOf(p))
               x == [Idle EXCEPT !.pc = "findRow", !.actor = u, !.project = p,
                                 !.row = i, !.role = y, !.owners = n]
    <2>2. u \in Users
        BY ActorsAssumption, ProjectsAssumption
    <2>3. n \in Nat
        BY FS_Subset, FS_CardinalityType, ProjectsAssumption
        DEF OwnersOf, RowsOf
    <2> HIDE DEF n
    <2>4. /\ x \in RequestRecords /\ x.pc = "findRow" /\ x.actor = u /\ x.project = p
          /\ x.row = i /\ x.role = y
        BY <2>2, <2>3 DEF Idle, RequestRecords, Steps
    <2>5. req' = [req EXCEPT ![s] = x]
        BY <2>1 DEF n
    <2> HIDE DEF x
    <2>6. /\ req' \in [Slots -> RequestRecords] /\ req'[s] = x
          /\ \A r \in Slots \ {s} : req'[r] = req[r]
        BY <1>0, <2>4, <2>5, BeginEffect
    <2>7. Sound(s)'
        BY <1>0, <2>1, <2>2, <2>4, <2>6 DEF Sound, Permitted
    <2> QED
        BY <1>0, <2>6, <2>7, QuietStep
<1> QED
    BY <1>1, <1>2, <1>3

(* The statements that only read, and the end of a request.                *)
LEMMA ReadStep ==
    ASSUME IsolationInv, NEW s \in Slots,
           UpdateStore(s) \/ FindUser(s) \/ FindRow(s) \/ Fail(s)
    PROVE  IsolationInv' /\ Keeps(s)
<1>0. TypeOK /\ UNCHANGED <<project, row>> /\ Sound(s) /\ req[s] \in RequestRecords
    BY DEF IsolationInv, RequestsSound, TypeOK, UpdateStore, FindUser, FindRow, Fail
<1>1. CASE UpdateStore(s) \/ Fail(s)
    <2>1. Finish(s)
        BY <1>1 DEF UpdateStore, Fail
    <2> QED
        BY <1>0, <2>1, FinishEffect, IdleType, QuietStep DEF Sound
<1>2. CASE FindUser(s)
    <2>1. /\ req' \in [Slots -> RequestRecords]
          /\ req'[s] = [req[s] EXCEPT !.pc = "insert"]
          /\ \A r \in Slots \ {s} : req'[r] = req[r]
        BY <1>0, <1>2, GotoEffect DEF FindUser, Steps
    <2>2. Sound(s)'
        BY <1>0, <1>2, <2>1 DEF FindUser, Sound, RequestRecords
    <2> QED
        BY <1>0, <2>1, <2>2, QuietStep
<1>3. CASE FindRow(s)
    <2>1. /\ req' \in [Slots -> RequestRecords]
          /\ req'[s] = [req[s] EXCEPT !.pc = "write"]
          /\ \A r \in Slots \ {s} : req'[r] = req[r]
        BY <1>0, <1>3, GotoEffect DEF FindRow, Steps
    <2>2. Sound(s)'
        BY <1>0, <1>3, <2>1, ProjectsAssumption
        DEF FindRow, Live, Sound, RequestRecords
    <2> QED
        BY <1>0, <2>1, <2>2, QuietStep
<1> QED
    BY <1>1, <1>2, <1>3

(* The first and the last write to a project.                              *)
LEMMA ProjectStep ==
    ASSUME IsolationInv, NEW s \in Slots, CreateProject(s) \/ ArchiveStore(s)
    PROVE  IsolationInv' /\ Keeps(s)
<1>0. TypeOK /\ UNCHANGED row /\ Sound(s) /\ req[s] \in RequestRecords
    BY DEF IsolationInv, RequestsSound, TypeOK, CreateProject, ArchiveStore
<1>1. ASSUME project' \in [Projects -> [tenant : Tenants \cup {None}, archived : BOOLEAN]],
             req' \in [Slots -> RequestRecords], Keeps(s), Sound(s)'
      PROVE  IsolationInv'
    <2>1. TypeOK'
        BY <1>0, <1>1 DEF TypeOK
    <2>2. RowsPlaced'
        BY <1>0, <1>1, HomeType DEF IsolationInv, RowsPlaced, Keeps, Exists
    <2> QED
        BY <1>1, <2>1, <2>2, OthersSound DEF IsolationInv, RequestsSound
<1>2. CASE CreateProject(s)
    <2>1. PICK u \in Callers, p \in Projects :
              /\ ~ Exists(p)
              /\ project' = [project EXCEPT ![p].tenant = Home[u]]
              /\ req' = [req EXCEPT ![s] =
                            [Idle EXCEPT !.pc = "own", !.actor = u, !.project = p]]
        BY <1>2 DEF CreateProject
    <2> DEFINE x == [Idle EXCEPT !.pc = "own", !.actor = u, !.project = p]
    <2>2. u \in Users
        BY ActorsAssumption
    <2>3. /\ x \in RequestRecords /\ x.pc = "own" /\ x.actor = u /\ x.project = p
        BY <2>2 DEF Idle, RequestRecords, Steps
    <2> HIDE DEF x
    <2>4. /\ req' \in [Slots -> RequestRecords] /\ req'[s] = x
          /\ \A r \in Slots \ {s} : req'[r] = req[r]
        BY <1>0, <2>1, <2>3, BeginEffect DEF x
    <2>5. /\ project' \in [Projects -> [tenant : Tenants \cup {None}, archived : BOOLEAN]]
          /\ project'[p].tenant = Home[u]
          /\ \A q \in Projects \ {p} : project'[q] = project[q]
        BY <1>0, <2>1, <2>2, HomeType DEF TypeOK
    <2>6. Keeps(s)
        BY <1>0, <2>1, <2>4, <2>5 DEF Keeps
    <2>7. Sound(s)'
        BY <2>2, <2>3, <2>4, <2>5 DEF Sound
    <2> QED
        BY <1>1, <2>4, <2>5, <2>6, <2>7
<1>3. CASE ArchiveStore(s)
    <2>1. /\ project' \in [Projects -> [tenant : Tenants \cup {None}, archived : BOOLEAN]]
          /\ \A q \in Projects : project'[q].tenant = project[q].tenant
        <3>1. PICK p \in Projects : p = req[s].project
            BY <1>0, <1>3 DEF ArchiveStore, Sound
        <3> DEFINE x == [project[p] EXCEPT !.archived = TRUE]
        <3>2. /\ x \in [tenant : Tenants \cup {None}, archived : BOOLEAN]
              /\ x.tenant = project[p].tenant
            BY <1>0 DEF TypeOK
        <3>3. project' = [project EXCEPT ![p] = x]
            BY <1>0, <1>3, <3>1 DEF TypeOK, ArchiveStore
        <3> HIDE DEF x
        <3> QED
            BY <1>0, <3>2, <3>3 DEF TypeOK
    <2>2. /\ req' \in [Slots -> RequestRecords]
          /\ req'[s] = Idle /\ \A r \in Slots \ {s} : req'[r] = req[r]
        BY <1>0, <1>3, FinishEffect DEF ArchiveStore
    <2>3. Keeps(s)
        BY <1>0, <2>1, <2>2 DEF Keeps
    <2>4. Sound(s)'
        BY <2>2, IdleType DEF Sound
    <2> QED
        BY <1>1, <2>1, <2>2, <2>3, <2>4
<1> QED
    BY <1>2, <1>3

(* What the statements write that change members: a row for a project that *)
(* exists and a user of its tenant, or the role of a row.                  *)
LEMMA MemberStep ==
    ASSUME IsolationInv, NEW s \in Slots, CreateOwner(s) \/ InsertRow(s) \/ WriteRow(s)
    PROVE  /\ IsolationInv' /\ Keeps(s)
           /\ \/ \E i \in Rows, u \in Users, x \in Roles :
                     /\ row[i].role = "unused"
                     /\ row' = [row EXCEPT ![i] = [project |-> req[s].project, user |-> u,
                                                   role |-> x]]
                     /\ \/ CreateOwner(s) /\ u = req[s].actor /\ x = "owner"
                        \/ InsertRow(s) /\ u = req[s].target /\ x = req[s].role
              \/ WriteRow(s)
<1>0. /\ TypeOK /\ UNCHANGED project /\ Sound(s) /\ req[s] \in RequestRecords
      /\ Finish(s)
    BY DEF IsolationInv, RequestsSound, TypeOK, CreateOwner, InsertRow, WriteRow
<1>1. /\ req' \in [Slots -> RequestRecords]
      /\ req'[s] = Idle /\ \A r \in Slots \ {s} : req'[r] = req[r]
    BY <1>0, FinishEffect
<1>2. Sound(s)'
    BY <1>1, IdleType DEF Sound
<1>3. ASSUME row' \in [Rows -> [project : Projects \cup {None}, user : Users \cup {None},
                                role : Roles \cup {"unused", "none"}]],
             RowsPlaced', Keeps(s)
      PROVE  IsolationInv'
    <2>1. TypeOK'
        BY <1>0, <1>1, <1>3 DEF TypeOK
    <2> QED
        BY <1>2, <1>3, <2>1, OthersSound DEF IsolationInv, RequestsSound
<1>4. ASSUME CreateOwner(s) \/ InsertRow(s)
      PROVE  /\ IsolationInv' /\ Keeps(s)
             /\ \E i \in Rows, u \in Users, x \in Roles :
                    /\ row[i].role = "unused"
                    /\ row' = [row EXCEPT ![i] = [project |-> req[s].project, user |-> u,
                                                  role |-> x]]
                    /\ \/ CreateOwner(s) /\ u = req[s].actor /\ x = "owner"
                       \/ InsertRow(s) /\ u = req[s].target /\ x = req[s].role
    <2>1. PICK u \in Users, x \in Roles :
              /\ Insert(req[s].project, u, x)
              /\ project[req[s].project].tenant = Home[u]
              /\ req[s].project \in Projects
              /\ \/ CreateOwner(s) /\ u = req[s].actor /\ x = "owner"
                 \/ InsertRow(s) /\ u = req[s].target /\ x = req[s].role
        BY <1>0, <1>4, ProjectsAssumption
        DEF CreateOwner, InsertRow, Sound
    <2>2. PICK i \in Rows :
              /\ row[i].role = "unused"
              /\ row' = [row EXCEPT ![i] = [project |-> req[s].project, user |-> u,
                                            role |-> x]]
        BY <2>1 DEF Insert
    <2>3. /\ row'[i] = [project |-> req[s].project, user |-> u, role |-> x]
          /\ \A j \in Rows \ {i} : row'[j] = row[j]
          /\ row' \in [Rows -> [project : Projects \cup {None}, user : Users \cup {None},
                                role : Roles \cup {"unused", "none"}]]
        BY <1>0, <2>1, <2>2 DEF TypeOK
    <2>4. Keeps(s)
        BY <1>0, <1>1, <2>2, <2>3 DEF Keeps
    <2>5. RowsPlaced'
        BY <1>0, <2>1, <2>3 DEF IsolationInv, RowsPlaced
    <2> QED
        BY <1>3, <2>1, <2>2, <2>3, <2>4, <2>5
<1>5. CASE WriteRow(s)
    <2>1. /\ req[s].row \in Rows /\ Live(req[s].row)
          /\ row' = [row EXCEPT ![req[s].row].role = req[s].role]
        BY <1>0, <1>5 DEF WriteRow, Sound
    <2>2. /\ row' \in [Rows -> [project : Projects \cup {None}, user : Users \cup {None},
                                role : Roles \cup {"unused", "none"}]]
          /\ \A j \in Rows : /\ row'[j].project = row[j].project
                             /\ row'[j].user = row[j].user
                             /\ row'[j].role = "unused" <=> row[j].role = "unused"
        BY <1>0, <2>1, ProjectsAssumption
        DEF TypeOK, RequestRecords, Live
    <2>3. Keeps(s)
        BY <1>0, <1>1, <2>2 DEF Keeps
    <2>4. RowsPlaced'
        BY <1>0, <2>2 DEF IsolationInv, RowsPlaced
    <2> QED
        BY <1>3, <1>5, <2>2, <2>3, <2>4
<1> QED
    BY <1>4, <1>5

(* One action of one request, without the other requests' restraint.       *)
Acts(s) ==
    \/ CreateProject(s) \/ CreateOwner(s)
    \/ GetProject(s) \/ UpdateStore(s) \/ ArchiveStore(s)
    \/ GetForAdd(s) \/ FindUser(s) \/ InsertRow(s)
    \/ GetForChange(s) \/ FindRow(s) \/ WriteRow(s)
    \/ Fail(s)

LEMMA StepIsolation ==
    ASSUME IsolationInv, NEW s \in Slots, Acts(s)
    PROVE  IsolationInv' /\ Keeps(s)
BY GetStep, ReadStep, ProjectStep, MemberStep DEF Acts

LEMMA IsolationInvariant == Spec => []IsolationInv
<1>1. Init => IsolationInv
    BY IdleType DEF Init, IsolationInv, TypeOK, RowsPlaced, RequestsSound, Sound
<1>2. IsolationInv /\ [Next]_vars => IsolationInv'
    <2>1. IsolationInv /\ UNCHANGED vars => IsolationInv'
        BY DEF vars, IsolationInv, TypeOK, RowsPlaced, RequestsSound, Sound
    <2> QED
        BY <2>1, StepIsolation DEF Next, Acts
<1> QED
    BY <1>1, <1>2, PTL DEF Spec

(* The variables of Projects keep their types.                             *)
THEOREM TypeCorrect == Spec => []TypeOK
<1>1. IsolationInv => TypeOK
    BY DEF IsolationInv
<1> QED
    BY <1>1, IsolationInvariant, PTL

(* The members of a project are users of its tenant.                       *)
THEOREM Isolation == Spec => []TenantIsolation
<1>1. IsolationInv => TenantIsolation
    BY ProjectsAssumption DEF IsolationInv, RowsPlaced, TenantIsolation, Live
<1> QED
    BY <1>1, IsolationInvariant, PTL

-----------------------------------------------------------------------------
(* Who is shown as an owner has a row that says so.                        *)
LEMMA OwnerShown ==
    ASSUME NEW p, NEW u, RoleIn(p, u) = "owner"
    PROVE  OwnersOf(p) # {}
<1>1. \E i \in RowsOf(p) : row[i].user = u
    BY DEF RoleIn
<1>2. PICK i : i = (CHOOSE j \in RowsOf(p) : row[j].user = u)
    OBVIOUS
<1>3. i \in RowsOf(p)
    BY <1>1, <1>2
<1>4. row[i].role = "owner"
    BY <1>1, <1>2 DEF RoleIn
<1> QED
    BY <1>3, <1>4 DEF OwnersOf

(* A step changes members of its own project only, and only by the writes  *)
(* of a member's row.                                                      *)
LEMMA OnlyItsProject ==
    ASSUME IsolationInv, NEW s \in Slots, Acts(s)
    PROVE  /\ \/ UNCHANGED row
              \/ CreateOwner(s) \/ InsertRow(s) \/ WriteRow(s)
           /\ \A i \in Rows :
                  \/ row'[i] = row[i]
                  \/ /\ row'[i].project = req[s].project
                     /\ row[i].role = "unused" \/ row[i].project = req[s].project
<1>1. CASE CreateOwner(s) \/ InsertRow(s) \/ WriteRow(s)
    <2>1. CASE WriteRow(s)
        <3>1. /\ req[s].row \in Rows /\ row[req[s].row].project = req[s].project
              /\ row' = [row EXCEPT ![req[s].row].role = req[s].role]
            BY <2>1 DEF WriteRow, IsolationInv, RequestsSound, Sound
        <3>2. \A i \in Rows \ {req[s].row} : row'[i] = row[i]
            BY <3>1 DEF IsolationInv, TypeOK
        <3>3. row'[req[s].row].project = row[req[s].row].project
            BY <3>1 DEF IsolationInv, TypeOK
        <3> QED
            BY <2>1, <3>1, <3>2, <3>3
    <2>2. ASSUME NEW i \in Rows, NEW u \in Users, NEW x \in Roles,
                 row[i].role = "unused",
                 row' = [row EXCEPT ![i] = [project |-> req[s].project, user |-> u,
                                            role |-> x]]
          PROVE  \A j \in Rows :
                     \/ row'[j] = row[j]
                     \/ row'[j].project = req[s].project /\ row[j].role = "unused"
        BY <2>2 DEF IsolationInv, TypeOK
    <2> QED
        BY <1>1, <2>1, <2>2, MemberStep
<1>2. CASE UNCHANGED row
    BY <1>2
<1> QED
    BY <1>1, <1>2 DEF Acts, CreateProject, GetProject, UpdateStore, ArchiveStore, GetForAdd,
                      FindUser, GetForChange, FindRow, Fail

LEMMA ElsewhereSame ==
    ASSUME IsolationInv, NEW s \in Slots, Acts(s), NEW p \in Projects, req[s].project # p
    PROVE  /\ RowsOf(p)' = RowsOf(p) /\ OwnersOf(p)' = OwnersOf(p)
           /\ \A i \in RowsOf(p) : row'[i] = row[i]
<1>1. \A i \in Rows : row'[i] # row[i] =>
          /\ row'[i].project # p
          /\ row[i].role \notin Roles \/ row[i].project # p
    BY OnlyItsProject, ProjectsAssumption
<1>2. RowsOf(p)' = RowsOf(p)
    BY <1>1 DEF RowsOf, Live
<1>3. \A i \in RowsOf(p) : row'[i] = row[i]
    BY <1>1 DEF RowsOf, Live
<1> QED
    BY <1>2, <1>3 DEF OwnersOf

(* Where a request goes: it stays with its project, or is over, or begins  *)
(* with a project that is new or shows the caller as an owner.             *)
LEMMA RequestGoes ==
    ASSUME IsolationInv, NEW s \in Slots, Acts(s)
    PROVE  \/ req'[s] = Idle
           \/ FindUser(s) /\ req'[s] = [req[s] EXCEPT !.pc = "insert"]
           \/ FindRow(s) /\ req'[s] = [req[s] EXCEPT !.pc = "write"]
           \/ /\ CreateProject(s) /\ req[s].pc = "idle" /\ req'[s].pc = "own"
              /\ req'[s].project \in Projects /\ ~ Exists(req'[s].project)
              /\ \A p \in Projects \ {req'[s].project} : project'[p] = project[p]
           \/ /\ req[s].pc = "idle" /\ UNCHANGED <<project, row>>
              /\ req'[s].project \in Projects
              /\ OwnersOf(req'[s].project) # {}
              /\ \/ GetProject(s) /\ req'[s].pc \notin {"idle", "own"} \cup MemberSteps
                 \/ GetForAdd(s) /\ req'[s].pc = "findUser"
                 \/ /\ GetForChange(s) /\ req'[s].pc = "findRow"
                    /\ req'[s].owners = Cardinality(OwnersOf(req'[s].project))
<1>0. TypeOK /\ req[s] \in RequestRecords
    BY DEF IsolationInv, TypeOK
<1>1. CASE Finish(s)
    BY <1>0, <1>1, FinishEffect
<1>2. CASE FindUser(s) \/ FindRow(s)
    BY <1>0, <1>2, GotoEffect DEF FindUser, FindRow, Steps
<1>3. CASE CreateProject(s)
    <2>1. PICK p \in Projects :
              /\ ~ Exists(p)
              /\ req'[s].project = p /\ req'[s].pc = "own"
              /\ \A q \in Projects \ {p} : project'[q] = project[q]
        BY <1>0, <1>3 DEF CreateProject, TypeOK, Idle
    <2> QED
        BY <1>3, <2>1 DEF CreateProject
<1>4. CASE GetProject(s)
    <2>1. PICK p \in Projects :
              /\ \E u : Permitted(p, u)
              /\ req'[s].project = p /\ req'[s].pc \in {"update", "archive"}
        BY <1>0, <1>4 DEF GetProject, TypeOK, Idle
    <2>2. OwnersOf(p) # {}
        BY <2>1, OwnerShown DEF Permitted
    <2> QED
        BY <1>4, <2>1, <2>2 DEF GetProject, MemberSteps
<1>5. CASE GetForAdd(s)
    <2>1. PICK p \in Projects :
              /\ \E u : Permitted(p, u)
              /\ req'[s].project = p /\ req'[s].pc = "findUser"
        BY <1>0, <1>5 DEF GetForAdd, TypeOK, Idle
    <2>2. OwnersOf(p) # {}
        BY <2>1, OwnerShown DEF Permitted
    <2> QED
        BY <1>5, <2>1, <2>2 DEF GetForAdd
<1>6. CASE GetForChange(s)
    <2>1. PICK p \in Projects :
              /\ \E u : Permitted(p, u)
              /\ req'[s].project = p /\ req'[s].pc = "findRow"
              /\ req'[s].owners = Cardinality(OwnersOf(p))
        BY <1>0, <1>6 DEF GetForChange, TypeOK, Idle
    <2>2. OwnersOf(p) # {}
        BY <2>1, OwnerShown DEF Permitted
    <2> QED
        BY <1>6, <2>1, <2>2 DEF GetForChange
<1> QED
    BY <1>1, <1>2, <1>3, <1>4, <1>5, <1>6
    DEF Acts, CreateOwner, UpdateStore, ArchiveStore, InsertRow, WriteRow, Fail

(* Nobody is permitted to touch a project nobody owns.                     *)
LEMMA AbandonedStays ==
    ASSUME IsolationInv, NEW s \in Slots, Acts(s), NEW p \in Projects, Abandoned(p)
    PROVE  Abandoned(p)' /\ project'[p] = project[p]
<1>0. Exists(p) /\ OwnersOf(p) = {} /\ TypeOK /\ Keeps(s)
    BY StepIsolation DEF Abandoned, IsolationInv
<1>1. RowsOf(p)' = RowsOf(p) /\ OwnersOf(p)' = OwnersOf(p)
    <2>1. CASE req[s].pc = "idle"
        <3>1. UNCHANGED row
            BY <2>1, OnlyItsProject DEF CreateOwner, InsertRow, WriteRow
        <3> QED
            BY <3>1 DEF RowsOf, OwnersOf, Live
    <2>2. CASE req[s].pc # "idle"
        BY <2>2, ElsewhereSame DEF Abandoned, Busy
    <2> QED
        BY <2>1, <2>2
<1>2. ~ Busy(p)'
    <2>1. \A r \in Slots \ {s} : ~ (req'[r].pc # "idle" /\ req'[r].project = p)
        BY <1>0 DEF Keeps, Abandoned, Busy
    <2>2. ~ (req'[s].pc # "idle" /\ req'[s].project = p)
        <3>1. req[s].pc # "idle" => req[s].project # p
            BY DEF Abandoned, Busy
        <3>2. CASE req'[s] = Idle
            BY <3>2, IdleType
        <3>3. CASE FindUser(s) /\ req'[s] = [req[s] EXCEPT !.pc = "insert"]
            BY <1>0, <3>1, <3>3 DEF FindUser, TypeOK, RequestRecords
        <3>4. CASE FindRow(s) /\ req'[s] = [req[s] EXCEPT !.pc = "write"]
            BY <1>0, <3>1, <3>4 DEF FindRow, TypeOK, RequestRecords
        <3> QED
            BY <1>0, <3>2, <3>3, <3>4, RequestGoes
    <2> QED
        BY <2>1, <2>2 DEF Busy
<1>3. project'[p] = project[p]
    <2>1. CASE UNCHANGED project
        BY <2>1
    <2>2. CASE CreateProject(s)
        BY <1>0, <2>2, RequestGoes DEF CreateProject, Exists, TypeOK
    <2>3. CASE ArchiveStore(s)
        BY <1>0, <2>3 DEF ArchiveStore, Abandoned, Busy, TypeOK
    <2> QED
        BY <2>1, <2>2, <2>3
        DEF Acts, CreateOwner, GetProject, UpdateStore, GetForAdd, FindUser, InsertRow,
            GetForChange, FindRow, WriteRow, Fail
<1> QED
    BY <1>0, <1>1, <1>2, <1>3 DEF Abandoned, Exists

(* A project without an owner stays without one, and as it is, as soon as  *)
(* no request on it is in flight.                                          *)
THEOREM AbandonedStaysSo == Spec => AbandonedForGood
<1>1. ASSUME IsolationInv, Next, NEW p \in Projects, Abandoned(p)
      PROVE  Abandoned(p)' /\ project'[p] = project[p]
    BY <1>1, AbandonedStays DEF Next, Acts
<1>2. IsolationInv /\ [Next]_vars =>
          [\A p \in Projects : Abandoned(p) => Abandoned(p)' /\ project'[p] = project[p]]_vars
    BY <1>1
<1> QED
    BY <1>2, IsolationInvariant, PTL DEF Spec, AbandonedForGood

-----------------------------------------------------------------------------
(* A user is shown once as a member of a project.                          *)
UniqueRows ==
    \A i, j \in Rows :
        (Live(i) /\ Live(j) /\ row[i].project = row[j].project
            /\ row[i].user = row[j].user) => i = j

(* Until its first owner is inserted, a project is its creator's alone.    *)
OwnFirst ==
    \A s \in Slots : req[s].pc = "own" =>
        /\ RowsOf(req[s].project) = {}
        /\ \A r \in Slots \ {s} :
               req[r].pc # "idle" => req[r].project # req[s].project

(* One at a time, the count of owners is still true when a request writes, *)
(* and the request leaves an owner.                                        *)
CountHolds ==
    \A s \in Slots : req[s].pc \in MemberSteps /\ req[s].project \in OneManager =>
        /\ OwnersOf(req[s].project) # {}
        /\ req[s].pc \in {"findRow", "write"} =>
               req[s].owners = Cardinality(OwnersOf(req[s].project))
        /\ req[s].pc = "write" =>
               ~ (row[req[s].row].role = "owner" /\ req[s].role # "owner"
                      /\ req[s].owners = 1)

(* What RoleIn finds: the role of the row there is, or "none".             *)
RolesFound ==
    \A p \in Projects, u \in Users :
        /\ \A i \in RowsOf(p) : row[i].user = u => RoleIn(p, u) = row[i].role
        /\ (\A i \in RowsOf(p) : row[i].user # u) => RoleIn(p, u) = "none"

(* The table of members alone is not inductive: a write relies on a count  *)
(* taken, and on a row looked up, some statements earlier.                 *)
OwnerInv ==
    IsolationInv /\ OneAtATime /\ UniqueRows /\ OwnFirst /\ CountHolds /\ RolesFound

-----------------------------------------------------------------------------
LEMMA RolesAreFound == UniqueRows => RolesFound
<1> SUFFICES ASSUME UniqueRows, NEW p \in Projects, NEW u \in Users
             PROVE  /\ \A i \in RowsOf(p) : row[i].user = u => RoleIn(p, u) = row[i].role
                    /\ (\A i \in RowsOf(p) : row[i].user # u) => RoleIn(p, u) = "none"
    BY DEF RolesFound
<1>1. ASSUME NEW i \in RowsOf(p), row[i].user = u
      PROVE  RoleIn(p, u) = row[i].role
    <2>1. PICK k : k = (CHOOSE j \in RowsOf(p) : row[j].user = u)
        OBVIOUS
    <2>2. k \in RowsOf(p) /\ row[k].user = u
        BY <1>1, <2>1
    <2>3. k = i
        BY <1>1, <2>2 DEF UniqueRows, RowsOf
    <2> QED
        BY <1>1, <2>1, <2>3 DEF RoleIn
<1>2. (\A i \in RowsOf(p) : row[i].user # u) => RoleIn(p, u) = "none"
    BY DEF RoleIn
<1> QED
    BY <1>1, <1>2

(* No step gives a user a second row in a project.                         *)
LEMMA StepUnique ==
    ASSUME OwnerInv, NEW s \in Slots, Acts(s)
    PROVE  UniqueRows'
<1>0. /\ TypeOK /\ IsolationInv /\ UniqueRows /\ OwnFirst /\ RolesFound
      /\ Sound(s)
    BY DEF OwnerInv, IsolationInv, RequestsSound
<1>1. CASE UNCHANGED row
    BY <1>0, <1>1 DEF UniqueRows, Live
<1>2. CASE WriteRow(s)
    <2>1. /\ req[s].row \in Rows /\ Live(req[s].row)
          /\ row' = [row EXCEPT ![req[s].row].role = req[s].role]
        BY <1>0, <1>2 DEF WriteRow, Sound
    <2>2. \A j \in Rows : /\ row'[j].project = row[j].project
                          /\ row'[j].user = row[j].user
                          /\ Live(j)' => Live(j)
        BY <1>0, <2>1 DEF TypeOK, Live
    <2> QED
        BY <1>0, <2>2 DEF UniqueRows
<1>3. ASSUME NEW i \in Rows, NEW u \in Users, NEW x \in Roles, row[i].role = "unused",
             row' = [row EXCEPT ![i] = [project |-> req[s].project, user |-> u,
                                        role |-> x]],
             \/ CreateOwner(s) /\ u = req[s].actor /\ x = "owner"
             \/ InsertRow(s) /\ u = req[s].target /\ x = req[s].role
      PROVE  UniqueRows'
    <2>1. \A j \in RowsOf(req[s].project) : row[j].user # u
        <3>1. CASE CreateOwner(s)
            BY <1>0, <3>1 DEF CreateOwner, OwnFirst
        <3>2. CASE InsertRow(s) /\ u = req[s].target
            <4>1. req[s].project \in Projects /\ RoleIn(req[s].project, u) = "none"
                BY <1>0, <3>2 DEF InsertRow, Sound
            <4> QED
                BY <1>0, <4>1, ProjectsAssumption DEF RolesFound, RowsOf, Live
        <3> QED
            BY <1>3, <3>1, <3>2
    <2>2. /\ row'[i].project = req[s].project /\ row'[i].user = u
          /\ \A j \in Rows \ {i} : row'[j] = row[j]
        BY <1>0, <1>3 DEF TypeOK
    <2> QED
        BY <1>0, <2>1, <2>2 DEF UniqueRows, RowsOf, Live
<1> QED
    BY <1>0, <1>1, <1>2, <1>3, MemberStep, OnlyItsProject

(* A project being created has nobody else's requests and no members.      *)
LEMMA StepOwnFirst ==
    ASSUME OwnerInv, NEW s \in Slots, Acts(s)
    PROVE  OwnFirst'
<1>0. /\ TypeOK /\ IsolationInv /\ OwnFirst /\ RequestsSound /\ Keeps(s)
    BY StepIsolation DEF OwnerInv, IsolationInv
<1>1. \A r \in Slots : req[r].pc # "idle" =>
          req[r].project \in Projects /\ Exists(req[r].project)
    BY <1>0, HomeType DEF RequestsSound, Sound, Exists
<1>2. \A p \in Projects : ~ Exists(p) => RowsOf(p) = {}
    BY <1>0, HomeType, ProjectsAssumption
    DEF IsolationInv, RowsPlaced, RowsOf, Live, Exists
<1>3. \A p : OwnersOf(p) # {} => RowsOf(p) # {}
    BY DEF OwnersOf
<1>4. ASSUME NEW r \in Slots \ {s}, req[r].pc = "own"
      PROVE  /\ RowsOf(req[r].project)' = {}
             /\ req'[s].pc # "idle" => req'[s].project # req[r].project
    <2>1. PICK p \in Projects : p = req[r].project
        BY <1>1, <1>4
    <2>2. RowsOf(p) = {} /\ (req[s].pc # "idle" => req[s].project # p)
        BY <1>0, <1>4, <2>1 DEF OwnFirst
    <2>3. RowsOf(p)' = {}
        <3>1. CASE req[s].pc = "idle"
            <4>1. UNCHANGED row
                BY <1>0, <3>1, OnlyItsProject DEF CreateOwner, InsertRow, WriteRow
            <4> QED
                BY <2>2, <4>1 DEF RowsOf, Live
        <3>2. CASE req[s].pc # "idle"
            BY <1>0, <2>2, <3>2, ElsewhereSame
        <3> QED
            BY <3>1, <3>2
    <2>4. req'[s].pc # "idle" => req'[s].project # p
        <3>1. CASE req'[s] = Idle
            BY <3>1, IdleType
        <3>2. CASE FindUser(s) /\ req'[s] = [req[s] EXCEPT !.pc = "insert"]
            BY <1>0, <2>2, <3>2 DEF FindUser, TypeOK, RequestRecords
        <3>3. CASE FindRow(s) /\ req'[s] = [req[s] EXCEPT !.pc = "write"]
            BY <1>0, <2>2, <3>3 DEF FindRow, TypeOK, RequestRecords
        <3> QED
            BY <1>0, <1>1, <1>3, <1>4, <2>1, <2>2, <3>1, <3>2, <3>3, RequestGoes
    <2>5. RowsOf(req[r].project)' = RowsOf(p)'
        BY <2>1, <1>0, <1>4 DEF Keeps, RowsOf
    <2> QED
        BY <2>1, <2>3, <2>4, <2>5
<1>5. ASSUME req'[s].pc = "own"
      PROVE  /\ RowsOf(req[s].project)' = {}
             /\ \A r \in Slots \ {s} :
                    req'[r].pc # "idle" => req'[r].project # req'[s].project
    <2>1. /\ req'[s].project \in Projects /\ ~ Exists(req'[s].project)
          /\ CreateProject(s)
        <3>1. [req[s] EXCEPT !.pc = "insert"].pc # "own" /\ [req[s] EXCEPT !.pc = "write"].pc # "own"
            BY <1>0 DEF TypeOK, RequestRecords
        <3> QED
            BY <1>0, <1>5, <3>1, IdleType, RequestGoes DEF MemberSteps
    <2>2. PICK p \in Projects : p = req'[s].project
        BY <2>1
    <2>3. RowsOf(p)' = {}
        BY <1>2, <2>1, <2>2 DEF CreateProject, RowsOf, Live
    <2>4. RowsOf(req[s].project)' = RowsOf(p)'
        BY <2>2 DEF RowsOf
    <2>5. \A r \in Slots \ {s} :
              req'[r].pc # "idle" => req'[r].project # req'[s].project
        BY <1>0, <1>1, <2>1 DEF Keeps
    <2> QED
        BY <2>3, <2>4, <2>5
<1> QED
    BY <1>0, <1>4, <1>5 DEF OwnFirst, Keeps

(* The count a request has taken stays true until it writes.               *)
LEMMA StepCountHolds ==
    ASSUME OwnerInv, NEW s \in Slots, Acts(s)
    PROVE  CountHolds'
<1>0. /\ TypeOK /\ IsolationInv /\ OwnFirst /\ RequestsSound /\ CountHolds /\ OneAtATime
      /\ Keeps(s)
    BY StepIsolation DEF OwnerInv, IsolationInv
<1>1. ASSUME NEW r \in Slots \ {s}, req[r].pc \in MemberSteps, req[r].project \in OneManager
      PROVE  /\ OwnersOf(req[r].project)' = OwnersOf(req[r].project)
             /\ req[r].pc = "write" => row'[req[r].row] = row[req[r].row]
    <2>1. PICK p \in Projects : p = req[r].project
        BY <1>1, ProjectsAssumption
    <2>2. req'[r] = req[r] /\ req[r].pc # "idle"
        BY <1>0, <1>1 DEF Keeps, MemberSteps
    <2>3. CASE UNCHANGED row
        BY <2>2, <2>3 DEF OwnersOf, RowsOf, Live
    <2>4. CASE CreateOwner(s) \/ InsertRow(s) \/ WriteRow(s)
        <3>1. req[s].project # p
            <4>1. CASE CreateOwner(s)
                BY <1>0, <2>1, <2>2, <4>1 DEF CreateOwner, OwnFirst
            <4>2. CASE InsertRow(s) \/ WriteRow(s)
                <5>1. req[s].pc \in MemberSteps
                    BY <4>2 DEF InsertRow, WriteRow, MemberSteps
                <5> QED
                    BY <1>0, <1>1, <2>1, <5>1 DEF OneAtATime
            <4> QED
                BY <2>4, <4>1, <4>2
        <3>2. OwnersOf(p)' = OwnersOf(p)
            BY <1>0, <3>1, ElsewhereSame
        <3>3. OwnersOf(req[r].project)' = OwnersOf(p)'
            BY <2>1, <2>2 DEF OwnersOf, RowsOf
        <3>4. ASSUME req[r].pc = "write" PROVE row'[req[r].row] = row[req[r].row]
            <4>1. /\ req[r].row \in Rows /\ row[req[r].row].role # "unused"
                  /\ row[req[r].row].project = p
                BY <1>0, <2>1, <3>4 DEF RequestsSound, Sound
            <4> QED
                BY <1>0, <3>1, <4>1, OnlyItsProject
        <3> QED
            BY <2>1, <3>2, <3>3, <3>4
    <2> QED
        BY <1>0, <2>3, <2>4, OnlyItsProject
<1> DEFINE Holds(x) ==
        x.pc \in MemberSteps /\ x.project \in OneManager =>
            /\ OwnersOf(x.project) # {}
            /\ x.pc \in {"findRow", "write"} => x.owners = Cardinality(OwnersOf(x.project))
            /\ x.pc = "write" =>
                   ~ (row[x.row].role = "owner" /\ x.role # "owner" /\ x.owners = 1)
<1>2. ASSUME UNCHANGED row, NEW x, x = req'[s] PROVE Holds(x)
    <2>1. CASE x = Idle
        BY <2>1, IdleType DEF MemberSteps
    <2>2. CASE FindUser(s) /\ x = [req[s] EXCEPT !.pc = "insert"]
        <3>1. /\ x.pc = "insert" /\ x.project = req[s].project
              /\ req[s].pc = "findUser"
            BY <1>0, <2>2 DEF FindUser, TypeOK, RequestRecords
        <3>2. req[s].project \in OneManager => OwnersOf(req[s].project) # {}
            BY <1>0, <3>1 DEF CountHolds, MemberSteps
        <3> QED
            BY <3>1, <3>2
    <2>3. CASE FindRow(s) /\ x = [req[s] EXCEPT !.pc = "write"]
        <3>1. /\ x.pc = "write" /\ x.project = req[s].project /\ x.row = req[s].row
              /\ x.role = req[s].role /\ x.owners = req[s].owners
              /\ req[s].pc = "findRow"
            BY <1>0, <2>3 DEF FindRow, TypeOK, RequestRecords
        <3>2. req[s].project \in OneManager =>
                  /\ OwnersOf(req[s].project) # {}
                  /\ req[s].owners = Cardinality(OwnersOf(req[s].project))
            BY <1>0, <3>1 DEF CountHolds, MemberSteps
        <3>3. ~ (row[x.row].role = "owner" /\ x.role # "owner" /\ x.owners = 1)
            BY <2>3, <3>1 DEF FindRow
        <3> QED
            BY <3>1, <3>2, <3>3
    <2> QED
        BY <1>0, <1>2, <2>1, <2>2, <2>3, RequestGoes DEF MemberSteps
<1>3. ASSUME NEW x, x = req'[s]
      PROVE  UNCHANGED row \/ x.pc \notin MemberSteps
    <2>1. CASE CreateOwner(s) \/ InsertRow(s) \/ WriteRow(s)
        BY <1>0, <1>3, <2>1, FinishEffect, IdleType
        DEF CreateOwner, InsertRow, WriteRow, MemberSteps
    <2> QED
        BY <1>0, <2>1, OnlyItsProject
<1>4. ASSUME NEW r \in Slots, req'[r].pc \in MemberSteps, req'[r].project \in OneManager
      PROVE  /\ OwnersOf(req[r].project)' # {}
             /\ req'[r].pc \in {"findRow", "write"} =>
                    req'[r].owners = Cardinality(OwnersOf(req[r].project)')
             /\ req'[r].pc = "write" =>
                    ~ (row'[req'[r].row].role = "owner" /\ req'[r].role # "owner"
                           /\ req'[r].owners = 1)
    <2>1. CASE r = s
        <3>1. UNCHANGED row
            BY <1>3, <1>4, <2>1
        <3>2. PICK x : x = req'[s]
            OBVIOUS
        <3>3. Holds(x) /\ x = req'[r] /\ row' = row
            BY <1>2, <2>1, <3>1, <3>2
        <3>4. OwnersOf(req[r].project)' = OwnersOf(x.project)
            BY <3>3 DEF OwnersOf, RowsOf, Live
        <3> QED
            BY <1>4, <3>3, <3>4
    <2>2. CASE r # s
        BY <1>0, <1>1, <1>4, <2>2 DEF Keeps, CountHolds
    <2> QED
        BY <2>1, <2>2
<1> QED
    BY <1>4 DEF CountHolds

LEMMA OwnerInvariant == Spec => []OwnerInv
<1>1. Init /\ IsolationInv => OwnerInv
    <2> SUFFICES ASSUME Init, IsolationInv PROVE OwnerInv
        OBVIOUS
    <2>1. /\ \A s \in Slots : req[s].pc = "idle"
          /\ \A i \in Rows : ~ Live(i)
        BY IdleType, ProjectsAssumption DEF Init, Live
    <2>2. OneAtATime /\ UniqueRows /\ OwnFirst /\ CountHolds
        BY <2>1 DEF OneAtATime, UniqueRows, OwnFirst, CountHolds, MemberSteps
    <2> QED
        BY <2>2, RolesAreFound DEF OwnerInv
<1>2. OwnerInv /\ [Next]_vars /\ RolesFound' => OwnerInv'
    <2>1. ASSUME OwnerInv, UNCHANGED vars, RolesFound' PROVE OwnerInv'
        <3>1. IsolationInv'
            BY <2>1 DEF vars, OwnerInv, IsolationInv, TypeOK, RowsPlaced, RequestsSound, Sound
        <3>2. OneAtATime' /\ UniqueRows' /\ OwnFirst' /\ CountHolds'
            BY <2>1 DEF vars, OwnerInv, OneAtATime, UniqueRows, OwnFirst, CountHolds,
                        OwnersOf, RowsOf, Live
        <3> QED
            BY <2>1, <3>1, <3>2 DEF OwnerInv
    <2>2. ASSUME OwnerInv, NEW s \in Slots, Acts(s), OneAtATime', RolesFound'
          PROVE  OwnerInv'
        BY <2>2, StepIsolation, StepUnique, StepOwnFirst, StepCountHolds DEF OwnerInv
    <2> QED
        BY <2>1, <2>2 DEF Next, Acts
<1>3. OwnerInv /\ [Next]_vars => UniqueRows'
    <2>1. UniqueRows /\ UNCHANGED vars => UniqueRows'
        BY DEF vars, UniqueRows, Live
    <2> QED
        BY <2>1, StepUnique DEF Next, Acts, OwnerInv
<1> QED
    BY <1>1, <1>2, <1>3, RolesAreFound, IsolationInvariant, PTL DEF Spec

-----------------------------------------------------------------------------
(* What OwnedGroup sees of the members.                                    *)
GroupRoles == [p \in OneManager |-> [u \in Users |-> GroupRole(p, u)]]

AsGroupRole(x) == IF x \in {"owner", "none"} THEN x ELSE "member"

(* A change of what one user is in one project is a change of one entry.   *)
LEMMA GroupMap ==
    ASSUME NEW p \in OneManager, NEW u \in Users, NEW g, AsGroupRole(RoleIn(p, u)') = g,
           \A q \in OneManager, v \in Users :
               q # p \/ v # u => RoleIn(q, v)' = RoleIn(q, v)
    PROVE  GroupRoles' = [GroupRoles EXCEPT ![p][u] = g]
<1>1. \A q \in OneManager, v \in Users :
          GroupRole(q, v)' = IF q = p /\ v = u THEN g ELSE GroupRole(q, v)
    BY DEF GroupRole, AsGroupRole
<1>2. GroupRoles' = [q \in OneManager |-> [v \in Users |-> GroupRole(q, v)']]
    BY DEF GroupRoles
<1>3. [GroupRoles EXCEPT ![p][u] = g]
          = [q \in OneManager |-> [v \in Users |->
                IF q = p /\ v = u THEN g ELSE GroupRole(q, v)]]
    BY DEF GroupRoles
<1> QED
    BY <1>1, <1>2, <1>3

(* What nobody's row says, nobody's role says.                             *)
LEMMA RoleStays ==
    ASSUME RolesFound, RolesFound', NEW p \in Projects, NEW u \in Users,
           {i \in RowsOf(p) : row[i].user = u}' = {i \in RowsOf(p) : row[i].user = u},
           \A i \in RowsOf(p) : row[i].user = u => row'[i] = row[i]
    PROVE  RoleIn(p, u)' = RoleIn(p, u)
<1>1. CASE \E i \in RowsOf(p) : row[i].user = u
    <2>1. PICK i \in RowsOf(p) : row[i].user = u
        BY <1>1
    <2>2. i \in RowsOf(p)' /\ row'[i].user = u /\ row'[i].role = row[i].role
        BY <2>1
    <2> QED
        BY <2>1, <2>2 DEF RolesFound
<1>2. CASE \A i \in RowsOf(p) : row[i].user # u
    <2>1. \A i \in RowsOf(p)' : row'[i].user # u
        BY <1>2
    <2> QED
        BY <1>2, <2>1 DEF RolesFound
<1> QED
    BY <1>1, <1>2

(* A step that writes rows of one user of one project only.                *)
LEMMA OneRole ==
    ASSUME RolesFound, RolesFound', NEW p \in Projects, NEW u \in Users,
           \A i \in Rows : \/ row'[i] = row[i]
                           \/ /\ row'[i].project = p /\ row'[i].user = u
                              /\ \/ ~ Live(i)
                                 \/ row[i].project = p /\ row[i].user = u
    PROVE  \A q \in Projects, v \in Users :
               q # p \/ v # u => RoleIn(q, v)' = RoleIn(q, v)
<1> SUFFICES ASSUME NEW q \in Projects, NEW v \in Users, q # p \/ v # u
             PROVE  RoleIn(q, v)' = RoleIn(q, v)
    OBVIOUS
<1>1. \A i \in RowsOf(q) : row[i].user = v => row'[i] = row[i]
    BY DEF RowsOf
<1>2. {i \in RowsOf(q) : row[i].user = v}' = {i \in RowsOf(q) : row[i].user = v}
    BY DEF RowsOf, Live
<1> QED
    BY <1>1, <1>2, RoleStays

(* The owners of a project own the group.                                  *)
LEMMA GroupOwners ==
    ASSUME IsolationInv, RolesFound, NEW p \in OneManager, NEW i \in OwnersOf(p)
    PROVE  row[i].user \in Membership!OwnersOf(p)
<1>1. /\ p \in Projects /\ i \in RowsOf(p) /\ i \in Rows /\ row[i].role = "owner"
    BY ProjectsAssumption DEF OwnersOf, RowsOf
<1>2. row[i].user \in Users
    BY <1>1 DEF IsolationInv, RowsPlaced
<1>3. RoleIn(p, row[i].user) = "owner"
    BY <1>1, <1>2 DEF RolesFound
<1> QED
    BY <1>2, <1>3 DEF Membership!OwnersOf, GroupRole

(* An owner that is not the only one leaves another behind.                *)
LEMMA AnotherOwner ==
    ASSUME NEW p, NEW i \in OwnersOf(p), Cardinality(OwnersOf(p)) # 1
    PROVE  \E j \in OwnersOf(p) : j # i
<1>1. OwnersOf(p) # {i}
    BY FS_Singleton
<1> QED
    BY <1>1

(* The first owner founds the group.                                       *)
LEMMA CreateOwnerGroup ==
    ASSUME OwnerInv, RolesFound', NEW s \in Slots, NEW i \in Rows, NEW u \in Users,
           CreateOwner(s), row[i].role = "unused",
           row' = [row EXCEPT ![i] = [project |-> req[s].project, user |-> u,
                                      role |-> "owner"]]
    PROVE  Membership!GroupNext \/ UNCHANGED GroupRoles
<1>0. /\ TypeOK /\ RolesFound /\ OneManager \subseteq Projects /\ ~ Live(i)
    BY ProjectsAssumption DEF OwnerInv, IsolationInv, Live
<1>1. PICK p \in Projects : p = req[s].project /\ RowsOf(p) = {}
    BY DEF OwnerInv, IsolationInv, RequestsSound, Sound, OwnFirst, CreateOwner
<1>2. /\ row'[i] = [project |-> p, user |-> u, role |-> "owner"]
      /\ \A j \in Rows \ {i} : row'[j] = row[j]
    BY <1>0, <1>1 DEF TypeOK
<1>3. \A q \in Projects, v \in Users : q # p \/ v # u => RoleIn(q, v)' = RoleIn(q, v)
    <2>1. \A j \in Rows : \/ row'[j] = row[j]
                          \/ row'[j].project = p /\ row'[j].user = u /\ ~ Live(j)
        BY <1>0, <1>2
    <2> QED
        BY <1>0, <2>1, OneRole
<1>4. CASE p \notin OneManager
    <2>1. \A q \in OneManager, v \in Users : RoleIn(q, v)' = RoleIn(q, v)
        BY <1>0, <1>3, <1>4
    <2> QED
        BY <2>1 DEF GroupRoles, GroupRole
<1>5. CASE p \in OneManager
    <2>1. i \in RowsOf(p)' /\ RoleIn(p, u)' = "owner"
        <3>1. i \in RowsOf(p)'
            BY <1>2, ProjectsAssumption DEF RowsOf, Live
        <3> QED
            BY <1>2, <3>1 DEF RolesFound
    <2>2. GroupRoles' = [GroupRoles EXCEPT ![p][u] = "owner"]
        BY <1>0, <1>3, <1>5, <2>1, GroupMap DEF AsGroupRole
    <2>3. \A v \in Users : GroupRole(p, v) = "none"
        BY <1>0, <1>1 DEF RolesFound, GroupRole
    <2>4. Membership!Found(p, u)
        BY <1>5, <2>2, <2>3 DEF Membership!Found, GroupRoles
    <2> QED
        BY <1>5, <2>4 DEF Membership!GroupNext
<1> QED
    BY <1>4, <1>5

(* A new member joins a group that has an owner.                           *)
LEMMA InsertRowGroup ==
    ASSUME OwnerInv, RolesFound', NEW s \in Slots, NEW i \in Rows, NEW u \in Users,
           NEW x \in Roles, InsertRow(s), u = req[s].target, row[i].role = "unused",
           row' = [row EXCEPT ![i] = [project |-> req[s].project, user |-> u, role |-> x]]
    PROVE  Membership!GroupNext \/ UNCHANGED GroupRoles
<1>0. /\ TypeOK /\ IsolationInv /\ RolesFound /\ OneManager \subseteq Projects /\ ~ Live(i)
      /\ x # "none"
    BY ProjectsAssumption DEF OwnerInv, IsolationInv, Live
<1>1. PICK p \in Projects : p = req[s].project /\ RoleIn(p, u) = "none"
    BY DEF OwnerInv, IsolationInv, RequestsSound, Sound, InsertRow
<1>2. /\ row'[i] = [project |-> p, user |-> u, role |-> x]
      /\ \A j \in Rows \ {i} : row'[j] = row[j]
    BY <1>0, <1>1 DEF TypeOK
<1>3. \A q \in Projects, v \in Users : q # p \/ v # u => RoleIn(q, v)' = RoleIn(q, v)
    <2>1. \A j \in Rows : \/ row'[j] = row[j]
                          \/ row'[j].project = p /\ row'[j].user = u /\ ~ Live(j)
        BY <1>0, <1>2
    <2> QED
        BY <1>0, <2>1, OneRole
<1>4. CASE p \notin OneManager
    <2>1. \A q \in OneManager, v \in Users : RoleIn(q, v)' = RoleIn(q, v)
        BY <1>0, <1>3, <1>4
    <2> QED
        BY <2>1 DEF GroupRoles, GroupRole
<1>5. CASE p \in OneManager
    <2>1. RoleIn(p, u)' = x
        <3>1. i \in RowsOf(p)'
            BY <1>2 DEF RowsOf, Live
        <3> QED
            BY <1>2, <3>1 DEF RolesFound
    <2> DEFINE g == AsGroupRole(x)
    <2>2. GroupRoles' = [GroupRoles EXCEPT ![p][u] = g]
        BY <1>0, <1>3, <1>5, <2>1, GroupMap
    <2>3. PICK j : j \in OwnersOf(p)
        BY <1>1, <1>5 DEF OwnerInv, CountHolds, InsertRow, MemberSteps
    <2>4. row[j].user \in Membership!OwnersOf(p) /\ row[j].user # u
        <3>1. row[j].user \in Membership!OwnersOf(p)
            BY <1>0, <1>5, <2>3, GroupOwners
        <3>2. u \notin Membership!OwnersOf(p)
            BY <1>1, <1>5 DEF Membership!OwnersOf, GroupRole
        <3> QED
            BY <3>1, <3>2
    <2>5. Membership!Change(p, u, g)
        BY <1>5, <2>2, <2>4 DEF Membership!Change, GroupRoles
    <2>6. g \in {"none", "member", "owner"}
        BY DEF AsGroupRole
    <2> HIDE DEF g
    <2> QED
        BY <1>5, <2>5, <2>6 DEF Membership!GroupNext
<1> QED
    BY <1>4, <1>5

(* A member whose row is written leaves an owner behind, or is one.        *)
LEMMA WriteRowGroup ==
    ASSUME OwnerInv, RolesFound', NEW s \in Slots, WriteRow(s)
    PROVE  Membership!GroupNext \/ UNCHANGED GroupRoles
<1>0. /\ TypeOK /\ IsolationInv /\ RolesFound /\ UniqueRows /\ OneManager \subseteq Projects
    BY ProjectsAssumption DEF OwnerInv, IsolationInv
<1>1. PICK p \in Projects, i \in Rows, u \in Users, x \in Roles \cup {"none"} :
          /\ p = req[s].project /\ i = req[s].row /\ x = req[s].role
          /\ row[i].project = p /\ row[i].user = u /\ Live(i)
          /\ row' = [row EXCEPT ![i].role = x]
    BY <1>0 DEF IsolationInv, RequestsSound, Sound, RowsPlaced, WriteRow, TypeOK,
                RequestRecords
<1>2. /\ row'[i].project = p /\ row'[i].user = u /\ row'[i].role = x
      /\ \A j \in Rows \ {i} : row'[j] = row[j]
    BY <1>0, <1>1 DEF TypeOK
<1>3. \A q \in Projects, v \in Users : q # p \/ v # u => RoleIn(q, v)' = RoleIn(q, v)
    <2>1. \A j \in Rows : \/ row'[j] = row[j]
                          \/ /\ row'[j].project = p /\ row'[j].user = u
                             /\ row[j].project = p /\ row[j].user = u
        BY <1>1, <1>2
    <2> QED
        BY <1>0, <2>1, OneRole
<1>4. CASE p \notin OneManager
    <2>1. \A q \in OneManager, v \in Users : RoleIn(q, v)' = RoleIn(q, v)
        BY <1>0, <1>3, <1>4
    <2> QED
        BY <2>1 DEF GroupRoles, GroupRole
<1>5. CASE p \in OneManager
    <2>1. RoleIn(p, u)' = x
        <3>1. CASE x \in Roles
            <4>1. i \in RowsOf(p)'
                BY <1>2, <3>1 DEF RowsOf, Live
            <4> QED
                BY <1>2, <4>1 DEF RolesFound
        <3>2. CASE x = "none"
            <4>1. \A j \in RowsOf(p)' : row'[j].user # u
                BY <1>0, <1>1, <1>2, <3>2, ProjectsAssumption
                DEF RowsOf, Live, UniqueRows
            <4> QED
                BY <3>2, <4>1 DEF RolesFound
        <3> QED
            BY <3>1, <3>2
    <2> DEFINE g == AsGroupRole(x)
    <2>2. GroupRoles' = [GroupRoles EXCEPT ![p][u] = g]
        BY <1>0, <1>3, <1>5, <2>1, GroupMap
    <2>3. /\ OwnersOf(p) # {}
          /\ ~ (row[i].role = "owner" /\ x # "owner" /\ Cardinality(OwnersOf(p)) = 1)
        BY <1>1, <1>5 DEF OwnerInv, CountHolds, WriteRow, MemberSteps
    <2>4. Membership!OwnersOf(p) # {}
        BY <1>0, <1>5, <2>3, GroupOwners
    <2>5. x = "owner" \/ Membership!OwnersOf(p) \ {u} # {}
        <3>1. ASSUME x # "owner" PROVE \E j \in OwnersOf(p) : j # i
            <4>1. CASE row[i].role = "owner"
                <5>1. i \in OwnersOf(p)
                    BY <1>1, <4>1 DEF OwnersOf, RowsOf
                <5> QED
                    BY <2>3, <3>1, <4>1, <5>1, AnotherOwner
            <4>2. CASE row[i].role # "owner"
                BY <2>3, <4>2 DEF OwnersOf
            <4> QED
                BY <4>1, <4>2
        <3>2. ASSUME NEW j \in OwnersOf(p), j # i
              PROVE  row[j].user \in Membership!OwnersOf(p) \ {u}
            <4>1. row[j].user # u
                BY <1>0, <1>1, <3>2 DEF OwnersOf, RowsOf, UniqueRows
            <4> QED
                BY <1>0, <1>5, <3>2, <4>1, GroupOwners
        <3> QED
            BY <3>1, <3>2
    <2>6. Membership!Change(p, u, g)
        BY <1>5, <2>2, <2>4, <2>5 DEF Membership!Change, GroupRoles, AsGroupRole
    <2>7. g \in {"none", "member", "owner"}
        BY DEF AsGroupRole
    <2> HIDE DEF g
    <2> QED
        BY <1>5, <2>6, <2>7 DEF Membership!GroupNext
<1> QED
    BY <1>4, <1>5

(* Every step founds or changes one group, or is not seen.                 *)
LEMMA StepOwnedGroup ==
    ASSUME OwnerInv, OwnerInv', [Next]_vars
    PROVE  [Membership!GroupNext]_([p \in OneManager |-> [u \in Users |-> GroupRole(p, u)]])
<1>0. /\ IsolationInv /\ RolesFound /\ RolesFound' /\ OneManager \subseteq Projects
    BY ProjectsAssumption DEF OwnerInv
<1>1. ASSUME UNCHANGED row PROVE UNCHANGED GroupRoles
    <2>1. \A p \in OneManager, u \in Users : RoleIn(p, u)' = RoleIn(p, u)
        <3> SUFFICES ASSUME NEW p \in OneManager, NEW u \in Users
                     PROVE  RoleIn(p, u)' = RoleIn(p, u)
            OBVIOUS
        <3>1. RowsOf(p)' = RowsOf(p)
            BY <1>1 DEF RowsOf, Live
        <3> QED
            BY <1>0, <1>1, <3>1, RoleStays
    <2> QED
        BY <2>1 DEF GroupRoles, GroupRole
<1>2. ASSUME NEW s \in Slots, Acts(s) PROVE Membership!GroupNext \/ UNCHANGED GroupRoles
    BY <1>0, <1>1, <1>2, OnlyItsProject, MemberStep, CreateOwnerGroup, InsertRowGroup,
       WriteRowGroup
<1>3. CASE UNCHANGED vars
    BY <1>1, <1>3 DEF vars, GroupRoles
<1> QED
    BY <1>2, <1>3 DEF Next, Acts, GroupRoles

(* As long as the requests that change a project's members do not overlap, *)
(* they are the changes of an owned group: the count of owners in the      *)
(* snapshot of getProject still holds when they write.                     *)
THEOREM RefinesOwnedGroup == Spec => ImplementsOwnedGroup
<1>1. Init /\ OwnerInv => Membership!GroupInit
    <2> SUFFICES ASSUME Init, OwnerInv PROVE Membership!GroupInit
        OBVIOUS
    <2>1. \A p \in OneManager : p \in Projects /\ RowsOf(p) = {}
        BY ProjectsAssumption DEF Init, RowsOf, Live
    <2>2. \A p \in OneManager, u \in Users : RoleIn(p, u) = "none"
        BY <2>1 DEF OwnerInv, RolesFound
    <2> QED
        BY <2>2 DEF Membership!GroupInit, GroupRole
<1>2. OwnerInv /\ OwnerInv' /\ [Next]_vars =>
          [Membership!GroupNext]_([p \in OneManager |-> [u \in Users |-> GroupRole(p, u)]])
    BY StepOwnedGroup
<1> QED
    BY <1>1, <1>2, OwnerInvariant, PTL
    DEF Spec, ImplementsOwnedGroup, Membership!GroupSpec

-----------------------------------------------------------------------------
(* What request x has found out so far still holds when it writes: that    *)
(* its project is its caller's tenant's, in a workspace of that tenant,    *)
(* that its task is in that project, and its assignee joined the workspace.*)
CallSound(x) ==
    x.pc # "idle" =>
        /\ x.actor \in Users /\ x.project \in Projects
        /\ placed[x.project].tenant = Home[x.actor]
        /\ x.op = "create" <=> x.task = None
        /\ x.op # "assign" => x.target = None
        /\ x.pc \notin {"idle", "member"} =>
               owner[placed[x.project].workspace] = Home[x.actor]
        /\ x.pc \in {"findTask", "target", "write"} => x.op # "create"
        /\ x.pc = "target" => x.target # None
        /\ x.pc \in {"target", "write"} =>
               /\ task[x.task].state # "unused"
               /\ task[x.task].project = x.project
        /\ (x.pc = "write" /\ x.target # None) =>
               x.target \in joined[placed[x.project].workspace]

CallsSound == \A s \in Slots : CallSound(call[s])

(* Whoever joined a workspace is of its tenant; a project that exists is   *)
(* in a workspace that exists, a task in a project that exists.            *)
MembersHome ==
    \A w \in Workspaces :
        /\ members[w] \subseteq joined[w]
        /\ \A u \in joined[w] : Home[u] = owner[w]

ProjectsPlaced ==
    \A p \in Projects :
        placed[p].tenant # None =>
            placed[p].workspace \in Workspaces /\ owner[placed[p].workspace] # None

TasksPlaced ==
    \A k \in Tasks :
        task[k].state # "unused" =>
            task[k].project \in Projects /\ placed[task[k].project].tenant # None

Placed ==
    MembersHome /\ ProjectsPlaced /\ TasksPlaced /\ TasksAtHome /\ AssigneesJoined

(* The two properties alone are not inductive: requests write what they    *)
(* have looked up in earlier steps.                                        *)
TasksInv == TasksTyped /\ Placed /\ CallsSound

-----------------------------------------------------------------------------
(* No step takes back what requests have found out.                        *)
Grows ==
    /\ \A w \in Workspaces : /\ owner[w] # None => owner'[w] = owner[w]
                             /\ joined[w] \subseteq joined'[w]
    /\ \A p \in Projects : placed[p].tenant # None => placed'[p] = placed[p]
    /\ \A k \in Tasks : task[k].state # "unused" =>
           task'[k].state # "unused" /\ task'[k].project = task[k].project

(* As things grow, a sound request stays sound.                            *)
LEMMA SoundStays ==
    ASSUME TasksTyped, Placed, Grows, NEW x \in Calls, CallSound(x)
    PROVE  CallSound(x)'
<1> SUFFICES ASSUME x.pc # "idle" PROVE CallSound(x)'
    BY DEF CallSound
<1>1. x.actor \in Users /\ x.project \in Projects
    BY DEF CallSound
<1>2. placed'[x.project] = placed[x.project]
    BY <1>1, HomeType DEF CallSound, Grows
<1> DEFINE w == placed[x.project].workspace
<1>3. w \in Workspaces /\ owner[w] # None
    BY <1>1, HomeType DEF CallSound, Placed, ProjectsPlaced
<1>4. owner'[w] = owner[w] /\ joined[w] \subseteq joined'[w]
    BY <1>3 DEF Grows
<1>5. x.pc \in {"target", "write"} => x.task \in Tasks
    BY DEF CallSound, Calls
<1>6. /\ placed'[x.project].tenant = Home[x.actor]
      /\ x.pc \notin {"idle", "member"} =>
             owner'[placed'[x.project].workspace] = Home[x.actor]
    BY <1>2, <1>4 DEF CallSound
<1>7. x.pc \in {"target", "write"} =>
          /\ task'[x.task].state # "unused"
          /\ task'[x.task].project = x.project
    BY <1>5 DEF CallSound, Grows
<1>8. (x.pc = "write" /\ x.target # None) =>
          x.target \in joined'[placed'[x.project].workspace]
    BY <1>2, <1>4 DEF CallSound
<1> QED
    BY <1>1, <1>6, <1>7, <1>8 DEF CallSound

(* Going to another step changes one request, and only its step.           *)
LEMMA ProceedEffect ==
    ASSUME TasksTyped, NEW s \in Slots, NEW step \in CallSteps, Proceed(s, step)
    PROVE  /\ call' \in [Slots -> Calls]
           /\ call'[s] = [call[s] EXCEPT !.pc = step]
           /\ \A r \in Slots \ {s} : call'[r] = call[r]
<1>1. call \in [Slots -> Calls] /\ [call[s] EXCEPT !.pc = step] \in Calls
    BY DEF TasksTyped, Calls
<1> QED
    BY <1>1 DEF Proceed

(* A request that has finished leaves its slot idle.                       *)
LEMMA DoneEffect ==
    ASSUME TasksTyped, NEW s \in Slots, Done(s)
    PROVE  /\ call' \in [Slots -> Calls]
           /\ call'[s].pc = "idle"
           /\ \A r \in Slots \ {s} : call'[r] = call[r]
BY DEF Done, NoCall, TasksTyped, Calls, CallSteps, Operations

-----------------------------------------------------------------------------
(* Founding, joining and leaving keep everyone at home.                    *)
LEMMA MembershipStep ==
    ASSUME TasksInv, ChangeMembers
    PROVE  TasksTyped' /\ Placed' /\ Grows
<1>0. TasksTyped /\ Placed
    BY DEF TasksInv
<1>1. PICK w \in Workspaces, u \in Users :
          Workspace!Found(w, u) \/ Workspace!Join(w, u) \/ Workspace!Leave(w, u)
    BY DEF ChangeMembers, Workspace!TenancyNext
<1>2. /\ joined' = [v \in Workspaces |-> joined[v] \cup members'[v]]
      /\ UNCHANGED <<placed, task, call>>
    BY DEF ChangeMembers
<1>3. /\ owner' \in [Workspaces -> Tenants \cup {None}]
      /\ members' \in [Workspaces -> SUBSET Users]
      /\ \A v \in Workspaces : owner[v] # None => owner'[v] = owner[v]
      /\ \A v \in Workspaces : \A x \in members'[v] :
             x \in members[v] \/ Home[x] = owner'[v]
    <2>1. CASE Workspace!Found(w, u)
        BY <1>0, <2>1, HomeType DEF Workspace!Found, TasksTyped
    <2>2. CASE Workspace!Join(w, u)
        BY <1>0, <2>2 DEF Workspace!Join, TasksTyped
    <2>3. CASE Workspace!Leave(w, u)
        BY <1>0, <2>3 DEF Workspace!Leave, TasksTyped
    <2> QED
        BY <1>1, <2>1, <2>2, <2>3
<1>4. joined' \in [Workspaces -> SUBSET Users]
      /\ \A v \in Workspaces : joined[v] \subseteq joined'[v]
    BY <1>0, <1>2, <1>3 DEF TasksTyped
<1>5. TasksTyped'
    BY <1>0, <1>2, <1>3, <1>4 DEF TasksTyped
<1>6. \A v \in Workspaces : \A x \in joined[v] : owner[v] # None
    BY <1>0, HomeType DEF Placed, MembersHome, TasksTyped
<1>7. MembersHome'
    BY <1>0, <1>2, <1>3, <1>6 DEF Placed, MembersHome, TasksTyped
<1>8. Grows
    BY <1>0, <1>2, <1>3, <1>4 DEF Grows
<1>9. ProjectsPlaced' /\ TasksPlaced'
    BY <1>0, <1>2, <1>8 DEF Placed, ProjectsPlaced, TasksPlaced, Grows
<1>10. TasksAtHome' /\ AssigneesJoined'
    <2> SUFFICES ASSUME NEW k \in Tasks, task[k].state # "unused"
                 PROVE  /\ owner'[placed[task[k].project].workspace]
                              = owner[placed[task[k].project].workspace]
                        /\ joined[placed[task[k].project].workspace]
                              \subseteq joined'[placed[task[k].project].workspace]
        BY <1>0, <1>2 DEF Placed, TasksAtHome, AssigneesJoined
    <2>1. placed[task[k].project].workspace \in Workspaces
          /\ owner[placed[task[k].project].workspace] # None
        BY <1>0 DEF Placed, ProjectsPlaced, TasksPlaced
    <2> QED
        BY <2>1, <1>8 DEF Grows
<1> QED
    BY <1>5, <1>7, <1>8, <1>9, <1>10 DEF Placed

(* A project is created in a workspace that exists.                        *)
LEMMA CreateProjectStep ==
    ASSUME TasksInv, PlaceProject
    PROVE  TasksTyped' /\ Placed' /\ Grows
<1>0. TasksTyped /\ Placed
    BY DEF TasksInv
<1>1. PICK u \in Callers, p \in Projects, w \in Workspaces :
         /\ placed[p].tenant = None
         /\ owner[w] # None
         /\ placed' = [placed EXCEPT ![p] = [tenant |-> Home[u], workspace |-> w]]
    BY DEF PlaceProject
<1>2. UNCHANGED <<owner, members, joined, task, call>>
    BY DEF PlaceProject
<1>3. u \in Users /\ Home[u] \in Tenants
    BY ActorsAssumption, HomeType
<1>4. TasksTyped'
    BY <1>0, <1>1, <1>2, <1>3 DEF TasksTyped
<1>5. placed'[p] = [tenant |-> Home[u], workspace |-> w]
      /\ \A q \in Projects \ {p} : placed'[q] = placed[q]
    BY <1>0, <1>1 DEF TasksTyped
<1>6. Grows
    BY <1>1, <1>2, <1>5 DEF Grows
<1>7. MembersHome' /\ ProjectsPlaced'
    BY <1>0, <1>1, <1>2, <1>5 DEF Placed, MembersHome, ProjectsPlaced
<1>8. \A k \in Tasks : task[k].state # "unused" =>
          task[k].project \in Projects \ {p}
    BY <1>0, <1>1 DEF Placed, TasksPlaced
<1>9. TasksPlaced' /\ TasksAtHome' /\ AssigneesJoined'
    BY <1>0, <1>2, <1>5, <1>8
       DEF Placed, TasksPlaced, TasksAtHome, AssigneesJoined
<1> QED
    BY <1>4, <1>6, <1>7, <1>9 DEF Placed

(* A task is created in the project its request has looked at.             *)
LEMMA CreateTaskStep ==
    ASSUME TasksInv, NEW s \in Slots, CreateTask(s)
    PROVE  TasksTyped' /\ Placed' /\ Grows
<1>0. TasksTyped /\ Placed /\ CallSound(call[s]) /\ call[s].pc = "insert"
    BY DEF TasksInv, CallsSound, CreateTask
<1>1. PICK k \in Tasks :
         /\ task[k].state = "unused"
         /\ task' = [task EXCEPT ![k] =
                        [state |-> "live", tenant |-> Home[call[s].actor],
                         project |-> call[s].project, assignee |-> None]]
    BY DEF CreateTask
<1>2. UNCHANGED <<owner, members, joined, placed>>
    BY DEF CreateTask
<1>3. /\ call[s].actor \in Users /\ call[s].project \in Projects
      /\ placed[call[s].project].tenant = Home[call[s].actor]
      /\ owner[placed[call[s].project].workspace] = Home[call[s].actor]
    BY <1>0 DEF CallSound
<1>4. TasksTyped'
    BY <1>0, <1>1, <1>2, <1>3, HomeType, DoneEffect DEF TasksTyped, CreateTask
<1>5. /\ task'[k] = [state |-> "live", tenant |-> Home[call[s].actor],
                     project |-> call[s].project, assignee |-> None]
      /\ \A j \in Tasks \ {k} : task'[j] = task[j]
    BY <1>0, <1>1 DEF TasksTyped
<1>6. Grows
    BY <1>1, <1>2, <1>5 DEF Grows
<1>7. MembersHome' /\ ProjectsPlaced' /\ TasksPlaced'
    BY <1>0, <1>2, <1>3, <1>5, HomeType
       DEF Placed, MembersHome, ProjectsPlaced, TasksPlaced
<1>8. TasksAtHome' /\ AssigneesJoined'
    BY <1>0, <1>2, <1>3, <1>5 DEF Placed, TasksAtHome, AssigneesJoined
<1> QED
    BY <1>4, <1>6, <1>7, <1>8 DEF Placed

(* A write leaves its task where it is, and assigns it to a member.        *)
LEMMA WriteStep ==
    ASSUME TasksInv, NEW s \in Slots, Write(s)
    PROVE  TasksTyped' /\ Placed' /\ Grows
<1>0. TasksTyped /\ Placed /\ CallSound(call[s]) /\ call[s].pc = "write"
    BY DEF TasksInv, CallsSound, Write
<1> DEFINE k == call[s].task
           new == Written(k, call[s].op, call[s].target)
<1>1. /\ k \in Tasks /\ task[k].project = call[s].project
      /\ call[s].op \in {"update", "assign", "delete"}
      /\ call[s].target \in Users \cup {None}
      /\ call[s].target # None =>
             call[s].target \in joined[placed[call[s].project].workspace]
    BY <1>0 DEF CallSound, TasksTyped, Calls, Operations
<1>2. LiveTask(k) /\ task' = [task EXCEPT ![k] = new]
      /\ UNCHANGED <<owner, members, joined, placed>>
    BY DEF Write
<1>3. /\ new \in [state : {"unused", "live", "deleted"}, tenant : Tenants \cup {None},
                  project : Projects \cup {None}, assignee : Users \cup {None}]
      /\ new.state # "unused" /\ new.tenant = task[k].tenant
      /\ new.project = task[k].project
      /\ new.assignee \in {task[k].assignee, call[s].target}
    BY <1>0, <1>1, <1>2 DEF Written, TasksTyped, LiveTask
<1> HIDE DEF new
<1>4. task'[k] = new /\ \A j \in Tasks \ {k} : task'[j] = task[j]
    BY <1>0, <1>1, <1>2 DEF TasksTyped
<1>5. TasksTyped'
    BY <1>0, <1>1, <1>2, <1>3, DoneEffect DEF TasksTyped, Write
<1>6. Grows
    BY <1>1, <1>2, <1>3, <1>4 DEF Grows, LiveTask
<1>7. MembersHome' /\ ProjectsPlaced' /\ TasksPlaced'
    BY <1>0, <1>1, <1>2, <1>3, <1>4
       DEF Placed, MembersHome, ProjectsPlaced, TasksPlaced, LiveTask
<1>8. TasksAtHome'
    BY <1>0, <1>1, <1>2, <1>3, <1>4 DEF Placed, TasksAtHome, LiveTask
<1>9. AssigneesJoined'
    <2> SUFFICES ASSUME NEW j \in Tasks, task'[j].state # "unused",
                        task'[j].assignee # None
                 PROVE  /\ Home[task'[j].assignee] = task'[j].tenant
                        /\ task'[j].assignee
                               \in joined[placed[task'[j].project].workspace]
        BY <1>2 DEF AssigneesJoined
    <2>1. CASE j # k \/ new.assignee = task[k].assignee
        BY <1>0, <1>1, <1>2, <1>3, <1>4, <2>1 DEF Placed, AssigneesJoined, LiveTask
    <2>2. CASE j = k /\ new.assignee = call[s].target
        <3> DEFINE w == placed[call[s].project].workspace
        <3>1. w \in Workspaces /\ call[s].target \in joined[w]
            BY <1>0, <1>1, <1>2, <1>4, <2>2 DEF Placed, ProjectsPlaced, TasksPlaced, LiveTask
        <3>2. Home[call[s].target] = owner[w]
            BY <1>0, <3>1 DEF Placed, MembersHome
        <3>3. task[k].tenant = owner[w]
            BY <1>0, <1>1, <1>2 DEF Placed, TasksAtHome, LiveTask
        <3> QED
            BY <1>1, <1>3, <1>4, <2>2, <3>1, <3>2, <3>3
    <2> QED
        BY <1>3, <2>1, <2>2
<1> QED
    BY <1>5, <1>6, <1>7, <1>8, <1>9 DEF Placed

-----------------------------------------------------------------------------
(* The lookups of a request are sound.                                     *)
LEMMA FindProjectSound ==
    ASSUME TasksInv, NEW s \in Slots, FindProject(s)
    PROVE  /\ call' \in [Slots -> Calls]
           /\ CallSound(call'[s])
           /\ \A r \in Slots \ {s} : call'[r] = call[r]
<1>0. TasksTyped
    BY DEF TasksInv
<1>1. PICK u \in Callers, p \in Projects, op \in Operations,
           k \in Tasks \cup {None}, v \in Users \cup {None} :
         /\ placed[p].tenant = Home[u]
         /\ op = "create" <=> k = None
         /\ op # "assign" => v = None
         /\ call' = [call EXCEPT ![s] = [pc |-> "member", op |-> op, actor |-> u,
                                        project |-> p, task |-> k, target |-> v]]
    BY DEF FindProject
<1> DEFINE x == [pc |-> "member", op |-> op, actor |-> u,
                 project |-> p, task |-> k, target |-> v]
<1>2. u \in Users
    BY ActorsAssumption
<1>3. x \in Calls /\ CallSound(x)
    BY <1>1, <1>2 DEF Calls, CallSteps, CallSound
<1>4. call'[s] = x /\ \A r \in Slots \ {s} : call'[r] = call[r]
    BY <1>0, <1>1 DEF TasksTyped
<1> HIDE DEF x
<1> QED
    BY <1>0, <1>3, <1>4, <1>1 DEF TasksTyped, x

(* So are its later checks.                                                *)
LEMMA ChecksSound ==
    ASSUME TasksInv, NEW s \in Slots, FindMember(s) \/ FindTask(s) \/ FindTarget(s)
    PROVE  /\ call' \in [Slots -> Calls]
           /\ CallSound(call'[s])
           /\ \A r \in Slots \ {s} : call'[r] = call[r]
<1>0. TasksTyped /\ Placed /\ CallSound(call[s]) /\ call[s] \in Calls
    BY DEF TasksInv, CallsSound, TasksTyped
<1>1. CASE FindMember(s)
    <2> DEFINE step == IF call[s].op = "create" THEN "insert" ELSE "findTask"
               w == placed[call[s].project].workspace
    <2>1. step \in CallSteps /\ Proceed(s, step)
        BY <1>1 DEF FindMember, CallSteps
    <2>2. call[s].pc = "member" /\ call[s].actor \in members[w]
        BY <1>1 DEF FindMember
    <2>3. w \in Workspaces
        BY <1>0, <2>2, HomeType DEF CallSound, Placed, ProjectsPlaced
    <2>4. owner[w] = Home[call[s].actor]
        BY <1>0, <2>2, <2>3 DEF Placed, MembersHome
    <2>5. call'[s] = [call[s] EXCEPT !.pc = step]
        BY <1>0, <2>1, ProceedEffect
    <2>6. CallSound(call'[s])
        BY <1>0, <2>2, <2>4, <2>5 DEF CallSound, Calls
    <2> QED
        BY <1>0, <2>1, <2>6, ProceedEffect
<1>2. CASE FindTask(s)
    <2> DEFINE step == IF call[s].target # None THEN "target" ELSE "write"
    <2>1. step \in CallSteps /\ Proceed(s, step)
        BY <1>2 DEF FindTask, CallSteps
    <2>2. /\ call[s].pc = "findTask" /\ task[call[s].task].state # "unused"
          /\ task[call[s].task].project = call[s].project
        BY <1>2 DEF FindTask, LiveTask
    <2>3. call'[s] = [call[s] EXCEPT !.pc = step]
        BY <1>0, <2>1, ProceedEffect
    <2>4. CallSound(call'[s])
        BY <1>0, <2>2, <2>3 DEF CallSound, Calls
    <2> QED
        BY <1>0, <2>1, <2>4, ProceedEffect
<1>3. CASE FindTarget(s)
    <2> DEFINE w == placed[call[s].project].workspace
    <2>1. call[s].pc = "target" /\ call[s].target \in members[w] /\ Proceed(s, "write")
        BY <1>3 DEF FindTarget
    <2>2. w \in Workspaces
        BY <1>0, <2>1, HomeType DEF CallSound, Placed, ProjectsPlaced
    <2>3. call[s].target \in joined[w]
        BY <1>0, <2>1, <2>2 DEF Placed, MembersHome
    <2>4. call'[s] = [call[s] EXCEPT !.pc = "write"]
        BY <1>0, <2>1, ProceedEffect DEF CallSteps
    <2>5. CallSound(call'[s])
        BY <1>0, <2>1, <2>3, <2>4 DEF CallSound, Calls
    <2> QED
        BY <1>0, <2>1, <2>5, ProceedEffect DEF CallSteps
<1> QED
    BY <1>1, <1>2, <1>3

-----------------------------------------------------------------------------
(* Initially nothing is there.                                             *)
LEMMA InitTasks == TasksInit => TasksInv
BY DEF TasksInit, Workspace!TenancyInit, TasksInv, TasksTyped, Placed, MembersHome, ProjectsPlaced,
       TasksPlaced, TasksAtHome, AssigneesJoined, CallsSound, CallSound, NoCall,
       Calls, CallSteps, Operations

(* Every step preserves the invariant.                                     *)
LEMMA NextTasks == TasksInv /\ [TasksNext]_tasksVars => TasksInv'
<1> SUFFICES ASSUME TasksInv, [TasksNext]_tasksVars PROVE TasksInv'
    OBVIOUS
<1>0. TasksTyped /\ Placed /\ CallsSound
    BY DEF TasksInv
<1>1. ASSUME TasksTyped', Placed', Grows,
             \A r \in Slots :
                 CallSound(call[r]) /\ (call'[r] = call[r] \/ call'[r].pc = "idle")
      PROVE  TasksInv'
    <2> SUFFICES ASSUME NEW r \in Slots, NEW x, x = call'[r] PROVE CallSound(x)'
        BY <1>1 DEF TasksInv, CallsSound, CallSound
    <2>1. CASE x.pc = "idle"
        BY <2>1 DEF CallSound
    <2>2. CASE x = call[r]
        BY <1>0, <1>1, <2>2, SoundStays DEF TasksTyped
    <2> QED
        BY <1>1, <2>1, <2>2
<1>2. ASSUME UNCHANGED <<owner, members, joined, placed, task>>,
             call' \in [Slots -> Calls], NEW s \in Slots,
             CallSound(call'[s]), \A r \in Slots \ {s} : call'[r] = call[r]
      PROVE  TasksInv'
    <2>1. TasksTyped' /\ Placed'
        BY <1>0, <1>2 DEF TasksTyped, Placed, MembersHome, ProjectsPlaced, TasksPlaced,
                          TasksAtHome, AssigneesJoined
    <2>2. \A r \in Slots : CallSound(call'[r])
        BY <1>0, <1>2 DEF CallsSound
    <2>3. CallsSound'
        BY <1>2, <2>2 DEF CallsSound, CallSound
    <2> QED
        BY <2>1, <2>3 DEF TasksInv
<1>3. CASE ChangeMembers
    BY <1>0, <1>1, <1>3, MembershipStep DEF ChangeMembers, CallsSound
<1>4. CASE PlaceProject
    BY <1>0, <1>1, <1>4, CreateProjectStep DEF PlaceProject, CallsSound
<1>5. ASSUME NEW s \in Slots, Step(s) PROVE TasksInv'
    <2>1. CASE FindProject(s)
        BY <1>2, <2>1, FindProjectSound DEF FindProject
    <2>2. CASE FindMember(s)
        <3>1. /\ call' \in [Slots -> Calls] /\ CallSound(call'[s])
              /\ \A r \in Slots \ {s} : call'[r] = call[r]
            BY <2>2, ChecksSound
        <3> QED
            BY <1>2, <2>2, <3>1 DEF FindMember
    <2>3. CASE CreateTask(s)
        <3>1. Done(s)
            BY <2>3 DEF CreateTask
        <3> QED
            BY <1>0, <1>1, <2>3, <3>1, CreateTaskStep, DoneEffect DEF CallsSound
    <2>4. CASE FindTask(s)
        <3>1. /\ call' \in [Slots -> Calls] /\ CallSound(call'[s])
              /\ \A r \in Slots \ {s} : call'[r] = call[r]
            BY <2>4, ChecksSound
        <3> QED
            BY <1>2, <2>4, <3>1 DEF FindTask
    <2>5. CASE FindTarget(s)
        <3>1. /\ call' \in [Slots -> Calls] /\ CallSound(call'[s])
              /\ \A r \in Slots \ {s} : call'[r] = call[r]
            BY <2>5, ChecksSound
        <3> QED
            BY <1>2, <2>5, <3>1 DEF FindTarget
    <2>6. CASE Write(s)
        <3>1. Done(s)
            BY <2>6 DEF Write
        <3> QED
            BY <1>0, <1>1, <2>6, <3>1, WriteStep, DoneEffect DEF CallsSound
    <2>7. CASE FailCall(s)
        <3>1. Done(s) /\ UNCHANGED <<owner, members, joined, placed, task>>
            BY <2>7 DEF FailCall
        <3>2. CallSound(call'[s])
            BY <1>0, <3>1, DoneEffect DEF CallSound
        <3> QED
            BY <1>0, <1>2, <3>1, <3>2, DoneEffect
    <2> QED
        BY <1>5, <2>1, <2>2, <2>3, <2>4, <2>5, <2>6, <2>7 DEF Step
<1>6. CASE UNCHANGED tasksVars
    BY <1>0, <1>6 DEF tasksVars, TasksInv, TasksTyped, Placed, MembersHome, ProjectsPlaced,
                      TasksPlaced, TasksAtHome, AssigneesJoined, CallsSound, CallSound
<1> QED
    BY <1>3, <1>4, <1>5, <1>6 DEF TasksNext

(* The invariant holds in every state.                                     *)
LEMMA TasksInvariant == TasksSpec => []TasksInv
BY InitTasks, NextTasks, PTL DEF TasksSpec

(* Every variable of the task board has its type in every state.           *)
THEOREM TasksTypeCorrect == TasksSpec => []TasksTyped
<1>1. TasksInv => TasksTyped
    BY DEF TasksInv
<1> QED
    BY <1>1, TasksInvariant, PTL

(* However lookups, writes and memberships interleave, a task is of the    *)
(* tenant of its project and of its project's workspace.                   *)
THEOREM AtHome == TasksSpec => []TasksAtHome
<1>1. TasksInv => TasksAtHome
    BY DEF TasksInv, Placed
<1> QED
    BY <1>1, TasksInvariant, PTL

(* Whoever a task is assigned to is, or was, a member of its workspace and *)
(* is of its tenant.                                                       *)
THEOREM Assignees == TasksSpec => []AssigneesJoined
<1>1. TasksInv => AssigneesJoined
    BY DEF TasksInv, Placed
<1> QED
    BY <1>1, TasksInvariant, PTL
=============================================================================
