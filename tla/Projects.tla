------------------------------- MODULE Projects ------------------------------
(***************************************************************************)
(* Projects and their members: the requests of project.service.ts.  All    *)
(* but createProject start with getProject, one query that returns the     *)
(* project with its members, and decide by that snapshot what they write   *)
(* several statements later.  A slot serves one request after the other.   *)
(***************************************************************************)
EXTENDS Actors, Integers, FiniteSets

CONSTANTS OneManager,  \* projects whose membership requests do not overlap
          Rows,        \* ids of ProjectMember rows; no id is used twice
          Roles        \* "owner" and others that grant nothing

ASSUME ProjectsAssumption ==
    /\ OneManager \subseteq Projects
    /\ IsFiniteSet(Rows)
    /\ "owner" \in Roles /\ Roles \cap {"unused", "none"} = {}
    /\ None \notin Rows

VARIABLES project,  \* the Project table; tenant None: there is no such row
          row,      \* the ProjectMember table; role "unused" or "none": no row
          req       \* the requests

vars == <<project, row, req>>

-----------------------------------------------------------------------------
Steps == {"idle", "own", "update", "archive", "findUser", "insert", "findRow", "write"}

(* role "none" is a removal; owners: how many the snapshot shows.          *)
RequestRecords ==
    [pc : Steps, actor : Users \cup {None}, project : Projects \cup {None},
     target : Users \cup {None}, row : Rows \cup {None}, role : Roles \cup {"none"},
     owners : Nat]

Exists(p) == project[p].tenant # None

Live(i) == row[i].role \in Roles

RowsOf(p) == {i \in Rows : Live(i) /\ row[i].project = p}

RoleIn(p, u) ==
    IF \E i \in RowsOf(p) : row[i].user = u
    THEN row[CHOOSE i \in RowsOf(p) : row[i].user = u].role ELSE "none"

OwnersOf(p) == {i \in RowsOf(p) : row[i].role = "owner"}

Goto(s, step) == req' = [req EXCEPT ![s].pc = step]

Idle == [pc |-> "idle", actor |-> None, project |-> None, target |-> None,
         row |-> None, role |-> "none", owners |-> 0]

(* The request is over; nothing it knew matters any more.                  *)
Finish(s) == req' = [req EXCEPT ![s] = Idle]

-----------------------------------------------------------------------------
Init ==
    /\ project = [p \in Projects |-> [tenant |-> None, archived |-> FALSE]]
    /\ row = [i \in Rows |-> [project |-> None, user |-> None, role |-> "unused"]]
    /\ req = [s \in Slots |-> Idle]

(* createProject inserts the project ...                                   *)
CreateProject(s) ==
    /\ req[s].pc = "idle"
    /\ \E u \in Callers, p \in Projects :
           /\ ~ Exists(p)
           /\ project' = [project EXCEPT ![p].tenant = Home[u]]
           /\ req' = [req EXCEPT ![s] =
                         [Idle EXCEPT !.pc = "own", !.actor = u, !.project = p]]
    /\ UNCHANGED row

Insert(p, u, role) ==
    \E i \in Rows :
        /\ row[i].role = "unused"
        /\ row' = [row EXCEPT ![i] = [project |-> p, user |-> u, role |-> role]]

(* ... and then its owner.                                                 *)
CreateOwner(s) ==
    /\ req[s].pc = "own"
    /\ Insert(req[s].project, req[s].actor, "owner")
    /\ Finish(s)
    /\ UNCHANGED project

(* Mutant of Permitted: the creator need not be a member.                  *)
PermittedToCreator(p, u) == project[p].tenant = Home[u]

(* The check of every writing request, on the snapshot: the project is of  *)
(* the caller's tenant and shows the caller as an owner.                   *)
Permitted(p, u) ==
    /\ project[p].tenant = Home[u]
    /\ RoleIn(p, u) = "owner"

(* getProject, for updateProject and archiveProject (deleteProject is the  *)
(* same call);                                                             *)
GetProject(s) ==
    /\ req[s].pc = "idle"
    /\ \E u \in Callers, p \in Projects, step \in {"update", "archive"} :
           /\ Permitted(p, u)
           /\ req' = [req EXCEPT ![s] =
                         [Idle EXCEPT !.pc = step, !.actor = u, !.project = p]]
    /\ UNCHANGED <<project, row>>

(* for addMember: the snapshot must not show the new member yet;           *)
GetForAdd(s) ==
    /\ req[s].pc = "idle"
    /\ \E u \in Callers, p \in Projects, v \in Users, x \in Roles :
           /\ Permitted(p, u)
           /\ RoleIn(p, v) = "none"
           /\ req' = [req EXCEPT ![s] =
                         [Idle EXCEPT !.pc = "findUser", !.actor = u, !.project = p,
                                      !.target = v, !.role = x]]
    /\ UNCHANGED <<project, row>>

(* for removeMember and updateMemberRole: the owners are counted now.      *)
GetForChange(s) ==
    /\ req[s].pc = "idle"
    /\ \E u \in Callers, p \in Projects, i \in Rows, x \in Roles \cup {"none"} :
           /\ Permitted(p, u)
           /\ req' = [req EXCEPT ![s] =
                         [Idle EXCEPT !.pc = "findRow", !.actor = u, !.project = p,
                                      !.row = i, !.role = x,
                                      !.owners = Cardinality(OwnersOf(p))]]
    /\ UNCHANGED <<project, row>>

(* updateProject writes name, description, colour and isPublic only.       *)
UpdateStore(s) ==
    /\ req[s].pc = "update"
    /\ Finish(s)
    /\ UNCHANGED <<project, row>>

ArchiveStore(s) ==
    /\ req[s].pc = "archive"
    /\ project' = [project EXCEPT ![req[s].project].archived = TRUE]
    /\ Finish(s)
    /\ UNCHANGED row

(* Mutant of FindUser: the user is looked up by id alone.                  *)
FindAnyUser(s) ==
    /\ req[s].pc = "findUser"
    /\ Goto(s, "insert")
    /\ UNCHANGED <<project, row>>

(* addMember: the new member is a user of the tenant;                      *)
FindUser(s) ==
    /\ req[s].pc = "findUser"
    /\ Home[req[s].target] = Home[req[s].actor]
    /\ Goto(s, "insert")
    /\ UNCHANGED <<project, row>>

(* the unique index on (projectId, userId) has the last word.              *)
InsertRow(s) ==
    /\ req[s].pc = "insert"
    /\ RoleIn(req[s].project, req[s].target) = "none"
    /\ Insert(req[s].project, req[s].target, req[s].role)
    /\ Finish(s)
    /\ UNCHANGED project

(* Mutant of FindRow: a count of one owner does no harm.                   *)
FindRowOffByOne(s) ==
    LET i == req[s].row
    IN  /\ req[s].pc = "findRow"
        /\ Live(i) /\ row[i].project = req[s].project
        /\ ~ (row[i].role = "owner" /\ req[s].role # "owner" /\ req[s].owners = 0)
        /\ Goto(s, "write")
        /\ UNCHANGED <<project, row>>

(* removeMember and updateMemberRole read the member's row; the last owner *)
(* of the snapshot may not go.                                             *)
FindRow(s) ==
    LET i == req[s].row
    IN  /\ req[s].pc = "findRow"
        /\ Live(i) /\ row[i].project = req[s].project
        /\ ~ (row[i].role = "owner" /\ req[s].role # "owner" /\ req[s].owners = 1)
        /\ Goto(s, "write")
        /\ UNCHANGED <<project, row>>

(* Mutant of WriteRow: the row is kept and marked.                         *)
MarkRow(s) ==
    /\ req[s].pc = "write"
    /\ Live(req[s].row)
    /\ row' = [row EXCEPT ![req[s].row].role =
                   IF req[s].role = "none" THEN "removed" ELSE req[s].role]
    /\ Finish(s)
    /\ UNCHANGED project

(* The update or delete by id; a row that is gone by now is an error.      *)
WriteRow(s) ==
    /\ req[s].pc = "write"
    /\ Live(req[s].row)
    /\ row' = [row EXCEPT ![req[s].row].role = req[s].role]
    /\ Finish(s)
    /\ UNCHANGED project

(* A check that fails, a failing query, or the process ends the request.   *)
Fail(s) ==
    /\ req[s].pc # "idle"
    /\ Finish(s)
    /\ UNCHANGED <<project, row>>

-----------------------------------------------------------------------------
MemberSteps == {"findUser", "insert", "findRow", "write"}

OneAtATime ==
    \A r, s \in Slots :
        (r # s /\ req[r].pc \in MemberSteps /\ req[s].pc \in MemberSteps
            /\ req[r].project = req[s].project) => req[r].project \notin OneManager

Next ==
    /\ \E s \in Slots :
           \/ CreateProject(s) \/ CreateOwner(s)
           \/ GetProject(s) \/ UpdateStore(s) \/ ArchiveStore(s)
           \/ GetForAdd(s) \/ FindUser(s) \/ InsertRow(s)
           \/ GetForChange(s) \/ FindRow(s) \/ WriteRow(s)
           \/ Fail(s)
    /\ OneAtATime'

Spec == Init /\ [][Next]_vars

-----------------------------------------------------------------------------
(* Every variable has its type.                                            *)
TypeOK ==
    /\ project \in [Projects -> [tenant : Tenants \cup {None}, archived : BOOLEAN]]
    /\ row \in [Rows -> [project : Projects \cup {None}, user : Users \cup {None},
                         role : Roles \cup {"unused", "none"}]]
    /\ req \in [Slots -> RequestRecords]

(* "Projects are isolated per tenant": the members of a project are users  *)
(* of its tenant, though no query on ProjectMember names one.              *)
TenantIsolation ==
    \A i \in Rows : Live(i) => project[row[i].project].tenant = Home[row[i].user]

Busy(p) == \E s \in Slots : req[s].pc # "idle" /\ req[s].project = p

(* A project nobody owns (its creation was cut off between the two         *)
(* inserts, or overlapping requests took the last owners away) stays       *)
(* ownerless and unchanged for good, once no request on it is in flight.   *)
Abandoned(p) == Exists(p) /\ OwnersOf(p) = {} /\ ~ Busy(p)

AbandonedForGood ==
    [][\A p \in Projects : Abandoned(p) =>
           Abandoned(p)' /\ project'[p] = project[p]]_vars

(* The roles, for what they grant.                                         *)
GroupRole(p, u) ==
    IF RoleIn(p, u) \in {"owner", "none"} THEN RoleIn(p, u) ELSE "member"

(* One at a time, the membership requests are changes of an owned group,   *)
(* which never loses its last owner.                                       *)
Membership == INSTANCE OwnedGroup
    WITH Groups <- OneManager, People <- Users,
         role <- [p \in OneManager |-> [u \in Users |-> GroupRole(p, u)]]

ImplementsOwnedGroup == Membership!GroupSpec
==============================================================================
