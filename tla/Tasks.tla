-------------------------------- MODULE Tasks --------------------------------
(***************************************************************************)
(* Tasks: the requests of task.service.ts.  Each looks up the project in   *)
(* the caller's tenant, then the caller's membership in the project's      *)
(* workspace, then the task, and writes by the task's id, one statement    *)
(* after the other, while projects are created and members come and go.    *)
(* Membership is that of Tenancy, which Workspaces implements.             *)
(***************************************************************************)
EXTENDS Actors

CONSTANTS Workspaces,  \* ids of workspaces
          Tasks        \* ids of tasks; none is used twice

ASSUME TasksAssumption == None \notin Workspaces \cup Tasks

VARIABLES owner, members,  \* the workspaces, see Tenancy
          joined,          \* history: joined[w] have been members of w
          placed,          \* the Project table: where projects are
          task,            \* the Task table
          call             \* the requests

tasksVars == <<owner, members, joined, placed, task, call>>

Workspace == INSTANCE Tenancy

-----------------------------------------------------------------------------
Operations == {"create", "update", "assign", "delete"}

CallSteps == {"idle", "member", "insert", "findTask", "target", "write"}

Calls ==
    [pc : CallSteps, op : Operations, actor : Users \cup {None},
     project : Projects \cup {None}, task : Tasks \cup {None}, target : Users \cup {None}]

NoCall == [pc |-> "idle", op |-> "create", actor |-> None, project |-> None,
           task |-> None, target |-> None]

Proceed(s, step) == call' = [call EXCEPT ![s].pc = step]

Done(s) == call' = [call EXCEPT ![s] = NoCall]

LiveTask(k) == task[k].state = "live"

-----------------------------------------------------------------------------
TasksInit ==
    /\ Workspace!TenancyInit
    /\ joined = members
    /\ placed = [p \in Projects |-> [tenant |-> None, workspace |-> None]]
    /\ task = [k \in Tasks |-> [state |-> "unused", tenant |-> None,
                                project |-> None, assignee |-> None]]
    /\ call = [s \in Slots |-> NoCall]

(* The workspaces' requests, as far as they are seen here.                 *)
ChangeMembers ==
    /\ Workspace!TenancyNext
    /\ joined' = [w \in Workspaces |-> joined[w] \cup members'[w]]
    /\ UNCHANGED <<placed, task, call>>

(* createProject takes any workspace that exists.                          *)
PlaceProject ==
    /\ \E u \in Callers, p \in Projects, w \in Workspaces :
           /\ placed[p].tenant = None
           /\ owner[w] # None
           /\ placed' = [placed EXCEPT ![p] = [tenant |-> Home[u], workspace |-> w]]
    /\ UNCHANGED <<owner, members, joined, task, call>>

(* verifyProjectAccess: the project, in the caller's tenant ...            *)
FindProject(s) ==
    /\ call[s].pc = "idle"
    /\ \E u \in Callers, p \in Projects, op \in Operations,
          k \in Tasks \cup {None}, v \in Users \cup {None} :
           /\ placed[p].tenant = Home[u]
           /\ op = "create" <=> k = None
           /\ op # "assign" => v = None
           /\ call' = [call EXCEPT ![s] = [pc |-> "member", op |-> op, actor |-> u,
                                          project |-> p, task |-> k, target |-> v]]
    /\ UNCHANGED <<owner, members, joined, placed, task>>

(* Mutant of FindMember: being of the tenant is enough.                    *)
FindMemberOfTenant(s) ==
    /\ call[s].pc = "member"
    /\ Proceed(s, IF call[s].op = "create" THEN "insert" ELSE "findTask")
    /\ UNCHANGED <<owner, members, joined, placed, task>>

(* ... and the caller among the members of its workspace.                  *)
FindMember(s) ==
    /\ call[s].pc = "member"
    /\ call[s].actor \in members[placed[call[s].project].workspace]
    /\ Proceed(s, IF call[s].op = "create" THEN "insert" ELSE "findTask")
    /\ UNCHANGED <<owner, members, joined, placed, task>>

CreateTask(s) ==
    /\ call[s].pc = "insert"
    /\ \E k \in Tasks :
           /\ task[k].state = "unused"
           /\ task' = [task EXCEPT ![k] =
                          [state |-> "live", tenant |-> Home[call[s].actor],
                           project |-> call[s].project, assignee |-> None]]
    /\ Done(s)
    /\ UNCHANGED <<owner, members, joined, placed>>

(* The task must be in the project of the request.                         *)
FindTask(s) ==
    LET k == call[s].task
    IN  /\ call[s].pc = "findTask"
        /\ LiveTask(k)
        /\ task[k].tenant = Home[call[s].actor] /\ task[k].project = call[s].project
        /\ Proceed(s, IF call[s].target # None THEN "target" ELSE "write")
        /\ UNCHANGED <<owner, members, joined, placed, task>>

(* Mutant of FindTarget: any user of the tenant may be assigned.           *)
FindTargetInTenant(s) ==
    /\ call[s].pc = "target"
    /\ Home[call[s].target] = Home[call[s].actor]
    /\ Proceed(s, "write")
    /\ UNCHANGED <<owner, members, joined, placed, task>>

(* assignTask: the assignee must be a member of the project's workspace    *)
(* (the project is read again, but projects do not change).                *)
FindTarget(s) ==
    /\ call[s].pc = "target"
    /\ call[s].target \in members[placed[call[s].project].workspace]
    /\ Proceed(s, "write")
    /\ UNCHANGED <<owner, members, joined, placed, task>>

Written(k, op, target) ==
    CASE op = "update" -> task[k]
      [] op = "assign" -> [task[k] EXCEPT !.assignee = target]
      [] op = "delete" -> [task[k] EXCEPT !.state = "deleted"]

(* updateTask (title, description, status), assignTask and deleteTask      *)
(* write by id; a task that is gone by now is an error.                    *)
Write(s) ==
    /\ call[s].pc = "write"
    /\ LiveTask(call[s].task)
    /\ task' = [task EXCEPT ![call[s].task] =
                   Written(call[s].task, call[s].op, call[s].target)]
    /\ Done(s)
    /\ UNCHANGED <<owner, members, joined, placed>>

(* A check that fails, a failing query, or the process ends the request.   *)
FailCall(s) ==
    /\ call[s].pc # "idle"
    /\ Done(s)
    /\ UNCHANGED <<owner, members, joined, placed, task>>

Step(s) ==
    \/ FindProject(s) \/ FindMember(s) \/ CreateTask(s)
    \/ FindTask(s) \/ FindTarget(s) \/ Write(s)
    \/ FailCall(s)

TasksNext == ChangeMembers \/ PlaceProject \/ \E s \in Slots : Step(s)

TasksSpec == TasksInit /\ [][TasksNext]_tasksVars

-----------------------------------------------------------------------------
(* Every variable has its type.                                            *)
TasksTyped ==
    /\ owner \in [Workspaces -> Tenants \cup {None}]
    /\ members \in [Workspaces -> SUBSET Users]
    /\ joined \in [Workspaces -> SUBSET Users]
    /\ placed \in [Projects -> [tenant : Tenants \cup {None},
                                 workspace : Workspaces \cup {None}]]
    /\ task \in [Tasks -> [state : {"unused", "live", "deleted"},
                           tenant : Tenants \cup {None}, project : Projects \cup {None},
                           assignee : Users \cup {None}]]
    /\ call \in [Slots -> Calls]

(* A task is of the tenant of its project and of the project's workspace:  *)
(* a project that was created in another tenant's workspace (createProject *)
(* does not look) never gets a task.                                       *)
TasksAtHome ==
    \A k \in Tasks : task[k].state # "unused" =>
        LET p == task[k].project
        IN  /\ task[k].tenant = placed[p].tenant
            /\ task[k].tenant = owner[placed[p].workspace]

(* Whoever a task is assigned to is a user of its tenant and is, or was,   *)
(* a member of its workspace, whatever memberships change meanwhile.       *)
AssigneesJoined ==
    \A k \in Tasks : (task[k].state # "unused" /\ task[k].assignee # None) =>
        /\ Home[task[k].assignee] = task[k].tenant
        /\ task[k].assignee \in joined[placed[task[k].project].workspace]

==============================================================================
