--------------------------- MODULE RequestPipeline ---------------------------
(***************************************************************************)
(* The way of a request through the server: the routers mounted by         *)
(* routes/index.ts, the middlewares each route lists, the checks its       *)
(* controller makes before it calls a service, the error handler, and the  *)
(* 60-second buffer of finished requests that /health and /metrics read.   *)
(*                                                                         *)
(* A router sees req.path relative to where it is mounted: "path" below is *)
(* that relative path, which is what the middlewares look at.  What the    *)
(* services do is in the modules of their components; here a service call  *)
(* is the tenant it acts for and how it ends.                              *)
(***************************************************************************)
EXTENDS Integers, Sequences, FiniteSets

CONSTANTS Requests,   \* HTTP requests
          Wanted,     \* for each request, the routes its client may ask for
          Tenants,    \* tenants
          Keys,       \* API keys that extractTenantFromApiKey finds
          TenantOf,   \* the tenant of a key
          Owners,     \* the keys whose user has the role owner
          Window,     \* maxAge of the buffer (60 seconds)
          MaxNow,     \* bound of the clock
          None        \* no key, no tenant, no status

ASSUME PipelineAssumption ==
    /\ TenantOf \in [Keys -> Tenants]
    /\ Owners \subseteq Keys
    /\ Window \in Nat
    /\ MaxNow \in Nat
    /\ None \notin Keys \cup Tenants \cup {"internal", "address"}
    /\ None \notin {200, 201}
    /\ "internal" \notin Keys /\ "address" \notin Tenants

VARIABLES req,       \* the requests
          records,   \* the buffer of the response tracker (its order never matters)
          redis,     \* the connection to Redis is up
          now,       \* the clock
          finished   \* history: every answer a client got, and when

vars == <<req, records, redis, now, finished>>

-----------------------------------------------------------------------------
(* The routes: where the router is mounted, the path below it, the         *)
(* middlewares in their order and the name of the handler.                 *)
Route(mount, path, chain, handler) ==
    [at |-> mount, path |-> path, chain |-> chain, handler |-> handler]

HealthRoutes ==
    {Route("/", "/health", <<>>, "healthCheck"),
     Route("/", "/metrics", <<"internal">>, "getMetrics"),
     Route("/", "/status/id", <<"tenant">>, "getTenantStatus"),
     Route("/", "/status/id/usage", <<"tenant">>, "getTenantUsage")}

AuthRoutes ==
    {Route("/auth", "/register", <<>>, "register"),
     Route("/auth", "/api-keys", <<"tenant">>, "generateApiKey"),
     Route("/auth", "/api-keys", <<"tenant">>, "listApiKeys"),
     Route("/auth", "/api-keys/id/rotate", <<"tenant">>, "rotateApiKey"),
     Route("/auth", "/api-keys/id", <<"tenant">>, "revokeApiKey")}

AuditRoutes ==
    {Route("/audit", path[1], <<"tenant">>, path[2]) :
        path \in {<<"/logs", "getAuditLogs">>, <<"/logs/id", "getAuditLogEntry">>,
                  <<"/verify", "verifyAuditChain">>, <<"/export", "exportAuditLogs">>,
                  <<"/other", "none">>}}

ProjectRoutes ==
    {Route("/projects", path[1], <<"tenant">>, path[2]) :
        path \in {<<"/", "createProject">>, <<"/", "listProjects">>,
                  <<"/id", "getProject">>, <<"/id", "updateProject">>,
                  <<"/id", "deleteProject">>, <<"/id/members", "getMembers">>,
                  <<"/id/members", "addMember">>, <<"/id/members/id", "removeMember">>,
                  <<"/id/members/id/role", "updateMemberRole">>}}

TaskRoutes ==
    {Route("/projects/id/tasks", path[1], <<"limit">>, path[2]) :
        path \in {<<"/", "createTask">>, <<"/", "listTasks">>, <<"/id", "getTask">>,
                  <<"/id", "updateTask">>, <<"/id/assign", "assignTask">>,
                  <<"/id", "deleteTask">>}}

WorkspaceRoutes ==
    {Route("/workspaces", path[1], <<"tenant", "limit">>, path[2]) :
        path \in {<<"/", "createWorkspace">>, <<"/", "listWorkspaces">>,
                  <<"/id", "getWorkspace">>, <<"/id", "updateWorkspace">>,
                  <<"/id", "archiveWorkspace">>, <<"/id/members", "getMembers">>,
                  <<"/id/members", "addMember">>,
                  <<"/id/members/id", "updateMemberRole">>,
                  <<"/id/members/id", "removeMember">>}}

FileRoutes ==
    {Route("/files", "/", <<"tenant", "limit", "upload">>, "uploadFile")} \cup
    {Route("/files", path[1], <<"tenant", "limit">>, path[2]) :
        path \in {<<"/", "listFiles">>, <<"/id", "getFile">>,
                  <<"/id/download", "downloadFile">>, <<"/id", "deleteFile">>}}

NoRoute == Route("nowhere", "/other", <<>>, "none")

Routes == HealthRoutes \cup AuthRoutes \cup AuditRoutes \cup ProjectRoutes \cup
          TaskRoutes \cup WorkspaceRoutes \cup FileRoutes \cup {NoRoute}

ASSUME WantedAssumption == \A r \in Requests : Wanted[r] \subseteq Routes

-----------------------------------------------------------------------------
(* The handlers: the error they answer with when there is no tenant        *)
(* ("none": they do not look), whether they are for owners, whether they   *)
(* validate a body or a query, whether they use the tenant, and the status *)
(* of success.                                                             *)
Checks(guard, owner, body, tenant, ok) ==
    [guard |-> guard, owner |-> owner, body |-> body, tenant |-> tenant, ok |-> ok]

Created(handler, creators) == IF handler \in creators THEN 201 ELSE 200

HealthHandler(h) ==
    IF h \in {"getTenantStatus", "getTenantUsage"}
    THEN Checks("unauthorized", FALSE, FALSE, TRUE, 200)
    ELSE Checks("none", FALSE, FALSE, FALSE, 200)

AuthHandler(h) ==
    IF h = "register" THEN Checks("none", FALSE, TRUE, FALSE, 201)
    ELSE Checks("unauthorized", TRUE, h \in {"generateApiKey", "rotateApiKey"}, TRUE,
                Created(h, {"generateApiKey"}))

AuditHandler(h) ==
    Checks("forbidden", h \in {"verifyAuditChain", "exportAuditLogs"}, FALSE, TRUE, 200)

ProjectHandler(h) ==
    Checks("unauthorized", FALSE, h \in {"createProject", "updateProject"}, TRUE,
           Created(h, {"createProject"}))

ProjectMemberHandler(h) ==
    Checks("unauthorized", FALSE, h \in {"addMember", "updateMemberRole"}, TRUE,
           Created(h, {"addMember"}))

TaskHandler(h) ==
    Checks("none", FALSE, h \in {"createTask", "listTasks", "updateTask", "assignTask"},
           TRUE, Created(h, {"createTask"}))

WorkspaceHandler(h) ==
    Checks("none", FALSE,
           h \in {"createWorkspace", "listWorkspaces", "updateWorkspace", "addMember",
                  "updateMemberRole"},
           TRUE, Created(h, {"createWorkspace", "addMember"}))

FileHandler(h) ==
    Checks("none", FALSE, h = "uploadFile", TRUE, Created(h, {"uploadFile"}))

HandlerOf(route) ==
    CASE route.at = "/" -> HealthHandler(route.handler)
      [] route.at = "/auth" -> AuthHandler(route.handler)
      [] route.at = "/audit" -> AuditHandler(route.handler)
      [] route.at = "/projects" -> IF route.path \in {"/", "/id"}
                                   THEN ProjectHandler(route.handler)
                                   ELSE ProjectMemberHandler(route.handler)
      [] route.at = "/projects/id/tasks" -> TaskHandler(route.handler)
      [] route.at = "/workspaces" -> WorkspaceHandler(route.handler)
      [] route.at = "/files" -> FileHandler(route.handler)

(* The status errorHandler answers an error with.  A TypeError, an error   *)
(* of multer and any other error without a statusCode is "other".          *)
ErrorStatus ==
    [validation |-> 400, unauthorized |-> 401, forbidden |-> 403, notFound |-> 404,
     conflict |-> 409, tooMany |-> 429, tooLarge |-> 413, prismaValidation |-> 400,
     P2002 |-> 409, P2025 |-> 404, prismaKnown |-> 400, other |-> 500]

ServiceErrors == DOMAIN ErrorStatus \ {"unauthorized", "tooMany", "tooLarge"}

-----------------------------------------------------------------------------
Statuses == {200, 201, 503} \cup {ErrorStatus[e] : e \in DOMAIN ErrorStatus}

Identities == {"address"} \cup Tenants

RequestStates ==
    [pc : {"idle", "body", "chain", "handler", "service", "mail", "answer", "done"},
     route : Routes, key : Keys \cup {None, "internal"}, names : Tenants \cup {None},
     step : 1..4, tenant : Tenants \cup {None}, refused : BOOLEAN, tracked : BOOLEAN,
     charged : Identities \cup {None}, acts : Tenants \cup {None},
     count : Nat \cup {None}, status : Statuses \cup {None}]

(* refused: the body parser has refused the request; tracked: the response *)
(* tracker listens to its response.                                        *)
Fresh(pc) ==
    [pc |-> pc, route |-> NoRoute, key |-> None, names |-> None, step |-> 1,
     tenant |-> None, refused |-> FALSE, tracked |-> FALSE, charged |-> None,
     acts |-> None, count |-> None, status |-> None]

Init ==
    /\ req = [r \in Requests |-> Fresh("idle")]
    /\ records = {}
    /\ redis = TRUE
    /\ now = 0
    /\ finished = {}

Handler(r) == HandlerOf(req[r].route)

Answer(r, status) ==
    req' = [req EXCEPT ![r].status = status, ![r].pc = "answer"]

Throw(r, error) == Answer(r, ErrorStatus[error])

AtMiddleware(r, name) ==
    /\ req[r].pc = "chain"
    /\ req[r].step <= Len(req[r].route.chain)
    /\ req[r].route.chain[req[r].step] = name

-----------------------------------------------------------------------------
(* The keys a client may send: only /metrics looks at the header with the  *)
(* internal key, and /health at none.                                      *)
KeysFor(route) ==
    CASE route.path = "/metrics" -> {"internal", None}
      [] route.path = "/health" -> {None}
      [] OTHER -> Keys \cup {None}

(* A client asks for a route; only the paths under /status name a tenant.  *)
Ask(r) ==
    /\ req[r].pc = "idle"
    /\ \E route \in Wanted[r] :
         \E k \in KeysFor(route),
            named \in IF route.path \in {"/status/id", "/status/id/usage"}
                      THEN Tenants ELSE {None} :
           req' = [req EXCEPT ![r] = [Fresh("body") EXCEPT
                       !.route = route, !.key = k, !.names = named]]
    /\ UNCHANGED <<records, redis, now, finished>>

(* The body parser reads what the client sends, and runs before            *)
(* responseTimeMiddleware: nobody listens to the response to what it       *)
(* refuses.                                                                *)
RefuseBody(r) ==
    /\ req[r].pc = "body"
    /\ \E e \in {"validation", "tooLarge"} :
           req' = [req EXCEPT ![r].refused = TRUE, ![r].status = ErrorStatus[e],
                              ![r].pc = "answer"]
    /\ UNCHANGED <<records, redis, now, finished>>

StartTracking(r) ==
    /\ req[r].pc = "body"
    /\ req' = [req EXCEPT ![r].pc = "chain", ![r].tracked = TRUE]
    /\ UNCHANGED <<records, redis, now, finished>>

(* Mutant of Skips: the path of the health check only.                     *)
SkipsHealth(path) == path = "/health"

(* extractTenantFromApiKey lets two paths through without a tenant.        *)
Skips(path) == path \in {"/health", "/"}

ExtractSkip(r) ==
    /\ AtMiddleware(r, "tenant")
    /\ Skips(req[r].route.path)
    /\ req' = [req EXCEPT ![r].step = @ + 1]
    /\ UNCHANGED <<records, redis, now, finished>>

(* No key, no such key, or a query that fails.                             *)
ExtractReject(r) ==
    /\ AtMiddleware(r, "tenant")
    /\ ~Skips(req[r].route.path)
    /\ \/ req[r].key \notin Keys /\ Throw(r, "unauthorized")
       \/ Throw(r, "other")
    /\ UNCHANGED <<records, redis, now, finished>>

ExtractTenant(r) ==
    /\ AtMiddleware(r, "tenant")
    /\ ~Skips(req[r].route.path)
    /\ req[r].key \in Keys
    /\ req' = [req EXCEPT ![r].step = @ + 1, ![r].tenant = TenantOf[req[r].key]]
    /\ UNCHANGED <<records, redis, now, finished>>

(* The tenant is known, but its user cannot be read or the key stamped.    *)
ExtractFail(r) ==
    /\ AtMiddleware(r, "tenant")
    /\ ~Skips(req[r].route.path)
    /\ req[r].key \in Keys
    /\ req' = [req EXCEPT ![r].tenant = TenantOf[req[r].key],
                          ![r].status = ErrorStatus["other"], ![r].pc = "answer"]
    /\ UNCHANGED <<records, redis, now, finished>>

VerifyInternalKey(r) ==
    /\ AtMiddleware(r, "internal")
    /\ IF req[r].key = "internal" THEN req' = [req EXCEPT ![r].step = @ + 1]
                                  ELSE Throw(r, "unauthorized")
    /\ UNCHANGED <<records, redis, now, finished>>

(* The identifier the limiter counts under.                                *)
Identifier(r) == IF req[r].tenant # None THEN req[r].tenant ELSE "address"

(* rateLimitMiddleware: checkLimit answers, yes or no.                     *)
Limit(r) ==
    /\ AtMiddleware(r, "limit")
    /\ redis
    /\ \/ req' = [req EXCEPT ![r].step = @ + 1, ![r].charged = Identifier(r)]
       \/ Throw(r, "tooMany")
    /\ UNCHANGED <<records, redis, now, finished>>

(* Mutant of LimitFail: without Redis the request is let through.          *)
LimitSkipped(r) ==
    /\ AtMiddleware(r, "limit")
    /\ ~redis
    /\ req' = [req EXCEPT ![r].step = @ + 1]
    /\ UNCHANGED <<records, redis, now, finished>>

(* While Redis is away its client keeps commands back or rejects them;     *)
(* getRedis does not throw once the server has started.                    *)
LimitFail(r) ==
    /\ AtMiddleware(r, "limit")
    /\ ~redis
    /\ Throw(r, "other")
    /\ UNCHANGED <<records, redis, now, finished>>

(* upload.single reads the file the client sends; one of another type, or  *)
(* too large, is a plain error.                                            *)
ReceiveFile(r) ==
    /\ AtMiddleware(r, "upload")
    /\ \/ req' = [req EXCEPT ![r].step = @ + 1]
       \/ Throw(r, "other")
    /\ UNCHANGED <<records, redis, now, finished>>

EnterHandler(r) ==
    /\ req[r].pc = "chain"
    /\ req[r].step > Len(req[r].route.chain)
    /\ IF req[r].route.handler = "none" THEN Answer(r, 404)
       ELSE req' = [req EXCEPT ![r].pc = "handler"]
    /\ UNCHANGED <<records, redis, now, finished>>

-----------------------------------------------------------------------------
NoTenant(r) == req[r].tenant = None

GuardFails(r) == Handler(r).guard # "none" /\ NoTenant(r)

OwnerFails(r) == Handler(r).owner /\ req[r].key \notin Owners

(* The checks of a handler, in their order: tenant, role, input, and the   *)
(* TypeError of req.tenant!.id.                                            *)
Refuse(r) ==
    /\ req[r].pc = "handler"
    /\ CASE GuardFails(r) -> Throw(r, Handler(r).guard)
         [] ~GuardFails(r) /\ OwnerFails(r) -> Throw(r, "forbidden")
         [] OTHER -> \/ Handler(r).body /\ Throw(r, "validation")
                     \/ Handler(r).tenant /\ NoTenant(r) /\ Throw(r, "other")
    /\ UNCHANGED <<records, redis, now, finished>>

(* Mutant of ActsFor: the tenant the path names.                           *)
ActsForNamed(r) == IF req[r].names # None THEN req[r].names ELSE req[r].tenant

ActsFor(r) == req[r].tenant

CallService(r) ==
    /\ req[r].pc = "handler"
    /\ req[r].route.handler \notin {"healthCheck", "getMetrics"}
    /\ ~GuardFails(r) /\ ~OwnerFails(r)
    /\ Handler(r).tenant => ~NoTenant(r)
    /\ req' = [req EXCEPT ![r].pc = "service", ![r].acts = ActsFor(r)]
    /\ UNCHANGED <<records, redis, now, finished>>

(* What is told by mail: a registration, a rotation and an invitation.     *)
QueuesMail(route) ==
    \/ route.handler \in {"register", "rotateApiKey"}
    \/ route.at = "/workspaces" /\ route.handler = "addMember"

ServiceAnswers(r) ==
    /\ req[r].pc = "service"
    /\ req[r].count = None
    /\ ~QueuesMail(req[r].route)
    /\ Answer(r, Handler(r).ok)
    /\ UNCHANGED <<records, redis, now, finished>>

(* The work is done, and the mail about it is to be queued first ...       *)
ServiceTells(r) ==
    /\ req[r].pc = "service"
    /\ QueuesMail(req[r].route)
    /\ req' = [req EXCEPT ![r].pc = "mail"]
    /\ UNCHANGED <<records, redis, now, finished>>

(* ... which Bull does in Redis, without a timeout; an error is swallowed. *)
QueueMail(r) ==
    /\ req[r].pc = "mail"
    /\ Answer(r, Handler(r).ok)
    /\ UNCHANGED <<records, redis, now, finished>>

ServiceThrows(r) ==
    /\ req[r].pc = "service"
    /\ req[r].count = None
    /\ \E e \in ServiceErrors : Throw(r, e)
    /\ UNCHANGED <<records, redis, now, finished>>

-----------------------------------------------------------------------------
(* Mutant of Cleanup: the records that are too old.                        *)
CleanupInverted(recs) == {rec \in recs : rec.at <= now - Window}

Cleanup(recs) == {rec \in recs : rec.at >= now - Window}

(* healthCheck and getMetrics read the number of requests at once ...      *)
ReadCount(r) ==
    /\ req[r].pc = "handler"
    /\ req[r].route.handler \in {"healthCheck", "getMetrics"}
    /\ records' = Cleanup(records)
    /\ req' = [req EXCEPT ![r].pc = "service", ![r].count = Cardinality(records')]
    /\ UNCHANGED <<redis, now, finished>>

(* Mutant of AnswerHealth: the ping of Redis has no timeout.               *)
AnswerHealthUntimed(r) ==
    /\ req[r].pc = "service"
    /\ req[r].route.handler = "healthCheck"
    /\ redis
    /\ Answer(r, 200)
    /\ UNCHANGED <<records, redis, now, finished>>

(* ... and answer after their queries; each of healthCheck's has a timeout.*)
AnswerHealth(r) ==
    /\ req[r].pc = "service"
    /\ req[r].route.handler = "healthCheck"
    /\ \/ redis /\ Answer(r, 200)
       \/ Answer(r, 503)
    /\ UNCHANGED <<records, redis, now, finished>>

(* getMetrics cleans the buffer once more, for the requests of each tenant.*)
AnswerMetrics(r) ==
    /\ req[r].pc = "service"
    /\ req[r].route.handler = "getMetrics"
    /\ records' = Cleanup(records)
    /\ Answer(r, 200)
    /\ UNCHANGED <<redis, now, finished>>

-----------------------------------------------------------------------------
(* The response has been sent, and its "finish" event is recorded if the   *)
(* tracker listens, after which a request is of no more interest ...       *)
Finish(r) ==
    /\ req[r].pc = "answer"
    /\ records' = IF req[r].tracked
                  THEN Cleanup(records \cup
                               {[by |-> r, at |-> now, tenant |-> req[r].tenant]})
                  ELSE records
    /\ finished' = finished \cup {[by |-> r, at |-> now, refused |-> req[r].refused]}
    /\ req' = [req EXCEPT ![r] = Fresh("done")]
    /\ UNCHANGED <<redis, now>>

(* ... or the client has gone, and there is no such event.                 *)
HangUp(r) ==
    /\ req[r].pc = "answer"
    /\ req' = [req EXCEPT ![r] = Fresh("done")]
    /\ UNCHANGED <<records, redis, now, finished>>

RedisChanges ==
    /\ redis' = ~redis
    /\ UNCHANGED <<req, records, now, finished>>

Tick ==
    /\ now < MaxNow
    /\ now' = now + 1
    /\ UNCHANGED <<req, records, redis, finished>>

(* The steps that wait for the client, who may stop sending a body or a    *)
(* file, or stop reading an answer.                                        *)
ClientStep(r) ==
    \/ Ask(r) \/ RefuseBody(r) \/ StartTracking(r) \/ ReceiveFile(r)
    \/ Finish(r) \/ HangUp(r)

(* The steps that wait for Redis, or for a command of its to fail.         *)
RedisStep(r) == Limit(r) \/ LimitFail(r) \/ QueueMail(r) \/ AnswerMetrics(r)

(* The steps of a request that wait for neither Redis nor its client.      *)
Advance(r) ==
    \/ ExtractSkip(r) \/ ExtractReject(r) \/ ExtractTenant(r) \/ ExtractFail(r)
    \/ VerifyInternalKey(r) \/ EnterHandler(r) \/ Refuse(r) \/ CallService(r)
    \/ ServiceAnswers(r) \/ ServiceTells(r) \/ ServiceThrows(r)
    \/ ReadCount(r) \/ AnswerHealth(r)

Next ==
    \/ \E r \in Requests : ClientStep(r) \/ RedisStep(r) \/ Advance(r)
    \/ RedisChanges
    \/ Tick

Spec == Init /\ [][Next]_vars

(* A handler that can go on does, and so does one whose commands Redis is  *)
(* there to execute.  Nothing makes Redis come back, or reject a command   *)
(* while it is away, and nothing makes a client send or read.              *)
FairSpec ==
    /\ Spec
    /\ \A r \in Requests : WF_vars(Advance(r)) /\ WF_vars(redis /\ RedisStep(r))

-----------------------------------------------------------------------------
(* Every variable has its type.                                            *)
TypeOK ==
    /\ req \in [Requests -> RequestStates]
    /\ records \subseteq [by : Requests, at : Nat, tenant : Tenants \cup {None}]
    /\ IsFiniteSet(records)
    /\ redis \in BOOLEAN
    /\ now \in 0..MaxNow
    /\ finished \subseteq [by : Requests, at : Nat, refused : BOOLEAN]

(* A service acts for the tenant of the key the request carries, whatever  *)
(* path it came by and whatever tenant the path names, and an operation    *)
(* for owners only for the key of an owner.                                *)
ActsForKeysTenant ==
    \A r \in Requests :
        req[r].acts # None => /\ req[r].key \in Keys
                              /\ req[r].acts = TenantOf[req[r].key]
                              /\ Handler(r).owner => req[r].key \in Owners

(* The collections of workspaces, projects and files, and every route of   *)
(* tasks, serve nobody: the extractor skips the former, nothing extracts a *)
(* tenant on the latter, and no handler acts without one.                  *)
CollectionsServeNobody ==
    \A r \in Requests :
        req[r].route.path = "/" \/ req[r].route \in TaskRoutes
            => req[r].acts = None /\ req[r].status \notin {200, 201}

(* What runs behind the limiter has been counted, and under the tenant it  *)
(* acts for: being without Redis lets nothing through, and no request of a *)
(* tenant is counted under an address.                                     *)
ServedIsCounted ==
    \A r \in Requests :
        req[r].acts # None /\ (\E i \in DOMAIN req[r].route.chain :
                                  req[r].route.chain[i] = "limit")
            => req[r].charged = req[r].acts

(* The count /health and /metrics report is that of the answers clients    *)
(* got within the window, short of those of the body parser: whenever the  *)
(* buffer was cleaned last, nothing older is in it and nothing else lost.  *)
ReportsWindow ==
    [][\A r \in Requests :
          req'[r].count # req[r].count /\ req'[r].count # None
              => req'[r].count = Cardinality({f \in finished : /\ f.at >= now - Window
                                                               /\ ~f.refused})]_vars

(* Once its client has sent what the middlewares read, a request is        *)
(* answered if Redis comes back for good; and one that does not need Redis *)
(* -- by the limiter, the metrics or a mail its controller waits to see    *)
(* queued -- even if it never does, the health check among them.           *)
UnderWay(r) == req[r].pc \notin {"idle", "done"}

NeedsRedis(r) ==
    \/ req[r].route.handler = "getMetrics"
    \/ QueuesMail(req[r].route)
    \/ \E i \in DOMAIN req[r].route.chain : req[r].route.chain[i] = "limit"

Answered(r) == req[r].pc \in {"answer", "done"}

AwaitsClient(r) == req[r].pc = "body" \/ AtMiddleware(r, "upload")

EveryRequestAnswered ==
    \A r \in Requests :
        /\ UnderWay(r) /\ ~NeedsRedis(r) ~> Answered(r) \/ AwaitsClient(r)
        /\ <>[]redis => (UnderWay(r) ~> Answered(r) \/ AwaitsClient(r))
=============================================================================
