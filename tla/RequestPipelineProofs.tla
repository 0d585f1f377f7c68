------------------------ MODULE RequestPipelineProofs ------------------------
(***************************************************************************)
(* The way of a request through the server, for any requests, keys and     *)
(* tenants: whom a service acts for, that the limiter has counted it, and  *)
(* that the reports count it.                                              *)
(***************************************************************************)
EXTENDS RequestPipeline, FunctionTheorems, FiniteSetTheorems, TLAPS

(* The chains of middlewares that occur.                                   *)
Chains == {<<>>, <<"internal">>, <<"tenant">>, <<"limit">>, <<"tenant", "limit">>,
           <<"tenant", "limit", "upload">>}

(* Routes on which nobody is served.                                       *)
Barred(route) == route.path = "/" \/ route \in TaskRoutes

LEMMA RoutesShape ==
    ASSUME NEW route \in Routes
    PROVE  /\ route.chain \in Chains
           /\ route \in TaskRoutes => route.chain = <<"limit">>
           /\ Barred(route) => HandlerOf(route).tenant
           /\ route.handler \in {"healthCheck", "getMetrics"} => ~ Barred(route)
           /\ route.handler # "none" =>
                  /\ HandlerOf(route).ok \in {200, 201}
                  /\ HandlerOf(route).guard \in {"none", "unauthorized", "forbidden"}
<1>1. CASE route \in HealthRoutes
    BY <1>1 DEF HealthRoutes, TaskRoutes, Route, Chains, Barred, HandlerOf, HealthHandler, Checks
<1>2. CASE route \in AuthRoutes
    BY <1>2 DEF AuthRoutes, TaskRoutes, Route, Chains, Barred, HandlerOf, AuthHandler, Checks,
                Created
<1>3. CASE route \in AuditRoutes
    BY <1>3 DEF AuditRoutes, TaskRoutes, Route, Chains, Barred, HandlerOf, AuditHandler, Checks
<1>4. CASE route \in ProjectRoutes
    BY <1>4 DEF ProjectRoutes, TaskRoutes, Route, Chains, Barred, HandlerOf,
                ProjectHandler, ProjectMemberHandler, Checks, Created
<1>5. CASE route \in TaskRoutes
    BY <1>5 DEF TaskRoutes, Route, Chains, Barred, HandlerOf, TaskHandler, Checks, Created
<1>6. CASE route \in WorkspaceRoutes
    BY <1>6 DEF WorkspaceRoutes, TaskRoutes, Route, Chains, Barred, HandlerOf,
                WorkspaceHandler, Checks, Created
<1>7. CASE route \in FileRoutes
    BY <1>7 DEF FileRoutes, TaskRoutes, Route, Chains, Barred, HandlerOf,
                FileHandler, Checks, Created
<1>8. CASE route = NoRoute
    BY <1>8 DEF NoRoute, TaskRoutes, Route, Chains, Barred
<1> QED
    BY <1>1, <1>2, <1>3, <1>4, <1>5, <1>6, <1>7, <1>8 DEF Routes

LEMMA ChainsShape ==
    ASSUME NEW chain \in Chains
    PROVE  /\ Len(chain) \in 0..3
           /\ DOMAIN chain = 1..Len(chain)
           /\ \A i \in 1..Len(chain) : chain[i] = "tenant" => i = 1
           /\ chain = <<"limit">> => \A i \in 1..Len(chain) : chain[i] # "tenant"
BY DEF Chains

-----------------------------------------------------------------------------
(* Behind the body parser.                                                 *)
Behind == {"chain", "handler", "service", "mail"}

(* What holds of one request x wherever it is: its tenant is that of its   *)
(* key and comes from the extractor, which comes before the limiter, which *)
(* counts for that tenant; the handler comes after both.  The tracker       *)
(* listens to whatever the body parser has not refused.                    *)
Charge(x) == IF x.tenant # None THEN x.tenant ELSE "address"

Passed(x, name) ==
    \E i \in 1..Len(x.route.chain) : i < x.step /\ x.route.chain[i] = name

Sound(x) ==
    /\ x.tenant # None => x.key \in Keys /\ x.tenant = TenantOf[x.key] /\ ~ Barred(x.route)
    /\ x.charged # None => x.charged = Charge(x) /\ x.step > 1
    /\ Passed(x, "limit") => x.charged # None
    /\ x.pc \in {"handler", "service", "mail"} =>
           x.step > Len(x.route.chain) /\ x.route.handler # "none"
    /\ x.pc \in {"service", "mail"} => ~ Barred(x.route)
    /\ x.acts # None => /\ x.acts = x.tenant
                        /\ x.step > Len(x.route.chain)
                        /\ HandlerOf(x.route).owner => x.key \in Owners
    /\ x.status \in {200, 201} => ~ Barred(x.route)
    /\ x.pc = "body" => ~ x.refused /\ ~ x.tracked
    /\ x.pc \in Behind => ~ x.refused /\ x.tracked
    /\ x.pc = "answer" => x.tracked = ~ x.refused

PipelineInv == TypeOK /\ \A r \in Requests : Sound(req[r])

-----------------------------------------------------------------------------
LEMMA FreshSound ==
    ASSUME NEW pc \in {"idle", "body", "done"}
    PROVE  Fresh(pc) \in RequestStates /\ Sound(Fresh(pc))
<1>1. NoRoute \in Routes /\ NoRoute.chain = <<>>
    BY DEF NoRoute, Routes, Route
<1>2. Fresh(pc) \in RequestStates
    BY <1>1 DEF Fresh, RequestStates
<1>3. Sound(Fresh(pc))
    <2> DEFINE x == Fresh(pc)
    <2>1. /\ x.pc = pc /\ x.route = NoRoute /\ x.step = 1 /\ x.tenant = None
          /\ x.charged = None /\ x.acts = None /\ x.status = None
          /\ ~ x.refused /\ ~ x.tracked
        BY DEF Fresh
    <2> HIDE DEF x
    <2>2. Sound(x)
        BY <1>1, <2>1, PipelineAssumption DEF Sound, Passed, Behind, PipelineAssumption
    <2> QED
        BY <2>2 DEF x
<1> QED
    BY <1>2, <1>3

(* One request moves.                                                      *)
LEMMA OneMoves ==
    ASSUME PipelineInv, NEW r \in Requests, NEW x \in RequestStates, Sound(x),
           req' = [req EXCEPT ![r] = x],
           records' \subseteq records, UNCHANGED <<redis, now, finished>>
    PROVE  PipelineInv'
<1>1. TypeOK /\ TypeOK'
    BY FS_Subset DEF PipelineInv, TypeOK
<1>2. ASSUME NEW s \in Requests, NEW y, y = req'[s] PROVE Sound(y)
    BY <1>1, <1>2 DEF PipelineInv, TypeOK
<1> QED
    BY <1>1, <1>2 DEF PipelineInv

(* An answer is an error, or comes from a handler.                         *)
LEMMA AnswerMoves ==
    ASSUME PipelineInv, NEW r \in Requests, NEW status \in Statuses, Answer(r, status),
           req[r].pc \in Behind,
           status \in {200, 201} => req[r].pc \in {"service", "mail"},
           records' \subseteq records, UNCHANGED <<redis, now, finished>>
    PROVE  PipelineInv'
<1>0. req[r] \in RequestStates /\ Sound(req[r])
    BY DEF PipelineInv, TypeOK
<1> DEFINE x == [req[r] EXCEPT !.status = status, !.pc = "answer"]
<1>1. x \in RequestStates
    <2>1. [req[r] EXCEPT !.status = status] \in RequestStates
        BY <1>0 DEF RequestStates
    <2> QED
        BY <2>1 DEF RequestStates
<1>2. req' = [req EXCEPT ![r] = x]
    BY <1>0 DEF Answer
<1>3. Sound(x)
    BY <1>0 DEF Sound, RequestStates, Charge, Passed, Behind
<1> QED
    BY <1>1, <1>2, <1>3, OneMoves

LEMMA ThrowMoves ==
    ASSUME PipelineInv, NEW r \in Requests, NEW error \in DOMAIN ErrorStatus,
           req[r].pc \in Behind, Throw(r, error),
           UNCHANGED <<records, redis, now, finished>>
    PROVE  PipelineInv'
<1>1. ErrorStatus[error] \in Statuses /\ ErrorStatus[error] \notin {200, 201}
    BY DEF Statuses, ErrorStatus
<1> QED
    BY <1>1, AnswerMoves DEF Throw

-----------------------------------------------------------------------------
(* Where a middleware finds the request.                                   *)
LEMMA AtShape ==
    ASSUME PipelineInv, NEW r \in Requests, NEW name, AtMiddleware(r, name)
    PROVE  /\ req[r] \in RequestStates /\ Sound(req[r])
           /\ req[r].pc = "chain" /\ req[r].acts = None
           /\ req[r].step \in 1..3 /\ req[r].step <= Len(req[r].route.chain)
           /\ req[r].route.chain[req[r].step] = name
           /\ Len(req[r].route.chain) \in 0..3
           /\ name = "tenant" => ~ (req[r].route \in TaskRoutes) /\ req[r].step = 1
<1>1. req[r] \in RequestStates /\ Sound(req[r])
    BY DEF PipelineInv, TypeOK
<1>2. req[r].route \in Routes /\ req[r].step \in 1..4
    BY <1>1 DEF RequestStates
<1>3. req[r].route.chain \in Chains
    BY <1>2, RoutesShape
<1>4. /\ req[r].pc = "chain" /\ req[r].step <= Len(req[r].route.chain)
      /\ req[r].route.chain[req[r].step] = name
    BY DEF AtMiddleware
<1>5. Len(req[r].route.chain) \in 0..3
    BY <1>3, ChainsShape
<1>6. req[r].acts = None
    BY <1>1, <1>2, <1>4, <1>5 DEF Sound
<1>7. name = "tenant" => ~ (req[r].route \in TaskRoutes) /\ req[r].step = 1
    BY <1>2, <1>3, <1>4, <1>5, ChainsShape, RoutesShape
<1> QED
    BY <1>1, <1>2, <1>4, <1>5, <1>6, <1>7

(* A middleware that lets the request on without touching it.              *)
LEMMA PassMoves ==
    ASSUME PipelineInv, NEW r \in Requests, NEW name \in {"tenant", "internal", "upload"},
           AtMiddleware(r, name), req' = [req EXCEPT ![r].step = @ + 1],
           UNCHANGED <<records, redis, now, finished>>
    PROVE  PipelineInv'
<1>0. /\ req[r] \in RequestStates /\ Sound(req[r]) /\ req[r].pc = "chain"
      /\ req[r].acts = None /\ req[r].step \in 1..3
      /\ req[r].route.chain[req[r].step] # "limit" /\ Len(req[r].route.chain) \in 0..3
    BY AtShape
<1> DEFINE x == [req[r] EXCEPT !.step = @ + 1]
<1>1. x \in RequestStates /\ req' = [req EXCEPT ![r] = x]
    BY <1>0 DEF RequestStates
<1>2. Passed(x, "limit") => Passed(req[r], "limit")
    BY <1>0 DEF Passed, RequestStates
<1>3. Sound(x)
    BY <1>0, <1>2 DEF Sound, RequestStates, Charge
<1> QED
    BY <1>1, <1>3, OneMoves

LEMMA ExtractMoves ==
    ASSUME PipelineInv, NEW r \in Requests, ExtractTenant(r)
    PROVE  PipelineInv'
<1>0. /\ req[r] \in RequestStates /\ Sound(req[r]) /\ req[r].pc = "chain"
      /\ req[r].acts = None /\ req[r].step = 1
      /\ req[r].route.chain[1] = "tenant" /\ Len(req[r].route.chain) \in 0..3
      /\ req[r].route \notin TaskRoutes
    BY AtShape DEF ExtractTenant
<1> DEFINE t == TenantOf[req[r].key]
           x == [req[r] EXCEPT !.step = @ + 1, !.tenant = t]
<1>1. req[r].key \in Keys /\ t \in Tenants /\ ~ Barred(req[r].route)
    BY <1>0, PipelineAssumption DEF ExtractTenant, Skips, Barred, PipelineAssumption
<1>2. x \in RequestStates
    <2>1. [req[r] EXCEPT !.step = @ + 1] \in RequestStates
        BY <1>0 DEF RequestStates
    <2> QED
        BY <1>1, <2>1 DEF RequestStates
<1>3. req' = [req EXCEPT ![r] = x]
    BY <1>0 DEF ExtractTenant
<1>4. ~ Passed(x, "limit") /\ x.charged = None /\ x.status = req[r].status
    BY <1>0 DEF Passed, RequestStates, Sound
<1>5. Sound(x)
    BY <1>0, <1>1, <1>4 DEF Sound, RequestStates
<1> QED
    BY <1>2, <1>3, <1>5, OneMoves DEF ExtractTenant

LEMMA ExtractFailMoves ==
    ASSUME PipelineInv, NEW r \in Requests, ExtractFail(r)
    PROVE  PipelineInv'
<1>0. /\ req[r] \in RequestStates /\ Sound(req[r]) /\ req[r].pc = "chain"
      /\ req[r].acts = None /\ req[r].step = 1
      /\ req[r].route.chain[1] = "tenant" /\ Len(req[r].route.chain) \in 0..3
      /\ req[r].route \notin TaskRoutes
    BY AtShape DEF ExtractFail
<1> DEFINE t == TenantOf[req[r].key]
           x == [req[r] EXCEPT !.tenant = t, !.status = 500, !.pc = "answer"]
<1>1. req[r].key \in Keys /\ t \in Tenants /\ ~ Barred(req[r].route)
    BY <1>0, PipelineAssumption DEF ExtractFail, Skips, Barred, PipelineAssumption
<1>2. x \in RequestStates
    <2> DEFINE y == [req[r] EXCEPT !.tenant = t]
               z == [y EXCEPT !.status = 500]
    <2>1. y \in RequestStates
        BY <1>0, <1>1 DEF RequestStates
    <2>2. 500 \in Statuses
        BY DEF Statuses, ErrorStatus
    <2>3. z \in RequestStates
        <3> HIDE DEF y
        <3> QED
            BY <2>1, <2>2 DEF RequestStates
    <2>4. [z EXCEPT !.pc = "answer"] \in RequestStates
        <3> HIDE DEF z
        <3> QED
            BY <2>3 DEF RequestStates
    <2>5. x = [z EXCEPT !.pc = "answer"]
        BY <1>0 DEF RequestStates
    <2> QED
        BY <2>4, <2>5
<1>3. req' = [req EXCEPT ![r] = x]
    <2>1. ErrorStatus["other"] = 500
        BY DEF ErrorStatus
    <2>2. req' = [req EXCEPT ![r].tenant = t, ![r].status = 500, ![r].pc = "answer"]
        BY <2>1 DEF ExtractFail
    <2>3. req \in [Requests -> RequestStates]
        BY DEF PipelineInv, TypeOK
    <2> HIDE DEF t
    <2>4. req'[r] = x /\ req' \in [Requests -> {req'[s] : s \in Requests}]
        BY <2>2, <2>3
    <2>5. \A s \in Requests : s # r => req'[s] = req[s]
        BY <2>2, <2>3
    <2> HIDE DEF x
    <2> QED
        BY <2>3, <2>4, <2>5
<1>4. ~ Passed(x, "limit") /\ x.charged = None
    BY <1>0 DEF Passed, RequestStates, Sound
<1>5. Sound(x)
    BY <1>0, <1>1, <1>4 DEF Sound, RequestStates, Behind
<1>6. records' = records /\ UNCHANGED <<redis, now, finished>>
    BY DEF ExtractFail
<1> HIDE DEF x
<1> QED
    BY <1>2, <1>3, <1>5, <1>6, OneMoves

LEMMA LimitMoves ==
    ASSUME PipelineInv, NEW r \in Requests, Limit(r)
    PROVE  PipelineInv'
<1>0. /\ AtMiddleware(r, "limit") /\ UNCHANGED <<records, redis, now, finished>>
      /\ req[r] \in RequestStates /\ Sound(req[r]) /\ req[r].pc = "chain"
      /\ req[r].acts = None /\ req[r].step \in 1..3 /\ Len(req[r].route.chain) \in 0..3
    BY AtShape DEF Limit
<1>1. CASE Throw(r, "tooMany")
    BY <1>0, <1>1, ThrowMoves DEF ErrorStatus, Behind
<1>2. CASE req' = [req EXCEPT ![r].step = @ + 1, ![r].charged = Identifier(r)]
    <2> DEFINE x == [req[r] EXCEPT !.step = @ + 1, !.charged = Identifier(r)]
    <2>1. Identifier(r) = Charge(req[r]) /\ Identifier(r) \in Identities
        BY <1>0 DEF Identifier, Charge, Identities, RequestStates
    <2>2. x \in RequestStates
        <3>1. [req[r] EXCEPT !.step = @ + 1] \in RequestStates
            BY <1>0 DEF RequestStates
        <3> QED
            BY <2>1, <3>1 DEF RequestStates
    <2>3. req' = [req EXCEPT ![r] = x]
        BY <1>2
    <2>4. x.charged = Charge(x) /\ x.charged # None
        BY <1>0, <2>1, PipelineAssumption DEF Charge, RequestStates, Identities, PipelineAssumption
    <2>5. Sound(x)
        BY <1>0, <2>4 DEF Sound, RequestStates
    <2> QED
        BY <1>0, <2>2, <2>3, <2>5, OneMoves
<1> QED
    BY <1>1, <1>2 DEF Limit

-----------------------------------------------------------------------------
(* The handler is entered behind all middlewares and calls its service     *)
(* when its checks have passed.                                            *)
LEMMA HandlerMoves ==
    ASSUME PipelineInv, NEW r \in Requests, EnterHandler(r) \/ CallService(r) \/ ReadCount(r)
    PROVE  PipelineInv'
<1>0. /\ req[r] \in RequestStates /\ Sound(req[r]) /\ req[r].route \in Routes
      /\ UNCHANGED <<redis, now, finished>>
    BY DEF PipelineInv, TypeOK, RequestStates, EnterHandler, CallService, ReadCount
<1>1. CASE EnterHandler(r)
    <2>1. CASE req[r].route.handler = "none"
        BY <1>1, <2>1, AnswerMoves DEF EnterHandler, Statuses, ErrorStatus, Behind
    <2>2. CASE req[r].route.handler # "none"
        <3> DEFINE x == [req[r] EXCEPT !.pc = "handler"]
        <3>1. x \in RequestStates /\ req' = [req EXCEPT ![r] = x]
            BY <1>0, <1>1, <2>2 DEF EnterHandler, RequestStates
        <3>2. Sound(x)
            BY <1>0, <1>1, <2>2 DEF EnterHandler, Sound, RequestStates, Charge, Passed, Behind
        <3> QED
            BY <1>0, <1>1, <3>1, <3>2, OneMoves DEF EnterHandler
    <2> QED
        BY <2>1, <2>2
<1>2. CASE CallService(r)
    <2> DEFINE x == [req[r] EXCEPT !.pc = "service", !.acts = req[r].tenant]
    <2>1. x \in RequestStates
        <3>1. [req[r] EXCEPT !.pc = "service"] \in RequestStates
            BY <1>0 DEF RequestStates
        <3> QED
            BY <1>0, <3>1 DEF RequestStates
    <2>2. req' = [req EXCEPT ![r] = x]
        BY <1>2 DEF CallService, ActsFor
    <2>3. /\ req[r].pc = "handler"
          /\ HandlerOf(req[r].route).owner => req[r].key \in Owners
          /\ HandlerOf(req[r].route).tenant => req[r].tenant # None
        BY <1>2 DEF CallService, OwnerFails, NoTenant, Handler
    <2>4. ~ Barred(req[r].route)
        BY <1>0, <2>3, RoutesShape DEF Sound
    <2>5. Sound(x)
        BY <1>0, <2>3, <2>4 DEF Sound, RequestStates, Charge, Passed, Behind
    <2> QED
        BY <1>0, <1>2, <2>1, <2>2, <2>5, OneMoves DEF CallService
<1>3. CASE ReadCount(r)
    <2> DEFINE n == Cardinality(records')
               x == [req[r] EXCEPT !.pc = "service", !.count = n]
    <2>1. records' \subseteq records /\ n \in Nat
        BY <1>3, FS_Subset, FS_CardinalityType DEF ReadCount, Cleanup, PipelineInv, TypeOK
    <2>2. x \in RequestStates
        <3> HIDE DEF n
        <3>1. [req[r] EXCEPT !.pc = "service"] \in RequestStates
            BY <1>0 DEF RequestStates
        <3> QED
            BY <2>1, <3>1 DEF RequestStates
    <2>3. req' = [req EXCEPT ![r] = x]
        BY <1>3 DEF ReadCount
    <2>4. req[r].pc = "handler" /\ ~ Barred(req[r].route)
        BY <1>0, <1>3, RoutesShape DEF ReadCount
    <2>5. Sound(x)
        <3> HIDE DEF n
        <3> QED
            BY <1>0, <2>4 DEF Sound, RequestStates, Charge, Passed, Behind
    <2> QED
        BY <1>0, <2>1, <2>2, <2>3, <2>5, OneMoves
<1> QED
    BY <1>1, <1>2, <1>3
-----------------------------------------------------------------------------
LEMMA ServiceMoves ==
    ASSUME PipelineInv, NEW r \in Requests,
           \/ ServiceAnswers(r) \/ QueueMail(r) \/ AnswerHealth(r) \/ AnswerMetrics(r)
           \/ ServiceTells(r)
    PROVE  PipelineInv'
<1>0. /\ req[r] \in RequestStates /\ Sound(req[r]) /\ req[r].route \in Routes
      /\ UNCHANGED <<redis, now, finished>>
      /\ req[r].pc \in {"service", "mail"} /\ req[r].pc \in Behind
    BY DEF PipelineInv, TypeOK, RequestStates, ServiceAnswers, QueueMail, AnswerHealth,
           AnswerMetrics, ServiceTells, Behind
<1>1. CASE ServiceAnswers(r) \/ QueueMail(r)
    <2>1. req[r].route.handler # "none"
        BY <1>0 DEF Sound
    <2>2. Handler(r).ok \in {200, 201}
        BY <1>0, <2>1, RoutesShape DEF Handler
    <2> QED
        BY <1>0, <1>1, <2>2, AnswerMoves DEF ServiceAnswers, QueueMail, Statuses
<1>2. CASE AnswerHealth(r)
    BY <1>0, <1>2, AnswerMoves DEF AnswerHealth, Statuses
<1>3. CASE AnswerMetrics(r)
    <2>1. records' \subseteq records
        BY <1>3 DEF AnswerMetrics, Cleanup
    <2> QED
        BY <1>0, <1>3, <2>1, AnswerMoves DEF AnswerMetrics, Statuses
<1>4. CASE ServiceTells(r)
    <2> DEFINE x == [req[r] EXCEPT !.pc = "mail"]
    <2>1. x \in RequestStates /\ req' = [req EXCEPT ![r] = x]
        BY <1>0, <1>4 DEF ServiceTells, RequestStates
    <2>2. Sound(x)
        BY <1>0, <1>4 DEF ServiceTells, Sound, RequestStates, Charge, Passed, Behind
    <2> QED
        BY <1>0, <1>4, <2>1, <2>2, OneMoves DEF ServiceTells
<1> QED
    BY <1>1, <1>2, <1>3, <1>4

(* Everything that ends a request with an error.                           *)
LEMMA RefusalMoves ==
    ASSUME PipelineInv, NEW r \in Requests,
           ExtractReject(r) \/ LimitFail(r) \/ Refuse(r) \/ ServiceThrows(r)
    PROVE  PipelineInv'
<1>0. /\ req[r] \in RequestStates /\ Sound(req[r]) /\ req[r].route \in Routes
      /\ UNCHANGED <<records, redis, now, finished>> /\ req[r].pc \in Behind
    BY DEF PipelineInv, TypeOK, RequestStates, ExtractReject, LimitFail, Refuse,
           ServiceThrows, AtMiddleware, Behind
<1>1. \E error \in DOMAIN ErrorStatus : Throw(r, error)
    <2>1. CASE ExtractReject(r) \/ LimitFail(r)
        BY <2>1 DEF ExtractReject, LimitFail, ErrorStatus
    <2>2. CASE ServiceThrows(r)
        BY <2>2 DEF ServiceThrows, ServiceErrors, ErrorStatus
    <2>3. CASE Refuse(r)
        <3>1. CASE GuardFails(r)
            <4>1. Throw(r, Handler(r).guard) /\ Handler(r).guard # "none" /\ req[r].pc = "handler"
                BY <2>3, <3>1 DEF Refuse, GuardFails
            <4>2. Handler(r).guard \in {"unauthorized", "forbidden"}
                BY <1>0, <4>1, RoutesShape DEF Sound, Handler
            <4> QED
                BY <4>1, <4>2 DEF ErrorStatus
        <3>2. CASE ~ GuardFails(r)
            BY <2>3, <3>2 DEF Refuse, ErrorStatus
        <3> QED
            BY <3>1, <3>2
    <2> QED
        BY <2>1, <2>2, <2>3
<1> QED
    BY <1>0, <1>1, ThrowMoves

LEMMA EdgeMoves ==
    ASSUME PipelineInv, NEW r \in Requests,
           Ask(r) \/ RefuseBody(r) \/ StartTracking(r) \/ Finish(r) \/ HangUp(r)
    PROVE  PipelineInv'
<1>0. /\ req[r] \in RequestStates /\ Sound(req[r]) /\ TypeOK
    BY DEF PipelineInv, TypeOK
<1>1. CASE Ask(r)
    <2>1. PICK route \in Wanted[r], k \in Keys \cup {"internal", None},
               named \in Tenants \cup {None} :
             req' = [req EXCEPT ![r] = [Fresh("body") EXCEPT
                        !.route = route, !.key = k, !.names = named]]
        <3>1. \A route \in Wanted[r] : KeysFor(route) \subseteq Keys \cup {"internal", None}
            BY DEF KeysFor
        <3> QED
            BY <1>1, <3>1 DEF Ask
    <2> DEFINE x == [Fresh("body") EXCEPT !.route = route, !.key = k, !.names = named]
    <2>2. route \in Routes /\ Fresh("body") \in RequestStates
        BY <2>1, FreshSound, WantedAssumption DEF WantedAssumption
    <2>3. x \in RequestStates
        <3>1. [Fresh("body") EXCEPT !.route = route] \in RequestStates
            BY <2>2 DEF RequestStates
        <3> QED
            BY <3>1 DEF RequestStates
    <2>4. /\ x.pc = "body" /\ x.step = 1 /\ x.tenant = None /\ x.charged = None
          /\ x.acts = None /\ x.status = None /\ x.route = route
          /\ ~ x.refused /\ ~ x.tracked
        BY DEF Fresh
    <2>5. Sound(x)
        <3>1. Len(route.chain) \in 0..3
            BY <2>2, RoutesShape, ChainsShape
        <3> HIDE DEF x
        <3> QED
            BY <2>4, <3>1, PipelineAssumption DEF Sound, Passed, Behind, PipelineAssumption
    <2> QED
        BY <1>1, <2>1, <2>3, <2>5, OneMoves DEF Ask
<1>2. CASE StartTracking(r)
    <2> DEFINE x == [req[r] EXCEPT !.pc = "chain", !.tracked = TRUE]
    <2>1. x \in RequestStates
        <3>1. [req[r] EXCEPT !.pc = "chain"] \in RequestStates
            BY <1>0 DEF RequestStates
        <3> QED
            BY <3>1 DEF RequestStates
    <2>2. req' = [req EXCEPT ![r] = x]
        BY <1>2 DEF StartTracking
    <2>3. Sound(x)
        BY <1>0, <1>2 DEF StartTracking, Sound, RequestStates, Charge, Passed
    <2> QED
        BY <1>2, <2>1, <2>2, <2>3, OneMoves DEF StartTracking
<1>3. CASE HangUp(r)
    BY <1>3, FreshSound, OneMoves DEF HangUp
<1>4. CASE Finish(r)
    <2> DEFINE new == [by |-> r, at |-> now, tenant |-> req[r].tenant]
    <2>1. /\ req' = [req EXCEPT ![r] = Fresh("done")] /\ UNCHANGED <<redis, now>>
          /\ records' \subseteq records \cup {new}
          /\ finished' \subseteq
                 finished \cup {[by |-> r, at |-> now, refused |-> req[r].refused]}
        BY <1>4 DEF Finish, Cleanup
    <2>2. /\ now \in Nat /\ new \in [by : Requests, at : Nat, tenant : Tenants \cup {None}]
          /\ [by |-> r, at |-> now, refused |-> req[r].refused]
                 \in [by : Requests, at : Nat, refused : BOOLEAN]
        BY <1>0, PipelineAssumption DEF TypeOK, RequestStates, PipelineAssumption
    <2>3. IsFiniteSet(records')
        <3>1. IsFiniteSet(records \cup {new})
            BY <1>0, FS_AddElement DEF TypeOK
        <3> HIDE DEF new
        <3> QED
            BY <2>1, <3>1, FS_Subset
    <2>4. req' \in [Requests -> RequestStates]
        BY <1>0, <2>1, FreshSound DEF TypeOK
    <2>5. TypeOK'
        <3> HIDE DEF new
        <3> QED
            BY <1>0, <2>1, <2>2, <2>3, <2>4 DEF TypeOK
    <2>6. ASSUME NEW s \in Requests, NEW y, y = req'[s] PROVE Sound(y)
        BY <1>0, <2>1, <2>6, FreshSound DEF PipelineInv, TypeOK
    <2> QED
        BY <2>5, <2>6 DEF PipelineInv
<1>5. CASE RefuseBody(r)
    <2>1. PICK e \in {"validation", "tooLarge"} :
             req' = [req EXCEPT ![r].refused = TRUE, ![r].status = ErrorStatus[e],
                                ![r].pc = "answer"]
        BY <1>5 DEF RefuseBody
    <2> DEFINE st == ErrorStatus[e]
               y == [req[r] EXCEPT !.refused = TRUE]
               z == [y EXCEPT !.status = st]
               x == [z EXCEPT !.pc = "answer"]
    <2>2. st \in Statuses /\ st \notin {200, 201}
        BY DEF Statuses, ErrorStatus
    <2>3. req[r].pc = "body"
        BY <1>5 DEF RefuseBody
    <2>4. x \in RequestStates
        <3>1. y \in RequestStates
            BY <1>0 DEF RequestStates
        <3>2. z \in RequestStates
            <4> HIDE DEF y, st
            <4> QED
                BY <2>2, <3>1 DEF RequestStates
        <3> HIDE DEF z
        <3> QED
            BY <3>2 DEF RequestStates
    <2>5. req' = [req EXCEPT ![r] = x]
        <3> HIDE DEF st
        <3> QED
            BY <1>0, <2>1 DEF TypeOK, RequestStates, st
    <2>6. Sound(x)
        <3> HIDE DEF st
        <3> QED
            BY <1>0, <2>2, <2>3 DEF Sound, RequestStates, Charge, Passed, Behind
    <2> HIDE DEF x
    <2> QED
        BY <1>5, <2>4, <2>5, <2>6, OneMoves DEF RefuseBody
<1> QED
    BY <1>1, <1>2, <1>3, <1>4, <1>5

-----------------------------------------------------------------------------
(* The invariant holds at first and after every step.                      *)
LEMMA PipelineInvariant == Spec => []PipelineInv
<1>1. Init => PipelineInv
    <2> SUFFICES ASSUME Init PROVE PipelineInv
        OBVIOUS
    <2>1. TypeOK
        BY FreshSound, FS_EmptySet, PipelineAssumption DEF Init, TypeOK, PipelineAssumption
    <2> QED
        BY <2>1, FreshSound DEF Init, PipelineInv
<1>2. PipelineInv /\ [Next]_vars => PipelineInv'
    <2> SUFFICES ASSUME PipelineInv, [Next]_vars PROVE PipelineInv'
        OBVIOUS
    <2>1. CASE UNCHANGED vars
        BY <2>1 DEF vars, PipelineInv, TypeOK
    <2>2. CASE RedisChanges \/ Tick
        <3>1. redis' \in BOOLEAN
            BY <2>2 DEF RedisChanges, Tick, PipelineInv, TypeOK
        <3>2. now' \in 0..MaxNow
            BY <2>2, PipelineAssumption
               DEF RedisChanges, Tick, PipelineInv, TypeOK, PipelineAssumption
        <3>3. TypeOK' /\ req' = req
            BY <2>2, <3>1, <3>2 DEF RedisChanges, Tick, PipelineInv, TypeOK
        <3> QED
            BY <3>3 DEF PipelineInv
    <2>3. ASSUME NEW r \in Requests, ExtractSkip(r) PROVE PipelineInv'
        BY <2>3, PassMoves DEF ExtractSkip
    <2>4. ASSUME NEW r \in Requests, VerifyInternalKey(r) PROVE PipelineInv'
        BY <2>4, PassMoves, ThrowMoves DEF VerifyInternalKey, ErrorStatus, AtMiddleware, Behind
    <2>5. ASSUME NEW r \in Requests, ReceiveFile(r) PROVE PipelineInv'
        BY <2>5, PassMoves, ThrowMoves DEF ReceiveFile, ErrorStatus, AtMiddleware, Behind
    <2> QED
        BY <2>1, <2>2, <2>3, <2>4, <2>5, ExtractMoves, ExtractFailMoves, LimitMoves, HandlerMoves,
           ServiceMoves, RefusalMoves, EdgeMoves DEF Next, Advance, ClientStep, RedisStep
<1> QED
    BY <1>1, <1>2, PTL DEF Spec

(* The variables of RequestPipeline keep their types.                      *)
THEOREM TypeCorrect == Spec => []TypeOK
<1>1. PipelineInv => TypeOK
    BY DEF PipelineInv
<1> QED
    BY <1>1, PipelineInvariant, PTL

(* A service acts for the tenant of the request's key, for owners only     *)
(* where it must.                                                          *)
THEOREM ActsForTheKey == Spec => []ActsForKeysTenant
<1>1. PipelineInv => ActsForKeysTenant
    BY DEF PipelineInv, Sound, ActsForKeysTenant, Handler
<1> QED
    BY <1>1, PipelineInvariant, PTL

(* The collection routes and the routes of tasks serve nobody.             *)
THEOREM NobodyServed == Spec => []CollectionsServeNobody
<1>1. PipelineInv => CollectionsServeNobody
    BY DEF PipelineInv, Sound, CollectionsServeNobody, Barred
<1> QED
    BY <1>1, PipelineInvariant, PTL

(* What runs behind the limiter has been counted for the tenant it acts    *)
(* for.                                                                    *)
THEOREM CountedFirst == Spec => []ServedIsCounted
<1>1. PipelineInv => ServedIsCounted
    <2> SUFFICES ASSUME PipelineInv, NEW r \in Requests, req[r].acts # None,
                        NEW i \in DOMAIN req[r].route.chain, req[r].route.chain[i] = "limit"
                 PROVE  req[r].charged = req[r].acts
        BY DEF ServedIsCounted
    <2>1. Sound(req[r]) /\ req[r].route \in Routes /\ req[r].step \in 1..4
        BY DEF PipelineInv, TypeOK, RequestStates
    <2>2. Len(req[r].route.chain) \in 0..3 /\ i \in 1..Len(req[r].route.chain)
        BY <2>1, RoutesShape, ChainsShape
    <2>3. Passed(req[r], "limit")
        BY <2>1, <2>2 DEF Sound, Passed
    <2> QED
        BY <2>1, <2>3 DEF Sound, Charge
<1> QED
    BY <1>1, PipelineInvariant, PTL

-----------------------------------------------------------------------------
(* The buffer of the tracker, as far as the window reaches, is the history *)
(* of answers, but for those of the body parser: each request is answered  *)
(* and recorded once, when it is over, and a record is dropped only when   *)
(* it is older than the window.                                            *)
Recorded(rec) == [by |-> rec.by, at |-> rec.at, refused |-> FALSE]

BufferIsHistory ==
    /\ \A f \in finished : req[f.by].pc = "done"
    /\ \A f, g \in finished : f.by = g.by => f = g
    /\ \A rec \in records : Recorded(rec) \in finished
    /\ \A a, b \in records : a.by = b.by => a = b
    /\ \A f \in finished : f.at >= now - Window /\ ~ f.refused
           => \E rec \in records : Recorded(rec) = f

BufferInv == PipelineInv /\ BufferIsHistory

(* What a step does to a request's state and count.                        *)
LEMMA StepEffect ==
    ASSUME PipelineInv, [Next]_vars, NEW s \in Requests
    PROVE  /\ req[s].pc = "done" => req'[s].pc = "done"
           /\ req'[s].count \in {req[s].count, None} \/ ReadCount(s)
<1>0. req \in [Requests -> RequestStates] /\ req[s] \in RequestStates
    BY DEF PipelineInv, TypeOK
<1>1. ASSUME NEW r \in Requests, NEW status, Answer(r, status), req[r].pc # "done"
      PROVE  /\ req[s].pc = "done" => req'[s].pc = "done"
             /\ req'[s].count = req[s].count
    BY <1>0, <1>1 DEF Answer, RequestStates
<1>2. ASSUME NEW r \in Requests, Finish(r) \/ HangUp(r)
      PROVE  /\ req[s].pc = "done" => req'[s].pc = "done"
             /\ req'[s].count \in {req[s].count, None}
    BY <1>0, <1>2 DEF Finish, HangUp, Fresh
<1>3. ASSUME NEW r \in Requests, Ask(r)
      PROVE  /\ req[s].pc = "done" => req'[s].pc = "done"
             /\ req'[s].count \in {req[s].count, None}
    BY <1>0, <1>3 DEF Ask, Fresh
<1>4. ASSUME NEW r \in Requests,
             \/ ExtractReject(r) \/ LimitFail(r) \/ Refuse(r) \/ ServiceThrows(r)
             \/ ServiceAnswers(r) \/ QueueMail(r) \/ AnswerHealth(r) \/ AnswerMetrics(r)
      PROVE  req[r].pc # "done" /\ \E status : Answer(r, status)
    BY <1>4 DEF ExtractReject, LimitFail, Refuse, ServiceThrows, ServiceAnswers, QueueMail,
                AnswerHealth, AnswerMetrics, Throw, AtMiddleware
<1>5. ASSUME NEW r \in Requests,
             \/ StartTracking(r) \/ ExtractSkip(r) \/ ExtractTenant(r) \/ CallService(r)
             \/ ServiceTells(r)
      PROVE  /\ req[s].pc = "done" => req'[s].pc = "done"
             /\ req'[s].count = req[s].count
    <2>1. CASE StartTracking(r)
        BY <1>0, <2>1 DEF StartTracking, RequestStates
    <2>2. CASE ExtractSkip(r)
        BY <1>0, <2>2 DEF ExtractSkip, RequestStates
    <2>3. CASE ExtractTenant(r)
        BY <1>0, <2>3 DEF ExtractTenant, RequestStates
    <2>4. CASE CallService(r)
        BY <1>0, <2>4 DEF CallService, RequestStates
    <2>5. CASE ServiceTells(r)
        BY <1>0, <2>5 DEF ServiceTells, RequestStates
    <2> QED
        BY <1>5, <2>1, <2>2, <2>3, <2>4, <2>5
<1>6. ASSUME NEW r \in Requests, ExtractFail(r)
      PROVE  /\ req[s].pc = "done" => req'[s].pc = "done"
             /\ req'[s].count = req[s].count
    BY <1>0, <1>6 DEF ExtractFail, AtMiddleware, RequestStates
<1>7. ASSUME NEW r \in Requests,
             VerifyInternalKey(r) \/ Limit(r) \/ ReceiveFile(r) \/ EnterHandler(r)
      PROVE  /\ req[s].pc = "done" => req'[s].pc = "done"
             /\ req'[s].count = req[s].count
    <2>1. CASE \E error : Throw(r, error) /\ req[r].pc = "chain"
        BY <1>1, <2>1 DEF Throw
    <2>2. CASE req' = [req EXCEPT ![r].step = @ + 1]
        BY <1>0, <2>2 DEF RequestStates
    <2>3. CASE req' = [req EXCEPT ![r].step = @ + 1, ![r].charged = Identifier(r)]
        BY <1>0, <2>3 DEF RequestStates
    <2>4. CASE EnterHandler(r)
        <3>1. CASE Answer(r, 404)
            BY <1>1, <2>4, <3>1 DEF EnterHandler
        <3>2. CASE req' = [req EXCEPT ![r].pc = "handler"]
            BY <1>0, <2>4, <3>2 DEF EnterHandler, RequestStates
        <3> QED
            BY <2>4, <3>1, <3>2 DEF EnterHandler
    <2> QED
        BY <1>7, <2>1, <2>2, <2>3, <2>4
        DEF VerifyInternalKey, Limit, ReceiveFile, AtMiddleware
<1>8. ASSUME NEW r \in Requests, ReadCount(r)
      PROVE  /\ req[s].pc = "done" => req'[s].pc = "done"
             /\ req'[s].count = req[s].count \/ s = r
    BY <1>0, <1>8 DEF ReadCount, RequestStates
<1>9. ASSUME NEW r \in Requests, RefuseBody(r)
      PROVE  /\ req[s].pc = "done" => req'[s].pc = "done"
             /\ req'[s].count = req[s].count
    BY <1>0, <1>9 DEF RefuseBody, RequestStates
<1>10. CASE UNCHANGED vars \/ RedisChanges \/ Tick
    BY <1>10 DEF vars, RedisChanges, Tick
<1> QED
    BY <1>1, <1>2, <1>3, <1>4, <1>5, <1>6, <1>7, <1>8, <1>9, <1>10
    DEF Next, Advance, ClientStep, RedisStep

(* What a step does to the buffer and the history.                         *)
LEMMA BufferEffect ==
    ASSUME [Next]_vars
    PROVE  \/ UNCHANGED <<records, now, finished>>
           \/ records' = Cleanup(records) /\ UNCHANGED <<now, finished>>
           \/ now' = now + 1 /\ UNCHANGED <<records, finished>>
           \/ \E r \in Requests : Finish(r)
<1>1. ASSUME NEW r \in Requests, Advance(r) \/ ClientStep(r) \/ RedisStep(r),
             ~ Finish(r), ~ ReadCount(r), ~ AnswerMetrics(r)
      PROVE  UNCHANGED <<records, now, finished>>
    BY <1>1 DEF Advance, ClientStep, RedisStep, Ask, HangUp, Limit, LimitFail, QueueMail,
                RefuseBody, StartTracking, ExtractSkip, ExtractReject, ExtractTenant, ExtractFail,
                VerifyInternalKey, ReceiveFile, EnterHandler, Refuse, CallService,
                ServiceAnswers, ServiceTells, ServiceThrows, AnswerHealth
<1>2. ASSUME NEW r \in Requests, ReadCount(r) \/ AnswerMetrics(r)
      PROVE  records' = Cleanup(records) /\ UNCHANGED <<now, finished>>
    BY <1>2 DEF ReadCount, AnswerMetrics
<1>3. CASE UNCHANGED vars \/ RedisChanges \/ Tick
    BY <1>3 DEF vars, RedisChanges, Tick
<1> QED
    BY <1>1, <1>2, <1>3 DEF Next

(* Under that invariant the records within the window are as many as the   *)
(* answers given within it, but for the body parser's.                     *)
LEMMA WindowCount ==
    ASSUME BufferInv
    PROVE  Cardinality(Cleanup(records))
               = Cardinality({f \in finished : f.at >= now - Window /\ ~ f.refused})
<1> DEFINE S == Cleanup(records)
           T == {f \in finished : f.at >= now - Window /\ ~ f.refused}
           F == [rec \in S |-> Recorded(rec)]
<1>1. IsFiniteSet(S)
    BY FS_Subset DEF BufferInv, PipelineInv, TypeOK, Cleanup
<1>2. \A rec \in S : Recorded(rec) \in T
    BY DEF BufferInv, BufferIsHistory, Cleanup, Recorded
<1>3. \A a, b \in S : Recorded(a) = Recorded(b) => a = b
    BY DEF BufferInv, BufferIsHistory, Cleanup, Recorded
<1>4. \A f \in T : \E rec \in S : Recorded(rec) = f
    BY DEF BufferInv, BufferIsHistory, Cleanup, Recorded
<1>5. F \in Bijection(S, T)
    <2> HIDE DEF S, T
    <2>1. /\ F \in [S -> T]
          /\ \A a, b \in S : F[a] = F[b] => a = b
          /\ \A f \in T : \E rec \in S : F[rec] = f
        BY <1>2, <1>3, <1>4
    <2> QED
        BY <2>1, Fun_IsBij
<1>6. ExistsBijection(S, T)
    BY <1>5 DEF ExistsBijection
<1> HIDE DEF S, T
<1>7. Cardinality(T) = Cardinality(S)
    BY <1>1, <1>6, FS_Bijection
<1> QED
    BY <1>7 DEF S, T

(* Every step keeps the buffer the history.                                *)
LEMMA StepBuffer ==
    ASSUME BufferInv, PipelineInv', [Next]_vars
    PROVE  BufferInv'
<1>0. /\ PipelineInv /\ now \in Nat /\ Window \in Nat /\ now' \in Nat
      /\ \A f \in finished : f.by \in Requests /\ f.at \in Nat
      /\ \A rec \in records : rec.by \in Requests /\ rec.at \in Nat
    BY PipelineAssumption DEF BufferInv, PipelineInv, TypeOK, PipelineAssumption
<1>2. \A s \in Requests : req[s].pc = "done" => req'[s].pc = "done"
    BY <1>0, StepEffect
<1>3. ASSUME records' \subseteq records, finished' = finished,
             \A f \in finished : f.at >= now' - Window /\ ~ f.refused =>
                 /\ f.at >= now - Window
                 /\ \A rec \in records : Recorded(rec) = f => rec \in records'
      PROVE  BufferIsHistory'
    <2>1. \A f \in finished' : req'[f.by].pc = "done"
        BY <1>0, <1>2, <1>3 DEF BufferInv, BufferIsHistory
    <2>2. \A f, g \in finished' : f.by = g.by => f = g
        BY <1>3 DEF BufferInv, BufferIsHistory
    <2>3. \A rec \in records' : Recorded(rec) \in finished'
        BY <1>3 DEF BufferInv, BufferIsHistory
    <2>4. \A a, b \in records' : a.by = b.by => a = b
        BY <1>3 DEF BufferInv, BufferIsHistory
    <2>5. \A f \in finished' :
             f.at >= now' - Window /\ ~ f.refused => \E rec \in records' : Recorded(rec) = f
        BY <1>0, <1>3 DEF BufferInv, BufferIsHistory
    <2> QED
        BY <2>1, <2>2, <2>3, <2>4, <2>5 DEF BufferIsHistory, Recorded
<1>4. ASSUME UNCHANGED <<records, now, finished>> PROVE BufferIsHistory'
    BY <1>3, <1>4
<1>5. ASSUME records' = Cleanup(records), UNCHANGED <<now, finished>>
      PROVE  BufferIsHistory'
    <2>1. \A f \in finished, rec \in records :
             f.at >= now - Window /\ Recorded(rec) = f => rec \in records'
        BY <1>5 DEF Cleanup, Recorded
    <2>2. records' \subseteq records
        BY <1>5 DEF Cleanup
    <2> QED
        BY <1>3, <1>5, <2>1, <2>2
<1>6. ASSUME now' = now + 1, UNCHANGED <<records, finished>>
      PROVE  BufferIsHistory'
    <2>1. \A f \in finished : f.at >= now' - Window => f.at >= now - Window
        BY <1>0, <1>6
    <2> QED
        BY <1>3, <1>6, <2>1
<1>7. ASSUME NEW r \in Requests, Finish(r) PROVE BufferIsHistory'
    <2> DEFINE new == [by |-> r, at |-> now, tenant |-> req[r].tenant]
               f0 == [by |-> r, at |-> now, refused |-> req[r].refused]
    <2>1. /\ \A f \in finished : f.by # r
          /\ \A rec \in records : rec.by # r
        BY <1>7 DEF Finish, BufferInv, BufferIsHistory, Recorded
    <2>2. req'[r].pc = "done" /\ finished' = finished \cup {f0} /\ now' = now
        BY <1>0, <1>7 DEF Finish, PipelineInv, TypeOK, Fresh
    <2>3. req[r].tracked = ~ req[r].refused /\ req[r].refused \in BOOLEAN
        BY <1>0, <1>7 DEF Finish, PipelineInv, Sound, TypeOK, RequestStates
    <2>4. f0.by = r /\ f0.at = now /\ f0.refused = req[r].refused
        OBVIOUS
    <2>5. /\ ~ f0.refused => new \in records' /\ Recorded(new) = f0
          /\ new.by = r
          /\ \A rec \in records' : rec \in records \/ (rec = new /\ Recorded(rec) = f0)
          /\ \A rec \in records : rec.at >= now - Window => rec \in records'
        <3>1. new.by = r /\ new.at = now /\ now >= now - Window
            BY <1>0
        <3>2. CASE req[r].refused = TRUE
            <4>1. records' = records
                BY <1>7, <2>3, <3>2 DEF Finish
            <4> QED
                BY <3>1, <3>2, <4>1
        <3>3. CASE req[r].refused = FALSE
            <4>1. records' = Cleanup(records \cup {new}) /\ Recorded(new) = f0
                BY <1>7, <2>3, <3>1, <3>3 DEF Finish, Recorded
            <4> HIDE DEF new, f0
            <4> QED
                BY <3>1, <4>1 DEF Cleanup
        <3> QED
            BY <2>3, <3>2, <3>3
    <2> HIDE DEF new, f0
    <2>6. \A f \in finished' : req'[f.by].pc = "done"
        BY <1>0, <1>2, <2>2, <2>4 DEF BufferInv, BufferIsHistory
    <2>7. \A f, g \in finished' : f.by = g.by => f = g
        BY <2>1, <2>2, <2>4 DEF BufferInv, BufferIsHistory
    <2>8. \A rec \in records' : Recorded(rec) \in finished'
        BY <2>2, <2>5 DEF BufferInv, BufferIsHistory
    <2>9. \A a, b \in records' : a.by = b.by => a = b
        BY <2>1, <2>5 DEF BufferInv, BufferIsHistory
    <2>10. \A f \in finished' : f.at >= now' - Window /\ ~ f.refused
               => \E rec \in records' : Recorded(rec) = f
        <3>1. \A f \in finished : f.at >= now - Window /\ ~ f.refused
                  => \E rec \in records : Recorded(rec) = f /\ rec.at = f.at
            BY DEF BufferInv, BufferIsHistory, Recorded
        <3> QED
            BY <2>2, <2>5, <3>1
    <2> QED
        BY <2>6, <2>7, <2>8, <2>9, <2>10 DEF BufferIsHistory, Recorded
<1>8. BufferIsHistory'
    BY <1>4, <1>5, <1>6, <1>7, BufferEffect
<1> QED
    BY <1>8 DEF BufferInv

(* The count reported is that of the answers given within the window, but  *)
(* for those of the body parser.                                           *)
THEOREM CountsTheWindow == Spec => ReportsWindow
<1>1. Init /\ PipelineInv => BufferInv
    BY DEF Init, BufferInv, BufferIsHistory
<1>2. BufferInv /\ PipelineInv' /\ [Next]_vars => BufferInv'
    BY StepBuffer
<1> DEFINE Reports ==
        \A r \in Requests :
          req'[r].count # req[r].count /\ req'[r].count # None
              => req'[r].count = Cardinality({f \in finished : /\ f.at >= now - Window
                                                               /\ ~f.refused})
<1>3. ASSUME BufferInv, [Next]_vars PROVE Reports
    <2> SUFFICES ASSUME NEW r \in Requests,
                        req'[r].count # req[r].count, req'[r].count # None
                 PROVE  req'[r].count
                            = Cardinality({f \in finished : f.at >= now - Window /\ ~f.refused})
        OBVIOUS
    <2>1. ReadCount(r)
        BY <1>3, StepEffect DEF BufferInv
    <2>2. req'[r].count = Cardinality(Cleanup(records))
        BY <1>3, <2>1 DEF ReadCount, BufferInv, PipelineInv, TypeOK, RequestStates
    <2> QED
        BY <1>3, <2>2, WindowCount
<1>4. Spec => [][Reports]_vars
    <2> HIDE DEF Reports
    <2>1. BufferInv /\ [Next]_vars => [Reports]_vars
        BY <1>3
    <2> QED
        BY <1>1, <1>2, <2>1, PipelineInvariant, PTL DEF Spec
<1> QED
    BY <1>4 DEF ReportsWindow
=============================================================================
