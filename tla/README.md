# Formal models of the multi-tenant project management backend

TLA+ specifications of the server in `src/src`, model-checked with TLC on small
instances, and proved with TLAPS where a statement matters for every size.
The server is an Express application over PostgreSQL (Prisma) and Redis. Node
runs one callback at a time, so what interleaves is the code *between* awaits:
every database or Redis command is a step of a request, and any number of
requests may stand between two of their steps. That is the granularity of all
models here.

## 1. Inventory

| component | state | operations | talks to |
|---|---|---|---|
| **Audit trail** `utils/audit.utils.ts` | table `AuditLog`: a hash chain per tenant | `createAuditLog`, `verifyAuditChain`, `queryAuditLogs` | every service calls it after its own write, `registerTenant` and `createWorkspace` inside a transaction |
| **API keys** `modules/auth/auth.service.ts`, `middlewares/tenantExtractor.middleware.ts`, `utils/crypto.ts` | table `ApiKey`: current hash, old hash and its expiry, active flag | `generateApiKey`, `rotateApiKey`, `revokeApiKey`, `listApiKeys`; `extractTenantFromApiKey` on each request | audit trail; gives all other components the tenant of a request |
| **Registration** `auth.service.ts` | `Tenant`, `User` | `registerTenant` | API keys, audit trail; its controller queues the welcome mail |
| **Workspaces** `modules/workspace` | `Workspace`, `WorkspaceMember` | create, update, archive, list, add/remove member, change role | projects (archives them), audit trail, e-mail queue |
| **Projects** `modules/project` | `Project`, `ProjectMember` | create, update, archive (delete is an archive), list, members and roles | workspaces, audit trail |
| **Tasks** `modules/task` | `Task` with its assignee | create, update, assign (or clear the assignee), list, delete | projects' workspaces (membership), audit trail |
| **Files** `services/file.service.ts` | files on disk and table `File` | upload, list, download, delete | audit trail |
| **Rate limiter** `utils/rateLimiter.ts`, `middlewares/rateLimit.middleware.ts` | Redis sorted sets (global, endpoint, burst) with an expiry, one warning key per tenant | `checkLimit` | reads the tenant set by the extractor; queues warning mails |
| **E-mail queue** `queues/email.queue.ts`, `services/email.service.ts` | Bull queue, dead-letter queue, delivery log | queue, process, retry, give up, retry by hand | fed by registration, key rotation, workspace invitations, rate limiter |
| **Request pipeline** `routes`, `modules/*/*.routes.ts`, controllers, `middlewares/error.middleware.ts` | none but the request's | extractor, limiter, authorisation, validation and handler, in the order of the route | everything |
| **Response tracker, health, metrics** `middlewares/responseTracker.middleware.ts`, `controllers/health.controller.ts` | buffer of the requests of the last 60 seconds | record, report | reads database, Redis and queues |
| **Server lifecycle** `server.ts`, `config` | listening, draining, closed | start, SIGTERM/SIGINT | closes queues, Redis, Prisma |
| **Seed, schema, migrations** | unique indexes, append-only triggers on the audit log | – | relied on by all |

**What is hard here.** Nothing takes a lock and few handlers use a transaction:
they read, decide and write in separate statements, so a decision may be stale
when it is written. Several components keep an order (the chain of audit
entries, the sliding window, the two lookups of a secret) that concurrent
requests can disturb. Failures between two statements leave half of an
operation behind. The clock is read once and used several awaits later.
`PROJECT.json` lists every such place, under `hazards`, with its line and the
property that watches it, or the reason why none does.

**What makes each component correct.**
*Audit trail*: an entry describes something that happened, links to an earlier
entry of its own tenant, and the entries of a tenant form one line that
verification accepts. *API keys*: a request acts for the tenant its secret was
issued to; a valid secret is never refused; a revoked key stays revoked; a
rotated key works through its grace period and no longer. *Workspaces*: members
belong to the workspace's tenant, names are unique per tenant, there is always
an owner, archiving touches the projects of its own tenant only. *Rate limiter*: no window admits
more than the limit, nobody is refused below it, one warning an hour. *E-mail
queue*: a queued mail ends up sent or dead-lettered, and not sent twice.
*Files*: what is listed is on the disk, and disk and table agree unless
something fails. *Projects, tasks*: members and assignees are of the tenant, a
project keeps an owner. *Registration*: an address belongs to one account, and
the welcome mail is queued. *Request pipeline*: a service acts for the tenant
of the request's key, after the request was counted, and every request is
answered. *Listings*: each row is shown once, newest first, none is left out,
and the client comes to an end.

## 2. Modules

| module | models | extends / instantiates |
|---|---|---|
| `AuditChain` | `createAuditLog` as its callers drive it, `verifyAuditChain` | instance `Chain` of `HashChain` |
| `HashChain` | abstract: one line of entries per tenant, append only | – |
| `ApiKeys` | issue, rotate, revoke; the two lookups of the tenant extractor | – |
| `Workspaces` | every state-changing handler of `workspace.service.ts` | instances of `OwnedGroup` and `Tenancy` |
| `OwnedGroup` | abstract: founding, joining, leaving, never the last owner | – |
| `Tenancy` | abstract: a workspace is of one tenant, and only its users join | – |
| `Actors` | the users, tenants and project ids that `Projects` and `Tasks` are about | – |
| `Projects` | every state-changing handler of `project.service.ts` | extends `Actors`; instance of `OwnedGroup` |
| `Tasks` | every state-changing handler of `task.service.ts` | extends `Actors`; instance of `Tenancy`, whose steps it interleaves |
| `Files` | upload, delete and download of `file.service.ts`, disk and table | – |
| `RateLimiter` | middleware and `checkLimit`, one Redis command a step | – |
| `EmailQueue` | Bull's jobs, the event handlers, the dead-letter queue, the delivery log, crashes, shutdown, restart | instance of `Delivery` |
| `Delivery` | abstract: a mail taken is sent or dead in the end; when it may be lost | – |
| `Registration` | `registerTenant` and its controller | – |
| `Onboarding` | registrations, the mails they queue, the process both run in | extends `EmailQueue`; instance of `Registration` |
| `RequestPipeline` | every route and middleware, the checks of the controllers, the error handler, health and metrics | – |
| `Listings` | the five paged listings | – |
| `MCAuditChain`, `MCApiKeys`, `MCWorkspaces`, `MCRateLimiter`, `MCProjects`, `MCTasks`, `MCFiles`, `MCRequestPipeline`, `MCListings` | values for TLC | the module they name |
| `AuditChainProofs`, `ApiKeysProofs`, `WorkspacesProofs`, `RateLimiterProofs`, `RequestPipelineProofs` | theorems | extend the module they name, `TLAPS` |
| `ProjectsProofs` | theorems about projects and their tasks | extends `Projects`, `Tasks`, `TLAPS` |
| `FilesProofs` | theorems about the files, and about the listings of files and of everything else | extends `Files`, `Listings`, `TLAPS` |
| `EmailQueueProofs` | theorems about the queue, the registrations that feed it, and the process | extends `Onboarding`, `TLAPS` |

`PROJECT.json` (`map`) gives the source lines of every definition. A request is
a record (or a row of several functions) whose `pc` names the statement that is
due; the action of that name is the statement. In the larger modules a request
is one-shot; in `Projects`, `Tasks` and `Files` a *slot* serves one request
after the other, which bounds the requests in flight and not their number. A
definition that starts with the comment "Mutant of X" is a plausible mistake in
X. No action uses it; it documents, for each property, a change of the code
that the property catches.

### How state and actions correspond to the code

**AuditChain.** `log` holds the committed rows; `Create` is the insert as its
session sees it. For a plain client it is visible at once, for a transaction at
`Commit`. `ReadPrevious` is the `findFirst`, ordered by `createdAt` descending:
rows of the same millisecond may come in any order. `Stamp` is `new Date()`,
after the answer has arrived. `Create` meets the unique index on `currentHash`:
a committed twin makes it fail, an uncommitted one makes it wait. `Fail` is any
rejected await or the end of the process; a transaction rolls back, a plain
write stays. SHA-256 is injective (`Hash` is a pair). The serialised content is
the function of the fields `JSON.stringify` prints, so an absent field is
missing when the entry is created (`undefined`) and present when it is verified
(`null`). `oldValue` and `newValue` are JSONB: a row holds what the table gives
back (`Stored`), objects whose keys are in PostgreSQL's order (`JsonB`) and not
in the caller's, while the hash was taken of what the caller passed. An object
is the sequence of its keys, by their place in that order. `by`, in a row, is
history: the request the row comes from.

**ApiKeys.** An Argon2 hash is the secret it was made from. A rotation is three
steps, `RotateRead`, `RotateHash` (where `graceExpiresAt` is computed) and
`RotateStore`; the old hash is the one that was *read*. `Answer` hands the new
secret to the caller. `ReadActive` and `ReadGrace` are the two queries of
`extractTenantFromApiKey`. `steady` is history: whether a secret has been valid
ever since the request began.

**Workspaces.** `role[w][u]` is the member table. `Authorise` is the check the
handlers share, `findUnique` on workspace and user; then each handler has its
own steps. `UpdateStore` writes the tenant, as the code does. A name is free
text and a number of `[ARCHIVED] ` prefixes, which the user may have typed
(`TypedNames`) or archiving has put there; archiving twice prefixes twice.
`live[w]` are the tenants with an active project in w, where `CreateProject`
puts projects of any tenant, because `createProject` does not look the
workspace up; `ArchiveProjects` archives those of the caller's tenant, and
`archived[w]` is the history of whose it has archived. Only users for whom an
API key exists act (`Callers`).

**Projects.** Every call but the creation starts with `getProject`: one query
whose answer, members and all, is the request's `owners` count and the caller's
right, used two or three statements later. The member rows have ids of their
own; `updateMemberRole` and `removeMember` find the row and then write by its
id, so a row that has gone makes the write fail. Deleting a project is
`archiveProject`. A creation takes two steps, and a failure in between leaves a
project without members.

**Tasks.** Each handler looks up the project in the caller's tenant, then the
caller's membership, then the task, then (for an assignment) the assignee's
membership, and writes by the task's id. Membership is not that of one
implementation: the module contains the steps of `Tenancy`, and `Workspaces` is
shown to implement it, so that tasks are checked against anything workspaces
may do. `joined` is history. `placed` is the Project table, as far as it says
where a project is. A new project may be in *any* workspace, because
`createProject` does not look the workspace up. `Projects` and `Tasks` can be
extended by one module: they share the users and project ids of `Actors` and no
other name.

**Files.** `disk[f]` is nothing, a part of the file or the whole of it; `row[f]`
the row. `writeFile` may stop half-way. `unlink` of a deletion ignores every
error, as the code does. A download looks for the file
(`existsSync`), the controller opens it later, and what it found at that moment is what it sends,
because a file that is unlinked while open stays readable. Names are random and
drawn once.

**RateLimiter.** A sorted set is the set of requests that were added to it,
whose score is the time they began (`at`, the one reading of the clock).
`Purge`, `Count`, `Add`, `Expire` are the four commands of
`checkSlidingWindow`, `Warn`, `WarnSet`, `WarnSend` the three of
`checkThresholdWarning`. `Tick` lets Redis drop what has expired. A failing
command ends the check (`Fail`) and the request, with an error; a request that
ends between its `zAdd` and its `expire` is "cut", since the set keeps the
expiry of somebody else for it, and one that ends elsewhere "failed".

**EmailQueue.** A job is a record in Redis: state, attempts made, stalls. A
worker takes a waiting job (`Pick`), hands it to `sendMail`, whose answer may
come, get lost or be a refusal (`processEmailJob`), and Bull records the
outcome in a later step (`Complete`, `FailAttempt`), which emits an event. The
handlers of `completed` and `failed` run afterwards, in the process
(`HandlerStep`); they write the delivery log and copy a job that has used up
its attempts to the dead-letter queue. A crash drops workers and handlers and
keeps Redis; the next process finds the orphaned jobs (`CheckStalled`), and
Bull fails those that stalled too often, without counting an attempt. A signal
lets the HTTP server drain, then closes the queues, which waits for the workers
and not for the handlers, then exits. `smtp[j]` counts what the mail server
took.

**Registration and Onboarding.** The two checks, the slow password hash and the
transaction; then the controller queues the welcome mail, and answers. A
request lives as long as its process; its client may leave before. `Onboarding`
is `EmailQueue` with a registration for every mail (`Mails` are the
registrations), and conjoins each step of a registration, or of `server.ts`,
with what it does to the queue and the process: nothing new
is accepted once the server drains, a request in flight may still queue a mail,
the queue may refuse it, and a second signal runs the handler again.

**RequestPipeline.** `Routes` is the table of the routers in data: mount,
relative path, middlewares in their order, handler. Each middleware is an
action that looks at what the code looks at (`req.path` as a router sees it,
the tenant if one was set) and either passes the request on or answers. A
service call is the tenant it acts for and the way it ends; what services do is
in the other modules. `register`, `rotateApiKey` and a workspace's `addMember`
end by waiting for Bull to queue a mail in Redis, without a timeout
(`ServiceTells`, `QueueMail`). `records` is the 60-second buffer, filled when an
answer has been sent to a request the tracker listens to. `finished` is history:
every answer a client got, with its time, also those of the body parser, which
runs before the tracker and whose refusals (`refused`) it never sees. `redis`
may go away and come back at any time; a command then waits or fails. `/health`
races each query against a timeout, `/metrics` does not. The body parser and
multer wait for what the client sends.

**Listings.** A client fetches page after page with the cursor it was given,
while rows are added, hidden from it or deleted (`Vanish`). The audit log
and the projects filter by the key (`createdAt`, `id`) of the cursor; the other
three let Prisma skip to the cursor's row in the order of `createdAt`, where
the rows of a tie may come in any order, and find nothing after a row that has
gone. One listing is under study at a time (`table`).

### Constants that say how clients behave

Some promises hold only as long as clients do not overlap. Instead of a second
specification, a module takes the set of those that do not: `OneClient`
(tenants whose single client waits for each answer, with at least a millisecond
between the calls), `OneAdmin` (keys whose management calls come one after the
other), `OneManager` (workspaces or projects whose membership calls do),
`LoneEmails` (addresses nobody registers twice at a time). Everybody else is
unrestricted, and runs *at the same time*: a run that has both kinds shows that
what holds for the first is not disturbed by the second. The mutant of such a
property, or its absence for the others, shows that the restriction is needed;
section 4 lists what the code does without it.

## 3. Runs

| run | bounds | distinct states | what it shows |
|---|---|---|---|
| `AuditTrail` | 2 tenants (one with a single client), 3 requests, 3 payloads (one with a field left out, one with its keys in another order), clock 0–2 | 1.13 million | links go back in time and stay in the tenant, no phantom entries, transactions are atomic; the single client's entries are a line that implements `HashChain`, and verification accepts those, and only those, that lack no field and have the keys of their objects in JSONB's order |
| `KeyLifecycle` | 2 tenants, 2 keys (one with a single administrator), 3 secrets, 3 management calls, 1 authentication, grace 2, clock 0–3 | 222 thousand | tenant resolution, no spurious refusal, grace ends, answered keys work, revocation is final |
| `KeysRevoked` (violated) | 1 key, calls that do not overlap | | a revoked key admits its old secret |
| `WorkspaceMembers` | 2 tenants, 3 users, 2 callers, 2 workspaces (one with a single manager), 1 name with at most 1 prefix, 3 requests | 708 thousand | archiving stays within the tenant; the managed workspace implements `OwnedGroup`, both implement `Tenancy` |
| `RateLimits` | 4 requests, 2 in flight, each up to 1 tick old, 1 failure, limits 2/1/1, windows of 3, warning period 3, clock 0–4 | 2.66 million | limit and warnings are exceeded by the overlap at most, nothing counted is forgotten, nobody is refused below the limit |
| `MailQueue` | 1 mail, 2 attempts, 1 stall, 1 worker, 1 retry by hand, 2 crashes, 1 exit | 97 thousand | how often a mail is delivered, a log without false rows; the queue implements `Delivery`, with its liveness |
| `Onboarding` | 2 registrations, 2 slugs, 2 addresses (one lone), 1 attempt, 1 crash, 1 exit, a second signal | 163 thousand | addresses are unique unless registrations overlap; a graceful stop finishes what was begun |
| `ProjectMembers` | 3 users of 2 tenants, 2 callers, 2 projects (one with a single manager), 3 rows, 2 roles, 2 slots | 290 thousand | isolation, a project without an owner is beyond repair, the managed one implements `OwnedGroup` |
| `TaskBoard` | 3 users of 2 tenants, 2 callers, 2 workspaces, 2 projects, 1 task, 2 slots | 1.14 million | tasks and assignees stay in their tenant |
| `Files` | 3 users of 2 tenants, 2 files, 3 slots | 36 thousand | what is listed is there, downloads are whole, disk and table agree unless a step fails |
| `RequestPipeline` | 2 requests, one for any route and one for the reports, 2 keys of 2 tenants, window 0, clock 0–1 | 160 thousand | for whom services act, which routes serve nobody, what is counted and reported, that requests are answered unless they wait for Redis or their client |
| `Listings` | 3 rows, 1 client, limits -2, -1, 1, 2, clock 0–2, no page fetched once more than 3 rows were shown | 253 thousand | order, completeness and end of each listing |

**Why the bounds are enough.** The hazards are between two requests, and the
third is what they disagree about (an earlier entry, an earlier owner, an
earlier member of the window), so three or four requests per run, or two or
three slots that are used again and again, reach every pair of steps. Where a
request is used once, a client that calls again is another request. Two tenants
are needed to mix them up, and two keys, workspaces or projects to confuse; the
second tenant has the odd user. Two attempts are one that is retried and one
that is the last; one tolerated stall and two crashes reach a job that stalled
too often, also after a retry by hand. Clocks run to 1, 2, 3 or 4, which lets a
grace period (2) or a window end while others are in flight; a window of 0 in
`RequestPipeline` is one in which a record is forgotten at the next tick. In
`RateLimits` a window of 3 is the least in which a key can expire (the code sets
its expiry from the window, in whole seconds) on an entry that was added later
and whose own expire was lost: purges remove, keys expire, and entries are lost
with them, all within the clock's 4 ticks. Entries added after their own window
need a longer delay than the run has; the theorems do not. In
`WorkspaceMembers` one name is enough for two workspaces to want it, with the
prefix or without. Three rows and pages of one or two make two pages, with a row that
comes or goes between them, and ties of two and three. `MaxNow`, `MaxPrefix`,
`MaxInFlight`, `MaxDelay`, `MaxFailures`, `MaxRetries`, `MaxCrashes`,
`MaxExits` and `MaxShown` are bounds of the models, not of the code; the
theorems below hold for all their values. The second request of
`RequestPipeline` asks for the reports only, which keeps every route in reach:
requests meet each other in the buffer and in the limiter, nowhere else.

**Deadlock.** Requests are one-shot or the clock is bounded, so the models
stop; deadlock is not checked as such. Who waits for whom is a matter of the
liveness properties: `EveryRequestAnswered`, `ReadingEnds` and the liveness of
`Delivery`. The one other wait, for an uncommitted twin of an audit entry, ends
with the other transaction.

**Fairness**, where liveness is checked. *EmailQueue*: weak fairness of timers
(backoff, stall check), of answers of the mail server (nodemailer has
connection and socket timeouts), of Bull's bookkeeping, of event handlers, and
of the shutdown once a signal came; of the start of a process, because
containers are restarted; strong fairness of `Pick`, because Bull's line is
first come first served and a job in it is not overtaken for ever. Nothing
makes anybody crash, send a signal or retry by hand. `Delivery` asks that every
mail taken gets settled, and `GiveUp` and `End` are the exceptions the code
needs. *RequestPipeline*: weak fairness of the steps that wait for nobody, and
of the Redis commands while Redis is there to execute them. The limiter, the
metrics and the controllers that queue a mail wait for Redis, and nothing makes
Redis come back or reject what it is sent while away; nothing makes a client
send its body or its file, or read an answer. `EveryRequestAnswered` says who is
answered nevertheless. *Listings*: a client
with a cursor asks for the next page. All other runs check safety and need
none.

**Symmetry** permutes ids that occur in no constant's value, in runs without
liveness: `MailQueue`, `RequestPipeline` and `Listings` use none. All
properties of the others are symmetric in the ids. `RateLimits` also has a view,
`LiveView` in `MCRateLimiter`, which drops those fields of finished requests
that no action and no property reads any more (`Leftover` lists what is kept,
and why).

## 4. What the runs found

Each is quoted with its lines under `findings`. `KeysRevoked` is a violated
run. For the others a *passing* run states what is left of the promise, with
the restriction that is necessary; the sentence of the code or its
documentation is the property without that restriction.

1. `createAuditLog` forks the chain when calls of a tenant overlap; the
   repository's README calls concurrent writes safe (`ImplementsChain` holds
   of single clients).
2. `verifyAuditChain` rejects an untampered chain with an absent field
   (`undefined` was hashed, `null` is verified), or with an object whose keys
   JSONB returns in another order, such as that of TASK_CREATED
   (`VerifiesFaithfulRows` says which rows are left).
3. A second rotation within 15 minutes ends the first grace period
   (`GraceEnds`), and overlapping rotations return a dead secret
   (`NewKeyActiveAlone`).
4. A key revoked after a rotation still admits its old secret (`KeysRevoked`).
5. Overlapping calls remove the last owners of a workspace or a project
   (`ImplementsOwnedGroup`); a project without an owner stays so for good
   (`AbandonedForGood`).
6. Overlapping requests exceed the rate limit and the one warning an hour, by
   as many as overlap (`LimitAndSlack`, `WarningSlack`). No endpoint limit ever
   applies, because the key is built from the router-relative path, and some
   routers list no limiter.
7. Overlapping registrations give an address to two accounts
   (`EmailUniqueAlone`).
8. A mail is lost silently when its job stalls too often, and may be delivered
   as often as there are attempts, and once more (`ImplementsPromise`,
   `DeliveriesBounded`); the announced delays are not Bull's.
9. The collections of workspaces, projects and files, and all routes of tasks,
   serve nobody: the extractor takes a router's "/" for the root
   (`CollectionsServeNobody`).
10. Read off the code, without a run: the requests per tenant of the metrics
    are looked up under a key that is never used, and limit breaches are counted
    in a table nothing writes to; the container's health probe asks for a path
    that is not served; the backoff of the mails is not the announced one.
11. A negative `limit` leaves a client without a cursor (`StuckByLimit`); three
    listings repeat or leave out rows of one millisecond, and end early after a
    cursor whose row is gone (`NewestFirst`, `AllShown`).

## 5. Proofs

For every value of the constants that meets the assumption of its module
(`AuditAssumption`, `ApiKeysAssumption` and so on; TLC evaluates them in every
run):

| module | theorem | argument |
|---|---|---|
| every module below | `TypeCorrect`, `TasksTypeCorrect` | the type invariant is inductive, one lemma per kind of update |
| `AuditChainProofs` | `LinksSafe` | `LinkInv`: what a request has *read* is already linked, and is not younger than the clock, so the stamp taken later is not older |
| | `NoPhantom`, `AuditedTogether` | `EffectInv` ties `pc`, `effect` and the rows together: a plain write is committed before its audit starts, a transaction's is pending until `Commit` |
| | `HashesUnique` | `HashInv`: rows in open transactions, too, are pairwise different, which the waiting on the unique index guarantees |
| | `TrailImplementsChain`, `FaithfulRowsVerify` | `ChainInv`: of a single client at most one request is in flight, what it has read is still the head, and its stamp is later than every entry (`SoleWriter`); so the row it inserts is the new head, times differ, and `HeadOf` has one candidate. The link being as expected, a row is accepted just when the content of what the table gives back is that of what was passed |
| `ApiKeysProofs` | `ResolvesTenant` | `TenantInv`: every hash of a row, and every secret a management call carries between its statements, was made for the tenant of the row; a stale rotation can write the wrong *version* but not the wrong tenant |
| | `RevocationFinal` | no write but the insert sets the active flag, and the rows written exist |
| | `GraceIsOver`, `NewKeyWorks` | `KeyInv`: a secret is drawn once and is in one row (`FreshSecrets`, `HashesApart`); one at a time, what a rotation has read is still current when it stores (`ReadsCurrent`); a secret once replaced is nowhere current again, and is kept as an old one until its announced end at most (`RetiredStays`) |
| | `NoneMissed` | `WatchedValid`: while a watched secret stays valid, the second lookup is reached only if the secret was no current hash at the first, and it does not become one again; so it is an old hash, which the second lookup finds |
| `WorkspacesProofs` | `Isolation`, `TenantFinal` | `IsolationInv`: between any two statements the caller of a request past `Authorise`, and its target past `FindUser`, are of the workspace's tenant; so the tenant that `UpdateStore` writes is the one already there |
| | `RefinesTenancy` | the same invariant, and under it each action is a step of `Tenancy` or a stutter |
| | `RefinesOwnedGroup` | `OwnerInv`: with a single manager, the owners counted are the owners at the write, so whoever takes the owner role from somebody leaves another (`LeavesAnOwner`) |
| | `UniqueNames` | the index decides at each write, whatever was checked before |
| | `ArchivesHome` | `IsolationInv` again: a request that is about to archive is an owner's, hence a caller's of the workspace's tenant, which is the tenant `updateMany` asks for |
| `RateLimiterProofs` | `NothingForgotten` | `RememberInv`: requests began in the past, and a set's expiry lies beyond the window of each member whose own `expire` is neither outstanding nor lost |
| | `RefusedOnlyWhenFull` | `FlightInv`: between its purge and its count, a request can find only so many members that are too old for its window as others were in flight when it purged (`FewLate`) |
| | `LimitHolds` | `SlackInv`: a prompt request that has passed a tier stays in the tier's set while it is in the window (`PromptCounted`), so a request that passes has seen the others, except those in flight with it (`FewPassed`) |
| | `WarnedSeldom` | `WarnInv`: the dedup key outlives the hour of each request that set it; those that set it within one hour had all looked before the first of them did, hence were in flight together (`OneBatch`) |
| `ProjectsProofs` | `Isolation` | `IsolationInv`: what a request has looked up stays true until it writes, because no step changes a project's tenant or a row's project and user |
| | `AbandonedStaysSo` | a project with no owner and no request in flight lets nobody past `Permitted` |
| | `RefinesOwnedGroup` | `OwnerInv`: with a single manager the snapshot's count is still the number of owners at the write (`CountHolds`), a user has one row per project (`UniqueRows`), and nobody works on a project before its first owner is inserted (`OwnFirst`) |
| | `AtHome`, `Assignees` | `TasksInv`: a request past the membership check has an actor who *has been* a member of the project's workspace, hence is of its tenant, and the project was found in the actor's tenant; likewise the assignee. Membership itself may have ended |
| `FilesProofs` | `ListedThere`, `WholeDownloads`, `NoDrift` | `FilesInv`: a name is drawn by one upload, its row is written only after the whole file, only a deletion unlinks, and what a request in flight still has to do accounts for every difference between disk and table, unless a step failed |
| | `PagesInOrder`, `StuckOnlyByLimit`, `NothingLeftOut` | `ListingsInv`: the cursor is the last row shown, and a row that was listed all the while has been shown or comes after the cursor (`Paging`). A query answers with the rows after the cursor, in order (`Answers`: by the key always, by a row if there are no ties and it has not gone), and a page is the first of them (`PageOfRows`) |
| `EmailQueueProofs` | `FewDeliveries` | `QueueInv`: what the mail server took is at most the attempts and stalls counted so far, plus one while a worker holds the job |
| | `LogTruthful` | each row was true when its event was emitted, events wait in the process, and what makes a row true is never undone |
| | `KeepsPromise` | the safety part of `ImplementsPromise`. `FateInv`: the jobs of a mail succeed one another, each queued only when the one before has failed (`OneJobAtATime`), so a mail has one last job; a failed job is with its handler, in the dead-letter queue or with a retry, and in one of them only (`OnePlace`); only crashes cause stalls |
| | `ComponentsKept` | each step of `Onboarding` is a step of the queue or leaves it alone, and the same of the registrations: what is proved of either holds of both together |
| | `AddressesUnique` | `AloneInv`: the address of a request that is about to commit belongs to nobody yet, because whoever commits meanwhile has another (`StillFree`) |
| | `StopsGracefully` | `GracefulInv`: the queues close when no client is left and nobody comes after that (`ClosedAlone`), a handler that answered has queued its mail (`Welcomed`), and only a crash leaves orphans, because an exit waits for the workers |
| `RequestPipelineProofs` | `ActsForTheKey`, `NobodyServed`, `CountedFirst` | `PipelineInv`: what is left of a route's middlewares says which have been passed, and each leaves its mark (tenant, role, count) |
| | `CountsTheWindow` | `BufferInv`: the tracker listens to an answer if and only if the body parser has not refused its request, and the records of the buffer and the answers in the window that were not refused are in one-to-one correspondence, however often the buffer was cleaned in between (`BufferIsHistory`); so they are equally many |

None of these invariants is inductive without its part about requests in
flight: a table alone does not say what a stale read may still write.
`HashesUnique`, `UniqueNames`, `TenantFinal`, the `Isolation` of workspaces,
`ComponentsKept` and most type invariants are proved and not also run.

The assumptions are what the code relies on. `AuditAssumption` says that a
payload is a function of its fields, some of which may be absent and some of
which (`JsonFields`) hold JSON; `PipelineAssumption`, that a key has one tenant
and that the values standing for no key, no tenant or an address are none;
`ProjectsAssumption`, that there are finitely many rows, as in any table.
`OnboardingAssumption` says that `None` is no tenant.

`ListingsAssumption` says that a table is finite and that no limit is zero
(the code puts the default in its place).

**Model-checked only** is what is liveness: `EveryRequestAnswered`,
`ReadingEnds` and the fairness of `ImplementsPromise`, which need fairness and
`ENABLED`, out of the prover's reach; and the one violated property, of
`KeysRevoked`. Every other property of a run is a theorem.

## 6. Plan

What comes next, in this order:

1. Liveness of single steps that needs no fairness: that a request in flight
   always has a step left, as an invariant about guards.
2. Two mails, or two retries, in `MailQueue`; two clients in `Listings`.

## 7. Not modelled

- The text of e-mails, of the log and of the CSV export, and what a validation
  schema accepts (a listing's limit excepted): they have no state.
- What else a JSONB column normalises (the keys of nested objects, numbers): it
  is another way for a row not to be what was hashed.
- Counts per tenant and memory figures in the health and metrics reports, and reads that
  change nothing and are not paged (`getX`, `getMembers`, `listApiKeys`): their
  filters are the tenants of `ActsForKeysTenant`. `lastUsedAt` is written and
  read by nothing that decides; only that its write may fail is modelled.
- The seed script, which a developer runs alone, and cascades of the schema:
  no operation deletes a tenant, a user, a workspace or a project.
- Functions called from nowhere: `resetLimit`, `getStatus`,
  `resetRateLimitAdmin`, `getRateLimitStatus`, `getDeliveryHistory`,
  `cleanupOldJobs`, and `getMyTasks`, which is on no route. `retryFailedEmail`
  is not called either; the model has it as an operator's call, because it is
  the only way out of the dead-letter queue.
- Users other than the owner a registration creates come from outside (no
  operation makes one); the models take them, and whether they have a key, as
  constants.

PostgreSQL is read committed with the unique indexes of `schema.prisma`; Redis
executes one command at a time; Bull and nodemailer do what their options and
events say. All are modelled from how the code uses them, and marked external
where a definition stands for them alone. Hash collisions and clocks that run
backwards are left out.
