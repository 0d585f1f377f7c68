------------------------------ MODULE AuditChain -----------------------------
(***************************************************************************)
(* The audit trail of src/src/utils/audit.utils.ts as its callers drive    *)
(* it.  A request does its own write and then calls createAuditLog, which  *)
(* reads the newest entry of the tenant, stamps the new entry with the     *)
(* clock, and inserts it: three steps separated by awaits, with no lock.   *)
(* Most services pass the plain client (the write is committed before the  *)
(* audit starts); registerTenant and createWorkspace pass a transaction    *)
(* (write and entry become visible together, at the commit).               *)
(*                                                                         *)
(* SHA-256 is modelled as an injective pairing of its two arguments; the   *)
(* serialised content as the function from the fields JSON.stringify       *)
(* prints to their values.  An object given as oldValue or newValue is the *)
(* sequence of its keys, each written as its place in the order in which   *)
(* PostgreSQL keeps the keys of JSONB (shorter ones first); the values     *)
(* under the keys come back as they went in, and are left out.             *)
(***************************************************************************)
EXTENDS Integers, TLC

CONSTANTS Tenants,    \* tenants
          OneClient,  \* tenants with a single client, which waits for its answers
          Requests,   \* requests in flight; each writes at most one entry
          Fields,     \* the optional fields of an entry
          JsonFields, \* those kept as JSONB: oldValue and newValue
          Payloads,   \* what callers pass: functions from Fields to values
          Null,       \* a field the caller left out (NULL in the table)
          MaxNow      \* bound of the millisecond clock

ASSUME AuditAssumption ==
    /\ OneClient \subseteq Tenants
    /\ JsonFields \subseteq Fields
    /\ MaxNow \in Nat
    /\ \A p \in Payloads : p = [f \in Fields |-> p[f]]

VARIABLES now,     \* the clock of the process, in milliseconds
          req,     \* req[r]: tenant, fields, and whether r runs in a transaction
          pc,      \* where request r stands
          effect,  \* the write r audits: "none", "pending" or "committed"
          prev,    \* previousHash as r read it
          stamp,   \* createdAt of the entry r is about to insert
          log      \* the committed rows of AuditLog

vars == <<now, req, pc, effect, prev, stamp, log>>

-----------------------------------------------------------------------------
Calls == [tenant : Tenants, fields : Payloads, tx : BOOLEAN]

(* The 64 zeros: no hash of an entry, since a hash is a pair.              *)
Genesis == << >>

(* SHA-256 without collisions: the pair of what it is computed from.       *)
Hash(content, previous) == <<content, previous>>

(* createAuditLog serialises an object whose absent fields are undefined:  *)
(* JSON.stringify leaves them out.                                         *)
CreatedContent(fields, t) ==
    [at |-> t, json |-> [f \in {g \in Fields : fields[g] # Null} |-> fields[f]]]

(* Mutant of VerifiedContent: the absent fields are left out again.        *)
VerifiedAsCreated(fields, t) == CreatedContent(fields, t)

(* verifyAuditChain serialises the row, whose absent fields are null:      *)
(* JSON.stringify prints them.                                             *)
VerifiedContent(fields, t) ==
    [at |-> t, json |-> fields]

(* A JSONB column keeps the keys of an object, not the order they had.     *)
JsonB(object) == SortSeq(object, <)

(* The fields as the table gives them back.                                *)
Stored(fields) ==
    [f \in Fields |-> IF f \in JsonFields /\ fields[f] # Null
                      THEN JsonB(fields[f])
                      ELSE fields[f]]

(* The row createAuditLog inserts; "by" is the request it comes from.      *)
Entry(r) ==
    [by           |-> r,
     tenant       |-> req[r].tenant,
     fields       |-> Stored(req[r].fields),
     createdAt    |-> stamp[r],
     previousHash |-> prev[r],
     currentHash  |-> Hash(CreatedContent(req[r].fields, stamp[r]), prev[r])]

EntriesOf(t) == {e \in log : e.tenant = t}

(* orderBy createdAt desc: any of the rows with the greatest createdAt.    *)
Latest(t) == {e \in EntriesOf(t) : \A d \in EntriesOf(t) : d.createdAt <= e.createdAt}

(* Mutant of PreviousHashes: findFirst without its where tenantId.         *)
PreviousHashesOfAll(t) ==
    IF log = {} THEN {Genesis} ELSE {e.currentHash : e \in log}

(* What findFirst may answer.                                              *)
PreviousHashes(t) ==
    IF EntriesOf(t) = {} THEN {Genesis} ELSE {e.currentHash : e \in Latest(t)}

InFlight == {"read", "stamped", "created"}

(* Rows inserted by transactions that have not committed.                  *)
Uncommitted == {Entry(r) : r \in {s \in Requests : pc[s] = "created"}}

-----------------------------------------------------------------------------
Init ==
    /\ now = 0
    /\ req \in [Requests -> Calls]
    /\ pc = [r \in Requests |-> "start"]
    /\ effect = [r \in Requests |-> "none"]
    /\ prev = [r \in Requests |-> Genesis]
    /\ stamp = [r \in Requests |-> 0]
    /\ log = {}

(* The write the request is about.                                         *)
MainWrite(r) ==
    /\ pc[r] = "start"
    /\ pc' = [pc EXCEPT ![r] = "written"]
    /\ effect' = [effect EXCEPT ![r] = IF req[r].tx THEN "pending" ELSE "committed"]
    /\ UNCHANGED <<now, req, prev, stamp, log>>

(* findFirst: a transaction too sees the committed rows only.              *)
ReadPrevious(r) ==
    /\ pc[r] = "written"
    /\ \E h \in PreviousHashes(req[r].tenant) : prev' = [prev EXCEPT ![r] = h]
    /\ pc' = [pc EXCEPT ![r] = "read"]
    /\ UNCHANGED <<now, req, effect, stamp, log>>

(* new Date(), once the answer of findFirst has arrived.                   *)
Stamp(r) ==
    /\ pc[r] = "read"
    /\ stamp' = [stamp EXCEPT ![r] = now]
    /\ pc' = [pc EXCEPT ![r] = "stamped"]
    /\ UNCHANGED <<now, req, effect, prev, log>>

(* Mutant of Abort: the transaction's write is not rolled back.            *)
AbortWithoutRollback(r) ==
    /\ pc' = [pc EXCEPT ![r] = "failed"]
    /\ effect' = [effect EXCEPT ![r] = "committed"]
    /\ UNCHANGED <<now, req, prev, stamp, log>>

(* A failure of r: a transaction is rolled back, a plain write stays.      *)
Abort(r) ==
    /\ pc' = [pc EXCEPT ![r] = "failed"]
    /\ effect' = [effect EXCEPT ![r] = IF @ = "pending" THEN "none" ELSE @]
    /\ UNCHANGED <<now, req, prev, stamp, log>>

(* The row becomes visible, together with the write of a transaction.      *)
Insert(r) ==
    /\ log' = log \cup {Entry(r)}
    /\ pc' = [pc EXCEPT ![r] = "done"]
    /\ effect' = [effect EXCEPT ![r] = "committed"]
    /\ UNCHANGED <<now, req, prev, stamp>>

HashTaken(r, rows) == \E e \in rows : e.currentHash = Entry(r).currentHash

(* Mutant of Create: createAuditLog(prisma, ...) inside a transaction.     *)
CreateOutsideTransaction(r) ==
    /\ pc[r] = "stamped"
    /\ ~ HashTaken(r, log)
    /\ log' = log \cup {Entry(r)}
    /\ pc' = [pc EXCEPT ![r] = IF req[r].tx THEN "created" ELSE "done"]
    /\ UNCHANGED <<now, req, effect, prev, stamp>>

(* currentHash is unique: an equal committed row makes the insert fail, an *)
(* equal uncommitted one makes it wait.                                    *)
Create(r) ==
    /\ pc[r] = "stamped"
    /\ ~ HashTaken(r, Uncommitted)
    /\ IF HashTaken(r, log)
       THEN Abort(r)
       ELSE IF req[r].tx
            THEN /\ pc' = [pc EXCEPT ![r] = "created"]
                 /\ UNCHANGED <<now, req, effect, prev, stamp, log>>
            ELSE Insert(r)

Commit(r) ==
    /\ pc[r] = "created"
    /\ Insert(r)

(* The process dies or a query fails between two awaits.                   *)
Fail(r) ==
    /\ pc[r] \notin {"start", "done", "failed"}
    /\ Abort(r)

Tick ==
    /\ now < MaxNow
    /\ now' = now + 1
    /\ UNCHANGED <<req, pc, effect, prev, stamp, log>>

(* The calls of createAuditLog of a single client that waits for each      *)
(* answer come one at a time and at least a millisecond apart.             *)
Alone(r) ==
    req[r].tenant \in OneClient =>
        /\ \A s \in Requests \ {r} :
               req[s].tenant = req[r].tenant => pc[s] \notin InFlight
        /\ \A e \in EntriesOf(req[r].tenant) : e.createdAt < now

Next ==
    \/ Tick
    \/ \E r \in Requests : \/ MainWrite(r)
                           \/ Alone(r) /\ ReadPrevious(r)
                           \/ Stamp(r)
                           \/ Create(r)
                           \/ Commit(r)
                           \/ Fail(r)

Spec == Init /\ [][Next]_vars

-----------------------------------------------------------------------------
(* verifyAuditChain over the tenant's rows in createdAt order: row e is    *)
(* accepted when its stored hashes are the recomputed ones.  "before" is   *)
(* the row that precedes e in that order.                                  *)
Preceding(e) == {d \in EntriesOf(e.tenant) : d.createdAt < e.createdAt}

ExpectedPrevious(e) ==
    IF Preceding(e) = {}
    THEN Genesis
    ELSE (CHOOSE d \in Preceding(e) :
             \A c \in Preceding(e) : c.createdAt <= d.createdAt).currentHash

RowVerifies(e) ==
    /\ Hash(VerifiedContent(e.fields, e.createdAt), ExpectedPrevious(e)) = e.currentHash
    /\ e.previousHash = ExpectedPrevious(e)

verifyAuditChain(t) == \A e \in EntriesOf(t) : RowVerifies(e)

-----------------------------------------------------------------------------
Entries == [by : Requests, tenant : Tenants,
            fields : {Stored(p) : p \in Payloads}, createdAt : Nat,
            previousHash : {e.previousHash : e \in log},
            currentHash : {e.currentHash : e \in log}]

(* Every variable has its type; rows are well-formed entries.              *)
TypeOK ==
    /\ now \in Nat
    /\ req \in [Requests -> Calls]
    /\ pc \in [Requests -> {"start", "written", "read", "stamped", "created",
                            "done", "failed"}]
    /\ effect \in [Requests -> {"none", "pending", "committed"}]
    /\ stamp \in [Requests -> Nat]
    /\ DOMAIN prev = Requests
    /\ log \subseteq Entries

Linked(t, hash, at) ==
    \/ hash = Genesis
    \/ \E d \in EntriesOf(t) : d.currentHash = hash /\ d.createdAt <= at

(* Every link of the chain leads to the genesis hash or to an entry of the *)
(* same tenant that is not younger than the entry itself, however the      *)
(* requests interleave (createAuditLog stamps only after it has read).     *)
LinksBackInTime ==
    \A e \in log : Linked(e.tenant, e.previousHash, e.createdAt)

(* An entry tells of something that happened: the write it describes is    *)
(* committed, whatever failed on the way (the audit comes after the write, *)
(* and a transaction publishes both together).                             *)
NoPhantomEntry == \A e \in log : effect[e.by] = "committed"

(* A write audited inside a transaction is committed exactly when its      *)
(* entry is in the trail (registerTenant and createWorkspace).             *)
TransactionAtomic ==
    \A r \in Requests :
        req[r].tx => (effect[r] = "committed" <=> \E e \in log : e.by = r)

(* No two entries have the same hash, though nothing but the unique index  *)
(* keeps equal contents of the same millisecond apart.                     *)
HashIdentifiesEntry ==
    \A d, e \in log : d.currentHash = e.currentHash => d = e

(* audit.utils.ts: verifyAuditChain "Returns true if all hashes match,     *)
(* false if tampered".  In this model nobody tampers, and what it answers  *)
(* of a single client's row is this: the link is the expected one, and the *)
(* row is accepted just when the table gave back what was hashed.  Its     *)
(* caller must have left no optional field out, which every caller in the  *)
(* code does, and have written the keys of its objects in JSONB's order,   *)
(* which taskId, projectId, title (TASK_CREATED) are not.                  *)
VerifiesFaithfulRows ==
    \A t \in OneClient : \A e \in EntriesOf(t) :
        LET passed == req[e.by].fields IN
        /\ e.previousHash = ExpectedPrevious(e)
        /\ RowVerifies(e) <=>
               /\ \A f \in Fields : passed[f] # Null
               /\ \A f \in JsonFields : passed[f] = JsonB(passed[f])

-----------------------------------------------------------------------------
HeadOf(t) ==
    IF EntriesOf(t) = {} THEN Genesis ELSE (CHOOSE e \in Latest(t) : TRUE).currentHash

Chain == INSTANCE HashChain
    WITH Tenants <- OneClient,
         entries <- [t \in OneClient |-> EntriesOf(t)],
         head    <- [t \in OneClient |-> HeadOf(t)]

(* One at a time, the requests of a tenant build what HashChain promises:  *)
(* a single line of entries, each linked to the one before.                *)
ImplementsChain == Chain!ChainSpec
==============================================================================
