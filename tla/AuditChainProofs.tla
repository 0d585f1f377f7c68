--------------------------- MODULE AuditChainProofs --------------------------
(***************************************************************************)
(* Safety of AuditChain for any number of tenants, requests and entries,   *)
(* under every interleaving and every failure; and that the rows of a      *)
(* single client are one chain, which verification accepts.                *)
(***************************************************************************)
EXTENDS AuditChain, TLAPS

(* What a request has read stays good until it inserts: the hash it is     *)
(* about to link to is in the trail, and not younger than its stamp.       *)
ReadsStayLinked ==
    \A r \in Requests :
        /\ pc[r] = "read" => Linked(req[r].tenant, prev[r], now)
        /\ pc[r] \in {"stamped", "created"} =>
               /\ stamp[r] <= now
               /\ Linked(req[r].tenant, prev[r], stamp[r])

NothingFromTheFuture == \A e \in log : e.createdAt <= now

(* Entries, final states of the requests, and effects go together.         *)
EffectsMatchEntries ==
    /\ \A e \in log : pc[e.by] = "done"
    /\ \A r \in Requests :
        /\ pc[r] = "done" => /\ effect[r] = "committed"
                             /\ \E e \in log : e.by = r
        /\ req[r].tx /\ effect[r] = "committed" => pc[r] = "done"

(* The unique index: rows of open transactions take part in it.            *)
PendingHashesFree ==
    \A r \in Requests :
        pc[r] = "created" =>
            /\ ~ HashTaken(r, log)
            /\ \A s \in Requests \ {r} :
                   pc[s] = "created" => Entry(s).currentHash # Entry(r).currentHash

LinkInv == TypeOK /\ NothingFromTheFuture /\ ReadsStayLinked /\ LinksBackInTime

-----------------------------------------------------------------------------
(* What the row of a request is made of.                                   *)
LEMMA EntryFields ==
    ASSUME NEW r \in Requests
    PROVE  /\ Entry(r).by = r
           /\ Entry(r).tenant = req[r].tenant
           /\ Entry(r).createdAt = stamp[r]
           /\ Entry(r).previousHash = prev[r]
           /\ Entry(r).fields = Stored(req[r].fields)
           /\ Entry(r).currentHash
                  = Hash(CreatedContent(req[r].fields, stamp[r]), prev[r])
BY DEF Entry

(* A link is never lost: the trail and the clock only grow.                *)
LEMMA LinkedStays ==
    ASSUME log \subseteq log', NEW t, NEW h, NEW a \in Nat, NEW b \in Nat, a <= b,
           \A e \in log : e.createdAt \in Nat, Linked(t, h, a)
    PROVE  Linked(t, h, b)'
BY DEF Linked, EntriesOf

(* What findFirst answers is linked as of now.                             *)
LEMMA ReadIsLinked ==
    ASSUME NEW t, NEW h \in PreviousHashes(t), NothingFromTheFuture
    PROVE  Linked(t, h, now)
BY DEF PreviousHashes, Latest, EntriesOf, NothingFromTheFuture, Linked

(* A row that becomes visible is a well-formed entry.                      *)
LEMMA InsertTypeOK ==
    ASSUME TypeOK, NEW r \in Requests, Insert(r)
    PROVE  TypeOK'
<1>1. Entry(r) \in [by : Requests, tenant : Tenants,
                    fields : {Stored(p) : p \in Payloads}, createdAt : Nat,
                    previousHash : {Entry(r).previousHash},
                    currentHash : {Entry(r).currentHash}]
    BY DEF TypeOK, Entry, Calls
<1>2. log' \subseteq Entries'
    BY <1>1 DEF Insert, TypeOK, Entries
<1> QED
    BY <1>2 DEF Insert, TypeOK

(* A failure keeps the types.                                              *)
LEMMA AbortTypeOK ==
    ASSUME TypeOK, NEW r \in Requests, Abort(r)
    PROVE  TypeOK'
<1>1. log' \subseteq Entries'
    BY DEF Abort, TypeOK, Entries
<1> QED
    BY <1>1 DEF Abort, TypeOK

(* The insert of createAuditLog fails, becomes visible at once, or waits   *)
(* for the commit of its transaction.                                      *)
LEMMA CreateCases ==
    ASSUME NEW r \in Requests, Create(r)
    PROVE  \/ Abort(r)
           \/ Insert(r)
           \/ /\ pc' = [pc EXCEPT ![r] = "created"]
              /\ req[r].tx /\ ~ HashTaken(r, log)
              /\ UNCHANGED <<now, req, effect, prev, stamp, log>>
BY DEF Create

(* Every step of a request keeps the types.                                *)
LEMMA StepTypeOK ==
    ASSUME TypeOK, [Next]_vars
    PROVE  TypeOK'
<1> USE DEF Calls
<1>1. ASSUME UNCHANGED log PROVE (log \subseteq Entries)'
    BY <1>1 DEF TypeOK, Entries
<1>2. CASE UNCHANGED vars
    BY <1>1, <1>2 DEF vars, TypeOK
<1>3. CASE Tick
    BY <1>1, <1>3 DEF Tick, TypeOK
<1>4. ASSUME NEW r \in Requests, MainWrite(r) PROVE TypeOK'
    BY <1>1, <1>4 DEF MainWrite, TypeOK
<1>5. ASSUME NEW r \in Requests, ReadPrevious(r) PROVE TypeOK'
    BY <1>1, <1>5 DEF ReadPrevious, TypeOK
<1>6. ASSUME NEW r \in Requests, Stamp(r) PROVE TypeOK'
    BY <1>1, <1>6 DEF Stamp, TypeOK
<1>7. ASSUME NEW r \in Requests, Create(r) PROVE TypeOK'
    <2>1. ASSUME /\ pc' = [pc EXCEPT ![r] = "created"]
                 /\ UNCHANGED <<now, req, effect, prev, stamp, log>>
          PROVE  TypeOK'
        BY <1>1, <2>1 DEF TypeOK
    <2> QED
        BY <1>7, <2>1, CreateCases, AbortTypeOK, InsertTypeOK
<1>8. ASSUME NEW r \in Requests, Commit(r) PROVE TypeOK'
    BY <1>8, InsertTypeOK DEF Commit
<1>9. ASSUME NEW r \in Requests, Fail(r) PROVE TypeOK'
    BY <1>9, AbortTypeOK DEF Fail
<1> QED
    BY <1>2, <1>3, <1>4, <1>5, <1>6, <1>7, <1>8, <1>9 DEF Next

(* Every variable keeps its type in every behaviour of the audit trail.    *)
THEOREM TypeCorrect == Spec => []TypeOK
<1>1. Init => TypeOK
    BY AuditAssumption DEF Init, TypeOK, Entries, Calls
<1> QED
    BY <1>1, StepTypeOK, PTL DEF Spec

-----------------------------------------------------------------------------
(* A step that leaves the rows alone, and the requests but r, keeps the    *)
(* link invariants if it keeps those of r.                                 *)
LEMMA LinkFrame ==
    ASSUME LinkInv, TypeOK', NEW r \in Requests, log' = log, now' = now, req' = req,
           \A s \in Requests \ {r} : /\ pc'[s] = pc[s]
                                     /\ prev'[s] = prev[s]
                                     /\ stamp'[s] = stamp[s],
           pc'[r] = "read" => Linked(req[r].tenant, prev'[r], now),
           pc'[r] \in {"stamped", "created"} =>
               stamp'[r] <= now /\ Linked(req[r].tenant, prev'[r], stamp'[r])
    PROVE  LinkInv'
BY DEF LinkInv, NothingFromTheFuture, ReadsStayLinked, LinksBackInTime, Linked, EntriesOf

(* A failure breaks no link.                                               *)
LEMMA LinkAbort ==
    ASSUME LinkInv, TypeOK', NEW r \in Requests, Abort(r)
    PROVE  LinkInv'
BY LinkFrame DEF Abort, LinkInv, TypeOK

(* A row that becomes visible is linked, because its request was.          *)
LEMMA LinkInsert ==
    ASSUME LinkInv, TypeOK', NEW r \in Requests, Insert(r), pc[r] \in {"stamped", "created"}
    PROVE  LinkInv'
<1>1. /\ log' = log \cup {Entry(r)}
      /\ now' = now /\ req' = req /\ prev' = prev /\ stamp' = stamp
      /\ \A s \in Requests : pc'[s] \in {"read", "stamped", "created"} => pc'[s] = pc[s]
    BY DEF Insert, LinkInv, TypeOK
<1>2. \A e \in log : e.createdAt \in Nat
    BY DEF LinkInv, TypeOK, Entries
<1>3. now \in Nat /\ \A s \in Requests : stamp[s] \in Nat
    BY DEF LinkInv, TypeOK
<1>4. /\ stamp[r] <= now
      /\ Linked(req[r].tenant, prev[r], stamp[r])
    BY DEF LinkInv, ReadsStayLinked
<1>5. NothingFromTheFuture'
    BY <1>1, <1>4, EntryFields DEF LinkInv, NothingFromTheFuture
<1>6. ReadsStayLinked'
    <2>1. ASSUME NEW s \in Requests, pc'[s] = "read"
          PROVE  Linked(req[s].tenant, prev[s], now)'
        <3>1. Linked(req[s].tenant, prev[s], now)
            BY <1>1, <2>1 DEF LinkInv, ReadsStayLinked
        <3> QED
            BY <1>1, <3>1 DEF Linked, EntriesOf
    <2>2. ASSUME NEW s \in Requests, pc'[s] \in {"stamped", "created"}
          PROVE  /\ (stamp[s] <= now)'
                 /\ Linked(req[s].tenant, prev[s], stamp[s])'
        <3>1. stamp[s] <= now /\ Linked(req[s].tenant, prev[s], stamp[s])
            BY <1>1, <2>2 DEF LinkInv, ReadsStayLinked
        <3> QED
            BY <1>1, <3>1 DEF Linked, EntriesOf
    <2> QED
        BY <2>1, <2>2 DEF ReadsStayLinked
<1>7. LinksBackInTime'
    <2>1. ASSUME NEW e \in log
          PROVE  Linked(e.tenant, e.previousHash, e.createdAt)'
        <3>1. Linked(e.tenant, e.previousHash, e.createdAt)
            BY DEF LinkInv, LinksBackInTime
        <3> QED
            BY <1>1, <3>1 DEF Linked, EntriesOf
    <2>2. Linked(req[r].tenant, prev[r], stamp[r])'
        BY <1>1, <1>4 DEF Linked, EntriesOf
    <2>3. Linked(Entry(r).tenant, Entry(r).previousHash, Entry(r).createdAt)'
        BY <1>1, <2>2, EntryFields DEF Entry
    <2>4. Entry(r)' = Entry(r)
        BY <1>1 DEF Entry, CreatedContent, Stored
    <2> QED
        BY <1>1, <2>1, <2>3, <2>4 DEF LinksBackInTime
<1> QED
    BY <1>5, <1>6, <1>7 DEF LinkInv

(* Every step preserves the invariant of the links.                        *)
LEMMA LinkStep ==
    ASSUME LinkInv, [Next]_vars
    PROVE  LinkInv'
<1> USE DEF LinkInv
<1>0. TypeOK'
    BY StepTypeOK
<1>1. CASE UNCHANGED vars
    BY <1>0, <1>1 DEF vars, NothingFromTheFuture, ReadsStayLinked, LinksBackInTime,
                      Linked, EntriesOf
<1>2. CASE Tick
    <2>1. \A e \in log : e.createdAt \in Nat
        BY DEF TypeOK, Entries
    <2>2. now \in Nat /\ now' = now + 1
        BY <1>2 DEF Tick, TypeOK
    <2>3. ASSUME NEW t, NEW h, Linked(t, h, now)
          PROVE  Linked(t, h, now')
        BY <2>1, <2>2, <2>3 DEF Linked, EntriesOf
    <2>4. NothingFromTheFuture'
        BY <1>2, <2>1, <2>2 DEF Tick, NothingFromTheFuture
    <2>5. \A r \in Requests : stamp[r] \in Nat
        BY DEF TypeOK
    <2>6. ReadsStayLinked'
        BY <1>2, <2>2, <2>3, <2>5 DEF Tick, ReadsStayLinked, Linked, EntriesOf
    <2> QED
        BY <1>0, <1>2, <2>4, <2>6 DEF Tick, LinksBackInTime, Linked, EntriesOf
<1>3. ASSUME NEW r \in Requests, MainWrite(r) PROVE LinkInv'
    BY <1>0, <1>3, LinkFrame DEF MainWrite, TypeOK
<1>4. ASSUME NEW r \in Requests, ReadPrevious(r) PROVE LinkInv'
    <2>1. PICK h \in PreviousHashes(req[r].tenant) : prev' = [prev EXCEPT ![r] = h]
        BY <1>4 DEF ReadPrevious
    <2>2. Linked(req[r].tenant, h, now)
        BY ReadIsLinked
    <2> QED
        BY <1>0, <1>4, <2>1, <2>2, LinkFrame DEF ReadPrevious, TypeOK
<1>5. ASSUME NEW r \in Requests, Stamp(r) PROVE LinkInv'
    <2>1. Linked(req[r].tenant, prev[r], now) /\ now \in Nat
        BY <1>5 DEF Stamp, ReadsStayLinked, TypeOK
    <2> QED
        BY <1>0, <1>5, <2>1, LinkFrame DEF Stamp, TypeOK
<1>6. ASSUME NEW r \in Requests, Create(r) PROVE LinkInv'
    <2>1. pc[r] = "stamped"
        BY <1>6 DEF Create
    <2>2. CASE /\ pc' = [pc EXCEPT ![r] = "created"]
               /\ UNCHANGED <<now, req, effect, prev, stamp, log>>
        BY <1>0, <2>1, <2>2, LinkFrame DEF TypeOK, ReadsStayLinked
    <2> QED
        BY <1>0, <1>6, <2>1, <2>2, CreateCases, LinkAbort, LinkInsert
<1>7. ASSUME NEW r \in Requests, Commit(r) PROVE LinkInv'
    BY <1>0, <1>7, LinkInsert DEF Commit
<1>8. ASSUME NEW r \in Requests, Fail(r) PROVE LinkInv'
    BY <1>0, <1>8, LinkAbort DEF Fail
<1> QED
    BY <1>1, <1>2, <1>3, <1>4, <1>5, <1>6, <1>7, <1>8 DEF Next

(* Whatever the interleaving, every entry links to the genesis hash or to  *)
(* an entry of its own tenant that is not younger: following previousHash  *)
(* never leaves the tenant and never goes forward in time.                 *)
THEOREM LinksSafe == Spec => []LinksBackInTime
<1>1. Init => LinkInv
    BY AuditAssumption DEF Init, LinkInv, TypeOK, Entries, Calls, NothingFromTheFuture,
       ReadsStayLinked, LinksBackInTime
<1>2. LinkInv => LinksBackInTime
    BY DEF LinkInv
<1> QED
    BY <1>1, <1>2, LinkStep, PTL DEF Spec

-----------------------------------------------------------------------------
EffectInv == TypeOK /\ EffectsMatchEntries

(* Every step keeps effects and entries in agreement.                      *)
LEMMA EffectStep ==
    ASSUME EffectInv, [Next]_vars
    PROVE  EffectInv'
<1> USE DEF EffectInv, EffectsMatchEntries
<1>0. TypeOK'
    BY StepTypeOK
<1>1. CASE UNCHANGED vars \/ Tick
    BY <1>0, <1>1 DEF vars, Tick
<1>2. ASSUME NEW r \in Requests,
             MainWrite(r) \/ ReadPrevious(r) \/ Stamp(r)
      PROVE  EffectInv'
    <2>1. \A e \in log : e.by \in Requests
        BY DEF TypeOK, Entries
    <2>2. log' = log /\ req' = req
        BY <1>2 DEF MainWrite, ReadPrevious, Stamp
    <2>3. /\ pc[r] # "done" /\ pc'[r] # "done"
          /\ \A s \in Requests \ {r} : pc'[s] = pc[s]
        BY <1>2 DEF MainWrite, ReadPrevious, Stamp, TypeOK
    <2>4. /\ \A s \in Requests \ {r} : effect'[s] = effect[s]
          /\ req[r].tx /\ effect'[r] = "committed" => effect[r] = "committed"
        BY <1>2 DEF MainWrite, ReadPrevious, Stamp, TypeOK
    <2> QED
        BY <1>0, <2>1, <2>2, <2>3, <2>4
<1>3. ASSUME NEW r \in Requests, Abort(r), pc[r] # "done" PROVE EffectInv'
    <2>1. /\ log' = log /\ req' = req
          /\ pc'[r] # "done"
          /\ effect'[r] = "committed" => effect[r] = "committed"
          /\ \A s \in Requests \ {r} : pc'[s] = pc[s] /\ effect'[s] = effect[s]
        BY <1>3 DEF Abort, TypeOK
    <2>2. \A e \in log : e.by \in Requests
        BY DEF TypeOK, Entries
    <2> QED
        BY <1>0, <1>3, <2>1, <2>2
<1>4. ASSUME NEW r \in Requests, Insert(r) PROVE EffectInv'
    <2>1. /\ log' = log \cup {Entry(r)}
          /\ pc'[r] = "done" /\ effect'[r] = "committed"
          /\ \A s \in Requests \ {r} : pc'[s] = pc[s] /\ effect'[s] = effect[s]
          /\ req' = req
        BY <1>4 DEF Insert, TypeOK
    <2>2. \A e \in log : e.by \in Requests
        BY DEF TypeOK, Entries
    <2> QED
        BY <1>0, <2>1, <2>2, EntryFields
<1>5. ASSUME NEW r \in Requests, Create(r) PROVE EffectInv'
    <2>1. CASE /\ pc' = [pc EXCEPT ![r] = "created"]
               /\ UNCHANGED <<now, req, effect, prev, stamp, log>>
        <3>1. pc[r] = "stamped"
            BY <1>5 DEF Create
        <3> QED
            BY <1>0, <2>1, <3>1 DEF TypeOK, Entries
    <2> QED
        BY <1>3, <1>4, <1>5, <2>1, CreateCases DEF Create
<1>6. ASSUME NEW r \in Requests, Commit(r) \/ Fail(r) PROVE EffectInv'
    BY <1>3, <1>4, <1>6 DEF Commit, Fail
<1> QED
    BY <1>1, <1>2, <1>5, <1>6 DEF Next

(* Effects and entries agree in every reachable state.                     *)
LEMMA EffectAlways == Spec => []EffectInv
<1>1. Init => EffectInv
    BY AuditAssumption DEF Init, EffectInv, EffectsMatchEntries, TypeOK, Entries, Calls
<1> QED
    BY <1>1, EffectStep, PTL DEF Spec

(* No failure leaves an entry for a write that is not committed.           *)
THEOREM NoPhantom == Spec => []NoPhantomEntry
<1>1. EffectInv => NoPhantomEntry
    BY DEF EffectInv, EffectsMatchEntries, NoPhantomEntry, TypeOK, Entries
<1> QED
    BY <1>1, EffectAlways, PTL

(* The write and the entry of a transaction are committed together.        *)
THEOREM AuditedTogether == Spec => []TransactionAtomic
<1>1. EffectInv => TransactionAtomic
    BY DEF EffectInv, EffectsMatchEntries, TransactionAtomic, TypeOK, Entries
<1> QED
    BY <1>1, EffectAlways, PTL

-----------------------------------------------------------------------------
HashInv == TypeOK /\ HashIdentifiesEntry /\ PendingHashesFree

(* Every step keeps the hashes of visible and waiting rows apart.          *)
LEMMA HashStep ==
    ASSUME HashInv, [Next]_vars
    PROVE  HashInv'
<1> USE DEF HashInv
<1>0. TypeOK'
    BY StepTypeOK
<1>1. ASSUME log' = log, req' = req,
             \A s \in Requests : pc'[s] = "created" =>
                 pc[s] = "created" /\ prev'[s] = prev[s] /\ stamp'[s] = stamp[s]
      PROVE  HashInv'
    <2>1. \A s \in Requests : pc'[s] = "created" => Entry(s)' = Entry(s)
        BY <1>1 DEF Entry, CreatedContent, Stored
    <2> QED
        BY <1>0, <1>1, <2>1 DEF HashIdentifiesEntry, PendingHashesFree, HashTaken
<1>2. CASE UNCHANGED vars \/ Tick
    BY <1>1, <1>2 DEF vars, Tick
<1>3. ASSUME NEW r \in Requests,
             MainWrite(r) \/ ReadPrevious(r) \/ Stamp(r) \/ Abort(r)
      PROVE  HashInv'
    <2>1. log' = log /\ req' = req
        BY <1>3 DEF MainWrite, ReadPrevious, Stamp, Abort
    <2>2. \A s \in Requests : pc'[s] = "created" =>
              pc[s] = "created" /\ prev'[s] = prev[s] /\ stamp'[s] = stamp[s]
        BY <1>3 DEF MainWrite, ReadPrevious, Stamp, Abort, TypeOK
    <2> QED
        BY <1>1, <2>1, <2>2
<1>4. ASSUME NEW r \in Requests, Insert(r), ~ HashTaken(r, log),
             \A s \in Requests \ {r} :
                 pc[s] = "created" => Entry(s).currentHash # Entry(r).currentHash
      PROVE  HashInv'
    <2>1. /\ log' = log \cup {Entry(r)}
          /\ pc'[r] = "done"
          /\ \A s \in Requests \ {r} : pc'[s] = pc[s]
          /\ req' = req /\ prev' = prev /\ stamp' = stamp
        BY <1>4 DEF Insert, TypeOK
    <2>2. \A s \in Requests : Entry(s)' = Entry(s)
        BY <2>1 DEF Entry, CreatedContent, Stored
    <2>3. HashIdentifiesEntry'
        BY <1>4, <2>1 DEF HashIdentifiesEntry, HashTaken
    <2>4. PendingHashesFree'
        BY <1>4, <2>1, <2>2 DEF PendingHashesFree, HashTaken
    <2> QED
        BY <1>0, <2>3, <2>4
<1>5. ASSUME NEW r \in Requests, Create(r) PROVE HashInv'
    <2>1. /\ pc[r] = "stamped"
          /\ \A s \in Requests :
                 pc[s] = "created" => Entry(s).currentHash # Entry(r).currentHash
        BY <1>5 DEF Create, HashTaken, Uncommitted
    <2>2. CASE ~ HashTaken(r, log) /\ Insert(r)
        BY <1>4, <2>1, <2>2
    <2>3. CASE /\ pc' = [pc EXCEPT ![r] = "created"]
               /\ ~ HashTaken(r, log)
               /\ UNCHANGED <<now, req, effect, prev, stamp, log>>
        <3>1. \A s \in Requests : Entry(s)' = Entry(s)
            BY <2>3 DEF Entry, CreatedContent, Stored
        <3>2. \A s \in Requests : pc'[s] = "created" => s = r \/ pc[s] = "created"
            BY <2>3 DEF TypeOK
        <3>3. HashIdentifiesEntry'
            BY <2>3 DEF HashIdentifiesEntry
        <3>4. PendingHashesFree'
            BY <2>1, <2>3, <3>1, <3>2 DEF PendingHashesFree, HashTaken
        <3> QED
            BY <1>0, <3>3, <3>4
    <2> QED
        BY <1>3, <1>5, <2>2, <2>3 DEF Create
<1>6. ASSUME NEW r \in Requests, Commit(r) PROVE HashInv'
    BY <1>4, <1>6 DEF Commit, PendingHashesFree
<1>7. ASSUME NEW r \in Requests, Fail(r) PROVE HashInv'
    BY <1>3, <1>7 DEF Fail
<1> QED
    BY <1>2, <1>3, <1>5, <1>6, <1>7 DEF Next

(* A hash names one entry, across all tenants, and stays free while a      *)
(* transaction holds it.                                                   *)
THEOREM HashesUnique == Spec => []HashIdentifiesEntry
<1>1. Init => HashInv
    BY AuditAssumption DEF Init, HashInv, TypeOK, Entries, Calls, HashIdentifiesEntry,
       PendingHashesFree
<1>2. HashInv => HashIdentifiesEntry
    BY DEF HashInv
<1> QED
    BY <1>1, <1>2, HashStep, PTL DEF Spec

-----------------------------------------------------------------------------
(* e is the only newest entry of tenant t.                                 *)
Newest(t, e) ==
    /\ e \in EntriesOf(t)
    /\ \A d \in EntriesOf(t) \ {e} : d.createdAt < e.createdAt

(* h is the hash the next entry of t has to carry.                         *)
IsHead(t, h) ==
    \/ EntriesOf(t) = {} /\ h = Genesis
    \/ \E e \in EntriesOf(t) : Newest(t, e) /\ h = e.currentHash

(* d is the entry just before e.                                           *)
JustBefore(d, e) ==
    /\ d \in Preceding(e)
    /\ \A c \in Preceding(e) \ {d} : c.createdAt < d.createdAt

(* No two entries of a single client share a millisecond.                  *)
TimesDiffer ==
    \A t \in OneClient : \A d, e \in EntriesOf(t) : d.createdAt = e.createdAt => d = e

(* The trail of a single client has a newest entry as soon as it has one.  *)
HeadExists ==
    \A t \in OneClient : EntriesOf(t) # {} => \E e \in EntriesOf(t) : Newest(t, e)

(* Every row of a single client is linked to the row just before.          *)
RowsChained ==
    \A t \in OneClient : \A e \in EntriesOf(t) :
        \/ Preceding(e) = {} /\ e.previousHash = Genesis
        \/ \E d \in Preceding(e) : JustBefore(d, e) /\ e.previousHash = d.currentHash

(* A request of a single client that has read the head is the only one,    *)
(* what it has read is still the head, and its entry will be the newest.   *)
SoleWriter ==
    \A r \in Requests :
        req[r].tenant \in OneClient /\ pc[r] \in InFlight =>
            /\ \A s \in Requests \ {r} :
                   req[s].tenant = req[r].tenant => pc[s] \notin InFlight
            /\ IsHead(req[r].tenant, prev[r])
            /\ \A e \in EntriesOf(req[r].tenant) :
                   e.createdAt < (IF pc[r] = "read" THEN now ELSE stamp[r])

(* HeadOf finds the head.                                                  *)
HeadsFound == \A t \in OneClient : \A h : IsHead(t, h) => HeadOf(t) = h

ChainInv == TypeOK /\ TimesDiffer /\ HeadExists /\ RowsChained /\ SoleWriter

(* Times of entries are numbers.                                           *)
LEMMA EntryTimes ==
    ASSUME TypeOK, NEW t
    PROVE  \A e \in EntriesOf(t) : e \in log /\ e.tenant = t /\ e.createdAt \in Nat
BY DEF TypeOK, Entries, EntriesOf

(* What findFirst answers a single client is the head of its trail.        *)
LEMMA ReadIsHead ==
    ASSUME TypeOK, TimesDiffer, NEW t \in OneClient, NEW h \in PreviousHashes(t)
    PROVE  IsHead(t, h)
<1>1. CASE EntriesOf(t) = {}
    BY <1>1 DEF PreviousHashes, IsHead
<1>2. CASE EntriesOf(t) # {}
    <2>1. PICK e \in Latest(t) : h = e.currentHash
        BY <1>2 DEF PreviousHashes
    <2>2. e \in EntriesOf(t) /\ \A d \in EntriesOf(t) : d.createdAt <= e.createdAt
        BY DEF Latest
    <2>3. \A d \in EntriesOf(t) \ {e} : d.createdAt # e.createdAt
        BY <2>2 DEF TimesDiffer
    <2>4. Newest(t, e)
        BY <2>2, <2>3, EntryTimes DEF Newest
    <2> QED
        BY <2>1, <2>2, <2>4 DEF IsHead
<1> QED
    BY <1>1, <1>2

(* A trail has one head: HeadOf finds the hash that was read.              *)
LEMMA HeadIsUnique ==
    ASSUME TypeOK, NEW t \in OneClient, NEW h, IsHead(t, h)
    PROVE  HeadOf(t) = h
<1>1. CASE EntriesOf(t) = {}
    BY <1>1 DEF IsHead, HeadOf
<1>2. CASE EntriesOf(t) # {}
    <2>1. PICK e \in EntriesOf(t) : Newest(t, e) /\ h = e.currentHash
        BY <1>2 DEF IsHead
    <2>2. \A d \in EntriesOf(t) : d.createdAt <= e.createdAt
        BY <2>1, EntryTimes DEF Newest
    <2>3. \A d \in Latest(t) : d = e
        BY <2>1, EntryTimes DEF Newest, Latest
    <2>4. Latest(t) = {e}
        BY <2>2, <2>3 DEF Latest
    <2> QED
        BY <1>2, <2>1, <2>4 DEF HeadOf
<1> QED
    BY <1>1, <1>2

(* verifyAuditChain computes the hash each row of a single client carries. *)
LEMMA RowsAreExpected ==
    ASSUME ChainInv, NEW t \in OneClient, NEW e \in EntriesOf(t)
    PROVE  e.previousHash = ExpectedPrevious(e)
<1>1. CASE Preceding(e) = {}
    BY <1>1 DEF ChainInv, RowsChained, ExpectedPrevious
<1>2. CASE Preceding(e) # {}
    <2>1. PICK d \in Preceding(e) : JustBefore(d, e) /\ e.previousHash = d.currentHash
        BY <1>2 DEF ChainInv, RowsChained
    <2>2. \A c \in Preceding(e) : c.createdAt \in Nat
        BY EntryTimes DEF ChainInv, Preceding
    <2>3. \A c \in Preceding(e) : c.createdAt <= d.createdAt
        BY <2>1, <2>2 DEF JustBefore
    <2>4. \A b \in Preceding(e) :
              (\A c \in Preceding(e) : c.createdAt <= b.createdAt) => b = d
        BY <2>1, <2>2 DEF JustBefore
    <2>5. (CHOOSE b \in Preceding(e) : \A c \in Preceding(e) : c.createdAt <= b.createdAt) = d
        BY <2>3, <2>4
    <2> QED
        BY <1>2, <2>1, <2>5 DEF ExpectedPrevious
<1> QED
    BY <1>1, <1>2

(* A step that inserts nothing keeps the chains if it keeps the writers.   *)
LEMMA ChainFrame ==
    ASSUME ChainInv, TypeOK', log' = log, SoleWriter'
    PROVE  ChainInv'
<1>1. \A t : EntriesOf(t)' = EntriesOf(t)
    BY DEF EntriesOf
<1>2. TimesDiffer'
    BY <1>1 DEF ChainInv, TimesDiffer
<1>3. HeadExists'
    BY <1>1 DEF ChainInv, HeadExists, Newest
<1>4. \A e : Preceding(e)' = Preceding(e)
    BY <1>1 DEF Preceding
<1>5. RowsChained'
    BY <1>1, <1>4 DEF ChainInv, RowsChained, JustBefore
<1> QED
    BY <1>2, <1>3, <1>5 DEF ChainInv

(* A step of request r that inserts nothing keeps the other writers, and r *)
(* itself if r is the only writer of its tenant afterwards.                *)
LEMMA SoleWriterFrame ==
    ASSUME ChainInv, TypeOK', NEW r \in Requests, log' = log, req' = req, now' = now,
           \A s \in Requests \ {r} : /\ pc'[s] = pc[s]
                                     /\ prev'[s] = prev[s]
                                     /\ stamp'[s] = stamp[s],
           req[r].tenant \in OneClient /\ pc'[r] \in InFlight =>
               /\ \A s \in Requests \ {r} :
                      req[s].tenant = req[r].tenant => pc[s] \notin InFlight
               /\ IsHead(req[r].tenant, prev'[r])
               /\ \A e \in EntriesOf(req[r].tenant) :
                      e.createdAt < (IF pc'[r] = "read" THEN now ELSE stamp'[r])
    PROVE  ChainInv'
<1>1. \A t : EntriesOf(t)' = EntriesOf(t)
    BY DEF EntriesOf
<1>2. \A t, h : IsHead(t, h)' <=> IsHead(t, h)
    BY <1>1 DEF IsHead, Newest
<1>3. ASSUME NEW s \in Requests, req[s].tenant \in OneClient, pc'[s] \in InFlight, s # r
      PROVE  /\ \A u \in Requests \ {s} :
                    req[u].tenant = req[s].tenant => pc'[u] \notin InFlight
             /\ IsHead(req[s].tenant, prev'[s])
             /\ \A e \in EntriesOf(req[s].tenant) :
                    e.createdAt < (IF pc'[s] = "read" THEN now ELSE stamp'[s])
    <2>1. pc[s] \in InFlight /\ prev'[s] = prev[s] /\ stamp'[s] = stamp[s] /\ pc'[s] = pc[s]
        BY <1>3
    <2>2. /\ \A u \in Requests \ {s} :
                 req[u].tenant = req[s].tenant => pc[u] \notin InFlight
          /\ IsHead(req[s].tenant, prev[s])
          /\ \A e \in EntriesOf(req[s].tenant) :
                 e.createdAt < (IF pc[s] = "read" THEN now ELSE stamp[s])
        BY <1>3, <2>1 DEF ChainInv, SoleWriter
    <2>3. req[r].tenant = req[s].tenant => pc'[r] \notin InFlight
        BY <1>3, <2>1
    <2> QED
        BY <2>1, <2>2, <2>3
<1>4. SoleWriter'
    BY <1>1, <1>2, <1>3 DEF SoleWriter, InFlight
<1> QED
    BY <1>4, ChainFrame

(* What the trails look like after the entry n of request r has come in.   *)
LEMMA InsertExtends ==
    ASSUME ChainInv, NEW r \in Requests, Insert(r), pc[r] \in {"stamped", "created"},
           NEW n, n = Entry(r), req[r].tenant \in OneClient
    PROVE  /\ \A t : EntriesOf(t)' = IF t = req[r].tenant THEN EntriesOf(t) \cup {n}
                                     ELSE EntriesOf(t)
           /\ n.tenant = req[r].tenant /\ n.createdAt \in Nat
           /\ n.previousHash = prev[r]
           /\ IsHead(req[r].tenant, n.previousHash)
           /\ \A e \in EntriesOf(req[r].tenant) : e.createdAt < n.createdAt
           /\ n \notin EntriesOf(req[r].tenant)
<1>1. /\ n.tenant = req[r].tenant
      /\ n.createdAt = stamp[r]
      /\ n.previousHash = prev[r]
    BY DEF Entry
<1>2. stamp[r] \in Nat
    BY DEF ChainInv, TypeOK
<1>3. log' = log \cup {n}
    BY DEF Insert
<1>4. \A t : EntriesOf(t)' = IF t = req[r].tenant THEN EntriesOf(t) \cup {n}
                             ELSE EntriesOf(t)
    BY <1>1, <1>3 DEF EntriesOf
<1>5. /\ IsHead(req[r].tenant, prev[r])
      /\ \A e \in EntriesOf(req[r].tenant) : e.createdAt < stamp[r]
    BY DEF ChainInv, SoleWriter, InFlight
<1> QED
    BY <1>1, <1>2, <1>4, <1>5

(* An entry of a single client comes in at the head of its trail, and the  *)
(* rows that are there keep their predecessors.                            *)
LEMMA ChainInsertSingle ==
    ASSUME ChainInv, TypeOK', NEW r \in Requests, Insert(r),
           pc[r] \in {"stamped", "created"}, req[r].tenant \in OneClient
    PROVE  ChainInv'
<1>1. PICK n, t : n = Entry(r) /\ t = req[r].tenant
    OBVIOUS
<1>2. /\ \A u : EntriesOf(u)' = IF u = t THEN EntriesOf(u) \cup {n} ELSE EntriesOf(u)
      /\ n.tenant = t /\ n.createdAt \in Nat
      /\ IsHead(t, n.previousHash)
      /\ \A e \in EntriesOf(t) : e.createdAt < n.createdAt
    BY <1>1, InsertExtends
<1>3. /\ req' = req /\ prev' = prev /\ stamp' = stamp /\ now' = now
      /\ pc'[r] = "done" /\ \A s \in Requests \ {r} : pc'[s] = pc[s]
    BY DEF Insert, ChainInv, TypeOK
<1>4. \A u \in OneClient : \A e \in EntriesOf(u) : e.tenant = u /\ e.createdAt \in Nat
    BY EntryTimes DEF ChainInv
<1>5. TimesDiffer'
    BY <1>1, <1>2, <1>4 DEF ChainInv, TimesDiffer
<1>6. Newest(t, n)'
    BY <1>2 DEF Newest
<1>7. HeadExists'
    <2>1. ASSUME NEW u \in OneClient, u # t
          PROVE  (EntriesOf(u) # {} => \E e \in EntriesOf(u) : Newest(u, e))'
        BY <1>2, <2>1 DEF ChainInv, HeadExists, Newest
    <2> QED
        BY <1>2, <1>6, <2>1 DEF HeadExists
<1>8. Preceding(n)' = EntriesOf(t)
    BY <1>2 DEF Preceding
<1>9. \A u \in OneClient : \A e \in EntriesOf(u) : Preceding(e)' = Preceding(e)
    <2> SUFFICES ASSUME NEW u \in OneClient, NEW e \in EntriesOf(u)
                 PROVE  Preceding(e)' = Preceding(e)
        OBVIOUS
    <2>1. e.tenant = u /\ e.createdAt \in Nat
        BY <1>4
    <2>2. u = t => ~ (n.createdAt < e.createdAt)
        BY <1>2, <2>1
    <2> QED
        BY <1>2, <2>1, <2>2 DEF Preceding
<1>10. RowsChained'
    <2>1. ASSUME NEW u \in OneClient, NEW e \in EntriesOf(u)
          PROVE  \/ (Preceding(e) = {} /\ e.previousHash = Genesis)'
                 \/ \E d \in Preceding(e)' :
                        JustBefore(d, e)' /\ e.previousHash = d.currentHash
        BY <1>9 DEF ChainInv, RowsChained, JustBefore
    <2>2. \/ Preceding(n)' = {} /\ n.previousHash = Genesis
          \/ \E d \in Preceding(n)' :
                 JustBefore(d, n)' /\ n.previousHash = d.currentHash
        BY <1>2, <1>8 DEF IsHead, Newest, JustBefore
    <2>3. \A u \in OneClient : \A e \in EntriesOf(u)' : e = n \/ e \in EntriesOf(u)
        BY <1>2
    <2> QED
        BY <1>2, <2>1, <2>2, <2>3 DEF RowsChained
<1>11. SoleWriter'
    <2> SUFFICES ASSUME NEW s \in Requests, req[s].tenant \in OneClient, pc'[s] \in InFlight
                 PROVE  /\ \A u \in Requests \ {s} :
                              req[u].tenant = req[s].tenant => pc'[u] \notin InFlight
                        /\ IsHead(req[s].tenant, prev[s])'
                        /\ \A e \in EntriesOf(req[s].tenant)' :
                              e.createdAt < (IF pc'[s] = "read" THEN now ELSE stamp[s])
        BY <1>3 DEF SoleWriter, InFlight
    <2>1. s # r /\ pc[s] = pc'[s] /\ pc[r] \in InFlight
        BY <1>3 DEF InFlight
    <2>2. /\ \A u \in Requests \ {s} :
                 req[u].tenant = req[s].tenant => pc[u] \notin InFlight
          /\ IsHead(req[s].tenant, prev[s])
          /\ \A e \in EntriesOf(req[s].tenant) :
                 e.createdAt < (IF pc[s] = "read" THEN now ELSE stamp[s])
        BY <2>1 DEF ChainInv, SoleWriter
    <2>3. req[s].tenant # t
        BY <1>1, <2>1, <2>2
    <2>4. EntriesOf(req[s].tenant)' = EntriesOf(req[s].tenant)
        BY <1>2, <1>3, <2>3
    <2>5. IsHead(req[s].tenant, prev[s])'
        BY <1>3, <2>2, <2>4 DEF IsHead, Newest
    <2>6. \A u \in Requests \ {s} : pc'[u] \in InFlight => pc[u] \in InFlight
        BY <1>3 DEF InFlight
    <2> QED
        BY <1>3, <2>1, <2>2, <2>4, <2>5, <2>6
<1> QED
    BY <1>5, <1>7, <1>10, <1>11 DEF ChainInv

(* An entry of another tenant changes nothing in a single client's trail.  *)
LEMMA InsertElsewhere ==
    ASSUME ChainInv, NEW r \in Requests, Insert(r), req[r].tenant \notin OneClient
    PROVE  /\ \A t \in OneClient : EntriesOf(t)' = EntriesOf(t)
           /\ \A t \in OneClient : \A e \in EntriesOf(t) : Preceding(e)' = Preceding(e)
<1>1. log' = log \cup {Entry(r)} /\ Entry(r).tenant \notin OneClient
    BY EntryFields DEF Insert
<1>2. \A t \in OneClient : EntriesOf(t)' = EntriesOf(t)
    BY <1>1 DEF EntriesOf
<1>3. \A t \in OneClient : \A e \in EntriesOf(t) : e.tenant = t
    BY DEF EntriesOf
<1> QED
    BY <1>2, <1>3 DEF Preceding

(* Every insert keeps the chains of the single clients.                    *)
LEMMA ChainInsert ==
    ASSUME ChainInv, TypeOK', NEW r \in Requests, Insert(r),
           pc[r] \in {"stamped", "created"}
    PROVE  ChainInv'
<1>1. CASE req[r].tenant \in OneClient
    BY <1>1, ChainInsertSingle
<1>2. CASE req[r].tenant \notin OneClient
    <2>1. /\ \A t \in OneClient : EntriesOf(t)' = EntriesOf(t)
          /\ \A t \in OneClient : \A e \in EntriesOf(t) : Preceding(e)' = Preceding(e)
        BY <1>2, InsertElsewhere
    <2>2. /\ req' = req /\ prev' = prev /\ stamp' = stamp /\ now' = now
          /\ pc'[r] = "done" /\ \A s \in Requests \ {r} : pc'[s] = pc[s]
        BY DEF Insert, ChainInv, TypeOK
    <2>3. TimesDiffer'
        BY <2>1 DEF ChainInv, TimesDiffer
    <2>4. HeadExists'
        BY <2>1 DEF ChainInv, HeadExists, Newest
    <2>5. RowsChained'
        <3> SUFFICES ASSUME NEW t \in OneClient, NEW e \in EntriesOf(t)
                     PROVE  \/ (Preceding(e) = {} /\ e.previousHash = Genesis)'
                            \/ \E d \in Preceding(e)' :
                                   JustBefore(d, e)' /\ e.previousHash = d.currentHash
            BY <2>1 DEF RowsChained
        <3> QED
            BY <2>1 DEF ChainInv, RowsChained, JustBefore
    <2>6. SoleWriter'
        <3>1. ASSUME NEW s \in Requests, req[s].tenant \in OneClient, pc'[s] \in InFlight
              PROVE  /\ pc[s] = pc'[s]
                     /\ IsHead(req[s].tenant, prev[s])' <=> IsHead(req[s].tenant, prev[s])
            <4>1. EntriesOf(req[s].tenant)' = EntriesOf(req[s].tenant)
                BY <2>1, <2>2, <3>1
            <4> QED
                BY <2>2, <3>1, <4>1 DEF IsHead, Newest, InFlight
        <3>2. \A s \in Requests : pc'[s] \in InFlight => pc[s] \in InFlight
            BY <2>2 DEF InFlight
        <3> QED
            BY <2>1, <2>2, <3>1, <3>2 DEF ChainInv, SoleWriter, InFlight
    <2> QED
        BY <2>3, <2>4, <2>5, <2>6 DEF ChainInv
<1> QED
    BY <1>1, <1>2

(* A failure keeps the chains.                                             *)
LEMMA ChainAbort ==
    ASSUME ChainInv, TypeOK', NEW r \in Requests, Abort(r)
    PROVE  ChainInv'
BY SoleWriterFrame DEF Abort, ChainInv, TypeOK, InFlight

(* Every step keeps the chains of the single clients.                      *)
LEMMA ChainStep ==
    ASSUME ChainInv, [Next]_vars
    PROVE  ChainInv'
<1>0. TypeOK /\ TypeOK'
    BY StepTypeOK DEF ChainInv
<1>1. CASE UNCHANGED vars
    <2>1. SoleWriter'
        BY <1>1 DEF vars, ChainInv, SoleWriter, IsHead, Newest, EntriesOf
    <2> QED
        BY <1>0, <1>1, <2>1, ChainFrame DEF vars
<1>2. CASE Tick
    <2>1. now \in Nat /\ now' = now + 1
        BY <1>0, <1>2 DEF Tick, TypeOK
    <2>2. /\ req' = req /\ pc' = pc /\ prev' = prev /\ stamp' = stamp /\ log' = log
          /\ \A t : EntriesOf(t)' = EntriesOf(t)
        BY <1>2 DEF Tick, EntriesOf
    <2>3. \A s \in Requests : \A e \in EntriesOf(req[s].tenant) : e.createdAt \in Nat
        BY <1>0, EntryTimes
    <2>4. \A t, h : IsHead(t, h)' <=> IsHead(t, h)
        BY <2>2 DEF IsHead, Newest
    <2>5. SoleWriter'
        BY <2>1, <2>2, <2>3, <2>4 DEF ChainInv, SoleWriter
    <2> QED
        BY <1>0, <2>2, <2>5, ChainFrame
<1>3. ASSUME NEW r \in Requests, MainWrite(r) PROVE ChainInv'
    BY <1>0, <1>3, SoleWriterFrame DEF MainWrite, TypeOK, InFlight
<1>4. ASSUME NEW r \in Requests, Alone(r), ReadPrevious(r) PROVE ChainInv'
    <2>1. PICK h \in PreviousHashes(req[r].tenant) : prev' = [prev EXCEPT ![r] = h]
        BY <1>4 DEF ReadPrevious
    <2>2. req[r].tenant \in OneClient => IsHead(req[r].tenant, h)
        BY <1>0, ReadIsHead DEF ChainInv
    <2>3. req[r].tenant \in OneClient =>
              /\ \A s \in Requests \ {r} :
                     req[s].tenant = req[r].tenant => pc[s] \notin InFlight
              /\ \A e \in EntriesOf(req[r].tenant) : e.createdAt < now
        BY <1>4 DEF Alone
    <2>4. /\ pc'[r] = "read" /\ prev'[r] = h
          /\ log' = log /\ req' = req /\ now' = now
          /\ \A s \in Requests \ {r} :
                 pc'[s] = pc[s] /\ prev'[s] = prev[s] /\ stamp'[s] = stamp[s]
        BY <1>0, <1>4, <2>1 DEF ReadPrevious, TypeOK
    <2> QED
        BY <1>0, <2>2, <2>3, <2>4, SoleWriterFrame
<1>5. ASSUME NEW r \in Requests, Stamp(r) PROVE ChainInv'
    <2>1. /\ pc[r] = "read" /\ pc'[r] = "stamped" /\ stamp'[r] = now /\ prev' = prev
          /\ log' = log /\ req' = req /\ now' = now
          /\ \A s \in Requests \ {r} :
                 pc'[s] = pc[s] /\ prev'[s] = prev[s] /\ stamp'[s] = stamp[s]
        BY <1>0, <1>5 DEF Stamp, TypeOK
    <2>2. req[r].tenant \in OneClient =>
              /\ \A s \in Requests \ {r} :
                     req[s].tenant = req[r].tenant => pc[s] \notin InFlight
              /\ IsHead(req[r].tenant, prev[r])
              /\ \A e \in EntriesOf(req[r].tenant) : e.createdAt < now
        BY <2>1 DEF ChainInv, SoleWriter, InFlight
    <2> QED
        BY <1>0, <2>1, <2>2, SoleWriterFrame
<1>6. ASSUME NEW r \in Requests, Create(r) PROVE ChainInv'
    <2>1. pc[r] = "stamped"
        BY <1>6 DEF Create
    <2>2. CASE /\ pc' = [pc EXCEPT ![r] = "created"]
               /\ UNCHANGED <<now, req, effect, prev, stamp, log>>
        <3>1. req[r].tenant \in OneClient =>
                  /\ \A s \in Requests \ {r} :
                         req[s].tenant = req[r].tenant => pc[s] \notin InFlight
                  /\ IsHead(req[r].tenant, prev[r])
                  /\ \A e \in EntriesOf(req[r].tenant) : e.createdAt < stamp[r]
            BY <2>1 DEF ChainInv, SoleWriter, InFlight
        <3>2. pc'[r] = "created" /\ \A s \in Requests \ {r} : pc'[s] = pc[s]
            BY <1>0, <2>2 DEF TypeOK
        <3> QED
            BY <1>0, <2>2, <3>1, <3>2, SoleWriterFrame
    <2> QED
        BY <1>0, <1>6, <2>1, <2>2, CreateCases, ChainAbort, ChainInsert
<1>7. ASSUME NEW r \in Requests, Commit(r) PROVE ChainInv'
    BY <1>0, <1>7, ChainInsert DEF Commit
<1>8. ASSUME NEW r \in Requests, Fail(r) PROVE ChainInv'
    BY <1>0, <1>8, ChainAbort DEF Fail
<1> QED
    BY <1>1, <1>2, <1>3, <1>4, <1>5, <1>6, <1>7, <1>8 DEF Next

(* The chains of the single clients stay chains in every behaviour.        *)
LEMMA ChainAlways == Spec => []ChainInv
<1>1. Init => ChainInv
    BY AuditAssumption DEF Init, ChainInv, TypeOK, Entries, Calls, EntriesOf, TimesDiffer,
       HeadExists, RowsChained, SoleWriter, InFlight
<1> QED
    BY <1>1, ChainStep, PTL DEF Spec

(* Every row is the row of the call it comes from: its fields as the table *)
(* gives them back, its hash that of the fields as they were passed.       *)
RowsFromCalls ==
    \A e \in log :
        /\ e.by \in Requests
        /\ e.fields = Stored(req[e.by].fields)
        /\ e.currentHash
               = Hash(CreatedContent(req[e.by].fields, e.createdAt), e.previousHash)

(* Every step keeps the rows those of their calls.                         *)
LEMMA RowsFromCallsStep ==
    ASSUME RowsFromCalls, [Next]_vars
    PROVE  RowsFromCalls'
<1>1. ASSUME log' = log, req' = req PROVE RowsFromCalls'
    BY <1>1 DEF RowsFromCalls, Stored, CreatedContent, Hash
<1>2. ASSUME NEW r \in Requests, Insert(r) PROVE RowsFromCalls'
    <2>1. log' = log \cup {Entry(r)} /\ req' = req
        BY <1>2 DEF Insert
    <2>2. \A e \in log' :
              /\ e.by \in Requests
              /\ e.fields = Stored(req[e.by].fields)
              /\ e.currentHash
                     = Hash(CreatedContent(req[e.by].fields, e.createdAt), e.previousHash)
        BY <2>1, EntryFields DEF RowsFromCalls
    <2> QED
        BY <2>1, <2>2 DEF RowsFromCalls, Stored, CreatedContent, Hash
<1>3. CASE UNCHANGED vars \/ Tick
    BY <1>1, <1>3 DEF vars, Tick
<1>4. ASSUME NEW r \in Requests,
             MainWrite(r) \/ ReadPrevious(r) \/ Stamp(r) \/ Fail(r)
      PROVE  RowsFromCalls'
    BY <1>1, <1>4 DEF MainWrite, ReadPrevious, Stamp, Fail, Abort
<1>5. ASSUME NEW r \in Requests, Create(r) \/ Commit(r) PROVE RowsFromCalls'
    BY <1>1, <1>2, <1>5, CreateCases DEF Commit, Abort
<1> QED
    BY <1>3, <1>4, <1>5 DEF Next

(* Every row is that of its call in every reachable state.                 *)
LEMMA RowsFromCallsAlways == Spec => []RowsFromCalls
<1>1. Init => RowsFromCalls
    BY DEF Init, RowsFromCalls
<1> QED
    BY <1>1, RowsFromCallsStep, PTL DEF Spec

(* The content verifyAuditChain hashes is the content createAuditLog hashed *)
(* just when no field was left out and every object came back as it was.   *)
LEMMA SameContent ==
    ASSUME NEW p \in Payloads, NEW at
    PROVE  VerifiedContent(Stored(p), at) = CreatedContent(p, at)
               <=> /\ \A f \in Fields : p[f] # Null
                   /\ \A f \in JsonFields : p[f] = JsonB(p[f])
<1> DEFINE json == [f \in {g \in Fields : p[g] # Null} |-> p[f]]
           back == [f \in Fields |-> IF f \in JsonFields /\ p[f] # Null
                                     THEN JsonB(p[f]) ELSE p[f]]
<1>1. VerifiedContent(Stored(p), at) = CreatedContent(p, at) <=> back = json
    BY DEF VerifiedContent, CreatedContent, Stored
<1>2. DOMAIN back = Fields /\ DOMAIN json = {g \in Fields : p[g] # Null}
    OBVIOUS
<1>3. JsonFields \subseteq Fields
    BY AuditAssumption
<1>4. ASSUME back = json
      PROVE  /\ \A f \in Fields : p[f] # Null
             /\ \A f \in JsonFields : p[f] = JsonB(p[f])
    <2>1. \A f \in Fields : p[f] # Null
        <3> HIDE DEF json, back
        <3> QED
            BY <1>2, <1>4
    <2>2. \A f \in JsonFields : back[f] = JsonB(p[f]) /\ json[f] = p[f]
        BY <1>3, <2>1
    <2> QED
        BY <1>4, <2>1, <2>2
<1>5. ASSUME \A f \in Fields : p[f] # Null,
             \A f \in JsonFields : p[f] = JsonB(p[f])
      PROVE  back = json
    <2>1. {g \in Fields : p[g] # Null} = Fields
        BY <1>5
    <2>2. \A f \in Fields : back[f] = p[f]
        BY <1>5
    <2> QED
        BY <2>1, <2>2
<1> QED
    BY <1>1, <1>4, <1>5

(* verifyAuditChain recomputes the link of every row of a single client,   *)
(* however many rows and whatever failed in between, and accepts the row   *)
(* just when its caller left no optional field out and the keys of its     *)
(* objects were in the order in which the table gives them back.           *)
THEOREM FaithfulRowsVerify == Spec => []VerifiesFaithfulRows
<1>1. ASSUME ChainInv, RowsFromCalls PROVE VerifiesFaithfulRows
    <2> SUFFICES ASSUME NEW t \in OneClient, NEW e \in EntriesOf(t)
                 PROVE  /\ e.previousHash = ExpectedPrevious(e)
                        /\ RowVerifies(e) <=>
                               /\ \A f \in Fields : req[e.by].fields[f] # Null
                               /\ \A f \in JsonFields :
                                     req[e.by].fields[f] = JsonB(req[e.by].fields[f])
        BY DEF VerifiesFaithfulRows
    <2>1. e.previousHash = ExpectedPrevious(e)
        BY <1>1, RowsAreExpected
    <2>2. /\ e.by \in Requests
          /\ e.fields = Stored(req[e.by].fields)
          /\ e.currentHash
                 = Hash(CreatedContent(req[e.by].fields, e.createdAt), e.previousHash)
        BY <1>1 DEF RowsFromCalls, EntriesOf
    <2>3. req[e.by].fields \in Payloads
        BY <1>1, <2>2 DEF ChainInv, TypeOK, Calls
    <2>4. RowVerifies(e) <=>
              VerifiedContent(Stored(req[e.by].fields), e.createdAt)
                  = CreatedContent(req[e.by].fields, e.createdAt)
        BY <2>1, <2>2 DEF RowVerifies, Hash
    <2> QED
        BY <2>1, <2>3, <2>4, SameContent
<1> QED
    BY <1>1, ChainAlways, RowsFromCallsAlways, PTL

-----------------------------------------------------------------------------
(* Every step of the trail is, for each single client, an append to its    *)
(* chain or no step at all.                                                *)
LEMMA ChainRefinementStep ==
    ASSUME ChainInv, HeadsFound, ChainInv', HeadsFound', [Next]_vars
    PROVE  [Chain!ChainNext]_(Chain!chainVars)
<1>0. ASSUME NEW t \in OneClient, EntriesOf(t)' = EntriesOf(t)
      PROVE  HeadOf(t)' = HeadOf(t)
    <2>1. PICK h : IsHead(t, h)
        BY DEF ChainInv, HeadExists, IsHead
    <2>2. IsHead(t, h)'
        BY <1>0, <2>1 DEF IsHead, Newest
    <2> QED
        BY <2>1, <2>2 DEF HeadsFound
<1>1. ASSUME \A t \in OneClient : EntriesOf(t)' = EntriesOf(t)
      PROVE  UNCHANGED Chain!chainVars
    <2>1. \A t \in OneClient : HeadOf(t)' = HeadOf(t)
        BY <1>0, <1>1
    <2> QED
        BY <1>1, <2>1 DEF Chain!chainVars
<1>2. CASE log' = log
    BY <1>1, <1>2 DEF EntriesOf
<1>3. ASSUME NEW r \in Requests, Insert(r), pc[r] \in {"stamped", "created"}
      PROVE  [Chain!ChainNext]_(Chain!chainVars)
    <2>1. CASE req[r].tenant \notin OneClient
        BY <1>1, <1>3, <2>1, InsertElsewhere
    <2>2. CASE req[r].tenant \in OneClient
        <3>1. PICK n, t : n = Entry(r) /\ t = req[r].tenant
            OBVIOUS
        <3>2. /\ t \in OneClient
              /\ \A u : EntriesOf(u)' = IF u = t THEN EntriesOf(u) \cup {n} ELSE EntriesOf(u)
              /\ n.tenant = t /\ n.createdAt \in Nat
              /\ IsHead(t, n.previousHash)
              /\ \A e \in EntriesOf(t) : e.createdAt < n.createdAt
              /\ n \notin EntriesOf(t)
            BY <1>3, <2>2, <3>1, InsertExtends
        <3>3. HeadOf(t) = n.previousHash
            BY <3>2 DEF HeadsFound
        <3>4. IsHead(t, n.currentHash)'
            BY <3>2 DEF IsHead, Newest
        <3>5. HeadOf(t)' = n.currentHash
            BY <3>2, <3>4 DEF HeadsFound
        <3>6. \A u \in OneClient \ {t} : HeadOf(u)' = HeadOf(u)
            BY <1>0, <3>2
        <3>7. [u \in OneClient |-> EntriesOf(u)]' =
                  [[u \in OneClient |-> EntriesOf(u)] EXCEPT ![t] = @ \cup {n}]
            BY <3>2
        <3>8. [u \in OneClient |-> HeadOf(u)]' =
                  [[u \in OneClient |-> HeadOf(u)] EXCEPT ![t] = n.currentHash]
            BY <3>2, <3>5, <3>6
        <3>9. Chain!Extend(t, n)
            BY <3>2, <3>3, <3>7, <3>8 DEF Chain!Extend
        <3>10. n \in [u \in OneClient |-> EntriesOf(u)]'[t]
            BY <3>2
        <3> QED
            BY <3>2, <3>9, <3>10 DEF Chain!ChainNext
    <2> QED
        BY <2>1, <2>2
<1>4. ASSUME NEW r \in Requests, Create(r) PROVE [Chain!ChainNext]_(Chain!chainVars)
    <2>1. CASE Abort(r)
        BY <1>2, <2>1 DEF Abort
    <2> QED
        BY <1>2, <1>3, <1>4, <2>1 DEF Create
<1>5. CASE UNCHANGED vars \/ Tick
    BY <1>2, <1>5 DEF vars, Tick
<1>6. ASSUME NEW r \in Requests,
             MainWrite(r) \/ ReadPrevious(r) \/ Stamp(r) \/ Fail(r)
      PROVE  [Chain!ChainNext]_(Chain!chainVars)
    BY <1>2, <1>6 DEF MainWrite, ReadPrevious, Stamp, Fail, Abort
<1>7. ASSUME NEW r \in Requests, Commit(r) PROVE [Chain!ChainNext]_(Chain!chainVars)
    BY <1>3, <1>7 DEF Commit
<1> QED
    BY <1>4, <1>5, <1>6, <1>7 DEF Next

(* For a client that waits for its answers, the unlocked read and insert   *)
(* of createAuditLog build exactly the chain HashChain promises.           *)
THEOREM TrailImplementsChain == Spec => ImplementsChain
<1>1. Init => Chain!ChainInit
    <2> SUFFICES ASSUME Init PROVE Chain!ChainInit
        OBVIOUS
    <2>1. \A t : EntriesOf(t) = {} /\ HeadOf(t) = Genesis
        BY DEF Init, EntriesOf, HeadOf
    <2> QED
        BY <2>1 DEF Chain!ChainInit
<1>2. ChainInv => HeadsFound
    BY HeadIsUnique DEF ChainInv, HeadsFound
<1>3. /\ ChainInv /\ HeadsFound /\ ChainInv' /\ HeadsFound' /\ [Next]_vars
      => [Chain!ChainNext]_(Chain!chainVars)
    BY ChainRefinementStep
<1> QED
    BY <1>1, <1>2, <1>3, ChainAlways, PTL DEF Spec, ImplementsChain, Chain!ChainSpec
=============================================================================
