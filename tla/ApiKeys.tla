------------------------------- MODULE ApiKeys -------------------------------
(***************************************************************************)
(* API keys: how auth.service.ts issues, rotates and revokes them, and how *)
(* extractTenantFromApiKey resolves the tenant of a request from the       *)
(* secret it carries.  Management calls and authentications are requests   *)
(* in flight: each await on the database is a step of its own, and steps   *)
(* of different requests interleave.                                       *)
(*                                                                         *)
(* An Argon2 hash is modelled by the secret it was made from: verify is    *)
(* equality.  One tick of the clock is a fraction of the grace period.     *)
(***************************************************************************)
EXTENDS Integers

CONSTANTS Tenants,    \* tenants
          Keys,       \* ids of ApiKey rows
          OneAdmin,   \* keys whose management calls come one after the other
          Secrets,    \* raw keys
          Admins,     \* management requests (generate, rotate, revoke)
          Auths,      \* requests passing through extractTenantFromApiKey
          Grace,      \* length of the grace period (15 minutes)
          MaxNow,     \* bound of the clock
          None        \* no tenant, no key, no secret

ASSUME ApiKeysAssumption ==
    /\ OneAdmin \subseteq Keys
    /\ Grace \in Nat \ {0}
    /\ MaxNow \in Nat
    /\ None \notin Tenants \cup Keys \cup Secrets

VARIABLES now,        \* the clock
          key,        \* the ApiKey table; tenant None: there is no such row
          mintedFor,  \* the tenant a secret was generated for
          adm,        \* the management requests
          auth,       \* the authentications
          steady      \* history: the secret of auth[u] was valid ever since u began

vars == <<now, key, mintedFor, adm, auth, steady>>

-----------------------------------------------------------------------------
Rows == [tenant : Tenants \cup {None}, hash : Secrets \cup {None},
         old : Secrets \cup {None}, oldExpires : Nat, active : BOOLEAN]

NoRow == [tenant |-> None, hash |-> None, old |-> None, oldExpires |-> 0,
          active |-> FALSE]

AdminRequests ==
    [pc : {"idle", "read", "hashed", "stored", "done", "failed"},
     op : {"generate", "rotate", "revoke"}, tenant : Tenants \cup {None},
     key : Keys \cup {None}, read : Secrets \cup {None}, new : Secrets \cup {None},
     expires : Nat]

AuthRequests ==
    [pc : {"idle", "active", "grace", "accepted", "rejected"},
     secret : Secrets \cup {None}, tenant : Tenants \cup {None}]

Exists(k) == key[k].tenant # None

-----------------------------------------------------------------------------
(* Mutant of GraceMatches: the grace period is not looked at.              *)
GraceMatchesForever(s) == {k \in Keys : Exists(k) /\ key[k].old = s}

(* The lookups of extractTenantFromApiKey: rows whose current hash matches *)
(* among the active ones, and rows whose old hash is in its grace period.  *)
ActiveMatches(s) == {k \in Keys : Exists(k) /\ key[k].active /\ key[k].hash = s}

GraceMatches(s) ==
    {k \in Keys : Exists(k) /\ key[k].old = s /\ key[k].oldExpires > now}

Valid(s) == ActiveMatches(s) \cup GraceMatches(s) # {}

-----------------------------------------------------------------------------
Init ==
    /\ now = 0
    /\ key = [k \in Keys |-> NoRow]
    /\ mintedFor = [s \in Secrets |-> None]
    /\ adm = [a \in Admins |->
                 [pc |-> "idle", op |-> "generate", tenant |-> None, key |-> None,
                  read |-> None, new |-> None, expires |-> 0]]
    /\ auth = [u \in Auths |-> [pc |-> "idle", secret |-> None, tenant |-> None]]
    /\ steady = [u \in Auths |-> TRUE]

(* generateApiKey and hashApiKey: a secret nobody has seen.                *)
Mint(s, t) ==
    /\ mintedFor[s] = None
    /\ mintedFor' = [mintedFor EXCEPT ![s] = t]

(* generateApiKey: the owner check has passed, the secret is hashed.       *)
GenerateBegin(a) ==
    /\ adm[a].pc = "idle"
    /\ \E t \in Tenants, s \in Secrets :
           /\ Mint(s, t)
           /\ adm' = [adm EXCEPT ![a] =
                         [@ EXCEPT !.pc = "hashed", !.op = "generate", !.tenant = t,
                                   !.new = s]]
    /\ UNCHANGED <<now, key, auth>>

(* apiKey.create, here and in registerTenant's transaction.                *)
GenerateStore(a) ==
    /\ adm[a].pc = "hashed" /\ adm[a].op = "generate"
    /\ \E k \in Keys :
           /\ ~ Exists(k)
           /\ key' = [key EXCEPT ![k] =
                         [NoRow EXCEPT !.tenant = adm[a].tenant, !.hash = adm[a].new,
                                       !.active = TRUE]]
           /\ adm' = [adm EXCEPT ![a].pc = "stored", ![a].key = k]
    /\ UNCHANGED <<now, mintedFor, auth>>

(* Mutant of FindOwn: findFirst by id alone.                               *)
FindAny(k, t) == Exists(k)

(* findFirst {id, tenantId}: the key, if it is the caller's tenant's.      *)
FindOwn(k, t) == Exists(k) /\ key[k].tenant = t

(* rotateApiKey reads the row: found and active, or an error.              *)
RotateRead(a) ==
    /\ adm[a].pc = "idle"
    /\ \E t \in Tenants, k \in Keys :
           adm' = [adm EXCEPT ![a] =
                      [@ EXCEPT !.op = "rotate", !.tenant = t, !.key = k,
                                !.pc = IF FindOwn(k, t) /\ key[k].active
                                       THEN "read" ELSE "failed",
                                !.read = IF FindOwn(k, t) /\ key[k].active
                                         THEN key[k].hash ELSE None]]
    /\ UNCHANGED <<now, key, mintedFor, auth>>

(* The new secret is hashed (slowly), then graceExpiresAt is computed.     *)
RotateHash(a) ==
    /\ adm[a].pc = "read" /\ adm[a].op = "rotate"
    /\ \E s \in Secrets :
           /\ Mint(s, adm[a].tenant)
           /\ adm' = [adm EXCEPT ![a] = [@ EXCEPT !.pc = "hashed", !.new = s,
                                                  !.expires = now + Grace]]
    /\ UNCHANGED <<now, key, auth>>

(* Mutant of RotateStore: the update writes the whole row it has read.     *)
RotateStoreWholeRow(a) ==
    /\ adm[a].pc = "hashed" /\ adm[a].op = "rotate"
    /\ key' = [key EXCEPT ![adm[a].key] =
                  [@ EXCEPT !.hash = adm[a].new, !.old = adm[a].read,
                            !.oldExpires = adm[a].expires, !.active = TRUE]]
    /\ adm' = [adm EXCEPT ![a].pc = "stored"]
    /\ UNCHANGED <<now, mintedFor, auth>>

(* Mutant of RotateStore: the new hash is not written.                     *)
RotateStoreKeepsHash(a) ==
    /\ adm[a].pc = "hashed" /\ adm[a].op = "rotate"
    /\ key' = [key EXCEPT ![adm[a].key] =
                  [@ EXCEPT !.old = adm[a].read, !.oldExpires = adm[a].expires]]
    /\ adm' = [adm EXCEPT ![a].pc = "stored"]
    /\ UNCHANGED <<now, mintedFor, auth>>

(* apiKey.update: the old hash is the one read before the hashing.         *)
RotateStore(a) ==
    /\ adm[a].pc = "hashed" /\ adm[a].op = "rotate"
    /\ key' = [key EXCEPT ![adm[a].key] =
                  [@ EXCEPT !.hash = adm[a].new, !.old = adm[a].read,
                            !.oldExpires = adm[a].expires]]
    /\ adm' = [adm EXCEPT ![a].pc = "stored"]
    /\ UNCHANGED <<now, mintedFor, auth>>

(* revokeApiKey reads the row, whether active or not.                      *)
RevokeRead(a) ==
    /\ adm[a].pc = "idle"
    /\ \E t \in Tenants, k \in Keys :
           adm' = [adm EXCEPT ![a] =
                      [@ EXCEPT !.op = "revoke", !.tenant = t, !.key = k,
                                !.pc = IF FindOwn(k, t) THEN "read" ELSE "failed"]]
    /\ UNCHANGED <<now, key, mintedFor, auth>>

RevokeStore(a) ==
    /\ adm[a].pc = "read" /\ adm[a].op = "revoke"
    /\ key' = [key EXCEPT ![adm[a].key].active = FALSE]
    /\ adm' = [adm EXCEPT ![a].pc = "stored"]
    /\ UNCHANGED <<now, mintedFor, auth>>

(* The audit entry is written and the caller gets the answer, which holds  *)
(* the new secret.                                                         *)
Answer(a) ==
    /\ adm[a].pc = "stored"
    /\ adm' = [adm EXCEPT ![a].pc = "done"]
    /\ UNCHANGED <<now, key, mintedFor, auth>>

(* A query fails or the process dies: the caller learns nothing.           *)
AdminFail(a) ==
    /\ adm[a].pc \in {"read", "hashed", "stored"}
    /\ adm' = [adm EXCEPT ![a].pc = "failed"]
    /\ UNCHANGED <<now, key, mintedFor, auth>>

-----------------------------------------------------------------------------
AuthBegin(u) ==
    /\ auth[u].pc = "idle"
    /\ \E s \in Secrets : auth' = [auth EXCEPT ![u].pc = "active", ![u].secret = s]
    /\ UNCHANGED <<now, key, mintedFor, adm>>

(* One of the matching rows gives the request its tenant.                  *)
Accept(u, matches) ==
    \E k \in matches :
        auth' = [auth EXCEPT ![u].pc = "accepted", ![u].tenant = key[k].tenant]

(* Mutant of ReadActive: an unmatched secret is rejected at once.          *)
ReadActiveOnly(u) ==
    /\ auth[u].pc = "active"
    /\ \/ Accept(u, ActiveMatches(auth[u].secret))
       \/ /\ ActiveMatches(auth[u].secret) = {}
          /\ auth' = [auth EXCEPT ![u].pc = "rejected"]
    /\ UNCHANGED <<now, key, mintedFor, adm>>

(* First findMany: the active rows; the loop compares current hashes.      *)
ReadActive(u) ==
    /\ auth[u].pc = "active"
    /\ \/ Accept(u, ActiveMatches(auth[u].secret))
       \/ /\ ActiveMatches(auth[u].secret) = {}
          /\ auth' = [auth EXCEPT ![u].pc = "grace"]
    /\ UNCHANGED <<now, key, mintedFor, adm>>

(* Second findMany: rows in their grace period, active or not.             *)
ReadGrace(u) ==
    /\ auth[u].pc = "grace"
    /\ \/ Accept(u, GraceMatches(auth[u].secret))
       \/ /\ GraceMatches(auth[u].secret) = {}
          /\ auth' = [auth EXCEPT ![u].pc = "rejected"]
    /\ UNCHANGED <<now, key, mintedFor, adm>>

-----------------------------------------------------------------------------
Tick ==
    /\ now < MaxNow
    /\ now' = now + 1
    /\ UNCHANGED <<key, mintedFor, adm, auth>>

(* The history of validity that NoSpuriousRejection speaks of.             *)
Observe ==
    steady' = [u \in Auths |->
                  \/ auth'[u].pc = "idle"
                  \/ /\ steady[u]
                     /\ auth[u].pc \in {"accepted", "rejected"} \/ Valid(auth[u].secret)']

AdminNext(a) ==
    \/ GenerateBegin(a) \/ GenerateStore(a)
    \/ RotateRead(a) \/ RotateHash(a) \/ RotateStore(a)
    \/ RevokeRead(a) \/ RevokeStore(a)
    \/ Answer(a) \/ AdminFail(a)

AuthNext(u) == AuthBegin(u) \/ ReadActive(u) \/ ReadGrace(u)

(* The management calls of a key with one administrator do not overlap.    *)
InProgress(a) == adm[a].pc \in {"read", "hashed", "stored"}

OneAtATime ==
    \A a, b \in Admins :
        (a # b /\ InProgress(a) /\ InProgress(b) /\ adm[a].key = adm[b].key) =>
            adm[a].key \notin OneAdmin

Next ==
    /\ \/ Tick
       \/ \E a \in Admins : AdminNext(a)
       \/ \E u \in Auths : AuthNext(u)
    /\ Observe
    /\ OneAtATime'

Spec == Init /\ [][Next]_vars

-----------------------------------------------------------------------------
(* Every variable has its type.                                            *)
TypeOK ==
    /\ now \in Nat
    /\ key \in [Keys -> Rows]
    /\ mintedFor \in [Secrets -> Tenants \cup {None}]
    /\ adm \in [Admins -> AdminRequests]
    /\ auth \in [Auths -> AuthRequests]
    /\ steady \in [Auths -> BOOLEAN]

(* Tenant resolution: a request that is let in acts for the tenant its     *)
(* secret was generated for, however it raced with rotations.              *)
TenantResolution ==
    \A u \in Auths :
        auth[u].pc = "accepted" => auth[u].tenant = mintedFor[auth[u].secret]

(* A request is refused only if its secret was not valid at some moment    *)
(* while it was being looked up: the two lookups, current hashes first and *)
(* old ones second, miss no secret that a rotation moves from one to the   *)
(* other in between.                                                       *)
NoSpuriousRejection == \A u \in Auths : auth[u].pc = "rejected" => ~ steady[u]

KeysKeepTenantAndEnd ==
    \A k \in Keys :
        Exists(k) =>
            /\ key'[k].tenant = key[k].tenant
            /\ key'[k].active => key[k].active

(* "cannot be undone" (auth.routes.ts): no step, not even a rotation that  *)
(* read the row before, makes a revoked key active again, and no key       *)
(* changes its tenant.                                                     *)
RevocationSticks == [][KeysKeepTenantAndEnd]_vars

Rotated(a) == adm[a].op = "rotate" /\ adm[a].pc \in {"stored", "done"}

(* Rotations that come one at a time end the old key's life when they      *)
(* said: it is not valid any more at the announced graceExpiresAt.         *)
GraceEnds ==
    \A a \in Admins :
        (Rotated(a) /\ adm[a].key \in OneAdmin /\ now >= adm[a].expires) =>
            ~ Valid(adm[a].read)

ActiveUntilReplaced(a) ==
    (adm[a].pc = "done" /\ adm[a].op \in {"generate", "rotate"}) =>
        \/ Valid(adm[a].new)
        \/ ~ key[adm[a].key].active
        \/ \E b \in Admins : adm[b].op = "rotate" /\ adm[b].read = adm[a].new

(* If the management calls of a key come one at a time, the secret handed  *)
(* to a caller is valid until its key is revoked, or a rotation that       *)
(* replaces this very secret ends it.                                      *)
NewKeyActiveAlone ==
    \A a \in Admins : adm[a].key \in OneAdmin => ActiveUntilReplaced(a)

(* A key that is revoked admits nobody.                                    *)
RevokedAdmitsNobody ==
    \A a \in Admins :
        (adm[a].op = "revoke" /\ adm[a].pc = "done") =>
            \A s \in Secrets : adm[a].key \notin ActiveMatches(s) \cup GraceMatches(s)
==============================================================================
