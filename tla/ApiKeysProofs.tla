---------------------------- MODULE ApiKeysProofs ----------------------------
(***************************************************************************)
(* Tenant resolution, grace periods, uniqueness and revocation of API      *)
(* keys, for any number of tenants, keys, secrets and requests in flight.  *)
(***************************************************************************)
EXTENDS ApiKeys, TLAPS

(* The hashes of a row were made from secrets of the row's tenant.         *)
RowHome(k) ==
    Exists(k) =>
        /\ key[k].hash \in Secrets
        /\ mintedFor[key[k].hash] = key[k].tenant
        /\ key[k].old \in Secrets => mintedFor[key[k].old] = key[k].tenant

(* A management request holds secrets of its own tenant, and has found the *)
(* key it is about to write in its own tenant.                             *)
AdminHome(a) ==
    /\ adm[a].pc = "hashed" =>
           /\ adm[a].tenant \in Tenants
           /\ adm[a].new \in Secrets
           /\ mintedFor[adm[a].new] = adm[a].tenant
    /\ adm[a].op = "rotate" /\ adm[a].pc \in {"read", "hashed"} =>
           /\ adm[a].tenant \in Tenants
           /\ adm[a].key \in Keys
           /\ key[adm[a].key].tenant = adm[a].tenant
           /\ adm[a].read \in Secrets
           /\ mintedFor[adm[a].read] = adm[a].tenant
    /\ adm[a].op = "revoke" /\ adm[a].pc = "read" =>
           adm[a].key \in Keys /\ Exists(adm[a].key)

AuthHome(u) ==
    /\ auth[u].pc # "idle" => auth[u].secret \in Secrets
    /\ auth[u].pc = "accepted" =>
           auth[u].tenant \in Tenants /\ auth[u].tenant = mintedFor[auth[u].secret]

RowsHome == \A k \in Keys : RowHome(k)
AdminsHome == \A a \in Admins : AdminHome(a)
AuthsHome == \A u \in Auths : AuthHome(u)

TenantInv == TypeOK /\ RowsHome /\ AdminsHome /\ AuthsHome

-----------------------------------------------------------------------------
(* A secret that was generated keeps its tenant, and so does a key.        *)
LEMMA MintedStays ==
    ASSUME TypeOK, [Next]_vars
    PROVE  \A s \in Secrets : mintedFor[s] # None => mintedFor'[s] = mintedFor[s]
BY DEF TypeOK, Next, vars, AdminNext, AuthNext, Tick, GenerateBegin, GenerateStore,
       RotateRead, RotateHash, RotateStore, RevokeRead, RevokeStore, Answer, AdminFail,
       AuthBegin, ReadActive, ReadGrace, Mint

(* No step gives an existing key to another tenant.                        *)
LEMMA KeyTenantStays ==
    ASSUME TypeOK, [Next]_vars
    PROVE  \A k \in Keys : Exists(k) => key'[k].tenant = key[k].tenant
<1>1. ASSUME NEW a \in Admins, GenerateStore(a)
      PROVE  \A k \in Keys : Exists(k) => key'[k].tenant = key[k].tenant
    BY <1>1 DEF TypeOK, GenerateStore, Exists
<1>2. ASSUME NEW a \in Admins, RotateStore(a), NEW k \in Keys
      PROVE  key'[k].tenant = key[k].tenant
    BY <1>2 DEF TypeOK, Rows, RotateStore
<1>3. ASSUME NEW a \in Admins, RevokeStore(a), NEW k \in Keys
      PROVE  key'[k].tenant = key[k].tenant
    BY <1>3 DEF TypeOK, Rows, RevokeStore
<1> QED
    BY <1>1, <1>2, <1>3
    DEF Next, vars, AdminNext, AuthNext, Tick, GenerateBegin, RotateRead,
        RotateHash, RevokeRead, Answer, AdminFail, AuthBegin, ReadActive, ReadGrace

(* A step that leaves the rows, or the requests, alone keeps them at home. *)
LEMMA RowFrame ==
    ASSUME TenantInv, [Next]_vars, NEW k \in Keys, key'[k] = key[k]
    PROVE  RowHome(k)'
BY MintedStays, ApiKeysAssumption
DEF TenantInv, RowsHome, RowHome, Exists, TypeOK, Rows

(* A management request that does not move stays at home.                  *)
LEMMA AdminFrame ==
    ASSUME TenantInv, [Next]_vars, NEW a \in Admins, adm'[a] = adm[a]
    PROVE  AdminHome(a)'
BY MintedStays, KeyTenantStays, ApiKeysAssumption
DEF TenantInv, AdminsHome, AdminHome, Exists, TypeOK, AdminRequests

(* An authentication that does not move stays at home.                     *)
LEMMA AuthFrame ==
    ASSUME TenantInv, [Next]_vars, NEW u \in Auths, auth'[u] = auth[u]
    PROVE  AuthHome(u)'
BY MintedStays, ApiKeysAssumption
DEF TenantInv, AuthsHome, AuthHome, TypeOK, AuthRequests

-----------------------------------------------------------------------------
(* Every step keeps the types.                                             *)
LEMMA StepTypeOK ==
    ASSUME TypeOK, [Next]_vars
    PROVE  TypeOK'
<1> USE ApiKeysAssumption
<1>0. /\ \A a \in Admins : adm[a] \in AdminRequests
      /\ \A k \in Keys : key[k] \in Rows
    BY DEF TypeOK
<1>1. ASSUME Next PROVE steady' \in [Auths -> BOOLEAN]
    BY <1>1 DEF Next, Observe
<1>2. CASE UNCHANGED vars
    BY <1>2 DEF vars, TypeOK
<1>3. ASSUME Next, Tick PROVE TypeOK'
    BY <1>1, <1>3 DEF Tick, TypeOK
<1>4. ASSUME Next, NEW a \in Admins, GenerateBegin(a) PROVE TypeOK'
    <2>1. PICK t \in Tenants, s \in Secrets :
             /\ Mint(s, t)
             /\ adm' = [adm EXCEPT ![a] =
                           [adm[a] EXCEPT !.pc = "hashed", !.op = "generate",
                                          !.tenant = t, !.new = s]]
        BY <1>4 DEF GenerateBegin
    <2>2. [adm[a] EXCEPT !.pc = "hashed", !.op = "generate", !.tenant = t, !.new = s]
              \in AdminRequests
        BY <1>0 DEF AdminRequests
    <2> QED
        BY <1>1, <1>4, <2>1, <2>2 DEF GenerateBegin, Mint, TypeOK
<1>5. ASSUME Next, NEW a \in Admins, GenerateStore(a) PROVE TypeOK'
    <2>1. PICK k \in Keys :
             /\ key' = [key EXCEPT ![k] =
                           [NoRow EXCEPT !.tenant = adm[a].tenant, !.hash = adm[a].new,
                                         !.active = TRUE]]
             /\ adm' = [adm EXCEPT ![a].pc = "stored", ![a].key = k]
        BY <1>5 DEF GenerateStore
    <2>2. [NoRow EXCEPT !.tenant = adm[a].tenant, !.hash = adm[a].new, !.active = TRUE]
              \in Rows
        BY <1>0 DEF Rows, NoRow, AdminRequests
    <2>3. [adm[a] EXCEPT !.pc = "stored", !.key = k] \in AdminRequests
        BY <1>0 DEF AdminRequests
    <2>4. adm' = [adm EXCEPT ![a] = [adm[a] EXCEPT !.pc = "stored", !.key = k]]
        BY <2>1 DEF TypeOK
    <2>5. key' \in [Keys -> Rows]
        BY <2>1, <2>2 DEF TypeOK
    <2>6. adm' \in [Admins -> AdminRequests]
        BY <2>3, <2>4 DEF TypeOK
    <2> QED
        BY <1>1, <1>5, <2>5, <2>6 DEF GenerateStore, TypeOK
<1>6. ASSUME Next, NEW a \in Admins, RotateRead(a) PROVE TypeOK'
    <2>1. PICK t \in Tenants, k \in Keys :
              adm' = [adm EXCEPT ![a] =
                        [adm[a] EXCEPT !.op = "rotate", !.tenant = t, !.key = k,
                                       !.pc = IF FindOwn(k, t) /\ key[k].active
                                              THEN "read" ELSE "failed",
                                       !.read = IF FindOwn(k, t) /\ key[k].active
                                                THEN key[k].hash ELSE None]]
        BY <1>6 DEF RotateRead
    <2>2. key[k].hash \in Secrets \cup {None}
        BY DEF TypeOK, Rows
    <2>3. [adm[a] EXCEPT !.op = "rotate", !.tenant = t, !.key = k,
                         !.pc = IF FindOwn(k, t) /\ key[k].active
                                THEN "read" ELSE "failed",
                         !.read = IF FindOwn(k, t) /\ key[k].active
                                  THEN key[k].hash ELSE None] \in AdminRequests
        <3>1. ASSUME NEW p \in {"read", "failed"}, NEW h \in Secrets \cup {None}
              PROVE  [adm[a] EXCEPT !.op = "rotate", !.tenant = t, !.key = k,
                                    !.pc = p, !.read = h] \in AdminRequests
            BY <1>0, <3>1 DEF AdminRequests
        <3>2. CASE FindOwn(k, t) /\ key[k].active
            BY <2>2, <3>1, <3>2
        <3>3. CASE ~ (FindOwn(k, t) /\ key[k].active)
            BY <3>1, <3>3
        <3> QED
            BY <3>2, <3>3
    <2> QED
        BY <1>1, <1>6, <2>1, <2>3 DEF RotateRead, TypeOK
<1>7. ASSUME Next, NEW a \in Admins, RotateHash(a) PROVE TypeOK'
    <2>1. PICK s \in Secrets :
             /\ Mint(s, adm[a].tenant)
             /\ adm' = [adm EXCEPT ![a] =
                           [adm[a] EXCEPT !.pc = "hashed", !.new = s,
                                          !.expires = now + Grace]]
        BY <1>7 DEF RotateHash
    <2>2. [adm[a] EXCEPT !.pc = "hashed", !.new = s, !.expires = now + Grace]
              \in AdminRequests
        <3>1. now + Grace \in Nat
            BY DEF TypeOK
        <3> QED
            BY <1>0, <3>1 DEF AdminRequests
    <2>3. mintedFor' \in [Secrets -> Tenants \cup {None}]
        BY <1>0, <2>1 DEF TypeOK, AdminRequests, Mint
    <2> QED
        BY <1>1, <1>7, <2>1, <2>2, <2>3 DEF RotateHash, TypeOK
<1>8. ASSUME Next, NEW a \in Admins, RotateStore(a) PROVE TypeOK'
    <2>1. ASSUME NEW k \in Keys
          PROVE  [key[k] EXCEPT !.hash = adm[a].new, !.old = adm[a].read,
                                !.oldExpires = adm[a].expires] \in Rows
        <3>1. key[k] \in Rows
            BY <1>0
        <3>2. /\ adm[a].new \in Secrets \cup {None}
              /\ adm[a].read \in Secrets \cup {None}
              /\ adm[a].expires \in Nat
            BY <1>0 DEF AdminRequests
        <3> QED
            BY <3>1, <3>2 DEF Rows
    <2>2. key' \in [Keys -> Rows]
        BY <1>8, <2>1 DEF RotateStore, TypeOK
    <2>3. adm' \in [Admins -> AdminRequests]
        BY <1>8 DEF RotateStore, TypeOK, AdminRequests
    <2> QED
        BY <1>1, <1>8, <2>2, <2>3 DEF RotateStore, TypeOK
<1>9. ASSUME Next, NEW a \in Admins, RevokeRead(a) PROVE TypeOK'
    <2>1. PICK t \in Tenants, k \in Keys :
              adm' = [adm EXCEPT ![a] =
                        [adm[a] EXCEPT !.op = "revoke", !.tenant = t, !.key = k,
                                       !.pc = IF FindOwn(k, t) THEN "read" ELSE "failed"]]
        BY <1>9 DEF RevokeRead
    <2>2. [adm[a] EXCEPT !.op = "revoke", !.tenant = t, !.key = k,
                         !.pc = IF FindOwn(k, t) THEN "read" ELSE "failed"]
              \in AdminRequests
        BY <1>0 DEF AdminRequests
    <2> QED
        BY <1>1, <1>9, <2>1, <2>2 DEF RevokeRead, TypeOK
<1>10. ASSUME Next, NEW a \in Admins, RevokeStore(a) PROVE TypeOK'
    <2>1. key' \in [Keys -> Rows]
        BY <1>10 DEF RevokeStore, TypeOK, Rows
    <2>2. adm \in [Admins -> AdminRequests] /\ [adm[a] EXCEPT !.pc = "stored"] \in AdminRequests
        BY <1>0 DEF TypeOK, AdminRequests
    <2>3. adm' \in [Admins -> AdminRequests]
        BY <1>10, <2>2 DEF RevokeStore
    <2> QED
        BY <1>1, <1>10, <2>1, <2>3 DEF RevokeStore, TypeOK
<1>11. ASSUME Next, NEW a \in Admins, Answer(a) \/ AdminFail(a) PROVE TypeOK'
    <2>1. adm \in [Admins -> AdminRequests]
        BY DEF TypeOK
    <2>2. PICK p \in {"done", "failed"} : adm' = [adm EXCEPT ![a].pc = p]
        BY <1>11 DEF Answer, AdminFail
    <2>3. [adm[a] EXCEPT !.pc = p] \in AdminRequests
        BY <1>0 DEF AdminRequests
    <2>4. adm' \in [Admins -> AdminRequests]
        BY <2>1, <2>2, <2>3
    <2> QED
        BY <1>1, <1>11, <2>4 DEF Answer, AdminFail, TypeOK
<1>12. ASSUME Next, NEW u \in Auths, AuthNext(u) PROVE TypeOK'
    <2>1. auth' \in [Auths -> AuthRequests]
        <3>1. /\ auth \in [Auths -> AuthRequests]
              /\ \A k \in Keys : key[k].tenant \in Tenants \cup {None}
            BY <1>0 DEF TypeOK, Rows
        <3>2. CASE AuthBegin(u)
            <4>1. PICK x \in Secrets :
                      auth' = [auth EXCEPT ![u].pc = "active", ![u].secret = x]
                BY <3>2 DEF AuthBegin
            <4>2. [[auth[u] EXCEPT !.pc = "active"] EXCEPT !.secret = x] \in AuthRequests
                BY <3>1 DEF AuthRequests
            <4> QED
                BY <3>1, <4>1, <4>2
        <3>3. ASSUME NEW k \in Keys,
                     auth' = [auth EXCEPT ![u].pc = "accepted", ![u].tenant = key[k].tenant]
              PROVE  auth' \in [Auths -> AuthRequests]
            <4>1. [[auth[u] EXCEPT !.pc = "accepted"] EXCEPT !.tenant = key[k].tenant]
                      \in AuthRequests
                BY <3>1 DEF AuthRequests
            <4> QED
                BY <3>1, <3>3, <4>1
        <3>4. CASE ReadActive(u)
            BY <3>1, <3>3, <3>4 DEF ReadActive, Accept, ActiveMatches, AuthRequests
        <3>5. CASE ReadGrace(u)
            BY <3>1, <3>3, <3>5 DEF ReadGrace, Accept, GraceMatches, AuthRequests
        <3> QED
            BY <1>12, <3>2, <3>4, <3>5 DEF AuthNext
    <2> QED
        BY <1>1, <1>12, <2>1 DEF AuthNext, AuthBegin, ReadActive, ReadGrace, TypeOK
<1> QED
    BY <1>2, <1>3, <1>4, <1>5, <1>6, <1>7, <1>8, <1>9, <1>10, <1>11, <1>12
    DEF Next, AdminNext

-----------------------------------------------------------------------------
(* A step of request a is safe if it leaves a, and the row it writes (if   *)
(* it writes one), at home.                                                *)
LEMMA AdminStep ==
    ASSUME TenantInv, [Next]_vars, NEW a \in Admins, UNCHANGED auth,
           \A b \in Admins \ {a} : adm'[b] = adm[b], AdminHome(a)',
           \A k \in Keys : key'[k] = key[k] \/ RowHome(k)'
    PROVE  TenantInv'
<1>1. TypeOK'
    BY StepTypeOK DEF TenantInv
<1>2. RowsHome'
    BY RowFrame DEF RowsHome
<1>3. AdminsHome'
    BY AdminFrame DEF AdminsHome
<1>4. AuthsHome'
    BY AuthFrame DEF AuthsHome
<1> QED
    BY <1>1, <1>2, <1>3, <1>4 DEF TenantInv

(* Every step preserves the inductive invariant.                           *)
LEMMA TenantStep ==
    ASSUME TenantInv, [Next]_vars
    PROVE  TenantInv'
<1> USE ApiKeysAssumption
<1>0. /\ TypeOK /\ TypeOK'
      /\ \A a \in Admins : AdminHome(a) /\ adm[a] \in AdminRequests
      /\ \A k \in Keys : RowHome(k) /\ key[k] \in Rows
      /\ \A u \in Auths : AuthHome(u) /\ auth[u] \in AuthRequests
    BY StepTypeOK DEF TenantInv, RowsHome, AdminsHome, AuthsHome, TypeOK
<1>1. CASE UNCHANGED <<key, adm, auth>>
    BY <1>0, <1>1, RowFrame, AdminFrame, AuthFrame
    DEF TenantInv, RowsHome, AdminsHome, AuthsHome
<1>2. ASSUME NEW a \in Admins, GenerateBegin(a) PROVE TenantInv'
    <2>1. PICK t \in Tenants, s \in Secrets :
             /\ Mint(s, t)
             /\ adm' = [adm EXCEPT ![a] =
                           [adm[a] EXCEPT !.pc = "hashed", !.op = "generate",
                                          !.tenant = t, !.new = s]]
        BY <1>2 DEF GenerateBegin
    <2>2. /\ adm'[a] = [adm[a] EXCEPT !.pc = "hashed", !.op = "generate",
                                      !.tenant = t, !.new = s]
          /\ mintedFor'[s] = t
        BY <2>1 DEF TypeOK, TenantInv, Mint
    <2>3. AdminHome(a)'
        BY <1>0, <2>2 DEF AdminHome, AdminRequests
    <2> QED
        BY <1>2, <2>1, <2>3, AdminStep DEF GenerateBegin, TypeOK, TenantInv
<1>3. ASSUME NEW a \in Admins, GenerateStore(a) PROVE TenantInv'
    <2>1. PICK k \in Keys :
             /\ key' = [key EXCEPT ![k] =
                           [NoRow EXCEPT !.tenant = adm[a].tenant, !.hash = adm[a].new,
                                         !.active = TRUE]]
             /\ adm' = [adm EXCEPT ![a].pc = "stored", ![a].key = k]
        BY <1>3 DEF GenerateStore
    <2>2. /\ adm'[a].pc = "stored"
          /\ \A b \in Admins \ {a} : adm'[b] = adm[b]
        BY <1>0, <2>1 DEF TypeOK, AdminRequests
    <2>3. AdminHome(a)'
        BY <2>2 DEF AdminHome
    <2>4. key'[k] = [NoRow EXCEPT !.tenant = adm[a].tenant, !.hash = adm[a].new,
                                  !.active = TRUE]
        BY <2>1 DEF TypeOK, TenantInv
    <2>5. /\ key'[k].tenant = adm[a].tenant /\ key'[k].hash = adm[a].new
          /\ key'[k].old = None
        BY <2>4 DEF NoRow
    <2>6. adm[a].new \in Secrets /\ mintedFor[adm[a].new] = adm[a].tenant
        BY <1>0, <1>3 DEF GenerateStore, AdminHome
    <2>7. RowHome(k)'
        BY <1>3, <2>5, <2>6 DEF RowHome, GenerateStore
    <2>8. \A j \in Keys \ {k} : key'[j] = key[j]
        BY <2>1 DEF TypeOK, TenantInv
    <2> QED
        BY <1>3, <2>2, <2>3, <2>7, <2>8, AdminStep DEF GenerateStore
<1>4. ASSUME NEW a \in Admins, RotateRead(a) PROVE TenantInv'
    <2>1. PICK t \in Tenants, k \in Keys :
              adm' = [adm EXCEPT ![a] =
                        [adm[a] EXCEPT !.op = "rotate", !.tenant = t, !.key = k,
                                       !.pc = IF FindOwn(k, t) /\ key[k].active
                                              THEN "read" ELSE "failed",
                                       !.read = IF FindOwn(k, t) /\ key[k].active
                                                THEN key[k].hash ELSE None]]
        BY <1>4 DEF RotateRead
    <2>2. /\ adm'[a].op = "rotate" /\ adm'[a].tenant = t /\ adm'[a].key = k
          /\ adm'[a].pc = IF FindOwn(k, t) /\ key[k].active THEN "read" ELSE "failed"
          /\ adm'[a].read = IF FindOwn(k, t) /\ key[k].active
                            THEN key[k].hash ELSE None
          /\ \A b \in Admins \ {a} : adm'[b] = adm[b]
        BY <1>0, <2>1 DEF TypeOK, AdminRequests
    <2>3. AdminHome(a)'
        <3>1. CASE FindOwn(k, t) /\ key[k].active
            <4>1. /\ key[k].tenant = t /\ key[k].hash \in Secrets
                  /\ mintedFor[key[k].hash] = t
                BY <1>0, <3>1 DEF FindOwn, RowHome
            <4> QED
                BY <1>4, <2>2, <3>1, <4>1 DEF AdminHome, RotateRead
        <3>2. CASE ~ (FindOwn(k, t) /\ key[k].active)
            BY <2>2, <3>2 DEF AdminHome
        <3> QED
            BY <3>1, <3>2
    <2> QED
        BY <1>4, <2>2, <2>3, AdminStep DEF RotateRead
<1>5. ASSUME NEW a \in Admins, RotateHash(a) PROVE TenantInv'
    <2>1. PICK s \in Secrets :
             /\ Mint(s, adm[a].tenant)
             /\ adm' = [adm EXCEPT ![a] =
                           [adm[a] EXCEPT !.pc = "hashed", !.new = s,
                                          !.expires = now + Grace]]
        BY <1>5 DEF RotateHash
    <2>2. /\ adm'[a] = [adm[a] EXCEPT !.pc = "hashed", !.new = s, !.expires = now + Grace]
          /\ \A b \in Admins \ {a} : adm'[b] = adm[b]
          /\ mintedFor'[s] = adm[a].tenant
        BY <2>1 DEF TypeOK, TenantInv, Mint
    <2>3. /\ adm'[a].op = "rotate" /\ adm'[a].tenant = adm[a].tenant
          /\ adm'[a].key = adm[a].key /\ adm'[a].read = adm[a].read
          /\ adm'[a].new = s
        BY <1>0, <1>5, <2>2 DEF AdminRequests, RotateHash
    <2>4. /\ adm[a].tenant \in Tenants /\ adm[a].key \in Keys
          /\ key[adm[a].key].tenant = adm[a].tenant
          /\ adm[a].read \in Secrets /\ mintedFor[adm[a].read] = adm[a].tenant
        BY <1>0, <1>5 DEF AdminHome, RotateHash
    <2>5. mintedFor'[adm[a].read] = adm[a].tenant
        BY <1>0, <2>4, MintedStays
    <2>6. AdminHome(a)'
        BY <1>5, <2>2, <2>3, <2>4, <2>5 DEF AdminHome, RotateHash
    <2> QED
        BY <1>5, <2>2, <2>6, AdminStep DEF RotateHash
<1>6. ASSUME NEW a \in Admins, RotateStore(a) PROVE TenantInv'
    <2> DEFINE k == adm[a].key
    <2>1. /\ adm'[a].pc = "stored"
          /\ \A b \in Admins \ {a} : adm'[b] = adm[b]
        BY <1>0, <1>6 DEF TypeOK, AdminRequests, RotateStore
    <2>2. AdminHome(a)'
        BY <2>1 DEF AdminHome
    <2>3. /\ k \in Keys /\ key[k].tenant = adm[a].tenant
          /\ adm[a].new \in Secrets /\ mintedFor[adm[a].new] = adm[a].tenant
          /\ adm[a].read \in Secrets /\ mintedFor[adm[a].read] = adm[a].tenant
        BY <1>0, <1>6 DEF AdminHome, RotateStore
    <2>4. /\ key'[k] = [key[k] EXCEPT !.hash = adm[a].new, !.old = adm[a].read,
                                       !.oldExpires = adm[a].expires]
          /\ \A j \in Keys \ {k} : key'[j] = key[j]
        BY <1>6, <2>3 DEF RotateStore, TypeOK, TenantInv
    <2>5. /\ key'[k].tenant = key[k].tenant /\ key'[k].hash = adm[a].new
          /\ key'[k].old = adm[a].read
        BY <1>0, <2>3, <2>4 DEF Rows
    <2>6. RowHome(k)'
        BY <1>6, <2>3, <2>5 DEF RowHome, RotateStore
    <2> QED
        BY <1>6, <2>1, <2>2, <2>4, <2>6, AdminStep DEF RotateStore
<1>7. ASSUME NEW a \in Admins, RevokeRead(a) PROVE TenantInv'
    <2>1. PICK t \in Tenants, k \in Keys :
              adm' = [adm EXCEPT ![a] =
                        [adm[a] EXCEPT !.op = "revoke", !.tenant = t, !.key = k,
                                       !.pc = IF FindOwn(k, t) THEN "read" ELSE "failed"]]
        BY <1>7 DEF RevokeRead
    <2>2. /\ adm'[a].op = "revoke" /\ adm'[a].key = k
          /\ adm'[a].pc = IF FindOwn(k, t) THEN "read" ELSE "failed"
          /\ \A b \in Admins \ {a} : adm'[b] = adm[b]
        BY <1>0, <2>1 DEF TypeOK, AdminRequests
    <2>3. AdminHome(a)'
        BY <1>7, <2>2 DEF AdminHome, RevokeRead, FindOwn, Exists
    <2> QED
        BY <1>7, <2>2, <2>3, AdminStep DEF RevokeRead
<1>8. ASSUME NEW a \in Admins, RevokeStore(a) PROVE TenantInv'
    <2> DEFINE k == adm[a].key
    <2>1. /\ adm'[a].pc = "stored"
          /\ \A b \in Admins \ {a} : adm'[b] = adm[b]
        BY <1>0, <1>8 DEF TypeOK, AdminRequests, RevokeStore
    <2>2. AdminHome(a)'
        BY <2>1 DEF AdminHome
    <2>3. k \in Keys
        BY <1>0, <1>8 DEF AdminHome, RevokeStore
    <2>4. /\ key'[k].tenant = key[k].tenant /\ key'[k].hash = key[k].hash
          /\ key'[k].old = key[k].old
          /\ \A j \in Keys \ {k} : key'[j] = key[j]
        BY <1>0, <1>8, <2>3 DEF RevokeStore, TypeOK, Rows
    <2>5. RowHome(k)'
        BY <1>0, <1>8, <2>3, <2>4 DEF RowHome, RevokeStore, Exists
    <2> QED
        BY <1>8, <2>1, <2>2, <2>4, <2>5, AdminStep DEF RevokeStore
<1>9. ASSUME NEW a \in Admins, Answer(a) \/ AdminFail(a) PROVE TenantInv'
    <2>1. /\ adm'[a].pc \in {"done", "failed"}
          /\ \A b \in Admins \ {a} : adm'[b] = adm[b]
        BY <1>0, <1>9 DEF TypeOK, AdminRequests, Answer, AdminFail
    <2>2. AdminHome(a)'
        BY <2>1 DEF AdminHome
    <2> QED
        BY <1>9, <2>1, <2>2, AdminStep DEF Answer, AdminFail
<1>10. ASSUME NEW u \in Auths, AuthNext(u) PROVE TenantInv'
    <2>1. /\ UNCHANGED <<key, mintedFor, adm>>
          /\ \A v \in Auths \ {u} : auth'[v] = auth[v]
        BY <1>10 DEF AuthNext, AuthBegin, ReadActive, ReadGrace, Accept, TypeOK, TenantInv
    <2>2. ASSUME AuthBegin(u) PROVE AuthHome(u)'
        BY <1>0, <2>2 DEF AuthBegin, AuthHome, TypeOK, AuthRequests
    <2>3. ASSUME NEW k \in ActiveMatches(auth[u].secret) \cup GraceMatches(auth[u].secret),
                 auth' = [auth EXCEPT ![u].pc = "accepted", ![u].tenant = key[k].tenant],
                 auth[u].pc # "idle"
          PROVE  AuthHome(u)'
        <3>1. /\ k \in Keys /\ Exists(k)
              /\ key[k].hash = auth[u].secret \/ key[k].old = auth[u].secret
            BY DEF ActiveMatches, GraceMatches
        <3>2. auth[u].secret \in Secrets
            BY <1>0, <2>3 DEF AuthHome
        <3>3. key[k].tenant \in Tenants /\ mintedFor[auth[u].secret] = key[k].tenant
            BY <1>0, <3>1, <3>2 DEF RowHome, Rows, Exists
        <3>4. /\ auth'[u].pc = "accepted" /\ auth'[u].tenant = key[k].tenant
              /\ auth'[u].secret = auth[u].secret
            BY <1>0, <2>3 DEF TypeOK, AuthRequests
        <3> QED
            BY <2>1, <3>2, <3>3, <3>4 DEF AuthHome
    <2>4. ASSUME auth' = [auth EXCEPT ![u].pc = "grace"], auth[u].pc # "idle"
          PROVE  AuthHome(u)'
        BY <1>0, <2>4 DEF AuthHome, TypeOK, AuthRequests
    <2>5. ASSUME auth' = [auth EXCEPT ![u].pc = "rejected"], auth[u].pc # "idle"
          PROVE  AuthHome(u)'
        BY <1>0, <2>5 DEF AuthHome, TypeOK, AuthRequests
    <2>6. AuthHome(u)'
        <3>1. CASE ReadActive(u)
            BY <2>3, <2>4, <3>1 DEF ReadActive, Accept
        <3>2. CASE ReadGrace(u)
            BY <2>3, <2>5, <3>2 DEF ReadGrace, Accept
        <3> QED
            BY <1>10, <2>2, <3>1, <3>2 DEF AuthNext
    <2> QED
        BY <1>0, <2>1, <2>6, RowFrame, AdminFrame, AuthFrame
        DEF TenantInv, RowsHome, AdminsHome, AuthsHome
<1> QED
    BY <1>1, <1>2, <1>3, <1>4, <1>5, <1>6, <1>7, <1>8, <1>9, <1>10
    DEF Next, vars, AdminNext, Tick

(* The inductive invariant holds in every reachable state.                 *)
LEMMA TenantAlways == Spec => []TenantInv
<1>1. Init => TenantInv
    BY ApiKeysAssumption
    DEF Init, TenantInv, TypeOK, Rows, NoRow, AdminRequests, AuthRequests, RowsHome,
        RowHome, AdminsHome, AdminHome, AuthsHome, AuthHome, Exists
<1> QED
    BY <1>1, TenantStep, PTL DEF Spec

(* The variables of ApiKeys keep their types.                              *)
THEOREM TypeCorrect == Spec => []TypeOK
<1>1. TenantInv => TypeOK
    BY DEF TenantInv
<1> QED
    BY <1>1, TenantAlways, PTL

(* Whoever is let in acts for the tenant its secret was generated for.     *)
THEOREM ResolvesTenant == Spec => []TenantResolution
<1>1. TenantInv => TenantResolution
    BY DEF TenantInv, AuthsHome, AuthHome, TenantResolution
<1> QED
    BY <1>1, TenantAlways, PTL

(* Revocation is final: rotations in flight do not undo it, and keys never *)
(* move to another tenant.                                                 *)
THEOREM RevocationFinal == Spec => RevocationSticks
<1>1. ASSUME TypeOK, [Next]_vars
      PROVE  [KeysKeepTenantAndEnd]_vars
    <2>1. ASSUME NEW a \in Admins, GenerateStore(a), NEW k \in Keys, Exists(k)
          PROVE  key'[k] = key[k]
        BY <2>1 DEF GenerateStore, Exists, TypeOK
    <2>2. ASSUME NEW a \in Admins, RotateStore(a), NEW k \in Keys
          PROVE  key'[k].active = key[k].active
        BY <1>1, <2>2 DEF RotateStore, TypeOK, Rows
    <2>3. ASSUME NEW a \in Admins, RevokeStore(a), NEW k \in Keys
          PROVE  key'[k].active => key[k].active
        BY <1>1, <2>3 DEF RevokeStore, TypeOK, Rows
    <2>4. ASSUME Next, NEW k \in Keys, Exists(k)
          PROVE  key'[k].active => key[k].active
        BY <2>1, <2>2, <2>3, <2>4
        DEF Next, AdminNext, AuthNext, Tick, GenerateBegin, RotateRead, RotateHash,
            RevokeRead, Answer, AdminFail, AuthBegin, ReadActive, ReadGrace
    <2> QED
        BY <1>1, <2>4, KeyTenantStays DEF KeysKeepTenantAndEnd
<1> QED
    BY <1>1, TypeCorrect, PTL DEF Spec, RevocationSticks

-----------------------------------------------------------------------------
Rotating(a) == adm[a].op = "rotate" /\ adm[a].pc \in {"read", "hashed"}

(* A secret that has been minted and not stored yet is nowhere else.       *)
FreshSecrets ==
    \A a \in Admins :
        adm[a].pc = "hashed" =>
            /\ \A k \in Keys : key[k].hash # adm[a].new /\ key[k].old # adm[a].new
            /\ \A b \in Admins \ {a} : adm[b].pc = "hashed" => adm[b].new # adm[a].new
            /\ \A b \in Admins : Rotating(b) => adm[b].read # adm[a].new

(* A current hash belongs to one key: it is not the current or the old     *)
(* hash of another, nor the one a rotation of another key has read.        *)
HashesApart ==
    \A k \in Keys :
        Exists(k) =>
            /\ \A j \in Keys \ {k} : key[j].hash # key[k].hash /\ key[j].old # key[k].hash
            /\ \A b \in Admins :
                   Rotating(b) /\ adm[b].key # k => adm[b].read # key[k].hash

(* A rotation that is alone with its key has read what is still there.     *)
ReadsCurrent ==
    \A a \in Admins :
        Rotating(a) /\ adm[a].key \in OneAdmin => key[adm[a].key].hash = adm[a].read

(* A secret that a rotation has replaced does not come back, and its grace *)
(* period is not prolonged.                                                *)
RetiredStays ==
    \A a \in Admins :
        Rotated(a) /\ adm[a].key \in OneAdmin =>
            /\ adm[a].read \in Secrets /\ mintedFor[adm[a].read] # None
            /\ \A k \in Keys :
                   /\ key[k].hash # adm[a].read
                   /\ key[k].old = adm[a].read => key[k].oldExpires <= adm[a].expires
            /\ \A b \in Admins : Rotating(b) => adm[b].read # adm[a].read
            /\ \A b \in Admins : adm[b].pc = "hashed" => adm[b].new # adm[a].read

(* A secret that was stored is its key's current one until a rotation of   *)
(* the key has read it.                                                    *)
StoredCurrent ==
    \A a \in Admins :
        /\ adm[a].op \in {"rotate", "revoke"} => adm[a].pc # "idle"
        /\ /\ adm[a].op \in {"generate", "rotate"}
           /\ adm[a].pc \in {"stored", "done"}
           /\ adm[a].key \in OneAdmin
           => /\ Exists(adm[a].key)
              /\ \/ key[adm[a].key].hash = adm[a].new
                 \/ \E b \in Admins : adm[b].op = "rotate" /\ adm[b].read = adm[a].new

(* While an authentication watches its secret stay valid, the secret is    *)
(* valid, and a current hash that was not there does not appear.           *)
WatchedValid ==
    \A u \in Auths :
        /\ auth[u].pc \in {"active", "grace"} /\ steady[u] => Valid(auth[u].secret)
        /\ auth[u].pc = "grace" /\ steady[u] => ActiveMatches(auth[u].secret) = {}
        /\ auth[u].pc = "rejected" => ~ steady[u]

NoRowsClean == \A k \in Keys : ~ Exists(k) => key[k] = NoRow

KeyInv ==
    /\ TenantInv /\ OneAtATime /\ NoRowsClean
    /\ FreshSecrets /\ HashesApart /\ ReadsCurrent /\ RetiredStays /\ StoredCurrent

(* Only request a moves.                                                   *)
OnlyAdmin(a) == auth' = auth /\ \A b \in Admins \ {a} : adm'[b] = adm[b]

(* What each step of a management request changes, field by field.         *)
LEMMA GenerateBeginEffect ==
    ASSUME TypeOK, NEW a \in Admins, GenerateBegin(a)
    PROVE  /\ adm[a].pc = "idle" /\ adm'[a].pc = "hashed" /\ adm'[a].op = "generate"
           /\ adm'[a].new \in Secrets /\ mintedFor[adm'[a].new] = None
           /\ adm'[a].key = adm[a].key
           /\ key' = key /\ OnlyAdmin(a)
<1>1. adm \in [Admins -> AdminRequests] /\ adm[a] \in AdminRequests
    BY DEF TypeOK
<1>2. PICK t \in Tenants, s \in Secrets :
          /\ Mint(s, t)
          /\ adm' = [adm EXCEPT ![a] =
                        [adm[a] EXCEPT !.pc = "hashed", !.op = "generate",
                                       !.tenant = t, !.new = s]]
    BY DEF GenerateBegin
<1>3. adm'[a] = [adm[a] EXCEPT !.pc = "hashed", !.op = "generate", !.tenant = t, !.new = s]
    BY <1>1, <1>2
<1>4. /\ adm'[a].pc = "hashed" /\ adm'[a].op = "generate" /\ adm'[a].new = s
      /\ adm'[a].key = adm[a].key
    BY <1>1, <1>3 DEF AdminRequests
<1> QED
    BY <1>1, <1>2, <1>4 DEF GenerateBegin, Mint, OnlyAdmin

(* A key is created with the secret that was minted.                       *)
LEMMA GenerateStoreEffect ==
    ASSUME TypeOK, NEW a \in Admins, GenerateStore(a)
    PROVE  \E k \in Keys :
               /\ adm[a].pc = "hashed" /\ adm[a].op = "generate" /\ ~ Exists(k)
               /\ adm'[a].pc = "stored" /\ adm'[a].op = adm[a].op
               /\ adm'[a].key = k /\ adm'[a].new = adm[a].new
               /\ key'[k].tenant = adm[a].tenant /\ key'[k].hash = adm[a].new
               /\ key'[k].old = None
               /\ \A j \in Keys \ {k} : key'[j] = key[j]
               /\ mintedFor' = mintedFor /\ OnlyAdmin(a)
<1>1. adm \in [Admins -> AdminRequests] /\ adm[a] \in AdminRequests
    BY DEF TypeOK
<1>2. PICK k \in Keys :
          /\ ~ Exists(k)
          /\ key' = [key EXCEPT ![k] =
                        [NoRow EXCEPT !.tenant = adm[a].tenant, !.hash = adm[a].new,
                                      !.active = TRUE]]
          /\ adm' = [adm EXCEPT ![a].pc = "stored", ![a].key = k]
    BY DEF GenerateStore
<1>3. adm'[a] = [[adm[a] EXCEPT !.pc = "stored"] EXCEPT !.key = k]
    BY <1>1, <1>2
<1>4. /\ adm'[a].pc = "stored" /\ adm'[a].op = adm[a].op
      /\ adm'[a].key = k /\ adm'[a].new = adm[a].new
    BY <1>1, <1>3 DEF AdminRequests
<1>5. key'[k] = [NoRow EXCEPT !.tenant = adm[a].tenant, !.hash = adm[a].new, !.active = TRUE]
    BY <1>2 DEF TypeOK
<1>6. key'[k].tenant = adm[a].tenant /\ key'[k].hash = adm[a].new /\ key'[k].old = None
    BY <1>5 DEF NoRow
<1>7. /\ \A j \in Keys \ {k} : key'[j] = key[j]
      /\ \A b \in Admins \ {a} : adm'[b] = adm[b]
    BY <1>1, <1>2 DEF TypeOK
<1> QED
    BY <1>2, <1>4, <1>6, <1>7 DEF GenerateStore, OnlyAdmin

(* A rotation that may go on has read the current hash.                    *)
LEMMA RotateReadEffect ==
    ASSUME TypeOK, NEW a \in Admins, RotateRead(a)
    PROVE  /\ adm[a].pc = "idle" /\ adm'[a].op = "rotate"
           /\ adm'[a].pc \in {"read", "failed"}
           /\ adm'[a].pc = "read" =>
                  /\ adm'[a].key \in Keys /\ Exists(adm'[a].key)
                  /\ adm'[a].read = key[adm'[a].key].hash
           /\ key' = key /\ mintedFor' = mintedFor /\ OnlyAdmin(a)
<1>1. adm \in [Admins -> AdminRequests] /\ adm[a] \in AdminRequests
    BY DEF TypeOK
<1>2. PICK t \in Tenants, k \in Keys :
          adm' = [adm EXCEPT ![a] =
                    [adm[a] EXCEPT !.op = "rotate", !.tenant = t, !.key = k,
                                   !.pc = IF FindOwn(k, t) /\ key[k].active
                                          THEN "read" ELSE "failed",
                                   !.read = IF FindOwn(k, t) /\ key[k].active
                                            THEN key[k].hash ELSE None]]
    BY DEF RotateRead
<1>3. /\ adm'[a].op = "rotate" /\ adm'[a].key = k
      /\ adm'[a].pc = IF FindOwn(k, t) /\ key[k].active THEN "read" ELSE "failed"
      /\ adm'[a].read = IF FindOwn(k, t) /\ key[k].active THEN key[k].hash ELSE None
      /\ \A b \in Admins \ {a} : adm'[b] = adm[b]
    BY <1>1, <1>2 DEF AdminRequests
<1> QED
    BY <1>3 DEF RotateRead, FindOwn, OnlyAdmin

(* A rotation holds its new secret next to the one it has read.            *)
LEMMA RotateHashEffect ==
    ASSUME TypeOK, NEW a \in Admins, RotateHash(a)
    PROVE  /\ adm[a].pc = "read" /\ adm[a].op = "rotate"
           /\ adm'[a].pc = "hashed" /\ adm'[a].op = adm[a].op
           /\ adm'[a].key = adm[a].key /\ adm'[a].read = adm[a].read
           /\ adm'[a].new \in Secrets /\ mintedFor[adm'[a].new] = None
           /\ key' = key /\ OnlyAdmin(a)
<1>1. adm \in [Admins -> AdminRequests] /\ adm[a] \in AdminRequests
    BY DEF TypeOK
<1>2. PICK s \in Secrets :
          /\ Mint(s, adm[a].tenant)
          /\ adm' = [adm EXCEPT ![a] =
                        [adm[a] EXCEPT !.pc = "hashed", !.new = s, !.expires = now + Grace]]
    BY DEF RotateHash
<1>3. adm'[a] = [adm[a] EXCEPT !.pc = "hashed", !.new = s, !.expires = now + Grace]
    BY <1>1, <1>2
<1>4. /\ adm'[a].pc = "hashed" /\ adm'[a].op = adm[a].op /\ adm'[a].new = s
      /\ adm'[a].key = adm[a].key /\ adm'[a].read = adm[a].read
    BY <1>1, <1>3 DEF AdminRequests
<1> QED
    BY <1>1, <1>2, <1>4 DEF RotateHash, Mint, OnlyAdmin

(* The row gets the new secret, and what was read as its old one.          *)
LEMMA RotateStoreEffect ==
    ASSUME TypeOK, NEW a \in Admins, RotateStore(a), adm[a].key \in Keys
    PROVE  /\ adm[a].pc = "hashed" /\ adm[a].op = "rotate"
           /\ adm'[a].pc = "stored" /\ adm'[a].op = adm[a].op
           /\ adm'[a].key = adm[a].key /\ adm'[a].read = adm[a].read
           /\ adm'[a].new = adm[a].new /\ adm'[a].expires = adm[a].expires
           /\ key'[adm[a].key].tenant = key[adm[a].key].tenant
           /\ key'[adm[a].key].active = key[adm[a].key].active
           /\ key'[adm[a].key].hash = adm[a].new
           /\ key'[adm[a].key].old = adm[a].read
           /\ key'[adm[a].key].oldExpires = adm[a].expires
           /\ \A j \in Keys \ {adm[a].key} : key'[j] = key[j]
           /\ mintedFor' = mintedFor /\ OnlyAdmin(a)
<1>1. adm \in [Admins -> AdminRequests] /\ adm[a] \in AdminRequests
    BY DEF TypeOK
<1>2. key \in [Keys -> Rows] /\ key[adm[a].key] \in Rows
    BY DEF TypeOK
<1>3. /\ key' = [key EXCEPT ![adm[a].key] =
                    [key[adm[a].key] EXCEPT !.hash = adm[a].new, !.old = adm[a].read,
                                            !.oldExpires = adm[a].expires]]
      /\ adm' = [adm EXCEPT ![a].pc = "stored"]
    BY <1>2 DEF RotateStore
<1>4. adm'[a] = [adm[a] EXCEPT !.pc = "stored"]
    BY <1>1, <1>3
<1>5. /\ adm'[a].pc = "stored" /\ adm'[a].op = adm[a].op
      /\ adm'[a].key = adm[a].key /\ adm'[a].read = adm[a].read
      /\ adm'[a].new = adm[a].new /\ adm'[a].expires = adm[a].expires
    BY <1>1, <1>4 DEF AdminRequests
<1>6. key'[adm[a].key] =
          [key[adm[a].key] EXCEPT !.hash = adm[a].new, !.old = adm[a].read,
                                  !.oldExpires = adm[a].expires]
    BY <1>2, <1>3
<1>7. /\ key'[adm[a].key].tenant = key[adm[a].key].tenant
      /\ key'[adm[a].key].active = key[adm[a].key].active
      /\ key'[adm[a].key].hash = adm[a].new
      /\ key'[adm[a].key].old = adm[a].read
      /\ key'[adm[a].key].oldExpires = adm[a].expires
    BY <1>2, <1>6 DEF Rows
<1>8. /\ \A j \in Keys \ {adm[a].key} : key'[j] = key[j]
      /\ \A b \in Admins \ {a} : adm'[b] = adm[b]
    BY <1>1, <1>2, <1>3
<1> QED
    BY <1>5, <1>7, <1>8 DEF RotateStore, OnlyAdmin

(* The other steps give no request a secret and no row a hash.             *)
LEMMA QuietEffect ==
    ASSUME TypeOK, NEW a \in Admins,
           \/ RevokeRead(a)
           \/ RevokeStore(a) /\ adm[a].key \in Keys
           \/ Answer(a)
           \/ AdminFail(a)
    PROVE  /\ \/ adm[a].pc = "idle" /\ adm'[a].op = "revoke" /\ adm'[a].pc \in {"read", "failed"}
              \/ /\ adm[a].op = "revoke" /\ adm'[a].pc = "stored"
                 /\ adm'[a].op = adm[a].op /\ adm'[a].key = adm[a].key
              \/ /\ adm[a].pc = "stored" /\ adm'[a].pc = "done"
                 /\ adm'[a].op = adm[a].op /\ adm'[a].key = adm[a].key
                 /\ adm'[a].read = adm[a].read /\ adm'[a].new = adm[a].new
                 /\ adm'[a].expires = adm[a].expires
              \/ /\ adm[a].pc # "idle" /\ adm'[a].pc = "failed" /\ adm'[a].op = adm[a].op
                 /\ adm'[a].read = adm[a].read
           /\ \A k \in Keys : /\ key'[k].tenant = key[k].tenant
                              /\ key'[k].hash = key[k].hash
                              /\ key'[k].old = key[k].old
                              /\ key'[k].oldExpires = key[k].oldExpires
                              /\ key'[k].active => key[k].active
           /\ mintedFor' = mintedFor /\ OnlyAdmin(a)
<1>1. adm \in [Admins -> AdminRequests] /\ adm[a] \in AdminRequests
    BY DEF TypeOK
<1>2. key \in [Keys -> Rows] /\ \A k \in Keys : key[k] \in Rows
    BY DEF TypeOK
<1>3. CASE RevokeRead(a)
    <2>1. PICK t \in Tenants, k \in Keys :
              adm' = [adm EXCEPT ![a] =
                        [adm[a] EXCEPT !.op = "revoke", !.tenant = t, !.key = k,
                                       !.pc = IF FindOwn(k, t) THEN "read" ELSE "failed"]]
        BY <1>3 DEF RevokeRead
    <2>2. /\ adm'[a].op = "revoke" /\ adm'[a].pc \in {"read", "failed"}
          /\ \A b \in Admins \ {a} : adm'[b] = adm[b]
        BY <1>1, <2>1 DEF AdminRequests
    <2> QED
        BY <1>3, <2>2 DEF RevokeRead, OnlyAdmin
<1>4. CASE RevokeStore(a) /\ adm[a].key \in Keys
    <2>1. adm' = [adm EXCEPT ![a].pc = "stored"] /\ adm[a].op = "revoke"
        BY <1>4 DEF RevokeStore
    <2>2. /\ adm'[a].pc = "stored"
          /\ adm'[a].op = adm[a].op /\ adm'[a].key = adm[a].key
          /\ \A b \in Admins \ {a} : adm'[b] = adm[b]
        BY <1>1, <2>1 DEF AdminRequests
    <2>3. key' = [key EXCEPT ![adm[a].key] = [key[adm[a].key] EXCEPT !.active = FALSE]]
        BY <1>2, <1>4 DEF RevokeStore
    <2>4. \A k \in Keys : /\ key'[k].tenant = key[k].tenant
                          /\ key'[k].hash = key[k].hash
                          /\ key'[k].old = key[k].old
                          /\ key'[k].oldExpires = key[k].oldExpires
                          /\ key'[k].active => key[k].active
        BY <1>2, <1>4, <2>3 DEF Rows
    <2> QED
        BY <1>4, <2>1, <2>2, <2>4 DEF RevokeStore, OnlyAdmin
<1>5. CASE Answer(a)
    <2>1. adm' = [adm EXCEPT ![a].pc = "done"] /\ adm[a].pc = "stored"
        BY <1>5 DEF Answer
    <2>2. /\ adm'[a].pc = "done"
          /\ adm'[a].op = adm[a].op /\ adm'[a].key = adm[a].key
          /\ adm'[a].read = adm[a].read /\ adm'[a].new = adm[a].new
          /\ adm'[a].expires = adm[a].expires
          /\ \A b \in Admins \ {a} : adm'[b] = adm[b]
        BY <1>1, <2>1 DEF AdminRequests
    <2> QED
        BY <1>5, <2>1, <2>2 DEF Answer, OnlyAdmin
<1>6. CASE AdminFail(a)
    <2>1. adm' = [adm EXCEPT ![a].pc = "failed"] /\ adm[a].pc # "idle"
        BY <1>6 DEF AdminFail
    <2>2. /\ adm'[a].pc = "failed" /\ adm'[a].op = adm[a].op /\ adm'[a].read = adm[a].read
          /\ \A b \in Admins \ {a} : adm'[b] = adm[b]
        BY <1>1, <2>1 DEF AdminRequests
    <2> QED
        BY <1>6, <2>1, <2>2 DEF AdminFail, OnlyAdmin
<1> QED
    BY <1>3, <1>4, <1>5, <1>6

-----------------------------------------------------------------------------
(* Every secret that a row or a request holds has been minted.             *)
LEMMA SecretsMinted ==
    ASSUME TenantInv, NoRowsClean
    PROVE  /\ None \notin Secrets /\ OneAdmin \subseteq Keys
           /\ \A a \in Admins :
                  adm[a].pc = "hashed" =>
                      adm[a].new \in Secrets /\ mintedFor[adm[a].new] # None
           /\ \A a \in Admins :
                  Rotating(a) =>
                      /\ adm[a].key \in Keys /\ Exists(adm[a].key)
                      /\ adm[a].read \in Secrets /\ mintedFor[adm[a].read] # None
           /\ \A a \in Admins :
                  adm[a].pc = "read" /\ adm[a].op = "revoke" => adm[a].key \in Keys
           /\ \A k \in Keys :
                  /\ Exists(k) => key[k].hash \in Secrets
                  /\ ~ Exists(k) => key[k].hash = None /\ key[k].old = None
                  /\ key[k].hash \in Secrets => mintedFor[key[k].hash] # None
                  /\ key[k].old \in Secrets => mintedFor[key[k].old] # None
<1>1. ASSUME NEW a \in Admins, adm[a].pc = "hashed"
      PROVE  adm[a].new \in Secrets /\ mintedFor[adm[a].new] # None
    BY <1>1, ApiKeysAssumption DEF TenantInv, AdminsHome, AdminHome
<1>2. ASSUME NEW a \in Admins, Rotating(a)
      PROVE  /\ adm[a].key \in Keys /\ Exists(adm[a].key)
             /\ adm[a].read \in Secrets /\ mintedFor[adm[a].read] # None
    BY <1>2, ApiKeysAssumption DEF TenantInv, AdminsHome, AdminHome, Rotating, Exists
<1>3. ASSUME NEW a \in Admins, adm[a].pc = "read", adm[a].op = "revoke"
      PROVE  adm[a].key \in Keys
    BY <1>3 DEF TenantInv, AdminsHome, AdminHome
<1>4. ASSUME NEW k \in Keys
      PROVE  /\ Exists(k) => key[k].hash \in Secrets
             /\ ~ Exists(k) => key[k].hash = None /\ key[k].old = None
             /\ key[k].hash \in Secrets => mintedFor[key[k].hash] # None
             /\ key[k].old \in Secrets => mintedFor[key[k].old] # None
    <2>1. CASE Exists(k)
        BY <2>1 DEF TenantInv, RowsHome, RowHome, Exists
    <2>2. CASE ~ Exists(k)
        BY <2>2, ApiKeysAssumption DEF NoRowsClean, NoRow
    <2> QED
        BY <2>1, <2>2
<1> QED
    BY <1>1, <1>2, <1>3, <1>4, ApiKeysAssumption

(* A step that moves neither rows nor management requests.                 *)
LEMMA KeyFrame ==
    ASSUME KeyInv, TenantInv', key' = key, adm' = adm, mintedFor' = mintedFor
    PROVE  KeyInv'
BY DEF KeyInv, OneAtATime, InProgress, NoRowsClean, FreshSecrets, HashesApart, ReadsCurrent,
       RetiredStays, StoredCurrent, Rotating, Rotated, Exists

(* Minting: the new secret is found nowhere.                               *)
LEMMA KeyMint ==
    ASSUME KeyInv, TenantInv', OneAtATime', NEW a \in Admins, [Next]_vars,
           GenerateBegin(a) \/ RotateHash(a)
    PROVE  KeyInv'
<1>1. TypeOK /\ TenantInv /\ NoRowsClean
    BY DEF KeyInv, TenantInv
<1>2. /\ \/ adm[a].pc = "idle" /\ adm'[a].op = "generate"
         \/ /\ adm[a].pc = "read" /\ adm[a].op = "rotate"
            /\ adm'[a].op = adm[a].op /\ adm'[a].read = adm[a].read
            /\ adm'[a].key = adm[a].key
      /\ adm'[a].pc = "hashed"
      /\ adm'[a].new \in Secrets /\ mintedFor[adm'[a].new] = None
      /\ key' = key /\ \A b \in Admins \ {a} : adm'[b] = adm[b]
    BY <1>1, GenerateBeginEffect, RotateHashEffect DEF OnlyAdmin
<1>3. NoRowsClean'
    BY <1>1, <1>2 DEF NoRowsClean, Exists
<1>4. /\ \A b \in Admins \ {a} : Rotating(b)' <=> Rotating(b)
      /\ Rotating(a)' => Rotating(a) /\ adm'[a].read = adm[a].read /\ adm'[a].key = adm[a].key
      /\ \A b \in Admins : Rotated(b)' => b # a /\ Rotated(b)
    BY <1>2 DEF Rotating, Rotated
<1>5. FreshSecrets'
    <2>1. \A k \in Keys : key[k].hash # adm'[a].new /\ key[k].old # adm'[a].new
        BY <1>1, <1>2, SecretsMinted
    <2>2. \A b \in Admins \ {a} : adm[b].pc = "hashed" => adm[b].new # adm'[a].new
        BY <1>1, <1>2, SecretsMinted
    <2>3. \A b \in Admins : Rotating(b) => adm[b].read # adm'[a].new
        BY <1>1, <1>2, SecretsMinted
    <2> QED
        BY <1>2, <1>4, <2>1, <2>2, <2>3 DEF KeyInv, FreshSecrets
<1>6. HashesApart'
    BY <1>2, <1>4 DEF KeyInv, HashesApart, Exists
<1>7. ReadsCurrent'
    BY <1>2, <1>4 DEF KeyInv, ReadsCurrent
<1>8. RetiredStays'
    <2>1. \A s \in Secrets : mintedFor[s] # None => mintedFor'[s] # None
        BY <1>1, MintedStays
    <2>2. \A b \in Admins : Rotated(b) /\ adm[b].key \in OneAdmin => adm'[a].new # adm[b].read
        BY <1>2 DEF KeyInv, RetiredStays
    <2> QED
        BY <1>2, <1>4, <2>1, <2>2 DEF KeyInv, RetiredStays
<1>9. StoredCurrent'
    <2>1. ASSUME NEW b \in Admins, NEW c \in Admins, adm[c].op = "rotate",
                 adm[c].read = adm[b].new, b # a
          PROVE  adm'[c].op = "rotate" /\ adm'[c].read = adm'[b].new
        BY <1>2, <2>1 DEF KeyInv, StoredCurrent
    <2> QED
        BY <1>2, <2>1 DEF KeyInv, StoredCurrent, Exists
<1> QED
    BY <1>3, <1>5, <1>6, <1>7, <1>8, <1>9 DEF KeyInv

(* Creating a key: a minted secret becomes its current one.                *)
LEMMA KeyCreate ==
    ASSUME KeyInv, TenantInv', OneAtATime', NEW a \in Admins, GenerateStore(a)
    PROVE  KeyInv'
<1>1. TypeOK /\ TenantInv /\ NoRowsClean /\ FreshSecrets
    BY DEF KeyInv, TenantInv
<1>2. PICK k \in Keys :
          /\ adm[a].pc = "hashed" /\ adm[a].op = "generate" /\ ~ Exists(k)
          /\ adm'[a].pc = "stored" /\ adm'[a].op = adm[a].op
          /\ adm'[a].key = k /\ adm'[a].new = adm[a].new
          /\ key'[k].tenant = adm[a].tenant /\ key'[k].hash = adm[a].new
          /\ key'[k].old = None
          /\ \A j \in Keys \ {k} : key'[j] = key[j]
          /\ mintedFor' = mintedFor /\ \A b \in Admins \ {a} : adm'[b] = adm[b]
    BY <1>1, GenerateStoreEffect DEF OnlyAdmin
<1>3. /\ adm[a].new \in Secrets /\ None \notin Secrets /\ adm[a].tenant # None
    BY <1>1, <1>2, SecretsMinted, ApiKeysAssumption DEF TenantInv, AdminsHome, AdminHome
<1>4. /\ \A b \in Admins : Rotating(b)' <=> Rotating(b)
      /\ \A b \in Admins : Rotating(b) => b # a
      /\ \A b \in Admins : Rotated(b)' => b # a /\ Rotated(b)
    BY <1>2 DEF Rotating, Rotated
<1>5. \A j \in Keys : Exists(j)' <=> Exists(j) \/ j = k
    BY <1>2, <1>3 DEF Exists
<1>6. NoRowsClean'
    BY <1>1, <1>2, <1>5 DEF NoRowsClean
<1>7. FreshSecrets'
    <2>1. \A b \in Admins : adm[b].pc = "hashed" => adm[b].new # None
        BY <1>1, SecretsMinted
    <2> QED
        BY <1>1, <1>2, <1>4, <2>1 DEF FreshSecrets
<1>8. HashesApart'
    <2>1. \A j \in Keys \ {k} : key[j].hash # adm[a].new /\ key[j].old # adm[a].new
        BY <1>1, <1>2 DEF FreshSecrets
    <2>2. \A j \in Keys : Exists(j) => key[j].hash \in Secrets
        BY <1>1, SecretsMinted
    <2>3. \A b \in Admins : Rotating(b) => adm[b].read # adm[a].new
        BY <1>1, <1>2 DEF FreshSecrets
    <2> QED
        BY <1>2, <1>3, <1>4, <1>5, <2>1, <2>2, <2>3 DEF KeyInv, HashesApart
<1>9. ReadsCurrent'
    <2>1. \A b \in Admins : Rotating(b) => adm[b].key # k /\ adm[b].key \in Keys
        BY <1>1, <1>2, SecretsMinted
    <2> QED
        BY <1>2, <1>4, <2>1 DEF KeyInv, ReadsCurrent
<1>10. RetiredStays'
    <2>1. \A b \in Admins : Rotated(b) /\ adm[b].key \in OneAdmin =>
              adm[b].read \in Secrets /\ adm[a].new # adm[b].read
        BY <1>2 DEF KeyInv, RetiredStays
    <2> QED
        BY <1>2, <1>3, <1>4, <2>1 DEF KeyInv, RetiredStays
<1>11. StoredCurrent'
    <2>1. ASSUME NEW c \in Admins, adm[c].op = "rotate"
          PROVE  adm'[c] = adm[c]
        BY <1>2, <2>1
    <2>2. \A b \in Admins \ {a} :
              adm[b].key \in OneAdmin /\ Exists(adm[b].key) =>
                  adm[b].key # k /\ key'[adm[b].key] = key[adm[b].key]
        BY <1>2, ApiKeysAssumption
    <2>3. \A b \in Admins \ {a} : adm[b].key \in OneAdmin /\ Exists(adm[b].key) =>
              Exists(adm[b].key)'
        BY <1>5, ApiKeysAssumption, <1>2
    <2> QED
        BY <1>2, <1>5, <2>1, <2>2, <2>3 DEF KeyInv, StoredCurrent
<1> QED
    BY <1>6, <1>7, <1>8, <1>9, <1>10, <1>11 DEF KeyInv

(* A rotation reads the current hash of its key.                           *)
LEMMA KeyRotateRead ==
    ASSUME KeyInv, TenantInv', OneAtATime', NEW a \in Admins, RotateRead(a)
    PROVE  KeyInv'
<1>1. TypeOK /\ TenantInv /\ NoRowsClean /\ FreshSecrets
    BY DEF KeyInv, TenantInv
<1>2. /\ adm[a].pc = "idle" /\ adm'[a].op = "rotate"
      /\ adm'[a].pc \in {"read", "failed"}
      /\ adm'[a].pc = "read" =>
             /\ adm'[a].key \in Keys /\ Exists(adm'[a].key)
             /\ adm'[a].read = key[adm'[a].key].hash
      /\ key' = key /\ mintedFor' = mintedFor
      /\ \A b \in Admins \ {a} : adm'[b] = adm[b]
    BY <1>1, RotateReadEffect DEF OnlyAdmin
<1>3. /\ \A b \in Admins \ {a} : Rotating(b)' <=> Rotating(b)
      /\ Rotating(a)' => adm'[a].pc = "read"
      /\ \A b \in Admins : Rotated(b)' => b # a /\ Rotated(b)
    BY <1>2 DEF Rotating, Rotated
<1>4. NoRowsClean'
    BY <1>1, <1>2 DEF NoRowsClean, Exists
<1>5. FreshSecrets'
    BY <1>1, <1>2, <1>3 DEF FreshSecrets
<1>6. HashesApart'
    BY <1>2, <1>3 DEF KeyInv, HashesApart, Exists
<1>7. ReadsCurrent'
    BY <1>2, <1>3 DEF KeyInv, ReadsCurrent
<1>8. RetiredStays'
    BY <1>2, <1>3 DEF KeyInv, RetiredStays
<1>9. StoredCurrent'
    <2>1. ASSUME NEW c \in Admins, adm[c].op = "rotate"
          PROVE  adm'[c] = adm[c]
        BY <1>2, <2>1 DEF KeyInv, StoredCurrent
    <2> QED
        BY <1>2, <2>1 DEF KeyInv, StoredCurrent, Exists
<1> QED
    BY <1>4, <1>5, <1>6, <1>7, <1>8, <1>9 DEF KeyInv

(* A rotation stores its secret and retires the one it has read.           *)
LEMMA KeyRotateStore ==
    ASSUME KeyInv, TenantInv', OneAtATime', NEW a \in Admins, RotateStore(a)
    PROVE  KeyInv'
<1>1. TypeOK /\ TenantInv /\ NoRowsClean /\ FreshSecrets
    BY DEF KeyInv, TenantInv
<1>2. PICK k \in Keys : adm[a].key = k /\ Rotating(a) /\ Exists(k)
    BY <1>1, SecretsMinted DEF RotateStore, Rotating
<1>3. /\ adm[a].pc = "hashed" /\ adm[a].op = "rotate"
      /\ adm'[a].pc = "stored" /\ adm'[a].op = adm[a].op
      /\ adm'[a].key = k /\ adm'[a].read = adm[a].read
      /\ adm'[a].new = adm[a].new /\ adm'[a].expires = adm[a].expires
      /\ key'[k].tenant = key[k].tenant
      /\ key'[k].hash = adm[a].new
      /\ key'[k].old = adm[a].read
      /\ key'[k].oldExpires = adm[a].expires
      /\ \A j \in Keys \ {k} : key'[j] = key[j]
      /\ mintedFor' = mintedFor /\ \A b \in Admins \ {a} : adm'[b] = adm[b]
    BY <1>1, <1>2, RotateStoreEffect DEF OnlyAdmin
<1>4. /\ None \notin Secrets
      /\ adm[a].new \in Secrets /\ mintedFor[adm[a].new] # None
      /\ adm[a].read \in Secrets /\ mintedFor[adm[a].read] # None
      /\ adm[a].expires \in Nat
    BY <1>1, <1>2, <1>3, SecretsMinted DEF TypeOK, AdminRequests
<1>5. /\ \A b \in Admins : Rotating(b)' <=> Rotating(b) /\ b # a
      /\ \A b \in Admins : Rotated(b)' <=> Rotated(b) \/ b = a
      /\ ~ Rotated(a)
    BY <1>3 DEF Rotating, Rotated
<1>6. \A j \in Keys : Exists(j)' <=> Exists(j)
    BY <1>2, <1>3 DEF Exists
<1>7. NoRowsClean'
    BY <1>1, <1>2, <1>3, <1>6 DEF NoRowsClean
<1>8. /\ \A j \in Keys : key[j].hash # adm[a].new /\ key[j].old # adm[a].new
      /\ \A b \in Admins \ {a} : adm[b].pc = "hashed" =>
             adm[b].new # adm[a].new /\ adm[b].new # adm[a].read
      /\ \A b \in Admins : Rotating(b) => adm[b].read # adm[a].new
    BY <1>1, <1>2, <1>3 DEF FreshSecrets
<1>9. FreshSecrets'
    BY <1>1, <1>3, <1>5, <1>8 DEF FreshSecrets
<1>10. \A j \in Keys \ {k} : Exists(j) => key[j].hash # adm[a].read
    BY <1>2 DEF KeyInv, HashesApart
<1>11. HashesApart'
    BY <1>2, <1>3, <1>5, <1>6, <1>8, <1>10 DEF KeyInv, HashesApart
<1>12. k \in OneAdmin =>
          /\ key[k].hash = adm[a].read
          /\ \A b \in Admins \ {a} : Rotating(b) => adm[b].key # k /\ adm[b].read # adm[a].read
    <2> SUFFICES ASSUME k \in OneAdmin
                 PROVE  /\ key[k].hash = adm[a].read
                        /\ \A b \in Admins \ {a} :
                               Rotating(b) => adm[b].key # k /\ adm[b].read # adm[a].read
        OBVIOUS
    <2>1. key[k].hash = adm[a].read
        BY <1>2 DEF KeyInv, ReadsCurrent
    <2>2. ASSUME NEW b \in Admins \ {a}, Rotating(b)
          PROVE  adm[b].key # k
        BY <1>2, <2>2 DEF KeyInv, OneAtATime, InProgress, Rotating
    <2> QED
        BY <1>2, <2>1, <2>2 DEF KeyInv, HashesApart
<1>13. ReadsCurrent'
    <2>1. ASSUME NEW b \in Admins \ {a}, Rotating(b), adm[b].key \in OneAdmin
          PROVE  adm[b].key # k
        BY <1>12, <2>1
    <2>2. \A b \in Admins : Rotating(b) => adm[b].key \in Keys
        BY <1>1, SecretsMinted
    <2> QED
        BY <1>3, <1>5, <2>1, <2>2 DEF KeyInv, ReadsCurrent
<1>14. RetiredStays'
    <2>1. ASSUME k \in OneAdmin
          PROVE  /\ \A j \in Keys :
                        /\ key'[j].hash # adm[a].read
                        /\ key'[j].old = adm[a].read => key'[j].oldExpires <= adm[a].expires
                 /\ \A b \in Admins : Rotating(b)' => adm'[b].read # adm[a].read
                 /\ \A b \in Admins : adm'[b].pc = "hashed" => adm'[b].new # adm[a].read
        <3>1. \A j \in Keys \ {k} : key[j].hash # adm[a].read
            BY <1>1, <1>4, <1>10, SecretsMinted
        <3>2. \A j \in Keys \ {k} : key[j].old # adm[a].read
            BY <1>2, <1>12, <2>1 DEF KeyInv, HashesApart
        <3>3. adm[a].new # adm[a].read
            BY <1>2, <1>8
        <3> QED
            BY <1>3, <1>4, <1>5, <1>8, <1>12, <2>1, <3>1, <3>2, <3>3
    <2>2. ASSUME NEW c \in Admins \ {a}, Rotated(c), adm[c].key \in OneAdmin
          PROVE  /\ adm[c].read \in Secrets /\ mintedFor[adm[c].read] # None
                 /\ \A j \in Keys :
                        /\ key'[j].hash # adm[c].read
                        /\ key'[j].old = adm[c].read => key'[j].oldExpires <= adm[c].expires
                 /\ \A b \in Admins : Rotating(b)' => adm'[b].read # adm[c].read
                 /\ \A b \in Admins : adm'[b].pc = "hashed" => adm'[b].new # adm[c].read
        <3>1. /\ adm[c].read \in Secrets /\ mintedFor[adm[c].read] # None
              /\ \A j \in Keys :
                     /\ key[j].hash # adm[c].read
                     /\ key[j].old = adm[c].read => key[j].oldExpires <= adm[c].expires
              /\ \A b \in Admins : Rotating(b) => adm[b].read # adm[c].read
              /\ \A b \in Admins : adm[b].pc = "hashed" => adm[b].new # adm[c].read
            BY <2>2 DEF KeyInv, RetiredStays
        <3>2. adm[a].new # adm[c].read /\ adm[a].read # adm[c].read
            BY <1>2, <1>3, <3>1
        <3> QED
            BY <1>3, <1>5, <3>1, <3>2
    <2> QED
        BY <1>3, <1>4, <1>5, <2>1, <2>2 DEF RetiredStays
<1>15. StoredCurrent'
    <2>1. ASSUME NEW b \in Admins \ {a}, adm[b].op \in {"generate", "rotate"},
                 adm[b].pc \in {"stored", "done"}, adm[b].key \in OneAdmin
          PROVE  /\ Exists(adm[b].key)'
                 /\ \/ key'[adm[b].key].hash = adm[b].new
                    \/ \E c \in Admins : adm'[c].op = "rotate" /\ adm'[c].read = adm[b].new
        <3>1. /\ Exists(adm[b].key) /\ adm[b].key \in Keys
              /\ \/ key[adm[b].key].hash = adm[b].new
                 \/ \E c \in Admins : adm[c].op = "rotate" /\ adm[c].read = adm[b].new
            BY <2>1, ApiKeysAssumption DEF KeyInv, StoredCurrent
        <3>2. \A c \in Admins : adm'[c].read = adm[c].read /\ adm'[c].op = adm[c].op
            BY <1>3
        <3>3. CASE adm[b].key # k
            BY <1>3, <1>6, <3>1, <3>2, <3>3
        <3>4. CASE adm[b].key = k
            BY <1>3, <1>6, <1>12, <2>1, <3>1, <3>2, <3>4
        <3> QED
            BY <3>3, <3>4
    <2> QED
        BY <1>2, <1>3, <1>6, <2>1 DEF KeyInv, StoredCurrent
<1> QED
    BY <1>7, <1>9, <1>11, <1>13, <1>14, <1>15 DEF KeyInv

(* The steps that hand out no secret keep the secrets where they are.      *)
LEMMA KeyQuiet ==
    ASSUME KeyInv, TenantInv', OneAtATime', NEW a \in Admins, NoRowsClean',
           RevokeRead(a) \/ RevokeStore(a) \/ Answer(a) \/ AdminFail(a)
    PROVE  KeyInv'
<1>1. TypeOK /\ TenantInv /\ NoRowsClean /\ FreshSecrets
    BY DEF KeyInv, TenantInv
<1>2. RevokeStore(a) => adm[a].key \in Keys
    BY <1>1, SecretsMinted DEF RevokeStore
<1>3. /\ \/ adm[a].pc = "idle" /\ adm'[a].op = "revoke" /\ adm'[a].pc \in {"read", "failed"}
         \/ /\ adm[a].op = "revoke" /\ adm'[a].pc = "stored"
            /\ adm'[a].op = adm[a].op /\ adm'[a].key = adm[a].key
         \/ /\ adm[a].pc = "stored" /\ adm'[a].pc = "done"
            /\ adm'[a].op = adm[a].op /\ adm'[a].key = adm[a].key
            /\ adm'[a].read = adm[a].read /\ adm'[a].new = adm[a].new
            /\ adm'[a].expires = adm[a].expires
         \/ /\ adm[a].pc # "idle" /\ adm'[a].pc = "failed" /\ adm'[a].op = adm[a].op
            /\ adm'[a].read = adm[a].read
      /\ \A k \in Keys : /\ key'[k].tenant = key[k].tenant
                         /\ key'[k].hash = key[k].hash
                         /\ key'[k].old = key[k].old
                         /\ key'[k].oldExpires = key[k].oldExpires
      /\ mintedFor' = mintedFor /\ \A b \in Admins \ {a} : adm'[b] = adm[b]
    BY <1>1, <1>2, QuietEffect DEF OnlyAdmin
<1>4. /\ \A k \in Keys : Exists(k)' <=> Exists(k)
      /\ \A b \in Admins : adm'[b].pc = "hashed" => b # a /\ adm[b].pc = "hashed"
      /\ \A b \in Admins : Rotating(b)' => b # a /\ Rotating(b)
      /\ \A b \in Admins : Rotated(b)' => /\ Rotated(b) /\ adm'[b].read = adm[b].read
                                          /\ adm'[b].key = adm[b].key
                                          /\ adm'[b].expires = adm[b].expires
    BY <1>3 DEF Exists, Rotating, Rotated
<1>5. FreshSecrets'
    BY <1>1, <1>3, <1>4 DEF FreshSecrets
<1>6. HashesApart'
    BY <1>3, <1>4 DEF KeyInv, HashesApart
<1>7. ReadsCurrent'
    <2>1. \A b \in Admins : Rotating(b) => adm[b].key \in Keys
        BY <1>1, SecretsMinted
    <2> QED
        BY <1>3, <1>4, <2>1 DEF KeyInv, ReadsCurrent
<1>8. RetiredStays'
    BY <1>3, <1>4 DEF KeyInv, RetiredStays
<1>9. StoredCurrent'
    <2>1. ASSUME NEW c \in Admins, adm[c].op = "rotate"
          PROVE  adm'[c].op = "rotate" /\ adm'[c].read = adm[c].read
        BY <1>3, <2>1 DEF KeyInv, StoredCurrent
    <2>2. ASSUME NEW b \in Admins, adm'[b].op \in {"generate", "rotate"},
                 adm'[b].pc \in {"stored", "done"}, adm'[b].key \in OneAdmin
          PROVE  /\ key'[adm'[b].key].tenant # None
                 /\ \/ key'[adm'[b].key].hash = adm'[b].new
                    \/ \E c \in Admins : adm'[c].op = "rotate" /\ adm'[c].read = adm'[b].new
        <3>1. /\ adm[b].op \in {"generate", "rotate"} /\ adm[b].pc \in {"stored", "done"}
              /\ adm'[b].key = adm[b].key /\ adm'[b].new = adm[b].new
              /\ adm[b].key \in OneAdmin /\ adm[b].key \in Keys
            BY <1>3, <2>2, ApiKeysAssumption
        <3>2. /\ Exists(adm[b].key)
              /\ \/ key[adm[b].key].hash = adm[b].new
                 \/ \E c \in Admins : adm[c].op = "rotate" /\ adm[c].read = adm[b].new
            BY <3>1 DEF KeyInv, StoredCurrent
        <3> QED
            BY <1>3, <2>1, <3>1, <3>2 DEF Exists
    <2>3. \A b \in Admins : adm'[b].op \in {"rotate", "revoke"} => adm'[b].pc # "idle"
        BY <1>3 DEF KeyInv, StoredCurrent
    <2> QED
        BY <2>2, <2>3 DEF StoredCurrent, Exists
<1> QED
    BY <1>5, <1>6, <1>7, <1>8, <1>9 DEF KeyInv

(* A row that does not exist is untouched.                                 *)
LEMMA NoRowsStayClean ==
    ASSUME TenantInv, NoRowsClean, NEW a \in Admins,
           RevokeRead(a) \/ RevokeStore(a) \/ Answer(a) \/ AdminFail(a)
    PROVE  NoRowsClean'
<1>1. CASE key' = key
    BY <1>1 DEF NoRowsClean, Exists
<1>2. CASE RevokeStore(a)
    <2>1. adm[a].key \in Keys /\ Exists(adm[a].key)
        BY <1>2 DEF RevokeStore, TenantInv, AdminsHome, AdminHome
    <2>2. key \in [Keys -> Rows]
        BY DEF TenantInv, TypeOK
    <2>3. /\ \A k \in Keys \ {adm[a].key} : key'[k] = key[k]
          /\ key'[adm[a].key].tenant = key[adm[a].key].tenant
        BY <1>2, <2>1, <2>2 DEF RevokeStore, Rows
    <2> QED
        BY <2>1, <2>3 DEF NoRowsClean, Exists
<1> QED
    BY <1>1, <1>2 DEF RevokeRead, Answer, AdminFail

(* Every step keeps the secrets where they belong.                         *)
LEMMA KeyStep ==
    ASSUME KeyInv, [Next]_vars
    PROVE  KeyInv'
<1>1. TenantInv' /\ TenantInv /\ NoRowsClean
    BY TenantStep DEF KeyInv
<1>2. CASE UNCHANGED vars
    BY <1>1, <1>2, KeyFrame DEF vars
<1>3. CASE Next
    <2>1. OneAtATime'
        BY <1>3 DEF Next
    <2>2. CASE Tick
        BY <1>1, <2>2, KeyFrame DEF Tick
    <2>3. ASSUME NEW u \in Auths, AuthNext(u) PROVE KeyInv'
        BY <1>1, <2>3, KeyFrame DEF AuthNext, AuthBegin, ReadActive, ReadGrace
    <2>4. ASSUME NEW a \in Admins, AdminNext(a) PROVE KeyInv'
        BY <1>1, <2>1, <2>4, KeyMint, KeyCreate, KeyRotateRead, KeyRotateStore, KeyQuiet,
           NoRowsStayClean DEF AdminNext
    <2> QED
        BY <1>3, <2>2, <2>3, <2>4 DEF Next
<1> QED
    BY <1>2, <1>3

(* The secrets are where they belong in every reachable state.             *)
LEMMA KeyAlways == Spec => []KeyInv
<1>1. Init => TenantInv
    BY ApiKeysAssumption
    DEF Init, TenantInv, TypeOK, Rows, NoRow, AdminRequests, AuthRequests, RowsHome,
        RowHome, AdminsHome, AdminHome, AuthsHome, AuthHome, Exists
<1>2. Init => OneAtATime /\ NoRowsClean
    BY DEF Init, OneAtATime, InProgress, NoRowsClean
<1>3. Init => FreshSecrets /\ HashesApart
    BY DEF Init, FreshSecrets, HashesApart, Rotating, Exists, NoRow
<1>4. Init => ReadsCurrent /\ RetiredStays /\ StoredCurrent
    BY DEF Init, ReadsCurrent, RetiredStays, StoredCurrent, Rotating, Rotated
<1>5. Init => KeyInv
    BY <1>1, <1>2, <1>3, <1>4 DEF KeyInv
<1> QED
    BY <1>5, KeyStep, PTL DEF Spec

(* Rotations that come one at a time: from the announced end of the grace  *)
(* period on, no row lets the replaced secret in, on this key or another.  *)
THEOREM GraceIsOver == Spec => []GraceEnds
<1>1. ASSUME KeyInv PROVE GraceEnds
    <2> SUFFICES ASSUME NEW a \in Admins, Rotated(a), adm[a].key \in OneAdmin,
                        now >= adm[a].expires
                 PROVE  ~ Valid(adm[a].read)
        BY DEF GraceEnds
    <2>1. \A k \in Keys :
              /\ key[k].hash # adm[a].read
              /\ key[k].old = adm[a].read => key[k].oldExpires <= adm[a].expires
        BY <1>1 DEF KeyInv, RetiredStays
    <2>2. now \in Nat /\ adm[a].expires \in Nat /\ \A k \in Keys : key[k].oldExpires \in Nat
        BY <1>1 DEF KeyInv, TenantInv, TypeOK, AdminRequests, Rows
    <2> QED
        BY <2>1, <2>2 DEF Valid, ActiveMatches, GraceMatches
<1> QED
    BY <1>1, KeyAlways, PTL

(* Rotations that come one at a time: the secret a caller was given works  *)
(* until its key is revoked or a rotation replaces this very secret.       *)
THEOREM NewKeyWorks == Spec => []NewKeyActiveAlone
<1>1. ASSUME KeyInv PROVE NewKeyActiveAlone
    <2> SUFFICES ASSUME NEW a \in Admins, adm[a].key \in OneAdmin, adm[a].pc = "done",
                        adm[a].op \in {"generate", "rotate"}
                 PROVE  \/ Valid(adm[a].new)
                        \/ ~ key[adm[a].key].active
                        \/ \E b \in Admins : adm[b].op = "rotate" /\ adm[b].read = adm[a].new
        BY DEF NewKeyActiveAlone, ActiveUntilReplaced
    <2>1. /\ Exists(adm[a].key) /\ adm[a].key \in Keys
          /\ \/ key[adm[a].key].hash = adm[a].new
             \/ \E b \in Admins : adm[b].op = "rotate" /\ adm[b].read = adm[a].new
        BY <1>1, ApiKeysAssumption DEF KeyInv, StoredCurrent
    <2> QED
        BY <2>1 DEF Valid, ActiveMatches
<1> QED
    BY <1>1, KeyAlways, PTL

-----------------------------------------------------------------------------
(* A secret that is valid somewhere is not one that is about to be stored: *)
(* no step turns a current hash on that was not there.                     *)
LEMMA NoMatchAppears ==
    ASSUME KeyInv, [Next]_vars, NEW s \in Secrets, Valid(s), ActiveMatches(s) = {}
    PROVE  ActiveMatches(s)' = {}
<1>1. TypeOK /\ TenantInv /\ NoRowsClean /\ FreshSecrets
    BY DEF KeyInv, TenantInv
<1>2. \E k \in Keys : key[k].hash = s \/ key[k].old = s
    BY DEF Valid, ActiveMatches, GraceMatches
<1>3. \A a \in Admins : adm[a].pc = "hashed" => adm[a].new # s
    BY <1>1, <1>2 DEF FreshSecrets
<1>4. CASE key' = key
    BY <1>4 DEF ActiveMatches, Exists
<1>5. ASSUME NEW a \in Admins, GenerateStore(a) PROVE ActiveMatches(s)' = {}
    <2>1. PICK k \in Keys :
              /\ adm[a].pc = "hashed" /\ key'[k].hash = adm[a].new
              /\ \A j \in Keys \ {k} : key'[j] = key[j]
        BY <1>1, <1>5, GenerateStoreEffect
    <2> QED
        BY <1>3, <2>1 DEF ActiveMatches, Exists
<1>6. ASSUME NEW a \in Admins, RotateStore(a) PROVE ActiveMatches(s)' = {}
    <2>1. adm[a].key \in Keys
        BY <1>1, <1>6, SecretsMinted DEF RotateStore, Rotating
    <2>2. /\ adm[a].pc = "hashed" /\ key'[adm[a].key].hash = adm[a].new
          /\ \A j \in Keys \ {adm[a].key} : key'[j] = key[j]
        BY <1>1, <1>6, <2>1, RotateStoreEffect
    <2> QED
        BY <1>3, <2>2 DEF ActiveMatches, Exists
<1>7. ASSUME NEW a \in Admins, RevokeStore(a) PROVE ActiveMatches(s)' = {}
    <2>1. adm[a].key \in Keys
        BY <1>1, <1>7, SecretsMinted DEF RevokeStore
    <2>2. \A k \in Keys : /\ key'[k].tenant = key[k].tenant
                          /\ key'[k].hash = key[k].hash
                          /\ key'[k].active => key[k].active
        BY <1>1, <1>7, <2>1, QuietEffect
    <2> QED
        BY <2>2 DEF ActiveMatches, Exists
<1> QED
    BY <1>4, <1>5, <1>6, <1>7
    DEF Next, vars, AdminNext, AuthNext, Tick, GenerateBegin, RotateRead,
        RotateHash, RevokeRead, Answer, AdminFail, AuthBegin, ReadActive, ReadGrace

(* Every step keeps the watch over the authentications.                    *)
LEMMA WatchStep ==
    ASSUME KeyInv, WatchedValid, [Next]_vars
    PROVE  WatchedValid'
<1>1. TypeOK /\ TenantInv
    BY DEF KeyInv, TenantInv
<1>2. CASE UNCHANGED vars
    BY <1>2 DEF vars, WatchedValid, Valid, ActiveMatches, GraceMatches, Exists
<1>3. CASE Next
    <2> SUFFICES ASSUME NEW u \in Auths
                 PROVE  /\ auth'[u].pc \in {"active", "grace"} /\ steady'[u] =>
                               Valid(auth[u].secret)'
                        /\ auth'[u].pc = "grace" /\ steady'[u] =>
                               ActiveMatches(auth[u].secret)' = {}
                        /\ auth'[u].pc = "rejected" => ~ steady'[u]
        BY DEF WatchedValid
    <2>1. steady'[u] <=> \/ auth'[u].pc = "idle"
                         \/ /\ steady[u]
                            /\ \/ auth[u].pc \in {"accepted", "rejected"}
                               \/ Valid(auth[u].secret)'
        BY <1>3 DEF Next, Observe
    <2>2. /\ auth \in [Auths -> AuthRequests] /\ auth[u] \in AuthRequests
          /\ auth[u].pc # "idle" => auth[u].secret \in Secrets
        BY <1>1 DEF TypeOK, TenantInv, AuthsHome, AuthHome
    <2>3. CASE auth'[u] = auth[u]
        <3>1. ASSUME auth[u].pc = "grace", steady'[u]
              PROVE  ActiveMatches(auth[u].secret)' = {}
            <4>1. PICK s \in Secrets : s = auth[u].secret
                BY <2>2, <3>1
            <4>2. Valid(s) /\ ActiveMatches(s) = {}
                BY <2>1, <2>3, <3>1, <4>1 DEF WatchedValid
            <4>3. ActiveMatches(s)' = {}
                BY <4>2, NoMatchAppears
            <4> QED
                BY <2>3, <4>1, <4>3 DEF ActiveMatches
        <3> QED
            BY <2>1, <2>2, <2>3, <3>1 DEF WatchedValid, AuthRequests
    <2>4. CASE auth'[u] # auth[u]
        <3>1. PICK v \in Auths : AuthNext(v)
            BY <1>3, <2>4
            DEF Next, AdminNext, Tick, GenerateBegin, GenerateStore, RotateRead, RotateHash,
                RotateStore, RevokeRead, RevokeStore, Answer, AdminFail
        <3>2. AuthNext(u) /\ key' = key /\ now' = now
            BY <2>2, <2>4, <3>1
            DEF AuthNext, AuthBegin, ReadActive, ReadGrace, Accept
        <3>3. \A s : /\ Valid(s)' <=> Valid(s)
                     /\ ActiveMatches(s)' = ActiveMatches(s)
                     /\ GraceMatches(s)' = GraceMatches(s)
            BY <3>2 DEF Valid, ActiveMatches, GraceMatches, Exists
        <3>4. CASE AuthBegin(u)
            <4>1. auth'[u].pc = "active"
                BY <2>2, <3>4 DEF AuthBegin, AuthRequests
            <4>2. auth[u].pc = "idle"
                BY <3>4 DEF AuthBegin
            <4> QED
                BY <2>1, <4>1, <4>2
        <3>5. CASE auth[u].pc \in {"active", "grace"} /\ auth'[u].pc = "accepted"
            BY <3>5
        <3>6. CASE /\ auth[u].pc = "active" /\ ActiveMatches(auth[u].secret) = {}
                   /\ auth'[u].pc = "grace" /\ auth'[u].secret = auth[u].secret
            BY <2>1, <3>3, <3>6 DEF ActiveMatches, Exists
        <3>7. CASE /\ auth[u].pc = "grace" /\ GraceMatches(auth[u].secret) = {}
                   /\ auth'[u].pc = "rejected"
            BY <2>1, <3>7 DEF WatchedValid, Valid
        <3>8. \/ AuthBegin(u)
              \/ auth[u].pc \in {"active", "grace"} /\ auth'[u].pc = "accepted"
              \/ /\ auth[u].pc = "active" /\ ActiveMatches(auth[u].secret) = {}
                 /\ auth'[u].pc = "grace" /\ auth'[u].secret = auth[u].secret
              \/ /\ auth[u].pc = "grace" /\ GraceMatches(auth[u].secret) = {}
                 /\ auth'[u].pc = "rejected"
            BY <2>2, <3>2 DEF AuthNext, ReadActive, ReadGrace, Accept, AuthRequests
        <3> QED
            BY <3>4, <3>5, <3>6, <3>7, <3>8
    <2> QED
        BY <2>3, <2>4
<1> QED
    BY <1>2, <1>3

(* The two lookups miss no secret: whoever is refused carried a secret     *)
(* that was not valid at some moment of its lookup, whatever was created,  *)
(* rotated or revoked meanwhile.                                           *)
THEOREM NoneMissed == Spec => []NoSpuriousRejection
<1>1. Init => WatchedValid
    BY DEF Init, WatchedValid
<1>2. KeyInv /\ WatchedValid /\ [Next]_vars => WatchedValid'
    BY WatchStep
<1>3. WatchedValid => NoSpuriousRejection
    BY DEF WatchedValid, NoSpuriousRejection
<1> QED
    BY <1>1, <1>2, <1>3, KeyAlways, PTL DEF Spec
=============================================================================
