-------------------------- MODULE RateLimiterProofs --------------------------
(***************************************************************************)
(* What the rate limiter remembers, admits, refuses and warns of, for any  *)
(* limits, windows and delays and any number of concurrent requests.       *)
(***************************************************************************)
EXTENDS RateLimiter, FiniteSetTheorems, TLAPS

(* A member of a set has begun, not after now; and unless its expire is    *)
(* still to come, the set outlives the member's time in the window.        *)
Remembered(r, b) ==
    r \in zset[b] =>
        /\ req[r].pc # "idle"
        /\ ExpirePending(r, b) \/ ttl[b] = 0 \/ ttl[b] > req[r].at + Window[b]

BegunBefore == \A r \in Requests : req[r].at <= now

AllRemembered == \A r \in Requests, b \in Buckets : Remembered(r, b)

RememberInv == TypeOK /\ BegunBefore /\ AllRemembered

-----------------------------------------------------------------------------
(* The key of a request is a key, with a limit and a window.               *)
LEMMA BucketType ==
    ASSUME TypeOK, NEW r \in Requests
    PROVE  /\ BucketOf(r) \in Buckets
           /\ Limit[BucketOf(r)] \in Nat /\ Window[BucketOf(r)] \in Nat \ {0}
BY RateLimiterAssumption DEF TypeOK, RequestRecords, BucketOf

(* zCard answers a number, since a set holds finitely many requests.       *)
LEMMA CountType ==
    ASSUME TypeOK, NEW b \in Buckets
    PROVE  Cardinality(zset[b]) \in Nat
<1>1. zset[b] \subseteq Requests /\ IsFiniteSet(Requests)
    BY RateLimiterAssumption DEF TypeOK
<1> QED
    BY <1>1, FS_Subset, FS_CardinalityType

(* What a step does to the requests: one moves on, all others stay.        *)
Moved(r) ==
    /\ req' \in [Requests -> RequestRecords]
    /\ req'[r].pc # "idle"
    /\ \A s \in Requests \ {r} : req'[s] = req[s]

KeepsStart(r) == req'[r].at = req[r].at /\ req'[r].client = req[r].client

(* A step that replaces the record of r moves r alone.                     *)
LEMMA UpdateEffect ==
    ASSUME TypeOK, NEW r \in Requests, NEW rec \in RequestRecords, rec.pc # "idle",
           req' = [req EXCEPT ![r] = rec]
    PROVE  Moved(r) /\ req'[r] = rec
BY DEF TypeOK, Moved

(* Going to another step moves r alone and keeps its start.                *)
LEMMA GotoEffect ==
    ASSUME TypeOK, NEW r \in Requests,
           NEW step \in InFlightSteps \cup Ends, Goto(r, step)
    PROVE  /\ Moved(r) /\ KeepsStart(r)
           /\ req'[r].pc = step /\ req'[r].tier = req[r].tier
BY DEF TypeOK, Moved, KeepsStart, Goto, RequestRecords, InFlightSteps, Ends

(* Entering the next tier moves r alone and keeps its start.               *)
LEMMA EnterTierEffect ==
    ASSUME TypeOK, NEW r \in Requests, NEW tier \in Tiers, EnterTier(r, tier)
    PROVE  Moved(r) /\ KeepsStart(r)
<1> DEFINE rec == [req[r] EXCEPT !.pc = "purge", !.tier = tier]
<1>1. rec \in RequestRecords
    BY DEF TypeOK, RequestRecords, InFlightSteps, Ends
<1>2. rec.pc # "idle" /\ rec.at = req[r].at /\ rec.client = req[r].client
    BY DEF TypeOK, RequestRecords, Ends
<1>3. req' = [req EXCEPT ![r] = rec]
    BY DEF EnterTier, TypeOK
<1> HIDE DEF rec
<1> QED
    BY <1>1, <1>2, <1>3, UpdateEffect DEF KeepsStart

(* Letting r in moves r alone and keeps its start.                         *)
LEMMA AllowedEffect ==
    ASSUME TypeOK, NEW r \in Requests,
           req' = [req EXCEPT ![r].pc = "allowed", ![r].until = now]
    PROVE  Moved(r) /\ KeepsStart(r)
<1> DEFINE rec == [req[r] EXCEPT !.pc = "allowed", !.until = now]
<1>1. rec \in RequestRecords /\ rec.pc # "idle"
    BY DEF TypeOK, RequestRecords, Ends
<1>2. rec.at = req[r].at /\ rec.client = req[r].client
    BY DEF TypeOK, RequestRecords, Ends
<1>3. req' = [req EXCEPT ![r] = rec]
    BY DEF TypeOK
<1> HIDE DEF rec
<1> QED
    BY <1>1, <1>2, <1>3, UpdateEffect DEF KeepsStart

(* The end of a tier moves r alone and keeps its start.                    *)
LEMMA ConcludeEffect ==
    ASSUME TypeOK, NEW r \in Requests, Conclude(r)
    PROVE  Moved(r) /\ KeepsStart(r)
BY GotoEffect, EnterTierEffect, AllowedEffect DEF Conclude, Tiers, Ends

(* A request begins now, and moves alone.                                  *)
LEMMA BeginEffect ==
    ASSUME TypeOK, NEW r \in Requests, Begin(r)
    PROVE  Moved(r) /\ req'[r].at = now
<1>1. PICK c \in Clients :
          req' = [req EXCEPT ![r].pc = "purge", ![r].client = c, ![r].at = now]
    BY DEF Begin
<1> DEFINE rec == [req[r] EXCEPT !.pc = "purge", !.client = c, !.at = now]
<1>2. rec \in RequestRecords /\ rec.pc # "idle" /\ rec.at = now
    BY DEF TypeOK, RequestRecords, InFlightSteps, Ends
<1>3. req' = [req EXCEPT ![r] = rec]
    BY <1>1 DEF TypeOK
<1> HIDE DEF rec
<1> QED
    BY <1>2, <1>3, UpdateEffect

(* zCard moves r alone and keeps its start.                                *)
LEMMA CountEffect ==
    ASSUME TypeOK, NEW r \in Requests, Count(r)
    PROVE  Moved(r) /\ KeepsStart(r)
<1> DEFINE count == Cardinality(zset[BucketOf(r)])
           step == IF ~ (count >= Limit[BucketOf(r)]) THEN "add"
                   ELSE IF req[r].tier = "global" THEN "warn"
                   ELSE "denied"
           rec == [req[r] EXCEPT !.count = count, !.pc = step]
<1>1. count \in Nat /\ step \in InFlightSteps \cup {"denied"} /\ step # "idle"
    BY BucketType, CountType DEF InFlightSteps
<1>2. req' = [req EXCEPT ![r] = rec]
    BY DEF Count, TypeOK
<1> HIDE DEF count, step
<1>3. rec \in RequestRecords /\ rec.pc # "idle"
    BY <1>1 DEF TypeOK, RequestRecords, Ends
<1>4. rec.at = req[r].at /\ rec.client = req[r].client
    BY DEF TypeOK, RequestRecords, Ends
<1> HIDE DEF rec
<1> QED
    BY <1>2, <1>3, <1>4, UpdateEffect DEF KeepsStart

(* Setting the dedup key moves r alone and keeps its start.                *)
LEMMA WarnSetEffect ==
    ASSUME TypeOK, NEW r \in Requests, WarnSet(r)
    PROVE  Moved(r) /\ KeepsStart(r)
<1> DEFINE rec == [req[r] EXCEPT !.pc = "warnSend", !.warnedAt = now]
<1>1. rec \in RequestRecords /\ rec.pc # "idle"
    BY DEF TypeOK, RequestRecords, InFlightSteps, Ends
<1>2. rec.at = req[r].at /\ rec.client = req[r].client
    BY DEF TypeOK, RequestRecords, Ends
<1>3. req' = [req EXCEPT ![r] = rec]
    BY DEF WarnSet, TypeOK
<1> HIDE DEF rec
<1> QED
    BY <1>1, <1>2, <1>3, UpdateEffect DEF KeepsStart

(* Queueing the warning moves r alone and keeps its start.                 *)
LEMMA WarnSendEffect ==
    ASSUME TypeOK, NEW r \in Requests, WarnSend(r)
    PROVE  Moved(r) /\ KeepsStart(r)
<1>1. PICK sent \in BOOLEAN :
         \/ req' = [req EXCEPT ![r].pc = "denied", ![r].mailed = sent]
         \/ req' = [req EXCEPT ![r].pc = "purge", ![r].tier = "endpoint",
                               ![r].mailed = sent]
    BY DEF WarnSend
<1> DEFINE denied == [req[r] EXCEPT !.pc = "denied", !.mailed = sent]
           next == [req[r] EXCEPT !.pc = "purge", !.tier = "endpoint", !.mailed = sent]
<1>2. /\ denied \in RequestRecords /\ denied.pc # "idle"
      /\ denied.at = req[r].at /\ denied.client = req[r].client
    BY DEF TypeOK, RequestRecords, Ends
<1>3. /\ next \in RequestRecords /\ next.pc # "idle"
      /\ next.at = req[r].at /\ next.client = req[r].client
    BY DEF TypeOK, RequestRecords, InFlightSteps, Ends, Tiers
<1>4. req' = [req EXCEPT ![r] = denied] \/ req' = [req EXCEPT ![r] = next]
    BY <1>1 DEF TypeOK
<1> HIDE DEF denied, next
<1> QED
    BY <1>2, <1>3, <1>4, UpdateEffect DEF KeepsStart

(* Every step of a request but the first keeps its clock reading.          *)
LEMMA CheckEffect ==
    ASSUME TypeOK, NEW r \in Requests, Check(r)
    PROVE  /\ Moved(r)
           /\ KeepsStart(r) \/ (Begin(r) /\ req'[r].at = now)
           /\ now' = now
<1>1. ASSUME Begin(r) PROVE Moved(r) /\ req'[r].at = now /\ now' = now
    BY <1>1, BeginEffect DEF Begin
<1>2. ASSUME Purge(r) PROVE Moved(r) /\ KeepsStart(r) /\ now' = now
    BY <1>2, GotoEffect DEF Purge, InFlightSteps
<1>3. ASSUME Count(r) PROVE Moved(r) /\ KeepsStart(r) /\ now' = now
    BY <1>3, CountEffect DEF Count
<1>4. ASSUME Add(r) PROVE Moved(r) /\ KeepsStart(r) /\ now' = now
    BY <1>4, GotoEffect DEF Add, InFlightSteps
<1>5. ASSUME Expire(r) PROVE Moved(r) /\ KeepsStart(r) /\ now' = now
    BY <1>5, GotoEffect, ConcludeEffect DEF Expire, InFlightSteps
<1>6. ASSUME Warn(r) PROVE Moved(r) /\ KeepsStart(r) /\ now' = now
    BY <1>6, GotoEffect, ConcludeEffect DEF Warn, InFlightSteps
<1>7. ASSUME WarnSet(r) PROVE Moved(r) /\ KeepsStart(r) /\ now' = now
    BY <1>7, WarnSetEffect DEF WarnSet
<1>8. ASSUME WarnSend(r) PROVE Moved(r) /\ KeepsStart(r) /\ now' = now
    BY <1>8, WarnSendEffect DEF WarnSend
<1>9. ASSUME Fail(r) PROVE Moved(r) /\ KeepsStart(r) /\ now' = now
    BY <1>9, GotoEffect DEF Fail, Ends
<1> QED
    BY <1>1, <1>2, <1>3, <1>4, <1>5, <1>6, <1>7, <1>8, <1>9 DEF Check

-----------------------------------------------------------------------------
RedisType ==
    /\ zset \in [Buckets -> SUBSET Requests]
    /\ ttl \in [Buckets -> Nat]
    /\ dedup \in [Buckets -> Nat]

(* Every step keeps the types.                                             *)
LEMMA StepTypeOK ==
    ASSUME TypeOK, [Next]_vars
    PROVE  TypeOK'
<1>1. CASE UNCHANGED vars
    BY <1>1 DEF vars, TypeOK
<1>2. CASE Tick
    BY <1>2 DEF Tick, TypeOK
<1>3. ASSUME NEW r \in Requests, Check(r) PROVE RedisType'
    <2>1. /\ BucketOf(r) \in Buckets /\ Window[BucketOf(r)] \in Nat
          /\ WarnPeriod \in Nat
        BY BucketType, RateLimiterAssumption
    <2>2. CASE Purge(r)
        BY <2>1, <2>2 DEF Purge, TypeOK, RedisType
    <2>3. CASE Add(r)
        BY <2>1, <2>3 DEF Add, TypeOK, RedisType
    <2>4. CASE Expire(r)
        BY <2>1, <2>4 DEF Expire, TypeOK, RedisType
    <2>5. CASE WarnSet(r)
        BY <2>1, <2>5 DEF WarnSet, TypeOK, RedisType
    <2>6. CASE UNCHANGED <<zset, ttl, dedup>>
        BY <2>6 DEF TypeOK, RedisType
    <2> QED
        BY <1>3, <2>2, <2>3, <2>4, <2>5, <2>6
        DEF Check, Begin, Count, Warn, WarnSend, Fail
<1>4. ASSUME NEW r \in Requests, Check(r) PROVE TypeOK'
    BY <1>3, <1>4, CheckEffect DEF Moved, TypeOK, RedisType
<1> QED
    BY <1>1, <1>2, <1>4 DEF Next

(* The initial states are well typed.                                      *)
LEMMA InitTypeOK == Init => TypeOK
BY DEF Init, TypeOK, RequestRecords, InFlightSteps, Ends, Tiers

(* The variables of the rate limiter keep their types.                     *)
THEOREM TypeCorrect == Spec => []TypeOK
BY InitTypeOK, StepTypeOK, PTL DEF Spec

-----------------------------------------------------------------------------
(* No step makes a request begin in the future.                            *)
LEMMA StepBegunBefore ==
    ASSUME RememberInv, [Next]_vars
    PROVE  BegunBefore'
<1> USE DEF RememberInv, BegunBefore
<1>1. \A r \in Requests : req[r].at \in Nat /\ now \in Nat
    BY DEF TypeOK, RequestRecords, Ends
<1>2. CASE UNCHANGED vars
    BY <1>2 DEF vars
<1>3. CASE Tick
    BY <1>1, <1>3 DEF Tick
<1>4. ASSUME NEW r \in Requests, Check(r) PROVE BegunBefore'
    BY <1>1, <1>4, CheckEffect DEF Moved, KeepsStart
<1> QED
    BY <1>2, <1>3, <1>4 DEF Next

(* Only Expire ends a pending expire, and a failure leaves it for good.    *)
LEMMA PendingStays ==
    ASSUME TypeOK, NEW r \in Requests, Check(r), NEW s \in Requests, NEW b \in Buckets,
           ExpirePending(s, b), ~ (s = r /\ Expire(r))
    PROVE  ExpirePending(s, b)'
<1>1. CASE s # r
    <2>1. req'[s] = req[s]
        BY <1>1, CheckEffect DEF Moved
    <2> QED
        BY <2>1 DEF ExpirePending, BucketOf
<1>2. CASE s = r
    <2>1. req[r].pc \in {"expire", "cut"} /\ BucketOf(r) = b /\ ~ Expire(r)
        BY <1>2 DEF ExpirePending
    <2>2. Fail(r) /\ Goto(r, "cut")
        BY <2>1 DEF Check, Begin, Purge, Count, Add, Warn, WarnSet, WarnSend, Fail,
                    InFlightSteps
    <2>3. req'[r].pc = "cut" /\ BucketOf(r)' = BucketOf(r)
        BY <2>2 DEF Goto, BucketOf, TypeOK
    <2> QED
        BY <1>2, <2>1, <2>3 DEF ExpirePending
<1> QED
    BY <1>1, <1>2

(* A step of r, be it on the same sorted set or not, keeps every member s  *)
(* of a set remembered.                                                    *)
LEMMA StepRemembered ==
    ASSUME RememberInv, NEW r \in Requests, Check(r), NEW s \in Requests,
           NEW b \in Buckets
    PROVE  Remembered(s, b)'
<1>0. /\ TypeOK /\ Remembered(s, b) /\ Moved(r)
      /\ req[s].at \in Nat /\ now \in Nat /\ req[s].at <= now
      /\ Window[b] \in Nat \ {0} /\ ttl[b] \in Nat
    BY CheckEffect, RateLimiterAssumption
    DEF RememberInv, AllRemembered, BegunBefore, TypeOK, RequestRecords
<1> SUFFICES ASSUME s \in zset'[b]
             PROVE  /\ req'[s].pc # "idle"
                    /\ ExpirePending(s, b)' \/ ttl'[b] = 0 \/ ttl'[b] > req'[s].at + Window[b]
    BY DEF Remembered
<1>1. CASE Add(r) /\ s = r /\ b = BucketOf(r)
    <2>1. req'[r].pc = "expire" /\ req'[r].tier = req[r].tier
          /\ req'[r].client = req[r].client
        BY <1>0, <1>1, GotoEffect DEF Add, InFlightSteps, KeepsStart
    <2> QED
        BY <1>1, <2>1 DEF ExpirePending, BucketOf
<1>2. ASSUME ~ (Add(r) /\ s = r /\ b = BucketOf(r))
      PROVE  s \in zset[b]
    <2>1. CASE Add(r)
        BY <1>0, <1>2, <2>1 DEF Add, TypeOK
    <2>2. CASE Purge(r)
        BY <1>0, <2>2 DEF Purge, TypeOK
    <2>3. CASE UNCHANGED zset
        BY <2>3
    <2> QED
        BY <2>1, <2>2, <2>3 DEF Check, Begin, Count, Expire, Warn, WarnSet, WarnSend, Fail
<1>3. ASSUME s \in zset[b]
      PROVE  /\ req'[s].pc # "idle" /\ req'[s].at = req[s].at
             /\ ExpirePending(s, b) \/ ttl[b] = 0 \/ ttl[b] > req[s].at + Window[b]
    <2>1. req[s].pc # "idle"
        BY <1>0, <1>3 DEF Remembered
    <2>2. ~ (s = r /\ Begin(r))
        BY <2>1 DEF Begin
    <2> QED
        BY <1>0, <1>3, <2>1, <2>2, CheckEffect DEF Remembered, Moved, KeepsStart
<1>4. ASSUME s \in zset[b], Expire(r), b = BucketOf(r)
      PROVE  ttl'[b] > req[s].at + Window[b]
    <2>1. ttl'[b] = now + Window[b] + 1
        BY <1>0, <1>4 DEF Expire, TypeOK
    <2> QED
        BY <1>0, <2>1
<1>5. ASSUME s \in zset[b], ~ (Expire(r) /\ b = BucketOf(r))
      PROVE  /\ ttl'[b] = ttl[b] \/ ttl'[b] = 0
             /\ ExpirePending(s, b) => ExpirePending(s, b)'
    <2>1. ttl'[b] = ttl[b] \/ ttl'[b] = 0
        <3>1. CASE Purge(r)
            BY <1>0, <3>1 DEF Purge, TypeOK
        <3>2. CASE Expire(r)
            BY <1>0, <1>5, <3>2 DEF Expire, TypeOK
        <3>3. CASE UNCHANGED ttl
            BY <3>3
        <3> QED
            BY <3>1, <3>2, <3>3 DEF Check, Begin, Count, Add, Warn, WarnSet, WarnSend, Fail
    <2>2. ASSUME ExpirePending(s, b) PROVE ExpirePending(s, b)'
        <3>1. CASE ~ (s = r /\ Expire(r))
            BY <1>0, <2>2, <3>1, PendingStays
        <3>2. CASE s = r /\ Expire(r)
            BY <1>5, <2>2, <3>2 DEF ExpirePending, Expire
        <3> QED
            BY <3>1, <3>2
    <2> QED
        BY <2>1, <2>2
<1> QED
    BY <1>1, <1>2, <1>3, <1>4, <1>5

(* The passing of time keeps every member of a set remembered.             *)
LEMMA TickRemembered ==
    ASSUME RememberInv, Tick, NEW s \in Requests, NEW b \in Buckets
    PROVE  Remembered(s, b)'
BY DEF RememberInv, AllRemembered, Remembered, Tick, TypeOK, ExpirePending, BucketOf

(* The inductive invariant holds in every reachable state.                 *)
LEMMA RememberInvariant == Spec => []RememberInv
<1>1. Init => RememberInv
    <2>1. Init => BegunBefore
        BY DEF Init, BegunBefore
    <2>2. Init => AllRemembered
        BY DEF Init, AllRemembered, Remembered
    <2> QED
        BY <2>1, <2>2, InitTypeOK DEF RememberInv
<1>2. ASSUME RememberInv, [Next]_vars PROVE RememberInv'
    <2>1. AllRemembered'
        <3>1. CASE UNCHANGED vars
            BY <1>2, <3>1
            DEF vars, RememberInv, AllRemembered, Remembered, ExpirePending, BucketOf
        <3> QED
            BY <1>2, <3>1, StepRemembered, TickRemembered DEF Next, AllRemembered
    <2> QED
        BY <1>2, <2>1, StepTypeOK, StepBegunBefore DEF RememberInv
<1> QED
    BY <1>1, <1>2, PTL DEF Spec

(* No request is forgotten before it has left the window, unless its       *)
(* expire is pending.                                                      *)
THEOREM NothingForgotten == Spec => KeptWhileCounted
<1>1. ASSUME RememberInv, [Next]_vars PROVE [DropsOnlyOld]_vars
    <2> SUFFICES ASSUME NEW b \in Buckets, NEW s \in zset[b] \ zset'[b]
                 PROVE  req[s].at + Window[b] <= now' \/ ExpirePending(s, b)
        BY DEF DropsOnlyOld
    <2>0. /\ s \in Requests /\ req[s].at \in Nat /\ now \in Nat /\ Window[b] \in Nat
          /\ ttl[b] \in Nat
        BY <1>1, RateLimiterAssumption DEF RememberInv, TypeOK, RequestRecords
    <2>1. CASE Tick
        <3>1. ttl[b] = now + 1 /\ now' = now + 1
            BY <2>1 DEF Tick
        <3>2. ExpirePending(s, b) \/ ttl[b] > req[s].at + Window[b]
            BY <1>1, <2>0, <3>1 DEF RememberInv, AllRemembered, Remembered
        <3> QED
            BY <2>0, <3>1, <3>2
    <2>2. ASSUME NEW r \in Requests, Purge(r)
          PROVE  req[s].at + Window[b] <= now'
        <3>1. b = BucketOf(r) /\ ~ (req[s].at > req[r].at - Window[b])
            BY <1>1, <2>2 DEF Purge, RememberInv, TypeOK
        <3>2. req[r].at \in Nat /\ req[r].at <= now /\ now' = now
            BY <1>1, <2>2 DEF Purge, RememberInv, BegunBefore, TypeOK, RequestRecords
        <3> QED
            BY <2>0, <3>1, <3>2
    <2>3. ASSUME NEW r \in Requests, Add(r) PROVE FALSE
        BY <1>1, <2>3 DEF Add, RememberInv, TypeOK
    <2>4. zset' # zset
        OBVIOUS
    <2> QED
        BY <1>1, <2>1, <2>2, <2>3, <2>4
        DEF Next, vars, Check, Begin, Count, Expire, Warn, WarnSet, WarnSend, Fail
<1> QED
    BY <1>1, RememberInvariant, PTL DEF Spec, KeptWhileCounted

-----------------------------------------------------------------------------
FewInFlight == Cardinality(InFlight) <= MaxInFlight

(* Members of the set of r that have left the window of r, and requests    *)
(* that may still be added to it although they have.                       *)
Late(r) ==
    {s \in zset[BucketOf(r)] \cup (InFlight \ {r}) :
        req[s].at <= req[r].at - Window[BucketOf(r)]}

(* Between its purge and its count, r finds no more of them than were in   *)
(* flight when it purged.                                                  *)
FewLate ==
    \A r \in Requests : req[r].pc = "count" => Cardinality(Late(r)) <= MaxInFlight - 1

(* A request starts in the global tier; only there is a warning sent.      *)
WarnSteps == {"warn", "warnSet", "warnSend"}

StartsGlobal ==
    \A r \in Requests :
        /\ req[r].pc \in {"idle"} \cup WarnSteps => req[r].tier = "global"
        /\ req[r].mailed => req[r].tier # "global" \/ req[r].pc \in {"denied", "cut", "failed"}

FlightInv == RememberInv /\ FewInFlight /\ FewLate /\ StartsGlobal

-----------------------------------------------------------------------------
(* s has been in flight for no time at all.                                *)
Prompt(s) ==
    \/ req[s].pc \in InFlightSteps /\ req[s].at = now
    \/ req[s].pc = "allowed" /\ req[s].until = req[s].at

(* s has left tier x behind, or was at least added to its set.             *)
Through(s, x) ==
    \/ req[s].pc = "allowed"
    \/ x = "global" /\ req[s].tier \in {"endpoint", "burst"}
    \/ x = "endpoint" /\ req[s].tier = "burst"
    \/ x = req[s].tier /\ \/ req[s].pc = "expire"
                          \/ req[s].pc \in WarnSteps /\ req[s].count < Limit[BucketOf(s)]

(* s was counted in tier x and found to be within the limit.               *)
Passed(s, x) == Through(s, x) \/ (x = req[s].tier /\ req[s].pc = "add")

(* As long as a prompt request is in the window, every set it was added to *)
(* holds it.                                                               *)
PromptCounted ==
    \A s \in Requests, x \in Tiers :
        LET b == Bucket[req[s].client][x]
        IN  Prompt(s) /\ Through(s, x) /\ req[s].at + Window[b] > now => s \in zset[b]

PassedIn(b, t) ==
    {s \in Requests : /\ Prompt(s)
                      /\ \E x \in Tiers : Bucket[req[s].client][x] = b /\ Passed(s, x)
                      /\ req[s].at \in (t - Window[b] + 1) .. t}

FewPassed ==
    \A b \in Buckets, t \in 0 .. MaxNow :
        Cardinality(PassedIn(b, t)) <= Limit[b] + MaxInFlight - 1

SlackInv == FlightInv /\ PromptCounted /\ FewPassed

-----------------------------------------------------------------------------
(* Requests of key b that have set the dedup key at t or later, and those  *)
(* that are about to.                                                      *)
SetIn(b, t) ==
    {r \in Requests : /\ req[r].mailed \/ req[r].pc = "warnSend"
                      /\ Bucket[req[r].client]["global"] = b
                      /\ req[r].warnedAt \in t .. (t + WarnPeriod - 1)}

AboutToSet(b) ==
    {r \in Requests : req[r].pc = "warnSet" /\ Bucket[req[r].client]["global"] = b}

Batch(b, t) == SetIn(b, t) \cup (IF now < t + WarnPeriod THEN AboutToSet(b) ELSE {})

(* The dedup key outlives the hour of every request that has set it.       *)
KeySilences ==
    /\ \A b \in Buckets : dedup[b] = 0 \/ dedup[b] > now
    /\ \A r \in Requests :
           (req[r].mailed \/ req[r].pc = "warnSend") =>
               LET b == Bucket[req[r].client]["global"]
               IN  /\ req[r].warnedAt <= now
                   /\ \/ now >= req[r].warnedAt + WarnPeriod
                      \/ dedup[b] >= req[r].warnedAt + WarnPeriod

(* Once a request has set it, only those about to set it will follow.      *)
OneBatch ==
    \A b \in Buckets, t \in 0 .. MaxNow :
        SetIn(b, t) # {} => Cardinality(Batch(b, t)) <= MaxInFlight

WarnInv == FlightInv /\ KeySilences /\ OneBatch
-----------------------------------------------------------------------------
(* What a step makes of the record of r.                                   *)
Step(r, from, to) == req[r].pc = from /\ req'[r].pc = to

SameTier(r) == req'[r].tier = req[r].tier /\ req'[r].count = req[r].count

SameWarning(r) == req'[r].mailed = req[r].mailed /\ req'[r].warnedAt = req[r].warnedAt

Stored(r) == Cardinality(zset[BucketOf(r)])

Begins(r) ==
    /\ Begin(r) /\ Step(r, "idle", "purge") /\ req'[r].at = now
    /\ SameTier(r) /\ SameWarning(r)

Counts(r) ==
    /\ Count(r) /\ SameWarning(r) /\ req'[r].tier = req[r].tier
    /\ \/ Stored(r) < Limit[BucketOf(r)] /\ Step(r, "count", "add")
       \/ /\ Stored(r) >= Limit[BucketOf(r)] /\ req'[r].count = Stored(r)
          /\ \/ req[r].tier = "global" /\ Step(r, "count", "warn")
             \/ Step(r, "count", "denied")

Concludes(r) ==
    \/ req'[r].pc = "denied" /\ SameTier(r)
    \/ /\ req[r].count < Limit[BucketOf(r)]
       /\ \/ /\ req'[r].pc = "purge"
             /\ \/ req[r].tier = "global" /\ req'[r].tier = "endpoint"
                \/ req[r].tier = "endpoint" /\ req'[r].tier = "burst"
          \/ /\ req'[r].pc = "allowed" /\ req'[r].until = now
             /\ req[r].tier = "burst" /\ SameTier(r)

Warns(r) ==
    \/ /\ Expire(r) /\ Step(r, "expire", "warn") /\ SameTier(r) /\ SameWarning(r)
       /\ req[r].tier = "global"
    \/ /\ Warn(r) /\ Step(r, "warn", "warnSet") /\ SameTier(r) /\ SameWarning(r)
       /\ dedup[BucketOf(r)] = 0
    \/ /\ WarnSet(r) /\ Step(r, "warnSet", "warnSend") /\ SameTier(r)
       /\ req'[r].mailed = req[r].mailed /\ req'[r].warnedAt = now
    \/ /\ WarnSend(r) /\ req[r].pc = "warnSend" /\ req'[r].warnedAt = req[r].warnedAt
       /\ \/ req'[r].pc = "denied" /\ SameTier(r)
          \/ /\ req[r].count < Limit[BucketOf(r)]
             /\ req'[r].pc = "purge" /\ req'[r].tier = "endpoint"

Advances(r) ==
    \/ Purge(r) /\ Step(r, "purge", "count") /\ SameTier(r) /\ SameWarning(r)
    \/ Counts(r)
    \/ Add(r) /\ Step(r, "add", "expire") /\ SameTier(r) /\ SameWarning(r)
    \/ (Expire(r) \/ Warn(r)) /\ req[r].pc \in {"expire", "warn"}
           /\ Concludes(r) /\ SameWarning(r)
    \/ Warns(r)
    \/ /\ Fail(r) /\ req[r].pc \in InFlightSteps /\ req'[r].pc \in {"cut", "failed"}
       /\ SameTier(r) /\ SameWarning(r)

LEMMA GotoFields ==
    ASSUME TypeOK, NEW r \in Requests, NEW step, Goto(r, step)
    PROVE  req'[r].pc = step /\ SameTier(r) /\ SameWarning(r)
BY DEF TypeOK, RequestRecords, Goto, SameTier, SameWarning

LEMMA ConcludeFields ==
    ASSUME TypeOK, NEW r \in Requests, Conclude(r)
    PROVE  Concludes(r) /\ SameWarning(r)
<1>1. CASE Goto(r, "denied")
    BY <1>1, GotoFields DEF Concludes
<1>2. CASE req[r].tier = "global" /\ EnterTier(r, "endpoint")
               /\ req[r].count < Limit[BucketOf(r)]
    BY <1>2 DEF TypeOK, RequestRecords, EnterTier, Concludes, SameWarning
<1>3. CASE req[r].tier = "endpoint" /\ EnterTier(r, "burst")
               /\ req[r].count < Limit[BucketOf(r)]
    BY <1>3 DEF TypeOK, RequestRecords, EnterTier, Concludes, SameWarning
<1>4. CASE req[r].tier = "burst" /\ req' = [req EXCEPT ![r].pc = "allowed", ![r].until = now]
               /\ req[r].count < Limit[BucketOf(r)]
    BY <1>4 DEF TypeOK, RequestRecords, Concludes, SameWarning, SameTier
<1> QED
    BY <1>1, <1>2, <1>3, <1>4 DEF Conclude

LEMMA CheckFields ==
    ASSUME TypeOK, NEW r \in Requests, Check(r)
    PROVE  Moved(r) /\ now' = now /\ (Begins(r) \/ (KeepsStart(r) /\ Advances(r)))
<1>0. Moved(r) /\ now' = now /\ (KeepsStart(r) \/ Begin(r))
    BY CheckEffect
<1>1. CASE Begin(r)
    <2>1. PICK c \in Clients :
             req' = [req EXCEPT ![r].pc = "purge", ![r].client = c, ![r].at = now]
        BY <1>1 DEF Begin
    <2>2. req'[r] = [req[r] EXCEPT !.pc = "purge", !.client = c, !.at = now]
        BY <2>1 DEF TypeOK
    <2>3. req[r] \in RequestRecords /\ req[r].pc = "idle"
        BY <1>1 DEF TypeOK, Begin
    <2>4. Begins(r)
        BY <1>1, <2>2, <2>3 DEF Begins, Step, RequestRecords, SameTier, SameWarning
    <2> QED
        BY <1>0, <2>4
<1>2. ASSUME ~ Begin(r) PROVE Advances(r)
    <2>1. CASE Purge(r)
        BY <2>1, GotoFields DEF Purge, Advances, Step
    <2>2. CASE Count(r)
        <3> DEFINE step == IF ~ (Stored(r) >= Limit[BucketOf(r)]) THEN "add"
                           ELSE IF req[r].tier = "global" THEN "warn" ELSE "denied"
        <3>1. /\ req[r].pc = "count"
              /\ req' = [req EXCEPT ![r].count = Stored(r), ![r].pc = step]
            BY <2>2 DEF Count, Stored
        <3>2. Stored(r) \in Nat /\ Limit[BucketOf(r)] \in Nat
            BY BucketType, CountType DEF Stored
        <3> HIDE DEF step
        <3>3. /\ req'[r].count = Stored(r) /\ req'[r].pc = step
              /\ req'[r].tier = req[r].tier /\ SameWarning(r)
            BY <3>1 DEF TypeOK, RequestRecords, SameWarning
        <3>4. Counts(r)
            BY <2>2, <3>1, <3>2, <3>3 DEF step, Counts, Step
        <3> QED
            BY <3>4 DEF Advances
    <2>3. CASE Add(r)
        BY <2>3, GotoFields DEF Add, Advances, Step
    <2>4. CASE Expire(r)
        <3>1. req[r].pc = "expire"
            BY <2>4 DEF Expire
        <3>2. CASE req[r].tier = "global" /\ Goto(r, "warn")
            BY <2>4, <3>1, <3>2, GotoFields DEF Advances, Warns, Step
        <3>3. CASE Conclude(r)
            BY <2>4, <3>1, <3>3, ConcludeFields DEF Advances
        <3> QED
            BY <2>4, <3>2, <3>3 DEF Expire
    <2>5. CASE Warn(r)
        <3>1. req[r].pc = "warn"
            BY <2>5 DEF Warn
        <3>2. CASE dedup[BucketOf(r)] = 0 /\ Goto(r, "warnSet")
            BY <2>5, <3>1, <3>2, GotoFields DEF Advances, Warns, Step
        <3>3. CASE Conclude(r)
            BY <2>5, <3>1, <3>3, ConcludeFields DEF Advances
        <3> QED
            BY <2>5, <3>2, <3>3 DEF Warn
    <2>6. CASE WarnSet(r)
        BY <2>6 DEF WarnSet, Advances, Warns, Step, SameTier, TypeOK, RequestRecords
    <2>7. CASE WarnSend(r)
        <3>1. Warns(r)
            <4>1. PICK sent \in BOOLEAN :
                     \/ req' = [req EXCEPT ![r].pc = "denied", ![r].mailed = sent]
                     \/ /\ req[r].count < Limit[BucketOf(r)]
                        /\ req' = [req EXCEPT ![r].pc = "purge", ![r].tier = "endpoint",
                                              ![r].mailed = sent]
                BY <2>7 DEF WarnSend
            <4>2. req[r].pc = "warnSend"
                BY <2>7 DEF WarnSend
            <4> QED
                BY <2>7, <4>1, <4>2 DEF Warns, SameTier, TypeOK, RequestRecords
        <3> QED
            BY <3>1 DEF Advances
    <2>8. CASE Fail(r)
        BY <2>8, GotoFields DEF Fail, Advances
    <2> QED
        BY <1>2, <2>1, <2>2, <2>3, <2>4, <2>5, <2>6, <2>7, <2>8 DEF Check
<1> QED
    BY <1>0, <1>1, <1>2

(* Requests are finitely many, and so are those in flight.                 *)
LEMMA FiniteRequests ==
    ASSUME NEW S, S \subseteq Requests
    PROVE  /\ IsFiniteSet(S) /\ Cardinality(S) \in Nat
           /\ \A T \in SUBSET S : Cardinality(T) <= Cardinality(S)
<1>1. IsFiniteSet(S)
    BY RateLimiterAssumption, FS_Subset
<1> QED
    BY <1>1, FS_Subset, FS_CardinalityType

LEMMA StartsGlobalStep ==
    ASSUME TypeOK, StartsGlobal, NEW r \in Requests, Check(r)
    PROVE  StartsGlobal'
<1>1. /\ Moved(r) /\ (Begins(r) \/ Advances(r))
      /\ req[r].pc \in {"idle"} \cup WarnSteps => req[r].tier = "global"
      /\ req[r].mailed => req[r].tier # "global" \/ req[r].pc \in {"denied", "cut", "failed"}
    BY CheckFields DEF StartsGlobal
<1>2. /\ req'[r].pc \in WarnSteps => req'[r].tier = "global"
      /\ req'[r].mailed => req'[r].tier # "global" \/ req'[r].pc \in {"denied", "cut", "failed"}
    <2>1. CASE Begins(r)
        BY <1>1, <2>1 DEF Begins, Step, SameTier, SameWarning, WarnSteps
    <2>2. CASE Counts(r)
        BY <1>1, <2>2 DEF Counts, Step, SameWarning, WarnSteps
    <2>3. CASE Warns(r)
        BY <1>1, <2>3 DEF Warns, Step, SameTier, SameWarning, WarnSteps
    <2>4. CASE Concludes(r) /\ SameWarning(r) /\ req[r].pc \in {"expire", "warn"}
        BY <1>1, <2>4 DEF Concludes, SameWarning, SameTier, WarnSteps
    <2>5. CASE SameTier(r) /\ SameWarning(r)
                   /\ req'[r].pc \in {"count", "expire", "cut", "failed"}
                   /\ req[r].pc \in InFlightSteps
        BY <1>1, <2>5 DEF SameTier, SameWarning, WarnSteps, InFlightSteps
    <2>6. Advances(r) =>
              \/ Counts(r) \/ Warns(r)
              \/ Concludes(r) /\ SameWarning(r) /\ req[r].pc \in {"expire", "warn"}
              \/ SameTier(r) /\ SameWarning(r)
                     /\ req'[r].pc \in {"count", "expire", "cut", "failed"}
                     /\ req[r].pc \in InFlightSteps
        BY DEF Advances, Step, InFlightSteps
    <2> QED
        BY <1>1, <2>1, <2>2, <2>3, <2>4, <2>5, <2>6
<1> QED
    BY <1>1, <1>2 DEF StartsGlobal, Moved

(* Only Begin takes off.                                                   *)
LEMMA InFlightStep ==
    ASSUME TypeOK, NEW r \in Requests, Check(r)
    PROVE  /\ Begins(r) => InFlight' = InFlight \cup {r} /\ r \notin InFlight
           /\ ~ Begins(r) => r \in InFlight /\ InFlight' \subseteq InFlight
<1>1. Moved(r) /\ (Begins(r) \/ Advances(r))
    BY CheckFields
<1>2. Begins(r) => r \notin InFlight /\ req'[r].pc = "purge"
    BY DEF Begins, Step, InFlight, InFlightSteps
<1>3. ~ Begins(r) => r \in InFlight
    BY <1>1 DEF Advances, Counts, Warns, Step, InFlight, InFlightSteps
<1> QED
    BY <1>1, <1>2, <1>3 DEF Moved, InFlight, InFlightSteps

LEMMA FewInFlightStep ==
    ASSUME TypeOK, FewInFlight, NEW r \in Requests, Check(r)
    PROVE  FewInFlight'
<1>1. InFlight \subseteq Requests /\ IsFiniteSet(InFlight)
    BY FiniteRequests DEF InFlight
<1>2. CASE Begins(r)
    <2>1. Cardinality(InFlight) < MaxInFlight
        BY <1>2 DEF Begins, Begin
    <2>2. Cardinality(InFlight \cup {r}) <= MaxInFlight
        <3>1. /\ Cardinality(InFlight \cup {r}) <= Cardinality(InFlight) + 1
              /\ Cardinality(InFlight) \in Nat
            <4>1. Cardinality(InFlight) \in Nat
                BY <1>1, FiniteRequests
            <4>2. Cardinality(InFlight \cup {r}) =
                      IF r \in InFlight THEN Cardinality(InFlight) ELSE Cardinality(InFlight) + 1
                BY <1>1, FS_AddElement
            <4> QED
                BY <4>1, <4>2
        <3>2. MaxInFlight \in Nat
            BY RateLimiterAssumption
        <3>3. Cardinality(InFlight \cup {r}) \in Nat
            BY FiniteRequests DEF InFlight
        <3> QED
            BY <2>1, <3>1, <3>2, <3>3
    <2> QED
        BY <1>2, <2>2, InFlightStep DEF FewInFlight
<1>3. CASE ~ Begins(r)
    <2>1. InFlight' \subseteq InFlight
        BY <1>3, InFlightStep
    <2>2. PICK F : F = InFlight'
        OBVIOUS
    <2>3. Cardinality(F) <= Cardinality(InFlight)
        BY <1>1, <2>1, <2>2, FiniteRequests
    <2>4. Cardinality(F) \in Nat /\ Cardinality(InFlight) \in Nat
        BY <1>1, <2>1, <2>2, FiniteRequests
    <2> QED
        BY <2>2, <2>3, <2>4, RateLimiterAssumption DEF FewInFlight
<1> QED
    BY <1>2, <1>3
(* A step of r adds nobody but r to a set, and only Add does.              *)
LEMMA SetStep ==
    ASSUME TypeOK, NEW r \in Requests, Check(r), NEW b \in Buckets
    PROVE  \/ zset'[b] \subseteq zset[b]
           \/ Add(r) /\ b = BucketOf(r) /\ zset'[b] = zset[b] \cup {r}
<1>1. CASE Add(r)
    BY <1>1 DEF Add, TypeOK
<1>2. CASE Purge(r)
    BY <1>2 DEF Purge, TypeOK
<1>3. CASE UNCHANGED zset
    BY <1>3
<1> QED
    BY <1>1, <1>2, <1>3 DEF Check, Begin, Count, Expire, Warn, WarnSet, WarnSend, Fail

LEMMA LateStep ==
    ASSUME FlightInv, NEW r \in Requests, Check(r), NEW q \in Requests \ {r},
           req[q].pc = "count"
    PROVE  Late(q)' \subseteq Late(q)
<1>0. TypeOK /\ Moved(r) /\ (Begins(r) \/ (KeepsStart(r) /\ Advances(r)))
    BY CheckFields DEF FlightInv, RememberInv
<1>1. PICK b \in Buckets : b = BucketOf(q)
    BY <1>0, BucketType
<1>2. req'[q] = req[q] /\ BucketOf(q)' = b
    BY <1>0, <1>1 DEF Moved, BucketOf
<1>3. /\ Window[b] \in Nat \ {0} /\ now \in Nat
      /\ req[q].at \in Nat /\ req[q].at <= now
    BY <1>0, <1>1, BucketType
    DEF FlightInv, RememberInv, BegunBefore, TypeOK, RequestRecords
<1> SUFFICES ASSUME NEW s \in zset'[b] \cup (InFlight' \ {q}),
                    req'[s].at <= req[q].at - Window[b]
             PROVE  /\ s \in zset[b] \cup (InFlight \ {q})
                    /\ req[s].at <= req[q].at - Window[b]
    BY <1>1, <1>2 DEF Late
<1>4. s = r => ~ Begins(r)
    BY <1>3 DEF Begins
<1>5. s \in zset[b] \cup (InFlight \ {q})
    <2>1. CASE s \in zset'[b]
        <3>1. Add(r) => r \in InFlight
            BY DEF Add, InFlight, InFlightSteps
        <3> QED
            BY <1>0, <2>1, <3>1, SetStep
    <2>2. CASE s \in InFlight' \ {q}
        BY <1>0, <1>4, <2>2, InFlightStep
    <2> QED
        BY <2>1, <2>2
<1>6. s \in Requests
    BY <1>0, <1>5 DEF TypeOK, InFlight
<1>7. req'[s].at = req[s].at
    BY <1>0, <1>4, <1>6 DEF Moved, KeepsStart
<1> QED
    BY <1>5, <1>7

LEMMA LateAtPurge ==
    ASSUME FlightInv, NEW r \in Requests, Purge(r)
    PROVE  Late(r)' \subseteq InFlight \ {r}
<1>0. TypeOK /\ Check(r) /\ ~ Begins(r)
    BY DEF FlightInv, RememberInv, Check, Purge, Begins, Step
<1>1. PICK b \in Buckets : b = BucketOf(r)
    BY <1>0, BucketType
<1>2. /\ \A s \in Requests : req'[s].at = req[s].at
      /\ BucketOf(r)' = b
    BY <1>0, <1>1, GotoEffect DEF Purge, InFlightSteps, Moved, KeepsStart, BucketOf
<1>3. zset'[b] = {s \in zset[b] : req[s].at > req[r].at - Window[b]}
    BY <1>0, <1>1 DEF Purge, TypeOK
<1>4. InFlight' \subseteq InFlight
    BY <1>0, InFlightStep
<1>5. \A s \in Requests : req[s].at \in Nat /\ Window[b] \in Nat
    BY <1>0, <1>1, BucketType DEF TypeOK, RequestRecords, Ends
<1>6. zset[b] \subseteq Requests
    BY <1>0 DEF TypeOK
<1> QED
    BY <1>2, <1>3, <1>4, <1>5, <1>6 DEF Late

LEMMA FewLateStep ==
    ASSUME FlightInv, NEW r \in Requests, Check(r)
    PROVE  FewLate'
<1>0. TypeOK /\ FewLate /\ FewInFlight /\ Moved(r) /\ (Begins(r) \/ Advances(r))
    BY CheckFields DEF FlightInv, RememberInv
<1>1. MaxInFlight \in Nat \ {0}
    BY RateLimiterAssumption
<1> SUFFICES ASSUME NEW q \in Requests, req'[q].pc = "count"
             PROVE  Cardinality(Late(q)') <= MaxInFlight - 1
    BY DEF FewLate
<1>2. CASE q # r
    <2>1. req[q].pc = "count"
        BY <1>0, <1>2 DEF Moved
    <2>2. Cardinality(Late(q)) <= MaxInFlight - 1
        BY <1>0, <2>1 DEF FewLate
    <2>3. Late(q)' \subseteq Late(q)
        BY <1>2, <2>1, LateStep
    <2>4. Late(q) \subseteq Requests
        BY <1>0, BucketType DEF Late, TypeOK, InFlight
    <2>5. /\ Cardinality(Late(q)') <= Cardinality(Late(q))
          /\ Cardinality(Late(q)') \in Nat /\ Cardinality(Late(q)) \in Nat
        BY <2>3, <2>4, FiniteRequests
    <2> QED
        BY <1>1, <2>2, <2>5
<1>3. CASE q = r
    <2>1. Purge(r)
        BY <1>0, <1>3
        DEF Begins, Advances, Counts, Concludes, Warns, Step
    <2>2. Late(r)' \subseteq InFlight \ {r} /\ r \in InFlight /\ InFlight \subseteq Requests
        BY <2>1, LateAtPurge DEF Purge, InFlight, InFlightSteps
    <2>3. Cardinality(InFlight \ {r}) = Cardinality(InFlight) - 1
        BY <2>2, FiniteRequests, FS_RemoveElement
    <2>4. /\ Cardinality(Late(r)') <= Cardinality(InFlight \ {r})
          /\ Cardinality(Late(r)') \in Nat /\ Cardinality(InFlight) \in Nat
        BY <2>2, FiniteRequests
    <2> QED
        BY <1>0, <1>1, <1>3, <2>3, <2>4 DEF FewInFlight
<1> QED
    BY <1>2, <1>3

LEMMA FlightTick ==
    ASSUME FlightInv, Tick
    PROVE  FewInFlight' /\ FewLate' /\ StartsGlobal'
<1>0. TypeOK /\ FewLate /\ FewInFlight /\ StartsGlobal
    BY DEF FlightInv, RememberInv
<1>1. req' = req /\ \A b \in Buckets : zset'[b] \subseteq zset[b]
    BY DEF Tick
<1>2. FewInFlight' /\ StartsGlobal'
    BY <1>0, <1>1 DEF FewInFlight, InFlight, StartsGlobal
<1>3. FewLate'
    <2> SUFFICES ASSUME NEW q \in Requests, req'[q].pc = "count"
                 PROVE  Cardinality(Late(q)') <= MaxInFlight - 1
        BY DEF FewLate
    <2>1. BucketOf(q) \in Buckets /\ BucketOf(q)' = BucketOf(q)
        BY <1>0, <1>1, BucketType DEF BucketOf
    <2>2. Late(q)' \subseteq Late(q)
        BY <1>1, <2>1 DEF Late, InFlight
    <2>3. Cardinality(Late(q)) <= MaxInFlight - 1
        BY <1>0, <1>1 DEF FewLate
    <2>4. Late(q) \subseteq Requests
        BY <1>0, <2>1 DEF Late, TypeOK, InFlight
    <2>5. /\ Cardinality(Late(q)') <= Cardinality(Late(q))
          /\ Cardinality(Late(q)') \in Nat /\ Cardinality(Late(q)) \in Nat
        BY <2>2, <2>4, FiniteRequests
    <2>6. MaxInFlight \in Nat
        BY RateLimiterAssumption
    <2> QED
        BY <2>3, <2>5, <2>6
<1> QED
    BY <1>2, <1>3

LEMMA FlightStep ==
    ASSUME FlightInv, RememberInv', [Next]_vars
    PROVE  FlightInv'
<1>1. CASE UNCHANGED vars
    BY <1>1 DEF vars, FlightInv, FewInFlight, InFlight, FewLate, Late, BucketOf, StartsGlobal
<1>2. ASSUME NEW r \in Requests, Check(r) PROVE FlightInv'
    BY <1>2, StartsGlobalStep, FewInFlightStep, FewLateStep DEF FlightInv, RememberInv
<1> QED
    BY <1>1, <1>2, FlightTick DEF Next, FlightInv

LEMMA InitFlight == Init => FewInFlight /\ FewLate /\ StartsGlobal
<1> SUFFICES ASSUME Init PROVE FewInFlight /\ FewLate /\ StartsGlobal
    OBVIOUS
<1>1. \A r \in Requests : req[r].pc = "idle" /\ req[r].tier = "global" /\ req[r].mailed = FALSE
    BY DEF Init
<1>2. InFlight = {}
    BY <1>1 DEF InFlight, InFlightSteps
<1>3. FewInFlight
    BY <1>2, FS_EmptySet, RateLimiterAssumption DEF FewInFlight
<1> QED
    BY <1>1, <1>3 DEF FewLate, StartsGlobal

LEMMA FlightInvariant == Spec => []FlightInv
<1>1. Init /\ RememberInv => FlightInv
    BY InitFlight DEF FlightInv
<1>2. FlightInv /\ RememberInv' /\ [Next]_vars => FlightInv'
    BY FlightStep
<1> QED
    BY <1>1, <1>2, RememberInvariant, PTL DEF Spec

(* A request is refused only if its own window is full, but for requests   *)
(* that were added late.                                                   *)
THEOREM RefusedOnlyWhenFull == Spec => DeniedOnlyAtLimit
<1>1. ASSUME FlightInv, [Next]_vars PROVE [RefusesAtLimit]_vars
    <2> SUFFICES ASSUME NEW r \in Requests, req[r].pc = "count",
                        req'[r].pc \in {"denied", "warn"}
                 PROVE  Cardinality(Recent(r)) + MaxInFlight - 1 >= Limit[BucketOf(r)]
        BY DEF RefusesAtLimit
    <2>0. TypeOK /\ FewLate
        BY <1>1 DEF FlightInv, RememberInv
    <2>1. Check(r)
        <3>1. PICK q \in Requests : Check(q)
            BY <1>1 DEF Next, vars, Tick
        <3>2. q = r
            BY <2>0, <3>1, CheckFields DEF Moved
        <3> QED
            BY <3>1, <3>2
    <2>2. Counts(r)
        BY <2>0, <2>1, CheckFields DEF Begins, Advances, Warns, Step
    <2>3. Stored(r) >= Limit[BucketOf(r)]
        BY <2>2 DEF Counts, Step
    <2>4. /\ zset[BucketOf(r)] \subseteq Recent(r) \cup Late(r)
          /\ Recent(r) \subseteq Requests /\ Late(r) \subseteq Requests
          /\ zset[BucketOf(r)] \subseteq Requests
        <3>1. zset[BucketOf(r)] \subseteq Requests /\ InFlight \subseteq Requests
            BY <2>0, BucketType DEF TypeOK, InFlight
        <3>2. /\ req[r].at \in Nat /\ Window[BucketOf(r)] \in Nat
              /\ \A s \in Requests : req[s].at \in Nat
            BY <2>0, BucketType DEF TypeOK, RequestRecords, Ends
        <3> QED
            BY <3>1, <3>2 DEF Recent, Late
    <2>5. /\ Cardinality(Recent(r) \cup Late(r)) =
                 Cardinality(Recent(r)) + Cardinality(Late(r))
                     - Cardinality(Recent(r) \cap Late(r))
          /\ Cardinality(Recent(r) \cap Late(r)) \in Nat
          /\ Cardinality(Recent(r)) \in Nat /\ Cardinality(Late(r)) \in Nat
        BY <2>4, FiniteRequests, FS_Union
    <2>6. Stored(r) <= Cardinality(Recent(r) \cup Late(r)) /\ Stored(r) \in Nat
        BY <2>4, FiniteRequests DEF Stored
    <2>7. Cardinality(Late(r)) <= MaxInFlight - 1
        BY <2>0 DEF FewLate
    <2>8. MaxInFlight \in Nat /\ Limit[BucketOf(r)] \in Nat
        BY <2>0, BucketType, RateLimiterAssumption
    <2> QED
        BY <2>3, <2>5, <2>6, <2>7, <2>8
<1> QED
    BY <1>1, FlightInvariant, PTL DEF Spec, DeniedOnlyAtLimit

-----------------------------------------------------------------------------
(* A prompt request gets past a tier only by being counted and added.      *)
LEMMA PassStep ==
    ASSUME FlightInv, NEW r \in Requests, Check(r), NEW x \in Tiers, Prompt(r)'
    PROVE  /\ Through(r, x)' =>
                  /\ KeepsStart(r) /\ Prompt(r)
                  /\ Through(r, x) \/ (Add(r) /\ x = req[r].tier)
           /\ Passed(r, x)' =>
                  /\ KeepsStart(r) /\ Prompt(r)
                  /\ \/ Passed(r, x)
                     \/ /\ req[r].pc = "count" /\ x = req[r].tier
                        /\ Stored(r) < Limit[BucketOf(r)]
<1>0. /\ TypeOK /\ StartsGlobal /\ Moved(r) /\ now' = now
      /\ Begins(r) \/ (KeepsStart(r) /\ Advances(r))
      /\ Stored(r) \in Nat /\ Limit[BucketOf(r)] \in Nat
    BY CheckFields, BucketType, CountType DEF FlightInv, RememberInv, Stored
<1>1. CASE Begins(r)
    <2>1. req'[r].tier = "global" /\ req'[r].pc = "purge"
        BY <1>0, <1>1 DEF Begins, Step, SameTier, StartsGlobal
    <2>2. ~ Through(r, x)' /\ ~ Passed(r, x)'
        BY <2>1 DEF Through, Passed, WarnSteps
    <2> QED
        BY <2>2
<1>2. CASE KeepsStart(r) /\ Advances(r)
    <2>1. req[r].pc \in InFlightSteps
        BY <1>2 DEF Advances, Counts, Warns, Step, InFlightSteps
    <2>2. Prompt(r)
        <3>1. req'[r].pc = "allowed" => req'[r].until = now
            BY <1>2 DEF Advances, Counts, Warns, Step, Concludes, InFlightSteps
        <3> QED
            BY <1>0, <1>2, <2>1, <3>1 DEF Prompt, KeepsStart
    <2>3. req'[r].tier = req[r].tier => BucketOf(r)' = BucketOf(r)
        BY <1>2 DEF KeepsStart, BucketOf
    <2> DEFINE Shown == /\ Through(r, x)' => Through(r, x) \/ (Add(r) /\ x = req[r].tier)
                        /\ Passed(r, x)' =>
                               \/ Passed(r, x)
                               \/ /\ req[r].pc = "count" /\ x = req[r].tier
                                  /\ Stored(r) < Limit[BucketOf(r)]
    <2>4. ASSUME Counts(r) PROVE Shown
        BY <1>0, <2>3, <2>4 DEF Counts, Step, Through, Passed, WarnSteps
    <2>5. ASSUME Warns(r) PROVE Shown
        <3>1. req[r].pc \in WarnSteps => req[r].tier = "global"
            BY <1>0 DEF StartsGlobal
        <3> QED
            BY <2>3, <2>5, <3>1 DEF Warns, Step, SameTier, Through, Passed, WarnSteps
    <2>6. ASSUME Concludes(r) /\ req[r].pc \in {"expire", "warn"} PROVE Shown
        BY <1>0, <2>3, <2>6 DEF Concludes, SameTier, Through, Passed, WarnSteps, Tiers
    <2>7. ASSUME Add(r) /\ Step(r, "add", "expire") /\ SameTier(r) PROVE Shown
        BY <1>0, <2>3, <2>7 DEF Step, SameTier, Through, Passed, WarnSteps
    <2>8. ASSUME SameTier(r) /\ req'[r].pc \in {"count", "cut", "failed"} PROVE Shown
        BY <1>0, <2>3, <2>8 DEF SameTier, Through, Passed, WarnSteps
    <2>9. Shown
        BY <1>2, <2>4, <2>5, <2>6, <2>7, <2>8 DEF Advances, Step
    <2> QED
        BY <1>2, <2>2, <2>9
<1> QED
    BY <1>0, <1>1, <1>2

(* A set keeps a member that is still in the window.                       *)
LEMMA KeptStep ==
    ASSUME FlightInv, NEW r \in Requests, Check(r), NEW b \in Buckets, NEW s \in zset[b],
           req[s].at + Window[b] > now
    PROVE  s \in zset'[b]
<1>0. /\ TypeOK /\ BegunBefore /\ s \in Requests
      /\ req[s].at \in Nat /\ req[r].at \in Nat /\ now \in Nat /\ Window[b] \in Nat
      /\ req[r].at <= now
    BY RateLimiterAssumption DEF FlightInv, RememberInv, BegunBefore, TypeOK, RequestRecords
<1>1. CASE Add(r)
    BY <1>0, <1>1 DEF Add, TypeOK
<1>2. CASE Purge(r)
    BY <1>0, <1>2 DEF Purge, TypeOK
<1>3. CASE UNCHANGED zset
    BY <1>3
<1> QED
    BY <1>1, <1>2, <1>3 DEF Check, Begin, Count, Expire, Warn, WarnSet, WarnSend, Fail

(* What is prompt of a request that does not move stays so.                *)
LEMMA OthersPass ==
    ASSUME FlightInv, NEW r \in Requests, Check(r), NEW s \in Requests \ {r}, NEW x
    PROVE  /\ Prompt(s)' <=> Prompt(s)
           /\ Through(s, x)' <=> Through(s, x)
           /\ Passed(s, x)' <=> Passed(s, x)
           /\ req'[s] = req[s]
<1>1. req'[s] = req[s] /\ now' = now
    BY CheckFields DEF Moved, FlightInv, RememberInv
<1> QED
    BY <1>1 DEF Prompt, Through, Passed, BucketOf

LEMMA PromptCountedStep ==
    ASSUME FlightInv, PromptCounted, NEW r \in Requests, Check(r)
    PROVE  PromptCounted'
<1>0. TypeOK /\ now' = now
    BY CheckFields DEF FlightInv, RememberInv
<1> SUFFICES ASSUME NEW s \in Requests, NEW x \in Tiers,
                    Prompt(s)', Through(s, x)',
                    req'[s].at + Window[Bucket[req'[s].client][x]] > now'
             PROVE  s \in zset'[Bucket[req'[s].client][x]]
    BY DEF PromptCounted
<1>1. /\ req'[s].at = req[s].at /\ req'[s].client = req[s].client /\ Prompt(s)
      /\ Through(s, x) \/ (s = r /\ Add(r) /\ x = req[r].tier)
    <2>1. CASE s # r
        BY <2>1, OthersPass
    <2>2. CASE s = r
        BY <2>2, PassStep DEF KeepsStart
    <2> QED
        BY <2>1, <2>2
<1>2. PICK b \in Buckets : b = Bucket[req[s].client][x]
    BY <1>0, RateLimiterAssumption DEF TypeOK, RequestRecords, Ends
<1>3. CASE Through(s, x)
    <2>1. s \in zset[b] /\ req[s].at + Window[b] > now
        BY <1>0, <1>1, <1>2, <1>3 DEF PromptCounted
    <2> QED
        BY <1>1, <1>2, <2>1, KeptStep
<1>4. CASE s = r /\ Add(r) /\ x = req[r].tier
    BY <1>0, <1>1, <1>2, <1>4 DEF Add, BucketOf, TypeOK
<1> QED
    BY <1>1, <1>3, <1>4

LEMMA PromptCountedTick ==
    ASSUME FlightInv, PromptCounted, Tick
    PROVE  PromptCounted'
<1>0. TypeOK /\ BegunBefore /\ AllRemembered
    BY DEF FlightInv, RememberInv
<1>1. req' = req /\ now' = now + 1
    BY DEF Tick
<1> SUFFICES ASSUME NEW s \in Requests, NEW x \in Tiers,
                    Prompt(s)', Through(s, x)',
                    req[s].at + Window[Bucket[req[s].client][x]] > now + 1
             PROVE  s \in zset'[Bucket[req[s].client][x]]
    BY <1>1 DEF PromptCounted
<1>2. PICK b \in Buckets : b = Bucket[req[s].client][x]
    BY <1>0, RateLimiterAssumption DEF TypeOK, RequestRecords, Ends
<1>3. /\ req[s].at \in Nat /\ now \in Nat /\ Window[b] \in Nat /\ ttl[b] \in Nat
      /\ req[s].at <= now
    BY <1>0, RateLimiterAssumption DEF BegunBefore, TypeOK, RequestRecords
<1>4. req[s].pc = "allowed" /\ Prompt(s) /\ Through(s, x)
    BY <1>1, <1>3 DEF Prompt, Through
<1>5. s \in zset[b]
    BY <1>2, <1>3, <1>4 DEF PromptCounted
<1>6. ~ ExpirePending(s, b)
    BY <1>4 DEF ExpirePending
<1>7. ttl[b] = 0 \/ ttl[b] > req[s].at + Window[b]
    BY <1>0, <1>5, <1>6 DEF AllRemembered, Remembered
<1>8. ttl[b] # now + 1
    BY <1>2, <1>3, <1>7
<1> QED
    BY <1>2, <1>5, <1>8 DEF Tick
(* Unless r is counted, nobody is let in ...                               *)
LEMMA PassedInStep ==
    ASSUME FlightInv, NEW r \in Requests, Check(r), NEW b \in Buckets, NEW t \in Nat
    PROVE  /\ PassedIn(b, t)' \subseteq PassedIn(b, t) \cup {r}
           /\ \/ PassedIn(b, t)' \subseteq PassedIn(b, t)
              \/ /\ req[r].pc = "count" /\ b = BucketOf(r)
                 /\ Stored(r) < Limit[b]
                 /\ now \in (t - Window[b] + 1) .. t
<1>0. TypeOK /\ now' = now
    BY CheckFields DEF FlightInv, RememberInv
<1>1. \A s \in Requests \ {r} : s \in PassedIn(b, t)' => s \in PassedIn(b, t)
    BY OthersPass DEF PassedIn
<1>2. ASSUME r \in PassedIn(b, t)', r \notin PassedIn(b, t)
      PROVE  /\ req[r].pc = "count" /\ b = BucketOf(r)
             /\ Stored(r) < Limit[b]
             /\ now \in (t - Window[b] + 1) .. t
    <2>1. PICK x \in Tiers : Bucket[req'[r].client][x] = b /\ Passed(r, x)'
        BY <1>2 DEF PassedIn
    <2>2. Prompt(r)' /\ req'[r].at \in (t - Window[b] + 1) .. t
        BY <1>2 DEF PassedIn
    <2>3. /\ req'[r].at = req[r].at /\ req'[r].client = req[r].client /\ Prompt(r)
          /\ \/ Passed(r, x)
             \/ req[r].pc = "count" /\ x = req[r].tier /\ Stored(r) < Limit[BucketOf(r)]
        BY <2>1, <2>2, PassStep DEF KeepsStart
    <2>4. ~ Passed(r, x)
        BY <1>2, <2>1, <2>2, <2>3 DEF PassedIn
    <2>5. req[r].pc = "count" /\ b = BucketOf(r) /\ Stored(r) < Limit[b]
        BY <2>1, <2>3, <2>4 DEF BucketOf
    <2>6. req[r].at = now
        BY <2>3, <2>5 DEF Prompt
    <2> QED
        BY <2>2, <2>3, <2>5, <2>6
<1>3. PassedIn(b, t)' \subseteq Requests
    BY DEF PassedIn
<1> QED
    BY <1>1, <1>2, <1>3

(* ... and then all others who were let in are in the set, or were counted *)
(* but not added yet: they are in flight.                                  *)
LEMMA PassedAreStored ==
    ASSUME FlightInv, PromptCounted, NEW r \in Requests, req[r].pc = "count",
           NEW b \in Buckets, NEW t \in Nat, now \in (t - Window[b] + 1) .. t
    PROVE  PassedIn(b, t) \subseteq zset[b] \cup (InFlight \ {r})
<1> SUFFICES ASSUME NEW s \in Requests, NEW x \in Tiers, Prompt(s),
                    Bucket[req[s].client][x] = b, Passed(s, x),
                    req[s].at \in (t - Window[b] + 1) .. t
             PROVE  s \in zset[b] \cup (InFlight \ {r})
    BY DEF PassedIn
<1>1. CASE Through(s, x)
    <2>1. now \in Nat /\ Window[b] \in Nat
        BY RateLimiterAssumption DEF FlightInv, RememberInv, TypeOK
    <2>2. req[s].at + Window[b] > now
        BY <2>1
    <2> QED
        BY <1>1, <2>2 DEF PromptCounted
<1>2. CASE req[s].pc = "add"
    BY <1>2 DEF InFlight, InFlightSteps
<1> QED
    BY <1>1, <1>2 DEF Passed

LEMMA FewPassedStep ==
    ASSUME FlightInv, PromptCounted, FewPassed, NEW r \in Requests, Check(r)
    PROVE  FewPassed'
<1> SUFFICES ASSUME NEW b \in Buckets, NEW t \in 0 .. MaxNow
             PROVE  Cardinality(PassedIn(b, t)') <= Limit[b] + MaxInFlight - 1
    BY DEF FewPassed
<1>0. /\ TypeOK /\ FewInFlight /\ t \in Nat
      /\ MaxInFlight \in Nat \ {0} /\ Limit[b] \in Nat
      /\ InFlight \subseteq Requests /\ zset[b] \subseteq Requests
    BY RateLimiterAssumption DEF FlightInv, RememberInv, TypeOK, InFlight
<1>1. PassedIn(b, t) \subseteq Requests /\ PassedIn(b, t)' \subseteq Requests
    BY DEF PassedIn
<1>2. CASE PassedIn(b, t)' \subseteq PassedIn(b, t)
    <2>1. Cardinality(PassedIn(b, t)) <= Limit[b] + MaxInFlight - 1
        BY DEF FewPassed
    <2>2. /\ Cardinality(PassedIn(b, t)') <= Cardinality(PassedIn(b, t))
          /\ Cardinality(PassedIn(b, t)') \in Nat /\ Cardinality(PassedIn(b, t)) \in Nat
        BY <1>1, <1>2, FiniteRequests
    <2> QED
        BY <1>0, <2>1, <2>2
<1>3. CASE /\ req[r].pc = "count" /\ b = BucketOf(r) /\ Stored(r) < Limit[b]
           /\ now \in (t - Window[b] + 1) .. t
    <2> DEFINE rest == InFlight \ {r}
               all == (zset[b] \cup rest) \cup {r}
    <2>1. r \in InFlight
        BY <1>3 DEF InFlight, InFlightSteps
    <2>2. /\ Cardinality(rest) = Cardinality(InFlight) - 1
          /\ Cardinality(InFlight) \in Nat /\ rest \subseteq Requests
        BY <1>0, <2>1, FiniteRequests, FS_RemoveElement
    <2> HIDE DEF rest
    <2>3. /\ Cardinality(zset[b] \cup rest) =
                 Cardinality(zset[b]) + Cardinality(rest) - Cardinality(zset[b] \cap rest)
          /\ Cardinality(zset[b] \cap rest) \in Nat /\ Cardinality(zset[b]) \in Nat
          /\ Cardinality(zset[b] \cup rest) \in Nat
        BY <1>0, <2>2, FiniteRequests, FS_Union
    <2>4. IsFiniteSet(zset[b] \cup rest)
        BY <1>0, <2>2, FiniteRequests
    <2>5. Cardinality(all) = IF r \in zset[b] \cup rest THEN Cardinality(zset[b] \cup rest)
                             ELSE Cardinality(zset[b] \cup rest) + 1
        BY <2>4, FS_AddElement
    <2>6. PassedIn(b, t)' \subseteq all
        BY <1>0, <1>3, PassedInStep, PassedAreStored DEF rest
    <2>7. all \subseteq Requests
        BY <1>0, <2>2
    <2> HIDE DEF all
    <2>8. /\ Cardinality(PassedIn(b, t)') <= Cardinality(all)
          /\ Cardinality(PassedIn(b, t)') \in Nat /\ Cardinality(all) \in Nat
        BY <2>6, <2>7, FiniteRequests
    <2>9. Cardinality(zset[b]) < Limit[b]
        BY <1>3 DEF Stored
    <2> QED
        BY <1>0, <2>2, <2>3, <2>5, <2>8, <2>9 DEF FewInFlight
<1> QED
    BY <1>0, <1>2, <1>3, PassedInStep

LEMMA FewPassedTick ==
    ASSUME FlightInv, FewPassed, Tick
    PROVE  FewPassed'
<1> SUFFICES ASSUME NEW b \in Buckets, NEW t \in 0 .. MaxNow
             PROVE  Cardinality(PassedIn(b, t)') <= Limit[b] + MaxInFlight - 1
    BY DEF FewPassed
<1>1. \A s \in Requests : req[s].at \in Nat /\ now \in Nat /\ req[s].at <= now
    BY DEF FlightInv, RememberInv, BegunBefore, TypeOK, RequestRecords
<1>2. req' = req /\ now' = now + 1
    BY DEF Tick
<1>3. PassedIn(b, t)' \subseteq PassedIn(b, t)
    BY <1>1, <1>2 DEF PassedIn, Prompt, Passed, Through, BucketOf
<1>4. PassedIn(b, t) \subseteq Requests
    BY DEF PassedIn
<1>5. /\ Cardinality(PassedIn(b, t)') <= Cardinality(PassedIn(b, t))
      /\ Cardinality(PassedIn(b, t)') \in Nat /\ Cardinality(PassedIn(b, t)) \in Nat
    BY <1>3, <1>4, FiniteRequests
<1>6. Cardinality(PassedIn(b, t)) <= Limit[b] + MaxInFlight - 1
    BY DEF FewPassed
<1>7. MaxInFlight \in Nat /\ Limit[b] \in Nat
    BY RateLimiterAssumption
<1> QED
    BY <1>5, <1>6, <1>7

LEMMA SlackInvariant == Spec => []SlackInv
<1>1. Init /\ FlightInv => SlackInv
    <2> SUFFICES ASSUME Init, FlightInv PROVE PromptCounted /\ FewPassed
        BY DEF SlackInv
    <2>1. \A s \in Requests : ~ Prompt(s)
        BY DEF Init, Prompt, InFlightSteps
    <2>2. \A b \in Buckets, t \in 0 .. MaxNow : PassedIn(b, t) = {}
        BY <2>1 DEF PassedIn
    <2>3. \A b \in Buckets : Limit[b] + MaxInFlight - 1 >= 0
        BY RateLimiterAssumption
    <2>4. FewPassed
        BY <2>2, <2>3, FS_EmptySet DEF FewPassed
    <2> QED
        BY <2>1, <2>4 DEF PromptCounted
<1>2. SlackInv /\ FlightInv' /\ [Next]_vars => SlackInv'
    <2> SUFFICES ASSUME SlackInv, FlightInv', [Next]_vars PROVE PromptCounted' /\ FewPassed'
        BY DEF SlackInv
    <2>1. CASE UNCHANGED vars
        BY <2>1 DEF vars, SlackInv, PromptCounted, FewPassed, PassedIn, Prompt, Passed,
                    Through, BucketOf
    <2> QED
        BY <2>1, PromptCountedStep, PromptCountedTick, FewPassedStep, FewPassedTick
        DEF SlackInv, Next
<1> QED
    BY <1>1, <1>2, FlightInvariant, PTL DEF Spec

(* No window holds more undelayed requests than the limit and one for      *)
(* every other request that can be in flight.                              *)
THEOREM LimitHolds == Spec => []LimitAndSlack
<1>1. ASSUME SlackInv PROVE LimitAndSlack
    <2> SUFFICES ASSUME NEW b \in Buckets, NEW t \in 0 .. MaxNow
                 PROVE  Cardinality(AllowedIn(b, t)) <= Limit[b] + MaxInFlight - 1
        BY DEF LimitAndSlack
    <2>1. AllowedIn(b, t) \subseteq PassedIn(b, t) /\ PassedIn(b, t) \subseteq Requests
        BY DEF AllowedIn, PassedIn, Prompt, Passed, Through
    <2>2. Cardinality(PassedIn(b, t)) <= Limit[b] + MaxInFlight - 1
        BY <1>1 DEF SlackInv, FewPassed
    <2>3. /\ Cardinality(AllowedIn(b, t)) <= Cardinality(PassedIn(b, t))
          /\ Cardinality(AllowedIn(b, t)) \in Nat /\ Cardinality(PassedIn(b, t)) \in Nat
        BY <2>1, FiniteRequests
    <2>4. MaxInFlight \in Nat /\ Limit[b] \in Nat
        BY RateLimiterAssumption
    <2> QED
        BY <2>2, <2>3, <2>4
<1> QED
    BY <1>1, SlackInvariant, PTL

-----------------------------------------------------------------------------
(* r has set the dedup key, and its warning is not lost.                   *)
HasSet(r) == req[r].mailed \/ req[r].pc = "warnSend"

Hour(t) == t .. (t + WarnPeriod - 1)

LEMMA HasSetStep ==
    ASSUME FlightInv, NEW r \in Requests, Check(r)
    PROVE  /\ HasSet(r)' =>
                  /\ KeepsStart(r)
                  /\ \/ HasSet(r) /\ req'[r].warnedAt = req[r].warnedAt
                     \/ /\ WarnSet(r) /\ req[r].pc = "warnSet" /\ req'[r].warnedAt = now
                        /\ BucketOf(r) = Bucket[req[r].client]["global"]
           /\ req'[r].pc = "warnSet" =>
                  /\ KeepsStart(r)
                  /\ dedup[Bucket[req[r].client]["global"]] = 0
<1>0. /\ TypeOK /\ StartsGlobal
      /\ Begins(r) \/ (KeepsStart(r) /\ Advances(r))
    BY CheckFields DEF FlightInv, RememberInv
<1>1. /\ req[r].pc \in {"idle"} \cup WarnSteps =>
             req[r].tier = "global" /\ BucketOf(r) = Bucket[req[r].client]["global"]
      /\ req[r].pc = "idle" => ~ req[r].mailed
    BY <1>0 DEF StartsGlobal, BucketOf
<1> DEFINE Shown ==
        /\ HasSet(r)' =>
               \/ HasSet(r) /\ req'[r].warnedAt = req[r].warnedAt
               \/ /\ WarnSet(r) /\ req[r].pc = "warnSet" /\ req'[r].warnedAt = now
                  /\ BucketOf(r) = Bucket[req[r].client]["global"]
        /\ req'[r].pc = "warnSet" => dedup[Bucket[req[r].client]["global"]] = 0
<1>2. CASE Begins(r)
    BY <1>1, <1>2 DEF Begins, Step, SameWarning, HasSet
<1>3. CASE KeepsStart(r) /\ Advances(r)
    <2>1. ASSUME Counts(r) PROVE Shown
        BY <2>1 DEF Counts, Step, SameWarning, HasSet
    <2>2. ASSUME Warns(r) PROVE Shown
        BY <1>1, <2>2 DEF Warns, Step, SameWarning, HasSet, WarnSteps
    <2>3. ASSUME Concludes(r), SameWarning(r) PROVE Shown
        BY <2>3 DEF Concludes, SameWarning, HasSet
    <2>4. ASSUME SameWarning(r), req'[r].pc \in {"count", "expire", "cut", "failed"} PROVE Shown
        BY <2>4 DEF SameWarning, HasSet
    <2>5. Shown
        BY <1>3, <2>1, <2>2, <2>3, <2>4 DEF Advances, Step
    <2> QED
        BY <1>3, <2>5
<1> QED
    BY <1>0, <1>2, <1>3

(* Only setting the key changes it.                                        *)
LEMMA DedupStep ==
    ASSUME TypeOK, NEW r \in Requests, Check(r), NEW b \in Buckets
    PROVE  \/ dedup'[b] = dedup[b]
           \/ WarnSet(r) /\ b = BucketOf(r) /\ dedup'[b] = now + WarnPeriod
<1>1. CASE WarnSet(r)
    BY <1>1 DEF WarnSet, TypeOK
<1>2. CASE UNCHANGED dedup
    BY <1>2
<1> QED
    BY <1>1, <1>2 DEF Check, Begin, Purge, Count, Add, Expire, Warn, WarnSend, Fail

LEMMA WarnTypes ==
    ASSUME TypeOK
    PROVE  /\ now \in Nat /\ WarnPeriod \in Nat \ {0} /\ MaxInFlight \in Nat
           /\ \A b \in Buckets : dedup[b] \in Nat
           /\ \A r \in Requests :
                  req[r].warnedAt \in Nat /\ Bucket[req[r].client]["global"] \in Buckets
BY RateLimiterAssumption DEF TypeOK, RequestRecords, Tiers

LEMMA KeySilencesStep ==
    ASSUME FlightInv, KeySilences, NEW r \in Requests, Check(r)
    PROVE  KeySilences'
<1>0. TypeOK /\ now' = now
    BY CheckFields DEF FlightInv, RememberInv
<1>1. ASSUME NEW b \in Buckets PROVE dedup'[b] = 0 \/ dedup'[b] > now
    BY <1>0, DedupStep, WarnTypes DEF KeySilences
<1>2. ASSUME NEW s \in Requests, HasSet(s)', NEW b \in Buckets,
             b = Bucket[req'[s].client]["global"]
      PROVE  /\ req'[s].warnedAt <= now
             /\ now >= req'[s].warnedAt + WarnPeriod \/ dedup'[b] >= req'[s].warnedAt + WarnPeriod
    <2>1. CASE /\ HasSet(s) /\ req'[s].warnedAt = req[s].warnedAt
               /\ b = Bucket[req[s].client]["global"]
        <3>1. /\ req[s].warnedAt <= now
              /\ now >= req[s].warnedAt + WarnPeriod \/ dedup[b] >= req[s].warnedAt + WarnPeriod
            BY <2>1 DEF KeySilences, HasSet
        <3> QED
            BY <1>0, <2>1, <3>1, DedupStep, WarnTypes
    <2>2. CASE /\ s = r /\ WarnSet(r) /\ req'[r].warnedAt = now /\ b = BucketOf(r)
        <3>1. dedup'[b] = now + WarnPeriod
            BY <1>0, <2>2 DEF WarnSet, TypeOK
        <3> QED
            BY <1>0, <2>2, <3>1, WarnTypes
    <2>3. CASE s # r
        <3>1. req'[s] = req[s]
            BY <1>0, <2>3, CheckFields DEF Moved
        <3> QED
            BY <1>2, <2>1, <3>1 DEF HasSet
    <2>4. CASE s = r
        BY <1>2, <2>1, <2>2, <2>4, HasSetStep DEF KeepsStart
    <2> QED
        BY <2>3, <2>4
<1>3. TypeOK'
    <2>1. [Next]_vars
        BY DEF Next
    <2> QED
        BY <1>0, <2>1, StepTypeOK
<1>4. \A s \in Requests : Bucket[req'[s].client]["global"] \in Buckets
    BY <1>3, RateLimiterAssumption DEF TypeOK, RequestRecords, Tiers
<1> QED
    BY <1>0, <1>1, <1>2, <1>4 DEF KeySilences, HasSet

(* As long as the hour lasts, the batch only shrinks.                      *)
LEMMA BatchStep ==
    ASSUME FlightInv, KeySilences, NEW r \in Requests, Check(r),
           NEW b \in Buckets, NEW t \in Nat, SetIn(b, t) # {}
    PROVE  Batch(b, t)' \subseteq Batch(b, t)
<1>0. TypeOK /\ now' = now
    BY CheckFields DEF FlightInv, RememberInv
<1>1. now < t + WarnPeriod => dedup[b] # 0
    <2>1. PICK w \in Requests : /\ HasSet(w) /\ Bucket[req[w].client]["global"] = b
                                /\ req[w].warnedAt \in Hour(t)
        BY DEF SetIn, HasSet, Hour
    <2>2. now >= req[w].warnedAt + WarnPeriod \/ dedup[b] >= req[w].warnedAt + WarnPeriod
        BY <2>1 DEF KeySilences, HasSet
    <2> QED
        BY <1>0, <2>1, <2>2, WarnTypes DEF Hour
<1>2. ASSUME NEW s \in Requests, s \in SetIn(b, t)' PROVE s \in Batch(b, t)
    <2>1. HasSet(s)' /\ Bucket[req'[s].client]["global"] = b /\ req'[s].warnedAt \in Hour(t)
        BY <1>2 DEF SetIn, HasSet, Hour
    <2>2. CASE HasSet(s) /\ req'[s].warnedAt = req[s].warnedAt /\ req'[s].client = req[s].client
        BY <2>1, <2>2 DEF Batch, SetIn, HasSet, Hour
    <2>3. CASE s = r /\ req[r].pc = "warnSet" /\ req'[r].warnedAt = now
               /\ req'[r].client = req[r].client
        <3>1. now < t + WarnPeriod
            BY <1>0, <2>1, <2>3, WarnTypes DEF Hour
        <3> QED
            BY <2>1, <2>3, <3>1 DEF Batch, AboutToSet
    <2>4. CASE s # r
        <3>1. req'[s] = req[s]
            BY <1>0, <2>4, CheckFields DEF Moved
        <3> QED
            BY <2>1, <2>2, <3>1 DEF HasSet
    <2>5. CASE s = r
        BY <2>1, <2>2, <2>3, <2>5, HasSetStep DEF KeepsStart
    <2> QED
        BY <2>4, <2>5
<1>3. ASSUME NEW s \in Requests, s \in AboutToSet(b)', now < t + WarnPeriod
      PROVE  s \in Batch(b, t)
    <2>1. req'[s].pc = "warnSet" /\ Bucket[req'[s].client]["global"] = b
        BY <1>3 DEF AboutToSet
    <2>2. s # r
        BY <1>1, <1>3, <2>1, HasSetStep DEF KeepsStart
    <2>3. req'[s] = req[s]
        BY <1>0, <2>2, CheckFields DEF Moved
    <2> QED
        BY <1>3, <2>1, <2>3 DEF Batch, AboutToSet
<1>4. SetIn(b, t)' \subseteq Requests /\ AboutToSet(b)' \subseteq Requests
    BY DEF SetIn, AboutToSet
<1> QED
    BY <1>0, <1>2, <1>3, <1>4 DEF Batch

(* The first to set the key, and those about to, are in flight.            *)
LEMMA FirstOfBatch ==
    ASSUME FlightInv, NEW r \in Requests, Check(r),
           NEW b \in Buckets, NEW t \in Nat, SetIn(b, t) = {}, SetIn(b, t)' # {}
    PROVE  Batch(b, t)' \subseteq InFlight'
<1>0. TypeOK /\ now' = now /\ Moved(r)
    BY CheckFields DEF FlightInv, RememberInv
<1>1. ASSUME NEW s \in Requests, s \in SetIn(b, t)' PROVE s \in InFlight'
    <2>1. HasSet(s)' /\ Bucket[req'[s].client]["global"] = b /\ req'[s].warnedAt \in Hour(t)
        BY <1>1 DEF SetIn, HasSet, Hour
    <2>2. ~ (HasSet(s) /\ req'[s].warnedAt = req[s].warnedAt /\ req'[s].client = req[s].client)
        BY <2>1 DEF SetIn, HasSet, Hour
    <2>3. s = r
        BY <1>0, <2>1, <2>2 DEF Moved, HasSet
    <2>4. WarnSet(r)
        BY <2>1, <2>2, <2>3, HasSetStep DEF KeepsStart
    <2>5. req'[r].pc = "warnSend"
        BY <1>0, <2>4 DEF WarnSet, TypeOK, RequestRecords
    <2> QED
        BY <2>3, <2>5 DEF InFlight, InFlightSteps
<1>2. AboutToSet(b)' \subseteq InFlight'
    BY DEF AboutToSet, InFlight, InFlightSteps
<1>3. SetIn(b, t)' \subseteq Requests
    BY DEF SetIn
<1> QED
    BY <1>1, <1>2, <1>3 DEF Batch

LEMMA OneBatchStep ==
    ASSUME FlightInv, FewInFlight', KeySilences, OneBatch, NEW r \in Requests, Check(r)
    PROVE  OneBatch'
<1> SUFFICES ASSUME NEW b \in Buckets, NEW t \in 0 .. MaxNow, SetIn(b, t)' # {}
             PROVE  Cardinality(Batch(b, t)') <= MaxInFlight
    BY DEF OneBatch
<1>0. TypeOK /\ t \in Nat
    BY RateLimiterAssumption DEF FlightInv, RememberInv
<1>1. /\ Batch(b, t) \subseteq Requests /\ InFlight' \subseteq Requests
      /\ MaxInFlight \in Nat
    BY <1>0, WarnTypes DEF Batch, SetIn, AboutToSet, InFlight
<1>2. CASE SetIn(b, t) # {}
    <2>1. Cardinality(Batch(b, t)) <= MaxInFlight
        BY <1>2 DEF OneBatch
    <2>2. /\ Cardinality(Batch(b, t)') <= Cardinality(Batch(b, t))
          /\ Cardinality(Batch(b, t)') \in Nat /\ Cardinality(Batch(b, t)) \in Nat
        BY <1>0, <1>1, <1>2, BatchStep, FiniteRequests
    <2> QED
        BY <1>1, <2>1, <2>2
<1>3. CASE SetIn(b, t) = {}
    <2>1. Cardinality(InFlight') <= MaxInFlight
        BY DEF FewInFlight
    <2>2. /\ Cardinality(Batch(b, t)') <= Cardinality(InFlight')
          /\ Cardinality(Batch(b, t)') \in Nat /\ Cardinality(InFlight') \in Nat
        BY <1>0, <1>1, <1>3, FirstOfBatch, FiniteRequests
    <2> QED
        BY <1>1, <2>1, <2>2
<1> QED
    BY <1>2, <1>3

LEMMA WarnTick ==
    ASSUME FlightInv, KeySilences, OneBatch, Tick
    PROVE  KeySilences' /\ OneBatch'
<1>0. TypeOK /\ now' = now + 1 /\ req' = req
      /\ \A b \in Buckets : dedup'[b] = IF dedup[b] = now + 1 THEN 0 ELSE dedup[b]
    BY DEF FlightInv, RememberInv, Tick
<1>1. KeySilences'
    <2>1. ASSUME NEW b \in Buckets PROVE dedup'[b] = 0 \/ dedup'[b] > now + 1
        BY <1>0, WarnTypes DEF KeySilences
    <2>2. ASSUME NEW s \in Requests, HasSet(s), NEW b \in Buckets,
                 b = Bucket[req[s].client]["global"]
          PROVE  /\ req[s].warnedAt <= now + 1
                 /\ \/ now + 1 >= req[s].warnedAt + WarnPeriod
                    \/ dedup'[b] >= req[s].warnedAt + WarnPeriod
        <3>1. /\ req[s].warnedAt <= now
              /\ now >= req[s].warnedAt + WarnPeriod \/ dedup[b] >= req[s].warnedAt + WarnPeriod
            BY <2>2 DEF KeySilences, HasSet
        <3> QED
            BY <1>0, <3>1, WarnTypes
    <2> QED
        BY <1>0, <2>1, <2>2, WarnTypes DEF KeySilences, HasSet
<1>2. OneBatch'
    <2> SUFFICES ASSUME NEW b \in Buckets, NEW t \in 0 .. MaxNow, SetIn(b, t)' # {}
                 PROVE  Cardinality(Batch(b, t)') <= MaxInFlight
        BY DEF OneBatch
    <2>1. SetIn(b, t)' = SetIn(b, t)
        BY <1>0 DEF SetIn
    <2>2. Batch(b, t)' \subseteq Batch(b, t)
        BY <1>0, <2>1, WarnTypes DEF Batch, AboutToSet
    <2>3. Batch(b, t) \subseteq Requests
        BY DEF Batch, SetIn, AboutToSet
    <2>4. /\ Cardinality(Batch(b, t)') <= Cardinality(Batch(b, t))
          /\ Cardinality(Batch(b, t)') \in Nat /\ Cardinality(Batch(b, t)) \in Nat
        BY <2>2, <2>3, FiniteRequests
    <2>5. Cardinality(Batch(b, t)) <= MaxInFlight
        BY <2>1 DEF OneBatch
    <2> QED
        BY <1>0, <2>4, <2>5, WarnTypes
<1> QED
    BY <1>1, <1>2

LEMMA WarnInvariant == Spec => []WarnInv
<1>1. Init /\ FlightInv => WarnInv
    <2> SUFFICES ASSUME Init, FlightInv PROVE KeySilences /\ OneBatch
        BY DEF WarnInv
    <2>1. \A s \in Requests : ~ req[s].mailed /\ req[s].pc # "warnSend"
        BY DEF Init
    <2>2. \A b \in Buckets : dedup[b] = 0
        BY DEF Init
    <2> QED
        BY <2>1, <2>2 DEF KeySilences, OneBatch, SetIn
<1>2. WarnInv /\ FlightInv' /\ [Next]_vars => WarnInv'
    <2> SUFFICES ASSUME WarnInv, FlightInv', [Next]_vars PROVE KeySilences' /\ OneBatch'
        BY DEF WarnInv
    <2>1. CASE UNCHANGED vars
        BY <2>1 DEF vars, WarnInv, KeySilences, OneBatch, SetIn, Batch, AboutToSet
    <2> QED
        BY <2>1, KeySilencesStep, OneBatchStep, WarnTick DEF WarnInv, FlightInv, Next
<1> QED
    BY <1>1, <1>2, FlightInvariant, PTL DEF Spec

(* Within an hour no key warns more often than requests can be in flight.  *)
THEOREM WarnedSeldom == Spec => []WarningSlack
<1>1. ASSUME WarnInv PROVE WarningSlack
    <2> SUFFICES ASSUME NEW b \in Buckets, NEW t \in 0 .. MaxNow
                 PROVE  Cardinality(WarnedIn(b, t)) <= MaxInFlight
        BY DEF WarningSlack
    <2>1. /\ WarnedIn(b, t) \subseteq SetIn(b, t)
          /\ SetIn(b, t) \subseteq Batch(b, t) /\ Batch(b, t) \subseteq Requests
        BY DEF WarnedIn, Batch, SetIn, AboutToSet
    <2>2. /\ Cardinality(WarnedIn(b, t)) <= Cardinality(Batch(b, t))
          /\ Cardinality(WarnedIn(b, t)) \in Nat /\ Cardinality(Batch(b, t)) \in Nat
        BY <2>1, FiniteRequests
    <2>3. MaxInFlight \in Nat
        BY RateLimiterAssumption
    <2>4. CASE SetIn(b, t) # {}
        BY <1>1, <2>2, <2>3, <2>4 DEF WarnInv, OneBatch
    <2>5. CASE SetIn(b, t) = {}
        BY <2>1, <2>3, <2>5, FS_EmptySet
    <2> QED
        BY <2>4, <2>5
<1> QED
    BY <1>1, WarnInvariant, PTL
=============================================================================
