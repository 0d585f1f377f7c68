----------------------------- MODULE RateLimiter -----------------------------
(***************************************************************************)
(* The sliding-window rate limiter: rateLimitMiddleware, checkLimit,       *)
(* checkSlidingWindow and checkThresholdWarning over Redis.  Every Redis   *)
(* command is a step, a request reads the clock once, when it begins, and  *)
(* the steps of concurrent requests interleave.  A Redis sorted set is the *)
(* set of requests that were added to it (members are unique: timestamp    *)
(* and random number); a member's score is the time its request began.     *)
(***************************************************************************)
EXTENDS Integers, FiniteSets

CONSTANTS Requests,     \* requests
          Clients,      \* a client: a tenant, an API key and a path
          Buckets,      \* Redis keys rate:global:*, rate:endpoint:*, rate:burst:*
          Bucket,       \* Bucket[c][tier]: the key of a client in a tier
          Limit,        \* Limit[b]: requests per window
          Window,       \* Window[b]: the window's length
          WarnPeriod,   \* one hour
          MaxInFlight,  \* bound on the requests in flight at one time
          MaxDelay,     \* bound on the time a request is in flight
          MaxFailures,  \* bound on the requests that fail
          MaxNow        \* bound of the clock

Tiers == {"global", "endpoint", "burst"}

ASSUME RateLimiterAssumption ==
    /\ IsFiniteSet(Requests)
    /\ Bucket \in [Clients -> [Tiers -> Buckets]]
    /\ \A c, d \in Clients : \A x, y \in Tiers : Bucket[c][x] = Bucket[d][y] => x = y
    /\ Limit \in [Buckets -> Nat \ {0}]
    /\ Window \in [Buckets -> Nat \ {0}]
    /\ WarnPeriod \in Nat \ {0}
    /\ MaxInFlight \in Nat \ {0}
    /\ MaxDelay \in Nat
    /\ MaxFailures \in Nat
    /\ MaxNow \in Nat

VARIABLES now,          \* the clock
          zset,         \* zset[b]: the members of the sorted set
          ttl,          \* ttl[b]: when Redis drops the set; 0: never
          dedup,        \* dedup[b]: when rate:warning:sent:* expires; 0: there is none
          req           \* the requests

vars == <<now, zset, ttl, dedup, req>>

-----------------------------------------------------------------------------
InFlightSteps == {"purge", "count", "add", "expire", "warn", "warnSet", "warnSend"}

(* "cut" is a failure between zAdd and expire, "failed" any other.         *)
Ends == {"allowed", "denied", "cut", "failed"}

(* at: when the request began; count: the last zCard; until: when it was   *)
(* let in; warnedAt: when it set the dedup key; mailed: it queued a mail.  *)
RequestRecords ==
    [pc : InFlightSteps \cup {"idle"} \cup Ends, client : Clients,
     tier : Tiers, at : Nat, count : Nat, until : Nat, warnedAt : Nat,
     mailed : BOOLEAN]

BucketOf(r) == Bucket[req[r].client][req[r].tier]

InFlight == {r \in Requests : req[r].pc \in InFlightSteps}

Threshold(b) == (Limit[b] * 8) \div 10

Goto(r, step) == req' = [req EXCEPT ![r].pc = step]

(* After a tier: the next one, or the answer.                              *)
EnterTier(r, tier) == req' = [req EXCEPT ![r].pc = "purge", ![r].tier = tier]

Conclude(r) ==
    \/ req[r].count >= Limit[BucketOf(r)] /\ Goto(r, "denied")
    \/ /\ req[r].count < Limit[BucketOf(r)]
       /\ \/ req[r].tier = "global" /\ EnterTier(r, "endpoint")
          \/ req[r].tier = "endpoint" /\ EnterTier(r, "burst")
          \/ /\ req[r].tier = "burst"
             /\ req' = [req EXCEPT ![r].pc = "allowed", ![r].until = now]

-----------------------------------------------------------------------------
Init ==
    /\ now = 0
    /\ zset = [b \in Buckets |-> {}]
    /\ ttl = [b \in Buckets |-> 0]
    /\ dedup = [b \in Buckets |-> 0]
    /\ \E c \in Clients :
           req = [r \in Requests |->
                     [pc |-> "idle", client |-> c, tier |-> "global", at |-> 0,
                      count |-> 0, until |-> 0, warnedAt |-> 0, mailed |-> FALSE]]

(* rateLimitMiddleware: Date.now() is read here, for all that follows.     *)
Begin(r) ==
    /\ req[r].pc = "idle"
    /\ Cardinality(InFlight) < MaxInFlight
    /\ \E c \in Clients :
           req' = [req EXCEPT ![r].pc = "purge", ![r].client = c, ![r].at = now]
    /\ UNCHANGED <<now, zset, ttl, dedup>>

(* Mutant of Purge: nothing is removed.                                    *)
PurgeNothing(r) ==
    /\ req[r].pc = "purge"
    /\ Goto(r, "count")
    /\ UNCHANGED <<now, zset, ttl, dedup>>

(* zRemRangeByScore; a set that becomes empty is deleted, with its expiry. *)
Purge(r) ==
    LET b == BucketOf(r)
        kept == {s \in zset[b] : req[s].at > req[r].at - Window[b]}
    IN  /\ req[r].pc = "purge"
        /\ zset' = [zset EXCEPT ![b] = kept]
        /\ ttl' = [ttl EXCEPT ![b] = IF kept = {} THEN 0 ELSE @]
        /\ Goto(r, "count")
        /\ UNCHANGED <<now, dedup>>

(* Mutant of Count: the request counts itself before it was added.         *)
CountAsAdded(r) ==
    LET count == Cardinality(zset[BucketOf(r)]) - 1
    IN  /\ req[r].pc = "count"
        /\ req' = [req EXCEPT ![r].count = count,
                              ![r].pc = IF count < Limit[BucketOf(r)] THEN "add"
                                        ELSE IF req[r].tier = "global" THEN "warn"
                                        ELSE "denied"]
        /\ UNCHANGED <<now, zset, ttl, dedup>>

(* zCard: only a request within the limit is added.                        *)
Count(r) ==
    LET count == Cardinality(zset[BucketOf(r)])
        full == count >= Limit[BucketOf(r)]
    IN  /\ req[r].pc = "count"
        /\ req' = [req EXCEPT ![r].count = count,
                              ![r].pc = IF ~ full THEN "add"
                                        ELSE IF req[r].tier = "global" THEN "warn"
                                        ELSE "denied"]
        /\ UNCHANGED <<now, zset, ttl, dedup>>

(* zAdd.                                                                   *)
Add(r) ==
    /\ req[r].pc = "add"
    /\ zset' = [zset EXCEPT ![BucketOf(r)] = @ \cup {r}]
    /\ Goto(r, "expire")
    /\ UNCHANGED <<now, ttl, dedup>>

(* Mutant of Expire: a second less instead of a second more.               *)
ExpireEarly(r) ==
    LET b == BucketOf(r)
    IN  /\ req[r].pc = "expire"
        /\ ttl' = [ttl EXCEPT ![b] = IF zset[b] = {} THEN 0 ELSE now + Window[b] - 1]
        /\ IF req[r].tier = "global" THEN Goto(r, "warn") ELSE Conclude(r)
        /\ UNCHANGED <<now, zset, dedup>>

(* expire, which does nothing if the set is gone; then the global tier     *)
(* looks at the warning threshold.                                         *)
Expire(r) ==
    LET b == BucketOf(r)
    IN  /\ req[r].pc = "expire"
        /\ ttl' = [ttl EXCEPT ![b] = IF zset[b] = {} THEN 0 ELSE now + Window[b] + 1]
        /\ IF req[r].tier = "global" THEN Goto(r, "warn") ELSE Conclude(r)
        /\ UNCHANGED <<now, zset, dedup>>

(* Mutant of Warn: the dedup key is not looked at.                         *)
WarnAlways(r) ==
    /\ req[r].pc = "warn"
    /\ IF req[r].count >= Threshold(BucketOf(r)) THEN Goto(r, "warnSet") ELSE Conclude(r)
    /\ UNCHANGED <<now, zset, ttl, dedup>>

(* checkThresholdWarning: get ...                                          *)
Warn(r) ==
    /\ req[r].pc = "warn"
    /\ IF req[r].count >= Threshold(BucketOf(r)) /\ dedup[BucketOf(r)] = 0
       THEN Goto(r, "warnSet")
       ELSE Conclude(r)
    /\ UNCHANGED <<now, zset, ttl, dedup>>

(* ... set with an expiry of an hour ...                                   *)
WarnSet(r) ==
    /\ req[r].pc = "warnSet"
    /\ dedup' = [dedup EXCEPT ![BucketOf(r)] = now + WarnPeriod]
    /\ req' = [req EXCEPT ![r].pc = "warnSend", ![r].warnedAt = now]
    /\ UNCHANGED <<now, zset, ttl>>

(* ... and the e-mail to the owner; an error on the way is swallowed.      *)
WarnSend(r) ==
    /\ req[r].pc = "warnSend"
    /\ \E sent \in BOOLEAN :
           \/ /\ req[r].count >= Limit[BucketOf(r)]
              /\ req' = [req EXCEPT ![r].pc = "denied", ![r].mailed = sent]
           \/ /\ req[r].count < Limit[BucketOf(r)]
              /\ req' = [req EXCEPT ![r].pc = "purge", ![r].tier = "endpoint",
                                    ![r].mailed = sent]
    /\ UNCHANGED <<now, zset, ttl, dedup>>

(* A Redis command fails, or the process dies.                             *)
Fail(r) ==
    /\ req[r].pc \in InFlightSteps
    /\ Cardinality({s \in Requests : req[s].pc \in {"cut", "failed"}}) < MaxFailures
    /\ Goto(r, IF req[r].pc = "expire" THEN "cut" ELSE "failed")
    /\ UNCHANGED <<now, zset, ttl, dedup>>

(* Time passes; Redis drops what has expired.  MaxDelay says how long a    *)
(* request may be in flight.                                               *)
Tick ==
    /\ now < MaxNow
    /\ \A r \in InFlight : now < req[r].at + MaxDelay
    /\ now' = now + 1
    /\ zset' = [b \in Buckets |-> IF ttl[b] = now + 1 THEN {} ELSE zset[b]]
    /\ ttl' = [b \in Buckets |-> IF ttl[b] = now + 1 THEN 0 ELSE ttl[b]]
    /\ dedup' = [b \in Buckets |-> IF dedup[b] = now + 1 THEN 0 ELSE dedup[b]]
    /\ UNCHANGED req

-----------------------------------------------------------------------------
Check(r) ==
    \/ Begin(r) \/ Purge(r) \/ Count(r) \/ Add(r) \/ Expire(r)
    \/ Warn(r) \/ WarnSet(r) \/ WarnSend(r) \/ Fail(r)

Next == Tick \/ \E r \in Requests : Check(r)

Spec == Init /\ [][Next]_vars

-----------------------------------------------------------------------------
(* Every variable has its type.                                            *)
TypeOK ==
    /\ now \in Nat
    /\ zset \in [Buckets -> SUBSET Requests]
    /\ ttl \in [Buckets -> Nat]
    /\ dedup \in [Buckets -> Nat]
    /\ req \in [Requests -> RequestRecords]

(* The requests of a window up to t that a key let in without delay.       *)
AllowedIn(b, t) ==
    {r \in Requests : /\ req[r].pc = "allowed"
                      /\ \E tier \in Tiers : Bucket[req[r].client][tier] = b
                      /\ req[r].at \in (t - Window[b] + 1) .. t
                      /\ req[r].until = req[r].at}

(* "Global: 1000 requests/min per tenant", and so for every tier.  Count   *)
(* and add are two commands, so overlapping requests may pass the limit    *)
(* together: by at most one for every other request in flight.  Requests   *)
(* that are slow may pass it by more: a younger one purges what they have  *)
(* yet to count, and the key may expire between their add and their expire.*)
LimitAndSlack ==
    \A b \in Buckets, t \in 0 .. MaxNow :
        Cardinality(AllowedIn(b, t)) <= Limit[b] + MaxInFlight - 1

(* The last requests of a key that zCard should count for r.               *)
Recent(r) == {s \in zset[BucketOf(r)] : req[s].at > req[r].at - Window[BucketOf(r)]}

RefusesAtLimit ==
    \A r \in Requests :
        (req[r].pc = "count" /\ req'[r].pc \in {"denied", "warn"}) =>
            Cardinality(Recent(r)) + MaxInFlight - 1 >= Limit[BucketOf(r)]

(* A request is refused only if its own window holds a limit's worth of    *)
(* requests, but for those that were added late by others in flight.       *)
DeniedOnlyAtLimit == [][RefusesAtLimit]_vars

(* r was added to b and has yet to execute expire there, or never will.    *)
ExpirePending(r, b) == req[r].pc \in {"expire", "cut"} /\ BucketOf(r) = b

DropsOnlyOld ==
    \A b \in Buckets : \A r \in zset[b] \ zset'[b] :
        req[r].at + Window[b] <= now' \/ ExpirePending(r, b)

(* Neither the purge of another request, whose clock reading may be stale, *)
(* nor the expiry of the key, which any of them sets, forgets a request    *)
(* before it has left the window: but for the one whose own expire is      *)
(* still to come, or was lost with its request.  A lost expire costs the   *)
(* others nothing.                                                         *)
KeptWhileCounted == [][DropsOnlyOld]_vars

WarnedIn(b, t) ==
    {r \in Requests : /\ req[r].mailed
                      /\ Bucket[req[r].client]["global"] = b
                      /\ req[r].warnedAt \in t .. (t + WarnPeriod - 1)}

(* Within an hour a tenant is warned once by every request in flight at    *)
(* most: the dedup key, once set, silences all that begin later.           *)
WarningSlack ==
    \A b \in Buckets, t \in 0 .. MaxNow : Cardinality(WarnedIn(b, t)) <= MaxInFlight
==============================================================================
