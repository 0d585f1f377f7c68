---------------------------- MODULE MCRateLimiter ----------------------------
(* Instances of RateLimiter for TLC.                                       *)
EXTENDS RateLimiter, TLC

CONSTANTS c1, global, endpoint, burst

(* The keys of one client: its tenant, its tenant and path, its API key.   *)
OneApiKey ==
    [c \in Clients |->
        [tier \in Tiers |-> CASE tier = "global" -> global
                              [] tier = "endpoint" -> endpoint
                              [] tier = "burst" -> burst]]

(* The tiers below refuse before the global one does.                      *)
Limits == [b \in Buckets |-> IF b = global THEN 2 ELSE 1]

Windows == [b \in Buckets |-> 3]

RequestSymmetry == Permutations(Requests)

(* What the state still says of a request that is over: where its expire   *)
(* was lost, when a request that was let in or is in a set began, and the  *)
(* mail it queued.                                                         *)
Leftover(r) ==
    [pc |-> req[r].pc, mailed |-> req[r].mailed,
     tier |-> IF req[r].pc = "cut" THEN req[r].tier ELSE "none",
     at |-> IF req[r].pc = "allowed" \/ \E b \in Buckets : r \in zset[b]
            THEN req[r].at ELSE 0,
     prompt |-> req[r].pc = "allowed" /\ req[r].until = req[r].at,
     warnedAt |-> IF req[r].mailed THEN req[r].warnedAt ELSE 0]

(* Nothing reads more of it: states that differ elsewhere are the same.    *)
LiveView ==
    <<now, zset, ttl, dedup,
      [r \in Requests |-> IF req[r].pc \in Ends THEN Leftover(r) ELSE req[r]]>>
=============================================================================
