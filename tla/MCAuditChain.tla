---------------------------- MODULE MCAuditChain -----------------------------
(* Instances of AuditChain for TLC.                                        *)
EXTENDS AuditChain

MCFields == {"resourceId", "newValue"}

MCJsonFields == {"newValue"}

(* A call that leaves a field out, as every caller in the code does, and   *)
(* two complete calls, which createAuditLog's parameters allow: one with   *)
(* its keys in JSONB's order, one in the order of TASK_CREATED (taskId,    *)
(* projectId, title, where title is the shortest and projectId the longest).*)
MCPayloads == {[resourceId |-> Null, newValue |-> <<1, 2>>],
               [resourceId |-> "v", newValue |-> <<1, 2>>],
               [resourceId |-> "v", newValue |-> <<2, 3, 1>>]}

RequestSymmetry == Permutations(Requests)
==============================================================================
