-------------------------- MODULE MCRequestPipeline --------------------------
(* Instances of RequestPipeline for TLC.                                   *)
EXTENDS RequestPipeline, TLC

CONSTANTS r1, r2, t1, t2, k1, k2

TenantOfKey == (k1 :> t1) @@ (k2 :> t2)

(* One client asks for anything, the others for what fills the buffer and  *)
(* what reads it.                                                          *)
AnyAndReports ==
    (r1 :> Routes) @@
    (r2 :> {route \in HealthRoutes : route.handler \in {"healthCheck", "getMetrics"}})
=============================================================================
