------------------------------ MODULE MCApiKeys ------------------------------
(* Instances of ApiKeys for TLC.                                           *)
EXTENDS ApiKeys, TLC

(* Ids are interchangeable: nothing in the model tells them apart, except  *)
(* the keys with one administrator from the others.                        *)
IdSymmetry ==
    Permutations(Tenants) \cup Permutations(Secrets)
        \cup Permutations(Admins) \cup Permutations(Auths)
==============================================================================
