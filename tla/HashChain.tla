------------------------------ MODULE HashChain ------------------------------
(***************************************************************************)
(* What the audit trail promises each tenant: one chain.  The entries of a *)
(* tenant form a single line that starts at the genesis hash; an append    *)
(* links the new entry to the head of the line and becomes the head.       *)
(* Nothing else ever happens to a chain.                                   *)
(***************************************************************************)
CONSTANTS Tenants,   \* tenants, each with a chain of its own
          Genesis    \* the hash that precedes the first entry of a chain

VARIABLES entries,   \* the set of entries of every tenant
          head       \* the hash the next entry of a tenant has to carry

chainVars == <<entries, head>>

ChainInit ==
    /\ entries = [t \in Tenants |-> {}]
    /\ head = [t \in Tenants |-> Genesis]

(* An entry is a record with a previousHash and a currentHash.             *)
Extend(t, e) ==
    /\ e.previousHash = head[t]
    /\ e \notin entries[t]
    /\ entries' = [entries EXCEPT ![t] = @ \cup {e}]
    /\ head' = [head EXCEPT ![t] = e.currentHash]

ChainNext == \E t \in Tenants : \E e \in entries'[t] : Extend(t, e)

ChainSpec == ChainInit /\ [][ChainNext]_chainVars
==============================================================================
