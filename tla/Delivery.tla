------------------------------- MODULE Delivery ------------------------------
(***************************************************************************)
(* What the e-mail queue promises: every mail it takes is, in the end,     *)
(* sent or set aside as dead, from where it may be revived by hand.  Mails *)
(* are lost only when the process ends; a mail is given up silently only   *)
(* after the process has crashed more often than Patience.                 *)
(***************************************************************************)
EXTENDS Naturals

CONSTANTS Mails,     \* mails
          Patience   \* crashes a mail in transmission survives

VARIABLES fate,      \* fate[m]: what has become of mail m
          crashes,   \* how often the process has crashed ...
          exits      \* ... and how often it was stopped

deliveryVars == <<fate, crashes, exits>>

DeliveryInit ==
    /\ fate = [m \in Mails |-> "new"]
    /\ crashes = 0 /\ exits = 0

Becomes(m, from, to) ==
    /\ fate[m] = from
    /\ fate' = [fate EXCEPT ![m] = to]
    /\ UNCHANGED <<crashes, exits>>

Take(m) == Becomes(m, "new", "queued")

Settle(m) == Becomes(m, "queued", "sent") \/ Becomes(m, "queued", "dead")

Revive(m) == Becomes(m, "dead", "queued")

GiveUp(m) == crashes > Patience /\ Becomes(m, "queued", "lost")

(* The process ends, and some of the queued mails go with it.              *)
End ==
    /\ \/ crashes' = crashes + 1 /\ UNCHANGED exits
       \/ exits' = exits + 1 /\ UNCHANGED crashes
    /\ \E S \in SUBSET {m \in Mails : fate[m] = "queued"} :
           fate' = [m \in Mails |-> IF m \in S THEN "lost" ELSE fate[m]]

DeliveryNext ==
    \/ \E m \in Mails : Take(m) \/ Settle(m) \/ Revive(m) \/ GiveUp(m)
    \/ End

DeliverySafety == DeliveryInit /\ [][DeliveryNext]_deliveryVars

DeliverySpec ==
    /\ DeliverySafety
    /\ \A m \in Mails : WF_deliveryVars(Settle(m) \/ GiveUp(m))
==============================================================================
