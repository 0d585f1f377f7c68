------------------------------ MODULE Onboarding -----------------------------
(***************************************************************************)
(* A tenant comes on board: registrations, the welcome mails they queue,   *)
(* and the process (server.ts) that both live and die with.  The queue is  *)
(* that of EmailQueue; its mails are the welcome mails, each known by the  *)
(* registration it belongs to, so that job <<r, 0>> is the welcome mail of *)
(* registration r.                                                         *)
(***************************************************************************)
EXTENDS EmailQueue

CONSTANTS Slugs, Emails, LoneEmails, None  \* see Registration

VARIABLES tenant, reg, client,  \* see Registration
          insisted              \* a second signal was sent

Register == INSTANCE Registration WITH Registrations <- Mails

ASSUME OnboardingAssumption ==
    /\ LoneEmails \subseteq Emails
    /\ None \notin Register!Tenant

regVars == <<tenant, reg, client>>
vars == <<regVars, queueVars, insisted>>

-----------------------------------------------------------------------------
OnboardingInit == Register!Init /\ Init /\ insisted = FALSE

Serve(r) ==
    /\ IF reg[r].pc = "idle" THEN Serving ELSE Running
    /\ Register!Step(r)
    /\ UNCHANGED <<queueVars, insisted>>

(* The handler queues the welcome mail before it answers; the queue may be *)
(* closing by then.                                                        *)
Welcome(r) ==
    /\ Register!Welcome(r)
    /\ queueEmail(r)
    /\ UNCHANGED insisted

Deliver == Work /\ UNCHANGED <<regVars, insisted>>

ServerSignal == Signal /\ UNCHANGED <<regVars, insisted>>

(* Mutant of Drained: the queues are closed as soon as the signal arrives. *)
DrainedAtOnce == CloseQueue /\ UNCHANGED <<regVars, insisted>>

(* server.close() calls back once no client is connected any more.         *)
Drained ==
    /\ \A r \in Mails : ~ client[r]
    /\ CloseQueue
    /\ UNCHANGED <<regVars, insisted>>

(* A second signal: server.close() finds the server closed already and     *)
(* calls back at once.                                                     *)
Insist ==
    /\ CloseQueue
    /\ insisted' = TRUE
    /\ UNCHANGED regVars

ServerExit == Exit /\ Register!CutOff /\ UNCHANGED insisted

ServerCrash == Crash /\ Register!CutOff /\ UNCHANGED insisted

ServerStart == Start /\ UNCHANGED <<regVars, insisted>>

OnboardingNext ==
    \/ \E r \in Mails : Serve(r) \/ Welcome(r)
    \/ Deliver
    \/ ServerSignal \/ Drained \/ Insist \/ ServerExit \/ ServerCrash \/ ServerStart

OnboardingSpec == OnboardingInit /\ [][OnboardingNext]_vars

-----------------------------------------------------------------------------
(* An e-mail address that is not registered by overlapping requests owns   *)
(* one tenant.                                                             *)
EmailUniqueAlone == Register!EmailUniqueAlone

(* Unless it crashes or is told twice, a process that is stopped finishes  *)
(* what it has begun: no mail is left half sent, and a registration that   *)
(* is in the database has queued its welcome mail, unless its client left  *)
(* or the queue refused the mail.                                          *)
GracefulStop ==
    (crashes = 0 /\ ~ insisted) =>
        /\ \A j \in Jobs : job[j].state # "orphaned" /\ job[j].stalls = 0
        /\ \A r \in Register!Created :
               \/ job[<<r, 0>>].state # "none"
               \/ Register!Running(r) \/ reg[r].pc = "unwelcomed"
               \/ reg[r].pc = "cut" /\ ~ client[r]
==============================================================================
