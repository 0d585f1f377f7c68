---------------------------- MODULE Registration -----------------------------
(***************************************************************************)
(* POST /api/auth/register: registerTenant of auth.service.ts looks for    *)
(* the slug, then for the e-mail address, hashes the password, and creates *)
(* tenant, owner, API key and audit entry in one transaction.  Slugs have  *)
(* a unique index; e-mail addresses have one within a tenant only.         *)
(***************************************************************************)
CONSTANTS Registrations,  \* requests; each may create one tenant
          Slugs, Emails,  \* what they ask for
          LoneEmails,     \* addresses nobody registers twice at a time
          None            \* no tenant

VARIABLES tenant,  \* tenant[r]: slug and owner's e-mail of the tenant r created
          reg,     \* the requests
          client   \* client[r]: is r's client waiting for the answer?

regVars == <<tenant, reg, client>>

-----------------------------------------------------------------------------
Tenant == [slug : Slugs, email : Emails]

Steps == {"idle", "email", "commit", "welcome", "done", "unwelcomed", "failed", "cut"}

(* The requests whose handlers are running.                                *)
Running(r) == reg[r].pc \in {"email", "commit", "welcome"}

Created == {r \in Registrations : tenant[r] # None}

Init ==
    \E s \in Slugs, e \in Emails :
        /\ tenant = [r \in Registrations |-> None]
        /\ reg = [r \in Registrations |-> [pc |-> "idle", slug |-> s, email |-> e]]
        /\ client = [r \in Registrations |-> FALSE]

Goto(r, step) == reg' = [reg EXCEPT ![r].pc = step]

(* The handler answers: 201, or an error.                                  *)
Answer(r, step) ==
    /\ Goto(r, step)
    /\ client' = [client EXCEPT ![r] = FALSE]

(* The slug is looked up ...                                               *)
CheckSlug(r) ==
    /\ reg[r].pc = "idle"
    /\ \E s \in Slugs, e \in Emails :
           /\ \A t \in Created : tenant[t].slug # s
           /\ reg' = [reg EXCEPT ![r] = [pc |-> "email", slug |-> s, email |-> e]]
    /\ client' = [client EXCEPT ![r] = TRUE]
    /\ UNCHANGED tenant

(* Mutant of CheckEmail: the address is not looked up.                     *)
AnyEmail(r) ==
    /\ reg[r].pc = "email"
    /\ Goto(r, "commit")
    /\ UNCHANGED <<tenant, client>>

(* ... and the e-mail address, in every tenant;                            *)
CheckEmail(r) ==
    /\ reg[r].pc = "email"
    /\ \A t \in Created : tenant[t].email # reg[r].email
    /\ Goto(r, "commit")
    /\ UNCHANGED <<tenant, client>>

(* after the hashing, the transaction, which the unique index on the slug  *)
(* may fail;                                                               *)
Commit(r) ==
    /\ reg[r].pc = "commit"
    /\ IF \E t \in Created : tenant[t].slug = reg[r].slug
       THEN Answer(r, "failed") /\ UNCHANGED tenant
       ELSE /\ tenant' = [tenant EXCEPT ![r] = [slug |-> reg[r].slug, email |-> reg[r].email]]
            /\ Goto(r, "welcome") /\ UNCHANGED client

(* then the controller queues the welcome mail; an error is forgotten.     *)
Welcome(r) == reg[r].pc = "welcome" /\ Answer(r, "done") /\ UNCHANGED tenant

NoWelcome(r) == reg[r].pc = "welcome" /\ Answer(r, "unwelcomed") /\ UNCHANGED tenant

(* A check or a query fails.                                               *)
Fail(r) ==
    /\ reg[r].pc \in {"email", "commit"}
    /\ Answer(r, "failed")
    /\ UNCHANGED tenant

(* The client goes away without waiting; its handler runs on.              *)
Leave(r) ==
    /\ client[r]
    /\ client' = [client EXCEPT ![r] = FALSE]
    /\ UNCHANGED <<tenant, reg>>

(* The process ends, and with it every handler.                            *)
CutOff ==
    /\ reg' = [r \in Registrations |->
                  IF Running(r) THEN [reg[r] EXCEPT !.pc = "cut"] ELSE reg[r]]
    /\ UNCHANGED <<tenant, client>>

-----------------------------------------------------------------------------
OneAtATime ==
    \A q, r \in Registrations :
        (q # r /\ reg[q].pc \in {"email", "commit"} /\ reg[r].pc \in {"email", "commit"}
            /\ reg[q].email = reg[r].email) => reg[r].email \notin LoneEmails

(* What the request itself does up to the welcome mail.                    *)
Step(r) ==
    /\ CheckSlug(r) \/ CheckEmail(r) \/ Commit(r) \/ NoWelcome(r) \/ Fail(r) \/ Leave(r)
    /\ OneAtATime'

Next == (\E r \in Registrations : Step(r) \/ Welcome(r)) \/ CutOff

Spec == Init /\ [][Next]_regVars

-----------------------------------------------------------------------------
(* "Verify email is unique globally": an address that is not registered by *)
(* overlapping requests owns one tenant; the check and the creation are    *)
(* too far apart to promise more.                                          *)
EmailUniqueAlone ==
    \A q, r \in Created :
        (tenant[q].email = tenant[r].email /\ tenant[r].email \in LoneEmails) => q = r
==============================================================================
