----------------------------- MODULE EmailQueue ------------------------------
(***************************************************************************)
(* The e-mail queue of email.queue.ts: Bull keeps the jobs in Redis, where *)
(* they survive the process; workers send them over SMTP; event handlers   *)
(* of the same process write the delivery log and copy jobs that failed    *)
(* for good to the dead-letter queue.  Workers and handlers die with the   *)
(* process.  A job is <<m, k>>: mail m, queued by hand for the k-th time.  *)
(***************************************************************************)
EXTENDS Naturals, FiniteSets

CONSTANTS Mails,       \* mails handed to queueEmail
          Attempts,    \* defaultJobOptions.attempts
          MaxStalls,   \* Bull's maxStalledCount
          Workers,     \* concurrency of emailQueue.process
          MaxRetries,  \* bound on retryFailedEmail calls for a mail
          MaxCrashes,  \* bound on crashes of the process
          MaxExits     \* bound on graceful exits of the process

ASSUME QueueAssumption ==
    /\ Attempts \in Nat \ {0}
    /\ MaxStalls \in Nat
    /\ Workers \in Nat \ {0}
    /\ MaxRetries \in Nat
    /\ MaxCrashes \in Nat
    /\ MaxExits \in Nat

VARIABLES phase,     \* of the process: up, draining (server.close), closing, down
          job,       \* Bull's jobs, in Redis
          events,    \* event handlers that have not finished
          dlq,       \* jobs in the dead-letter queue
          retrying,  \* jobs a call of retryFailedEmail holds in memory
          taken,     \* history: jobs ever taken out of the dead-letter queue
          log,       \* the EmailDeliveryLog table
          smtp,      \* smtp[j]: how often the mail server took job j's mail
          crashes,   \* how often the process has crashed ...
          exits      \* ... and how often it has exited gracefully

queueVars == <<phase, job, events, dlq, retrying, taken, log, smtp, crashes, exits>>

-----------------------------------------------------------------------------
Jobs == Mails \X (0 .. MaxRetries)

Phases == {"up", "draining", "closing", "down"}

(* sending, answered, refused: held by a worker, before sendMail returns,  *)
(* after it did, after it threw.  orphaned: active, but its worker is gone.*)
States == {"none", "delayed", "waiting", "sending", "answered", "refused",
           "orphaned", "completed", "failed"}

JobRecords == [state : States, made : 0 .. Attempts, stalls : 0 .. (MaxStalls + 1)]

(* A handler of 'completed' or 'failed', with the job as it was then.      *)
Events == [job : Jobs, step : {"completed", "failed", "dead", "buried"}, made : 0 .. Attempts]

Rows == [job : Jobs, status : {"sent", "pending", "failed"}, attempts : 0 .. Attempts]

WithWorker == {j \in Jobs : job[j].state \in {"sending", "answered", "refused"}}

Serving == phase \in {"up", "draining"}

Running == phase # "down"

Event(j, step, made) == [job |-> j, step |-> step, made |-> made]

Init ==
    /\ phase = "up"
    /\ job = [j \in Jobs |-> [state |-> "none", made |-> 0, stalls |-> 0]]
    /\ events = {} /\ dlq = {} /\ retrying = {} /\ taken = {} /\ log = {}
    /\ smtp = [j \in Jobs |-> 0]
    /\ crashes = 0 /\ exits = 0

Enter(j, states) ==
    /\ job[j].state = "none"
    /\ \E s \in states : job' = [job EXCEPT ![j].state = s]

(* queueEmail: at once, or later if sendAt says so.                        *)
queueEmail(m) ==
    /\ Running
    /\ Enter(<<m, 0>>, {"waiting", "delayed"})
    /\ UNCHANGED <<phase, events, dlq, retrying, taken, log, smtp, crashes, exits>>

(* Bull moves a job whose delay or backoff is over back to the line ...    *)
Promote(j) ==
    /\ Serving
    /\ job[j].state = "delayed"
    /\ job' = [job EXCEPT ![j].state = "waiting"]
    /\ UNCHANGED <<phase, events, dlq, retrying, taken, log, smtp, crashes, exits>>

(* ... and gives it to a worker.                                           *)
Pick(j) ==
    /\ Serving
    /\ job[j].state = "waiting"
    /\ Cardinality(WithWorker) < Workers
    /\ job' = [job EXCEPT ![j].state = "sending"]
    /\ UNCHANGED <<phase, events, dlq, retrying, taken, log, smtp, crashes, exits>>

(* processEmailJob: sendMail returns only if the server took the mail; it  *)
(* may throw although the server did (the answer came too late or never).  *)
processEmailJob(j) ==
    /\ job[j].state = "sending"
    /\ \E accepted, answered \in BOOLEAN :
           /\ answered => accepted
           /\ job' = [job EXCEPT ![j].state = IF answered THEN "answered" ELSE "refused"]
           /\ smtp' = [smtp EXCEPT ![j] = @ + (IF accepted THEN 1 ELSE 0)]
    /\ UNCHANGED <<phase, events, dlq, retrying, taken, log, crashes, exits>>

(* The worker reports back: the job is done, and 'completed' is emitted;   *)
Complete(j) ==
    /\ job[j].state = "answered"
    /\ job' = [job EXCEPT ![j].state = "completed"]
    /\ events' = events \cup {Event(j, "completed", job[j].made)}
    /\ UNCHANGED <<phase, dlq, retrying, taken, log, smtp, crashes, exits>>

(* or an attempt has failed, the job waits for its backoff or has failed   *)
(* for good, and 'failed' is emitted.                                      *)
FailAttempt(j) ==
    LET made == job[j].made + 1
        for_good == made >= Attempts
    IN  /\ job[j].state = "refused"
        /\ job' = [job EXCEPT ![j].made = made,
                              ![j].state = IF for_good THEN "failed" ELSE "delayed"]
        /\ events' = events \cup {Event(j, IF for_good THEN "dead" ELSE "failed", made)}
        /\ UNCHANGED <<phase, dlq, retrying, taken, log, smtp, crashes, exits>>

(* Mutant of CheckStalled: a stalled job is queued again for ever.         *)
RequeueStalled(j) ==
    /\ Serving
    /\ job[j].state = "orphaned"
    /\ job' = [job EXCEPT ![j].state = "waiting"]
    /\ UNCHANGED <<phase, events, dlq, retrying, taken, log, smtp, crashes, exits>>

(* Mutant of CheckStalled: a job that has stalled is not looked at again.  *)
LeaveStalled(j) ==
    LET stalls == job[j].stalls + 1
    IN  /\ Serving
        /\ job[j].state = "orphaned" /\ stalls <= MaxStalls
        /\ job' = [job EXCEPT ![j].stalls = stalls, ![j].state = "waiting"]
        /\ UNCHANGED <<phase, events, dlq, retrying, taken, log, smtp, crashes, exits>>

(* Bull's check for active jobs nobody works on: back to the line, or,     *)
(* after too many stalls, failed and 'failed' emitted.  No attempt is      *)
(* counted, so the handler takes it for a failure that will be retried.    *)
CheckStalled(j) ==
    LET stalls == job[j].stalls + 1
        for_good == stalls > MaxStalls
    IN  /\ Serving
        /\ job[j].state = "orphaned"
        /\ job' = [job EXCEPT ![j].stalls = stalls,
                              ![j].state = IF for_good THEN "failed" ELSE "waiting"]
        /\ events' = events \cup (IF for_good THEN {Event(j, "failed", job[j].made)} ELSE {})
        /\ UNCHANGED <<phase, dlq, retrying, taken, log, smtp, crashes, exits>>

-----------------------------------------------------------------------------
(* The handler of 'failed' copies a job that is out of attempts to the     *)
(* dead-letter queue; should that throw, the process dies (see Crash).     *)
DeadLetter(e) ==
    /\ e.step = "dead"
    /\ dlq' = dlq \cup {e.job}
    /\ events' = (events \ {e}) \cup {[e EXCEPT !.step = "buried"]}
    /\ UNCHANGED <<phase, job, retrying, taken, log, smtp, crashes, exits>>

StatusOf(e) ==
    CASE e.step = "completed" -> "sent"
      [] e.step = "failed" -> "pending"
      [] e.step \in {"dead", "buried"} -> "failed"

(* Mutant of recordDeliveryLog: the log is written before the copy.        *)
recordDeliveryLogFirst(e) ==
    /\ log' = log \cup {[job |-> e.job, status |-> StatusOf(e), attempts |-> e.made]}
    /\ events' = IF e.step = "dead" THEN events ELSE events \ {e}
    /\ UNCHANGED <<phase, job, dlq, retrying, taken, smtp, crashes, exits>>

(* The last thing any handler does; an error is caught and forgotten.      *)
recordDeliveryLog(e) ==
    /\ e.step # "dead"
    /\ \/ log' = log \cup {[job |-> e.job, status |-> StatusOf(e), attempts |-> e.made]}
       \/ UNCHANGED log
    /\ events' = events \ {e}
    /\ UNCHANGED <<phase, job, dlq, retrying, taken, smtp, crashes, exits>>

(* retryFailedEmail: out of the dead-letter queue ...                      *)
RetryTake(j) ==
    /\ Running
    /\ j \in dlq /\ j[2] < MaxRetries
    /\ dlq' = dlq \ {j}
    /\ retrying' = retrying \cup {j}
    /\ taken' = taken \cup {j}
    /\ UNCHANGED <<phase, job, events, log, smtp, crashes, exits>>

(* ... and into the queue again, as a new job.                             *)
RetryQueue(j) ==
    /\ j \in retrying
    /\ Enter(<<j[1], j[2] + 1>>, {"waiting"})
    /\ retrying' = retrying \ {j}
    /\ UNCHANGED <<phase, events, dlq, taken, log, smtp, crashes, exits>>

-----------------------------------------------------------------------------
(* The process ends: its workers, handlers and retries are gone.           *)
Stop ==
    /\ phase' = "down"
    /\ job' = [j \in Jobs |-> IF j \in WithWorker
                              THEN [job[j] EXCEPT !.state = "orphaned"] ELSE job[j]]
    /\ events' = {} /\ retrying' = {}
    /\ UNCHANGED <<dlq, taken, log, smtp>>

Crash ==
    /\ Running
    /\ crashes < MaxCrashes
    /\ crashes' = crashes + 1
    /\ Stop
    /\ UNCHANGED exits

(* SIGTERM or SIGINT: server.close() takes no new connections ...          *)
Signal ==
    /\ phase = "up"
    /\ exits < MaxExits
    /\ phase' = "draining"
    /\ UNCHANGED <<job, events, dlq, retrying, taken, log, smtp, crashes, exits>>

(* ... and calls back; emailQueue.close() gives out no more jobs ...       *)
CloseQueue ==
    /\ phase = "draining"
    /\ phase' = "closing"
    /\ UNCHANGED <<job, events, dlq, retrying, taken, log, smtp, crashes, exits>>

(* ... and waits for the workers, but for no event handler, before exit(0).*)
Exit ==
    /\ phase = "closing"
    /\ WithWorker = {}
    /\ exits' = exits + 1
    /\ Stop
    /\ UNCHANGED crashes

(* startServer.                                                            *)
Start ==
    /\ phase = "down"
    /\ phase' = "up"
    /\ UNCHANGED <<job, events, dlq, retrying, taken, log, smtp, crashes, exits>>

(* What Bull, the workers and the handlers do by themselves.               *)
JobStep(j) ==
    \/ Promote(j) \/ Pick(j) \/ processEmailJob(j) \/ Complete(j) \/ FailAttempt(j)
    \/ CheckStalled(j) \/ RetryQueue(j)

HandlerStep == \E e \in events : DeadLetter(e) \/ recordDeliveryLog(e)

Work ==
    \/ \E j \in Jobs : JobStep(j) \/ RetryTake(j)
    \/ HandlerStep

Next ==
    \/ \E m \in Mails : queueEmail(m)
    \/ Work
    \/ Crash \/ Signal \/ CloseQueue \/ Exit \/ Start

Spec == Init /\ [][Next]_queueVars

(* Bull keeps working: a job in the line gets its turn (it is first come,  *)
(* first served), timers fire, sendMail returns or throws (nodemailer has  *)
(* timeouts), handlers are run; a signal is followed through, and a        *)
(* process that ended is started again.                                    *)
Fairness ==
    /\ \A j \in Jobs :
           /\ SF_queueVars(Pick(j))
           /\ WF_queueVars(Promote(j)) /\ WF_queueVars(processEmailJob(j))
           /\ WF_queueVars(Complete(j)) /\ WF_queueVars(FailAttempt(j))
           /\ WF_queueVars(CheckStalled(j)) /\ WF_queueVars(RetryQueue(j))
    /\ WF_queueVars(HandlerStep)
    /\ WF_queueVars(CloseQueue) /\ WF_queueVars(Exit) /\ WF_queueVars(Start)

FairSpec == Spec /\ Fairness

-----------------------------------------------------------------------------
(* Every variable has its type.                                            *)
TypeOK ==
    /\ phase \in Phases
    /\ job \in [Jobs -> JobRecords]
    /\ events \subseteq Events
    /\ dlq \subseteq Jobs /\ retrying \subseteq Jobs /\ taken \subseteq Jobs
    /\ log \subseteq Rows
    /\ smtp \in [Jobs -> Nat]
    /\ crashes \in 0 .. MaxCrashes /\ exits \in 0 .. MaxExits

(* However answers get lost and the process dies, a job's mail reaches the *)
(* mail server at most once per counted attempt and once per stall that is *)
(* tolerated: three attempts may deliver it four times, and no more.       *)
DeliveriesBounded == \A j \in Jobs : smtp[j] <= Attempts + MaxStalls

(* The delivery log, written by handlers that may be cut off, tells no     *)
(* lies: who reads "sent" was sent the mail, "failed" means the mail was   *)
(* put into the dead-letter queue after the last attempt, and no job has   *)
(* both.                                                                   *)
LogTrue ==
    \A r \in log :
        /\ r.status = "sent" => smtp[r.job] > 0 /\ job[r.job].state = "completed"
        /\ r.status = "failed" =>
               /\ job[r.job].state = "failed" /\ job[r.job].made = Attempts
               /\ r.job \in dlq \cup taken

(* What has become of a mail: the fate of its last job.                    *)
LastJob(m) ==
    <<m, CHOOSE k \in 0 .. MaxRetries :
            /\ job[<<m, k>>].state # "none" \/ k = 0
            /\ \A l \in 0 .. MaxRetries : l > k => job[<<m, l>>].state = "none">>

FateOf(j) ==
    CASE job[j].state = "none" -> "new"
      [] job[j].state = "completed" -> "sent"
      [] job[j].state = "failed" ->
            (IF j \in dlq THEN "dead"
             ELSE IF j \in retrying \/ \E e \in events : e.job = j /\ e.step = "dead"
                  THEN "queued" ELSE "lost")
      [] OTHER -> "queued"

Promise == INSTANCE Delivery
    WITH Patience <- MaxStalls, fate <- [m \in Mails |-> FateOf(LastJob(m))]

(* Every mail that is queued is, in the end, sent or put into the         *)
(* dead-letter queue.  It is lost only if the process ends before the      *)
(* handler has copied it, or, silently, after it has stalled too often.    *)
ImplementsPromise == Promise!DeliverySpec
==============================================================================
