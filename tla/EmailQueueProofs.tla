-------------------------- MODULE EmailQueueProofs ---------------------------
(***************************************************************************)
(* Safety of the e-mail queue, for any mails, attempts, tolerated stalls,  *)
(* workers, retries by hand, crashes and restarts; then of the             *)
(* registrations that feed it, and of the process both live in.            *)
(***************************************************************************)
EXTENDS Onboarding, TLAPS

(* States in which a sending may have happened that is counted neither as  *)
(* an attempt nor as a stall yet.                                          *)
Uncounted == {"answered", "refused", "orphaned", "completed"}

Settled == {"completed", "failed"}

(* The counters of a job: none is used up as long as the job goes on, only *)
(* one of them when it has failed, and together they cover every mail the  *)
(* server took.                                                            *)
Sound(j) ==
    /\ job[j].state # "failed" => job[j].made < Attempts /\ job[j].stalls <= MaxStalls
    /\ job[j].state = "failed" =>
           \/ job[j].made = Attempts /\ job[j].stalls <= MaxStalls
           \/ job[j].made < Attempts /\ job[j].stalls = MaxStalls + 1
    /\ smtp[j] <= job[j].made + job[j].stalls
                  + (IF job[j].state \in Uncounted THEN 1 ELSE 0)
    /\ job[j].state \in {"answered", "completed"} => smtp[j] > 0

JobsSound == \A j \in Jobs : Sound(j)

(* What a handler will write is still so when it comes to writing it.      *)
Holds(e) ==
    /\ e.step = "completed" => job[e.job].state = "completed"
    /\ e.step \in {"dead", "buried"} =>
           job[e.job].state = "failed" /\ job[e.job].made = Attempts
    /\ e.step = "buried" => e.job \in dlq \cup taken

EventsHold == \A e \in events : Holds(e)

(* A process that is told to stop may still exit once.                     *)
MayExit == phase \in {"draining", "closing"} => exits < MaxExits

QueueInv == TypeOK /\ JobsSound /\ EventsHold /\ LogTrue /\ MayExit

-----------------------------------------------------------------------------
(* One job moves that has not been settled before, and may emit an event.  *)
LEMMA JobMoves ==
    ASSUME QueueInv, NEW j \in Jobs,
           job' \in [Jobs -> JobRecords], smtp' \in [Jobs -> Nat],
           \A i \in Jobs \ {j} : job'[i] = job[i] /\ smtp'[i] = smtp[i],
           job[j].state \notin Settled,
           Sound(j)',
           NEW new, new \subseteq Events, events' = events \cup new,
           \A e \in new : Holds(e)',
           retrying' \subseteq retrying,
           UNCHANGED <<phase, dlq, taken, log, crashes, exits>>
    PROVE  QueueInv'
<1>0. TypeOK /\ JobsSound /\ EventsHold /\ LogTrue
    BY DEF QueueInv
<1>1. TypeOK'
    BY <1>0 DEF TypeOK
<1>2. JobsSound'
    BY <1>0 DEF JobsSound, Sound
<1>3. \A e \in events : Holds(e)'
    <2> SUFFICES ASSUME NEW e \in events PROVE Holds(e)'
        OBVIOUS
    <2>1. Holds(e) /\ e.job \in Jobs /\ e.step \in {"completed", "failed", "dead", "buried"}
        BY <1>0 DEF EventsHold, TypeOK, Events
    <2>2. CASE e.job = j
        BY <2>1, <2>2 DEF Holds, Settled
    <2>3. CASE e.job # j
        BY <2>1, <2>3 DEF Holds
    <2> QED
        BY <2>2, <2>3
<1>4. EventsHold'
    BY <1>3 DEF EventsHold
<1>5. LogTrue'
    <2> SUFFICES ASSUME NEW r \in log
                 PROVE  /\ r.status = "sent" => smtp'[r.job] > 0 /\ job'[r.job].state = "completed"
                        /\ r.status = "failed" =>
                               /\ job'[r.job].state = "failed" /\ job'[r.job].made = Attempts
                               /\ r.job \in dlq \cup taken
        BY DEF LogTrue
    <2>1. r.job \in Jobs
        BY <1>0 DEF TypeOK, Rows
    <2>2. CASE r.job = j
        BY <1>0, <2>2 DEF LogTrue, Settled
    <2>3. CASE r.job # j
        BY <1>0, <2>1, <2>3 DEF LogTrue
    <2> QED
        BY <2>2, <2>3
<1> QED
    BY <1>1, <1>2, <1>4, <1>5 DEF QueueInv, MayExit

(* A job goes from one state in which nothing is under way to another.     *)
LEMMA StateMoves ==
    ASSUME QueueInv, NEW j \in Jobs, NEW state \in {"delayed", "waiting", "sending"},
           job' = [job EXCEPT ![j].state = state],
           job[j].state \notin Settled \cup Uncounted,
           retrying' \subseteq retrying,
           UNCHANGED <<phase, events, dlq, taken, log, smtp, crashes, exits>>
    PROVE  QueueInv'
<1>0. TypeOK /\ Sound(j)
    BY DEF QueueInv, JobsSound
<1>1. /\ job'[j] = [job[j] EXCEPT !.state = state]
      /\ job' \in [Jobs -> JobRecords]
      /\ \A i \in Jobs \ {j} : job'[i] = job[i] /\ smtp'[i] = smtp[i]
    BY <1>0 DEF TypeOK, JobRecords, States
<1>2. Sound(j)'
    BY <1>0, <1>1 DEF Sound, TypeOK, JobRecords, Settled, Uncounted
<1>3. smtp' \in [Jobs -> Nat] /\ job[j].state \notin Settled
    BY <1>0 DEF TypeOK
<1> DEFINE new == {}
<1>4. /\ events' = events \cup new /\ new \subseteq Events /\ \A e \in new : Holds(e)'
      /\ UNCHANGED <<phase, dlq, taken, log, crashes, exits>>
    OBVIOUS
<1> HIDE DEF new
<1> QED
    BY <1>1, <1>2, <1>3, <1>4, JobMoves

LEMMA EnterStep ==
    ASSUME QueueInv, NEW j, NEW states \in SUBSET {"waiting", "delayed"}, Enter(j, states),
           retrying' \subseteq retrying,
           UNCHANGED <<phase, events, dlq, taken, log, smtp, crashes, exits>>
    PROVE  QueueInv'
<1>1. PICK s \in states : job' = [job EXCEPT ![j].state = s]
    BY DEF Enter
<1>2. CASE j \in Jobs
    BY <1>1, <1>2, StateMoves DEF Enter, States, Uncounted, Settled
<1>3. CASE j \notin Jobs
    <2>1. job' = job
        BY <1>1, <1>3 DEF QueueInv, TypeOK
    <2> QED
        BY <2>1 DEF QueueInv, TypeOK, JobsSound, Sound, EventsHold, Holds, LogTrue, MayExit
<1> QED
    BY <1>2, <1>3

LEMMA AttemptStep ==
    ASSUME QueueInv, NEW j \in Jobs,
           processEmailJob(j) \/ Complete(j) \/ FailAttempt(j) \/ CheckStalled(j)
    PROVE  QueueInv'
<1>0. TypeOK /\ Sound(j) /\ QueueAssumption
    BY QueueAssumption DEF QueueInv, JobsSound
<1>1. job[j] \in JobRecords /\ smtp[j] \in Nat /\ UNCHANGED <<phase, dlq, taken, log, crashes, exits, retrying>>
    BY <1>0 DEF TypeOK, processEmailJob, Complete, FailAttempt, CheckStalled
<1>2. CASE processEmailJob(j)
    <2>1. PICK accepted \in BOOLEAN, answered \in BOOLEAN :
             /\ answered => accepted
             /\ job' = [job EXCEPT ![j].state = IF answered THEN "answered" ELSE "refused"]
             /\ smtp' = [smtp EXCEPT ![j] = @ + (IF accepted THEN 1 ELSE 0)]
        BY <1>2 DEF processEmailJob
    <2>2. /\ job'[j] = [job[j] EXCEPT !.state = IF answered THEN "answered" ELSE "refused"]
          /\ smtp'[j] = smtp[j] + (IF accepted THEN 1 ELSE 0)
          /\ \A i \in Jobs \ {j} : job'[i] = job[i] /\ smtp'[i] = smtp[i]
          /\ job' \in [Jobs -> JobRecords] /\ smtp' \in [Jobs -> Nat]
        BY <1>0, <2>1 DEF TypeOK, JobRecords, States
    <2>3. Sound(j)'
        BY <1>0, <1>1, <1>2, <2>1, <2>2 DEF Sound, processEmailJob, JobRecords, Uncounted
    <2> DEFINE new == {}
    <2>4. /\ events' = events \cup new /\ new \subseteq Events /\ \A e \in new : Holds(e)'
          /\ job[j].state \notin Settled
        BY <1>2 DEF processEmailJob, Settled
    <2> HIDE DEF new
    <2> QED
        BY <1>1, <2>2, <2>3, <2>4, JobMoves
<1>3. CASE Complete(j)
    <2> DEFINE new == {Event(j, "completed", job[j].made)}
    <2>1. /\ job'[j] = [job[j] EXCEPT !.state = "completed"]
          /\ smtp'[j] = smtp[j]
          /\ \A i \in Jobs \ {j} : job'[i] = job[i] /\ smtp'[i] = smtp[i]
          /\ job' \in [Jobs -> JobRecords] /\ smtp' \in [Jobs -> Nat]
        BY <1>0, <1>3 DEF Complete, TypeOK, JobRecords, States
    <2>2. Sound(j)'
        BY <1>0, <1>1, <1>3, <2>1 DEF Sound, Complete, JobRecords, Uncounted
    <2>3. new \subseteq Events /\ events' = events \cup new /\ job[j].state \notin Settled
        BY <1>1, <1>3 DEF Complete, Events, Event, JobRecords, Settled
    <2>4. ASSUME NEW e \in new PROVE Holds(e)'
        <3>1. e.job = j /\ e.step = "completed"
            BY DEF Event
        <3> QED
            BY <1>1, <2>1, <3>1 DEF Holds, JobRecords
    <2> HIDE DEF new
    <2> QED
        BY <1>1, <2>1, <2>2, <2>3, <2>4, JobMoves
<1>4. CASE FailAttempt(j)
    <2> DEFINE made == job[j].made + 1
               for_good == made >= Attempts
               new == {Event(j, IF for_good THEN "dead" ELSE "failed", made)}
    <2>0. made \in 0 .. Attempts /\ job[j].state = "refused"
        BY <1>0, <1>1, <1>4 DEF Sound, FailAttempt, JobRecords, QueueAssumption
    <2>1. /\ job'[j] = [job[j] EXCEPT !.made = made,
                                       !.state = IF for_good THEN "failed" ELSE "delayed"]
          /\ smtp'[j] = smtp[j]
          /\ \A i \in Jobs \ {j} : job'[i] = job[i] /\ smtp'[i] = smtp[i]
          /\ job' \in [Jobs -> JobRecords] /\ smtp' \in [Jobs -> Nat]
        BY <1>0, <1>4, <2>0 DEF FailAttempt, TypeOK, JobRecords, States
    <2>2. Sound(j)'
        BY <1>0, <1>1, <2>0, <2>1 DEF Sound, JobRecords, Uncounted, QueueAssumption
    <2>3. new \subseteq Events /\ events' = events \cup new /\ job[j].state \notin Settled
        BY <2>0, <1>4 DEF FailAttempt, Events, Event, Settled
    <2>4. ASSUME NEW e \in new PROVE Holds(e)'
        <3>1. e.job = j /\ e.step = (IF for_good THEN "dead" ELSE "failed")
            BY DEF Event
        <3>2. for_good => job'[j].state = "failed" /\ job'[j].made = Attempts
            BY <1>0, <1>1, <2>0, <2>1 DEF JobRecords, QueueAssumption
        <3> HIDE DEF for_good, made
        <3> QED
            BY <3>1, <3>2 DEF Holds
    <2> HIDE DEF new, made, for_good
    <2> QED
        BY <1>1, <2>1, <2>2, <2>3, <2>4, JobMoves
<1>5. CASE CheckStalled(j)
    <2> DEFINE stalls == job[j].stalls + 1
               for_good == stalls > MaxStalls
               new == IF for_good THEN {Event(j, "failed", job[j].made)} ELSE {}
    <2>0. stalls \in 0 .. (MaxStalls + 1) /\ job[j].state = "orphaned"
        BY <1>0, <1>1, <1>5 DEF Sound, CheckStalled, JobRecords, QueueAssumption
    <2>1. /\ job'[j] = [job[j] EXCEPT !.stalls = stalls,
                                       !.state = IF for_good THEN "failed" ELSE "waiting"]
          /\ smtp'[j] = smtp[j]
          /\ \A i \in Jobs \ {j} : job'[i] = job[i] /\ smtp'[i] = smtp[i]
          /\ job' \in [Jobs -> JobRecords] /\ smtp' \in [Jobs -> Nat]
        BY <1>0, <1>5, <2>0 DEF CheckStalled, TypeOK, JobRecords, States
    <2>2. Sound(j)'
        BY <1>0, <1>1, <2>0, <2>1 DEF Sound, JobRecords, Uncounted, QueueAssumption
    <2>3. new \subseteq Events /\ events' = events \cup new /\ job[j].state \notin Settled
        BY <1>1, <2>0, <1>5 DEF CheckStalled, Events, Event, JobRecords, Settled
    <2>4. ASSUME NEW e \in new PROVE Holds(e)'
        <3>1. e.step = "failed"
            BY DEF Event
        <3> QED
            BY <3>1 DEF Holds
    <2> HIDE DEF new, stalls, for_good
    <2> QED
        BY <1>1, <2>1, <2>2, <2>3, <2>4, JobMoves
<1> QED
    BY <1>2, <1>3, <1>4, <1>5

-----------------------------------------------------------------------------
(* The handlers change the log and the dead-letter queue, and no job.      *)
LEMMA HandlerKeeps ==
    ASSUME QueueInv, HandlerStep
    PROVE  QueueInv'
<1>0. TypeOK /\ JobsSound /\ EventsHold /\ LogTrue
    BY DEF QueueInv
<1>1. PICK e \in events : DeadLetter(e) \/ recordDeliveryLog(e)
    BY DEF HandlerStep
<1>2. /\ e \in Events /\ Holds(e)
      /\ e.job \in Jobs /\ e.made \in 0 .. Attempts
      /\ e.step \in {"completed", "failed", "dead", "buried"}
    BY <1>0 DEF TypeOK, EventsHold, Events
<1>3. UNCHANGED <<phase, job, retrying, taken, smtp, crashes, exits>>
    BY <1>1 DEF DeadLetter, recordDeliveryLog
<1>4. JobsSound'
    BY <1>0, <1>3 DEF JobsSound, Sound
<1>5. CASE DeadLetter(e)
    <2>1. dlq' = dlq \cup {e.job} /\ log' = log /\ e.step = "dead"
          /\ events' = (events \ {e}) \cup {[e EXCEPT !.step = "buried"]}
        BY <1>5 DEF DeadLetter
    <2>2. [e EXCEPT !.step = "buried"] \in Events
        BY <1>2 DEF Events
    <2>3. TypeOK'
        BY <1>0, <1>2, <1>3, <2>1, <2>2 DEF TypeOK
    <2>4. EventsHold'
        <3> SUFFICES ASSUME NEW d \in events' PROVE Holds(d)'
            BY DEF EventsHold
        <3>1. CASE d \in events
            BY <1>0, <1>3, <2>1, <3>1 DEF EventsHold, Holds
        <3>2. CASE d = [e EXCEPT !.step = "buried"]
            BY <1>2, <1>3, <2>1, <3>2 DEF Holds, Events
        <3> QED
            BY <2>1, <3>1, <3>2
    <2>5. LogTrue'
        BY <1>0, <1>3, <2>1 DEF LogTrue
    <2> QED
        BY <1>3, <1>4, <2>3, <2>4, <2>5 DEF QueueInv, MayExit
<1>6. CASE recordDeliveryLog(e)
    <2> DEFINE new == [job |-> e.job, status |-> StatusOf(e), attempts |-> e.made]
    <2>1. /\ e.step # "dead" /\ dlq' = dlq /\ events' = events \ {e}
          /\ log' = log \cup {new} \/ log' = log
        BY <1>6 DEF recordDeliveryLog
    <2>2. /\ e.step = "completed" => new.status = "sent"
          /\ e.step = "failed" => new.status = "pending"
          /\ e.step = "buried" => new.status = "failed"
          /\ new.job = e.job
        BY DEF StatusOf
    <2>3. new \in Rows
        BY <1>2, <2>1, <2>2 DEF Rows, StatusOf
    <2>4. EventsHold' /\ TypeOK'
        BY <1>0, <1>3, <2>1, <2>3 DEF EventsHold, Holds, TypeOK
    <2>5. LogTrue'
        <3>1. /\ new.status = "sent" => smtp[e.job] > 0 /\ job[e.job].state = "completed"
              /\ new.status = "failed" =>
                     /\ job[e.job].state = "failed" /\ job[e.job].made = Attempts
                     /\ e.job \in dlq \cup taken
            BY <1>0, <1>2, <2>1, <2>2 DEF Holds, JobsSound, Sound
        <3> HIDE DEF new
        <3> QED
            BY <1>0, <1>3, <2>1, <2>2, <3>1 DEF LogTrue
    <2> QED
        BY <1>3, <1>4, <2>4, <2>5 DEF QueueInv, MayExit
<1> QED
    BY <1>1, <1>5, <1>6

LEMMA RetryKeeps ==
    ASSUME QueueInv, NEW j \in Jobs, RetryTake(j)
    PROVE  QueueInv'
<1>1. /\ dlq' = dlq \ {j} /\ retrying' = retrying \cup {j} /\ taken' = taken \cup {j}
      /\ UNCHANGED <<phase, job, events, log, smtp, crashes, exits>>
    BY DEF RetryTake
<1>2. TypeOK' /\ JobsSound'
    BY <1>1 DEF QueueInv, TypeOK, JobsSound, Sound
<1>3. EventsHold' /\ LogTrue'
    BY <1>1 DEF QueueInv, EventsHold, Holds, LogTrue
<1> QED
    BY <1>1, <1>2, <1>3 DEF QueueInv, MayExit

(* The process ends: jobs with a worker are orphaned, handlers are gone.   *)
LEMMA StopStep ==
    ASSUME QueueInv, Crash \/ Exit
    PROVE  QueueInv'
<1>0. TypeOK /\ JobsSound /\ LogTrue /\ QueueAssumption
    BY QueueAssumption DEF QueueInv
<1>1. /\ phase' = "down" /\ events' = {} /\ retrying' = {}
      /\ job' = [j \in Jobs |-> IF j \in WithWorker
                                THEN [job[j] EXCEPT !.state = "orphaned"] ELSE job[j]]
      /\ UNCHANGED <<dlq, taken, log, smtp>>
    BY DEF Crash, Exit, Stop
<1>2. crashes' \in 0 .. MaxCrashes /\ exits' \in 0 .. MaxExits
    BY <1>0 DEF QueueInv, MayExit, Crash, Exit, TypeOK, QueueAssumption
<1>3. TypeOK'
    BY <1>0, <1>1, <1>2 DEF TypeOK, JobRecords, States, Phases
<1>4. JobsSound'
    <2> SUFFICES ASSUME NEW j \in Jobs PROVE Sound(j)'
        BY DEF JobsSound
    <2>1. job[j] \in JobRecords /\ smtp[j] \in Nat /\ Sound(j)
        BY <1>0 DEF TypeOK, JobsSound
    <2>2. job'[j] = IF j \in WithWorker THEN [job[j] EXCEPT !.state = "orphaned"] ELSE job[j]
        BY <1>1
    <2>3. CASE j \in WithWorker
        BY <1>0, <1>1, <2>1, <2>2, <2>3
           DEF Sound, WithWorker, JobRecords, Uncounted, QueueAssumption
    <2>4. CASE j \notin WithWorker
        BY <1>1, <2>1, <2>2, <2>4 DEF Sound
    <2> QED
        BY <2>3, <2>4
<1>5. LogTrue'
    <2>1. \A r \in log : r.job \in Jobs
        BY <1>0 DEF TypeOK, Rows
    <2>2. \A j \in Jobs : job[j].state \in Settled => job'[j] = job[j]
        BY <1>1 DEF WithWorker, Settled
    <2> QED
        BY <1>0, <1>1, <2>1, <2>2 DEF LogTrue, Settled
<1> QED
    BY <1>1, <1>3, <1>4, <1>5 DEF QueueInv, EventsHold, MayExit

-----------------------------------------------------------------------------
(* The invariant holds at first and after every step.                      *)
LEMMA QueueInvariant == Spec => []QueueInv
<1>1. Init => QueueInv
    <2> SUFFICES ASSUME Init PROVE QueueInv
        OBVIOUS
    <2>1. TypeOK
        BY QueueAssumption DEF Init, TypeOK, Phases, JobRecords, States, QueueAssumption
    <2>2. JobsSound
        BY QueueAssumption DEF Init, JobsSound, Sound, Uncounted, QueueAssumption
    <2> QED
        BY <2>1, <2>2 DEF Init, QueueInv, EventsHold, LogTrue, MayExit
<1>2. QueueInv /\ [Next]_queueVars => QueueInv'
    <2> SUFFICES ASSUME QueueInv, [Next]_queueVars PROVE QueueInv'
        OBVIOUS
    <2>1. CASE UNCHANGED queueVars
        BY <2>1 DEF queueVars, QueueInv, TypeOK, JobsSound, Sound, EventsHold, Holds,
                    LogTrue, MayExit, MayExit
    <2>2. ASSUME NEW m \in Mails, queueEmail(m) PROVE QueueInv'
        BY <2>2, EnterStep DEF queueEmail
    <2>3. ASSUME NEW j \in Jobs, JobStep(j) PROVE QueueInv'
        <3>1. CASE Promote(j) \/ Pick(j)
            BY <3>1, StateMoves DEF Promote, Pick, Settled, Uncounted
        <3>2. CASE RetryQueue(j)
            BY <3>2, EnterStep DEF RetryQueue
        <3> QED
            BY <2>3, <3>1, <3>2, AttemptStep DEF JobStep
    <2>4. CASE Signal \/ CloseQueue \/ Start
        BY <2>4 DEF Signal, CloseQueue, Start, QueueInv, TypeOK, Phases, JobsSound, Sound,
                    EventsHold, Holds, LogTrue, MayExit
    <2> QED
        BY <2>1, <2>2, <2>3, <2>4, HandlerKeeps, RetryKeeps, StopStep DEF Next, Work
<1> QED
    BY <1>1, <1>2, PTL DEF Spec

(* The variables of EmailQueue keep their types.                           *)
THEOREM TypeCorrect == Spec => []TypeOK
<1>1. QueueInv => TypeOK
    BY DEF QueueInv
<1> QED
    BY <1>1, QueueInvariant, PTL

(* A job's mail reaches the server at most once per attempt and once per   *)
(* tolerated stall.                                                        *)
THEOREM FewDeliveries == Spec => []DeliveriesBounded
<1>1. QueueInv => DeliveriesBounded
    BY QueueAssumption
       DEF QueueInv, JobsSound, Sound, TypeOK, JobRecords, DeliveriesBounded, Uncounted,
           QueueAssumption
<1> QED
    BY <1>1, QueueInvariant, PTL

(* What the delivery log says of a job is so.                              *)
THEOREM LogTruthful == Spec => []LogTrue
<1>1. QueueInv => LogTrue
    BY DEF QueueInv
<1> QED
    BY <1>1, QueueInvariant, PTL

-----------------------------------------------------------------------------
(* The failure of job j is not dealt with yet, or can still be undone.     *)
Pending(j) ==
    \/ j \in dlq \cup retrying
    \/ \E e \in events : e.job = j /\ e.step = "dead"

(* A mail gets a new job only when the last one has failed; then the old   *)
(* job is no longer pending.                                               *)
OneJobAtATime ==
    \A m \in Mails, k, l \in 0 .. MaxRetries :
        l < k /\ job[<<m, k>>].state # "none" => job[<<m, l>>].state = "failed"

PendingIsLast ==
    \A m \in Mails, k, l \in 0 .. MaxRetries :
        Pending(<<m, k>>) =>
            job[<<m, k>>].state = "failed" /\ (l > k => job[<<m, l>>].state = "none")

(* A failed job is in the hands of its handler, in the dead-letter queue   *)
(* or in the hands of a retry, and in no two of them.                      *)
OnePlace ==
    /\ \A j \in retrying : j \notin dlq /\ j[2] < MaxRetries
    /\ \A e \in events :
           e.step = "dead" => e.job \notin dlq \cup retrying /\ e.made = Attempts

(* Only a crash takes a job away from its worker.                          *)
StallsCounted ==
    \A j \in Jobs :
        job[j].stalls + (IF job[j].state = "orphaned" THEN 1 ELSE 0) <= crashes

IsLast(m, k) ==
    /\ job[<<m, k>>].state # "none" \/ k = 0
    /\ \A l \in 0 .. MaxRetries : l > k => job[<<m, l>>].state = "none"

HasLast == \A m \in Mails : \E k \in 0 .. MaxRetries : IsLast(m, k)

FateInv ==
    QueueInv /\ OneJobAtATime /\ PendingIsLast /\ OnePlace /\ StallsCounted /\ HasLast

(* The choice that LastJob makes is the only one there is.                 *)
LastFound ==
    \A m \in Mails, k \in 0 .. MaxRetries : IsLast(m, k) => LastJob(m) = <<m, k>>
LEMMA LastChoice == LastFound
<1> SUFFICES ASSUME NEW m \in Mails, NEW k \in 0 .. MaxRetries, IsLast(m, k)
             PROVE  LastJob(m) = <<m, k>>
    BY DEF LastFound
<1>1. \A l \in 0 .. MaxRetries : IsLast(m, l) => l = k
    BY QueueAssumption DEF IsLast, QueueAssumption
<1>2. k = CHOOSE l \in 0 .. MaxRetries :
             /\ job[<<m, l>>].state # "none" \/ l = 0
             /\ \A i \in 0 .. MaxRetries : i > l => job[<<m, i>>].state = "none"
    BY <1>1 DEF IsLast
<1> QED
    BY <1>2 DEF LastJob

-----------------------------------------------------------------------------
(* A job that has not failed yet moves, and only its failure emits "dead". *)
Moves(m, k, new) ==
    /\ \A i \in Jobs \ {<<m, k>>} : job'[i] = job[i]
    /\ job[<<m, k>>].state \notin {"none"} \cup Settled
    /\ job'[<<m, k>>].state # "none"
    /\ events' = events \cup new
    /\ \A e \in new :
           /\ e.job = <<m, k>>
           /\ e.step = "dead" => job'[<<m, k>>].state = "failed" /\ e.made = Attempts
    /\ UNCHANGED <<dlq, retrying, crashes, exits>>

LEMMA MoveKeeps ==
    ASSUME FateInv, NEW m \in Mails, NEW k \in 0 .. MaxRetries, NEW new, Moves(m, k, new),
           job'[<<m, k>>].stalls
               + (IF job'[<<m, k>>].state = "orphaned" THEN 1 ELSE 0) <= crashes
    PROVE  OneJobAtATime' /\ PendingIsLast' /\ OnePlace' /\ StallsCounted' /\ HasLast'
<1>0. /\ OneJobAtATime /\ PendingIsLast /\ OnePlace /\ StallsCounted /\ HasLast
      /\ <<m, k>> \in Jobs /\ 0 .. MaxRetries \subseteq Nat
      /\ \A n \in Mails, l \in 0 .. MaxRetries : <<n, l>> \in Jobs
    BY QueueAssumption DEF FateInv, Jobs, QueueAssumption
<1>1. \A n \in Mails, l \in 0 .. MaxRetries :
          /\ job'[<<n, l>>].state = "none" <=> job[<<n, l>>].state = "none"
          /\ <<n, l>> # <<m, k>> => job'[<<n, l>>] = job[<<n, l>>]
    BY <1>0 DEF Moves
<1>2. \A l \in 0 .. MaxRetries : l > k => job[<<m, l>>].state = "none"
    BY <1>0 DEF Moves, OneJobAtATime, Settled
<1>3. OneJobAtATime'
    <2> SUFFICES ASSUME NEW n \in Mails, NEW p \in 0 .. MaxRetries, NEW l \in 0 .. MaxRetries,
                        l < p, job'[<<n, p>>].state # "none"
                 PROVE  job'[<<n, l>>].state = "failed"
        BY DEF OneJobAtATime
    <2>1. job[<<n, l>>].state = "failed"
        BY <1>0, <1>1 DEF OneJobAtATime
    <2> QED
        BY <1>1, <2>1 DEF Moves, Settled
<1>4. ASSUME NEW n \in Mails, NEW p \in 0 .. MaxRetries, NEW l \in 0 .. MaxRetries,
             Pending(<<n, p>>)'
      PROVE  job'[<<n, p>>].state = "failed" /\ (l > p => job'[<<n, l>>].state = "none")
    <2>1. CASE Pending(<<n, p>>)
        <3>1. job[<<n, p>>].state = "failed" /\ (l > p => job[<<n, l>>].state = "none")
            BY <1>0, <2>1 DEF PendingIsLast
        <3> QED
            BY <1>1, <3>1 DEF Moves, Settled
    <2>2. CASE ~ Pending(<<n, p>>)
        <3>1. PICK e \in new : e.job = <<n, p>> /\ e.step = "dead"
            BY <1>4, <2>2 DEF Pending, Moves
        <3>2. n = m /\ p = k /\ job'[<<m, k>>].state = "failed"
            BY <3>1 DEF Moves
        <3> QED
            BY <1>1, <1>2, <3>2
    <2> QED
        BY <2>1, <2>2
<1>5. PendingIsLast'
    BY <1>4 DEF PendingIsLast
<1>6. <<m, k>> \notin dlq \cup retrying
    BY <1>0 DEF PendingIsLast, Pending, Moves, Settled
<1>7. OnePlace'
    BY <1>0, <1>6 DEF OnePlace, Moves
<1>8. StallsCounted'
    BY <1>0 DEF StallsCounted, Moves
<1>9. HasLast'
    BY <1>0, <1>1 DEF HasLast, IsLast
<1> QED
    BY <1>3, <1>5, <1>7, <1>8, <1>9

(* A mail gets its first or its next job.                                  *)
LEMMA EnterKeeps ==
    ASSUME FateInv, NEW m \in Mails, NEW k \in 0 .. MaxRetries,
           Enter(<<m, k>>, {"waiting", "delayed"}),
           retrying' \subseteq retrying,
           k > 0 => /\ job[<<m, k - 1>>].state = "failed"
                    /\ \A l \in 0 .. MaxRetries : l > k => job[<<m, l>>].state = "none"
                    /\ <<m, k - 1>> \notin dlq \cup retrying'
                    /\ \A e \in events : e.step = "dead" => e.job # <<m, k - 1>>,
           UNCHANGED <<events, dlq, crashes, exits>>
    PROVE  /\ OneJobAtATime' /\ PendingIsLast' /\ OnePlace' /\ StallsCounted' /\ HasLast'
           /\ IsLast(m, k)'
<1>0. /\ OneJobAtATime /\ PendingIsLast /\ OnePlace /\ StallsCounted /\ HasLast /\ TypeOK
      /\ <<m, k>> \in Jobs /\ 0 .. MaxRetries \subseteq Nat
      /\ \A n \in Mails, l \in 0 .. MaxRetries : <<n, l>> \in Jobs
    BY QueueAssumption DEF FateInv, QueueInv, Jobs, QueueAssumption
<1>1. /\ job[<<m, k>>].state = "none" /\ job'[<<m, k>>].state \in {"waiting", "delayed"}
      /\ job'[<<m, k>>].stalls = job[<<m, k>>].stalls
      /\ \A i \in Jobs \ {<<m, k>>} : job'[i] = job[i]
      /\ \A n \in Mails, l \in 0 .. MaxRetries :
             <<n, l>> # <<m, k>> => job'[<<n, l>>] = job[<<n, l>>]
    BY <1>0 DEF Enter, TypeOK, JobRecords
<1>2. \A l \in 0 .. MaxRetries : l > k => job[<<m, l>>].state = "none"
    BY <1>0, <1>1 DEF OneJobAtATime
<1>3. \A l \in 0 .. MaxRetries : l < k => job[<<m, l>>].state = "failed"
    <2> SUFFICES ASSUME NEW l \in 0 .. MaxRetries, l < k PROVE job[<<m, l>>].state = "failed"
        OBVIOUS
    <2>1. k > 0 /\ k - 1 \in 0 .. MaxRetries /\ (l = k - 1 \/ l < k - 1)
        BY QueueAssumption DEF QueueAssumption
    <2>2. job[<<m, k - 1>>].state = "failed"
        BY <2>1
    <2> QED
        BY <1>0, <2>1, <2>2 DEF OneJobAtATime
<1>4. OneJobAtATime'
    <2> SUFFICES ASSUME NEW n \in Mails, NEW p \in 0 .. MaxRetries, NEW l \in 0 .. MaxRetries,
                        l < p, job'[<<n, p>>].state # "none"
                 PROVE  job'[<<n, l>>].state = "failed"
        BY DEF OneJobAtATime
    <2>1. CASE <<n, p>> = <<m, k>>
        BY <1>1, <1>3, <2>1
    <2>2. CASE <<n, p>> # <<m, k>>
        <3>1. job[<<n, l>>].state = "failed"
            BY <1>0, <1>1, <2>2 DEF OneJobAtATime
        <3> QED
            BY <1>1, <3>1
    <2> QED
        BY <2>1, <2>2
<1>5. ASSUME NEW n \in Mails, NEW p \in 0 .. MaxRetries, NEW l \in 0 .. MaxRetries,
             Pending(<<n, p>>)'
      PROVE  job'[<<n, p>>].state = "failed" /\ (l > p => job'[<<n, l>>].state = "none")
    <2>1. Pending(<<n, p>>)
        BY <1>5 DEF Pending
    <2>2. job[<<n, p>>].state = "failed" /\ (l > p => job[<<n, l>>].state = "none")
        BY <1>0, <2>1 DEF PendingIsLast
    <2>3. CASE <<n, l>> # <<m, k>>
        BY <1>1, <2>2, <2>3
    <2>4. CASE <<n, l>> = <<m, k>> /\ l > p
        <3>1. p = k - 1
            <4>1. \A i \in 0 .. MaxRetries : i > p => job[<<m, i>>].state = "none"
                BY <1>0, <2>1, <2>4 DEF PendingIsLast
            <4>2. k - 1 \in 0 .. MaxRetries /\ job[<<m, k - 1>>].state = "failed"
                BY <2>4, QueueAssumption DEF QueueAssumption
            <4> QED
                BY <2>4, <4>1, <4>2
        <3>2. /\ <<m, k - 1>> \notin dlq \cup retrying'
              /\ \A e \in events : e.step = "dead" => e.job # <<m, k - 1>>
            BY <2>4
        <3> QED
            BY <1>5, <2>4, <3>1, <3>2 DEF Pending
    <2> QED
        BY <1>1, <2>2, <2>3, <2>4
<1>6. PendingIsLast'
    BY <1>5 DEF PendingIsLast
<1>7. OnePlace'
    BY <1>0 DEF OnePlace
<1>8. StallsCounted'
    BY <1>0, <1>1 DEF StallsCounted
<1>9. IsLast(m, k)'
    BY <1>0, <1>1, <1>2 DEF IsLast
<1>10. ASSUME NEW n \in Mails \ {m}, NEW l \in 0 .. MaxRetries, IsLast(n, l)
       PROVE  IsLast(n, l)'
    BY <1>0, <1>1, <1>10 DEF IsLast
<1>11. HasLast'
    <2> SUFFICES ASSUME NEW n \in Mails PROVE \E l \in 0 .. MaxRetries : IsLast(n, l)'
        BY DEF HasLast
    <2> QED
        BY <1>0, <1>9, <1>10 DEF HasLast
<1> QED
    BY <1>4, <1>6, <1>7, <1>8, <1>9, <1>11
-----------------------------------------------------------------------------
(* What Delivery sees of the queue.                                        *)
Fate(m) == FateOf(LastJob(m))

FateMap == [m \in Mails |-> Fate(m)]

LEMMA FateIs ==
    ASSUME NEW m, NEW j, NEW i, LastJob(m) = j, LastJob(m)' = i
    PROVE  Fate(m) = FateOf(j) /\ Fate(m)' = FateOf(i)'
BY DEF Fate, FateOf

(* A mail that is not touched keeps its fate.                              *)
LEMMA SameFate ==
    ASSUME FateInv, LastFound, LastFound', NEW m \in Mails,
           \A k \in 0 .. MaxRetries :
               /\ job'[<<m, k>>].state = job[<<m, k>>].state
               /\ <<m, k>> \in dlq' <=> <<m, k>> \in dlq
               /\ Pending(<<m, k>>)' <=> Pending(<<m, k>>)
    PROVE  Fate(m)' = Fate(m)
<1>1. PICK k \in 0 .. MaxRetries : IsLast(m, k)
    BY DEF FateInv, HasLast
<1>2. IsLast(m, k)'
    BY <1>1 DEF IsLast
<1>3. LastJob(m) = <<m, k>>
    BY <1>1 DEF LastFound
<1>4. LastJob(m)' = <<m, k>>
    BY <1>2 DEF LastFound
<1>5. FateOf(<<m, k>>)' = FateOf(<<m, k>>)
    BY DEF FateOf, Pending
<1> QED
    BY <1>3, <1>4, <1>5, FateIs

(* The others keep theirs when only the jobs of one mail change.           *)
OthersAlone(m) ==
    \A j \in Jobs : j[1] # m =>
        /\ job'[j] = job[j]
        /\ j \in dlq' <=> j \in dlq
        /\ j \in retrying' <=> j \in retrying
        /\ \A e \in events \cup events' : e.job = j => (e \in events <=> e \in events')

LEMMA OtherFates ==
    ASSUME FateInv, LastFound, LastFound', NEW m \in Mails, OthersAlone(m)
    PROVE  \A n \in Mails \ {m} : Fate(n)' = Fate(n)
<1> SUFFICES ASSUME NEW n \in Mails \ {m} PROVE Fate(n)' = Fate(n)
    OBVIOUS
<1>1. ASSUME NEW k \in 0 .. MaxRetries
      PROVE  /\ job'[<<n, k>>].state = job[<<n, k>>].state
             /\ <<n, k>> \in dlq' <=> <<n, k>> \in dlq
             /\ Pending(<<n, k>>)' <=> Pending(<<n, k>>)
    <2>1. <<n, k>> \in Jobs /\ <<n, k>>[1] # m
        BY DEF Jobs
    <2> QED
        BY <2>1 DEF OthersAlone, Pending
<1> QED
    BY <1>1, SameFate

(* One mail's change of fate, and none at all.                             *)
LEMMA BecomesOther ==
    ASSUME NEW m \in Mails, \A n \in Mails \ {m} : Fate(n)' = Fate(n),
           NEW from, NEW to, Fate(m) = from, Fate(m)' = to,
           UNCHANGED <<crashes, exits>>
    PROVE  Promise!Becomes(m, from, to)
<1>1. FateMap' = [FateMap EXCEPT ![m] = to]
    BY DEF FateMap
<1>2. FateMap[m] = from
    BY DEF FateMap
<1> QED
    BY <1>1, <1>2 DEF FateMap, Fate, Promise!Becomes

LEMMA NothingSeen ==
    ASSUME \A m \in Mails : Fate(m)' = Fate(m), UNCHANGED <<crashes, exits>>
    PROVE  UNCHANGED Promise!deliveryVars
<1>1. FateMap' = FateMap
    BY DEF FateMap
<1> QED
    BY <1>1 DEF FateMap, Fate, Promise!deliveryVars

(* When an unfailed job moves, it is its mail's fate before and after.     *)
LEMMA MoveFates ==
    ASSUME FateInv, LastFound, LastFound', NEW m \in Mails, NEW k \in 0 .. MaxRetries,
           NEW new, Moves(m, k, new)
    PROVE  /\ \A n \in Mails \ {m} : Fate(n)' = Fate(n)
           /\ Fate(m) = "queued"
           /\ Fate(m)' = CASE job'[<<m, k>>].state = "completed" -> "sent"
                           [] job'[<<m, k>>].state = "failed" ->
                                 (IF \E e \in new : e.step = "dead" THEN "queued" ELSE "lost")
                           [] OTHER -> "queued"
<1>0. /\ OneJobAtATime /\ PendingIsLast /\ <<m, k>> \in Jobs
      /\ \A n \in Mails, l \in 0 .. MaxRetries : <<n, l>> \in Jobs
    BY DEF FateInv, Jobs
<1>1. OthersAlone(m)
    BY <1>0 DEF OthersAlone, Moves
<1>2. \A l \in 0 .. MaxRetries : l > k => job[<<m, l>>].state = "none"
    BY <1>0 DEF Moves, OneJobAtATime, Settled
<1>3. IsLast(m, k)
    BY <1>2 DEF IsLast, Moves
<1>4. IsLast(m, k)'
    <2>1. \A l \in 0 .. MaxRetries : l > k => job'[<<m, l>>] = job[<<m, l>>]
        BY <1>0 DEF Moves
    <2> QED
        BY <1>2, <2>1 DEF IsLast, Moves
<1>5. LastJob(m) = <<m, k>>
    BY <1>3 DEF LastFound
<1>6. LastJob(m)' = <<m, k>>
    BY <1>4 DEF LastFound
<1>7. ~ Pending(<<m, k>>) /\ job[<<m, k>>].state \notin {"none", "completed", "failed"}
    BY <1>0 DEF PendingIsLast, Moves, Settled
<1>8. FateOf(<<m, k>>) = "queued"
    BY <1>7 DEF FateOf
<1>9. FateOf(<<m, k>>)' =
          CASE job'[<<m, k>>].state = "completed" -> "sent"
            [] job'[<<m, k>>].state = "failed" ->
                  (IF \E e \in new : e.step = "dead" THEN "queued" ELSE "lost")
            [] OTHER -> "queued"
    <2>1. <<m, k>> \notin dlq' /\ <<m, k>> \notin retrying'
        BY <1>7 DEF Pending, Moves
    <2>2. (\E e \in events' : e.job = <<m, k>> /\ e.step = "dead")
              <=> \E e \in new : e.step = "dead"
        BY <1>7 DEF Pending, Moves
    <2>3. job'[<<m, k>>].state # "none"
        BY DEF Moves
    <2> QED
        BY <2>1, <2>2, <2>3 DEF FateOf
<1> QED
    BY <1>1, <1>5, <1>6, <1>8, <1>9, FateIs, OtherFates
PlacesKept == OneJobAtATime' /\ PendingIsLast' /\ OnePlace' /\ StallsCounted' /\ HasLast'

PromiseKept == [Promise!DeliveryNext]_(Promise!deliveryVars)

LEMMA QueueFate ==
    ASSUME FateInv, LastFound, LastFound', NEW m \in Mails, queueEmail(m)
    PROVE  PlacesKept /\ PromiseKept
<1>0. /\ OneJobAtATime /\ PendingIsLast /\ TypeOK /\ <<m, 0>> \in Jobs
      /\ 0 \in 0 .. MaxRetries
      /\ \A l \in 0 .. MaxRetries : <<m, l>> \in Jobs
    BY QueueAssumption DEF FateInv, QueueInv, Jobs, QueueAssumption
<1>1. Enter(<<m, 0>>, {"waiting", "delayed"})
      /\ UNCHANGED <<events, dlq, retrying, crashes, exits>>
    BY DEF queueEmail
<1>2. PlacesKept /\ IsLast(m, 0)'
    <2>1. ~ (0 > 0) /\ retrying' \subseteq retrying
        BY <1>1
    <2> QED
        BY <1>0, <1>1, <2>1, EnterKeeps DEF PlacesKept
<1>3. /\ job[<<m, 0>>].state = "none" /\ job'[<<m, 0>>].state \in {"waiting", "delayed"}
      /\ \A i \in Jobs \ {<<m, 0>>} : job'[i] = job[i]
    BY <1>0, <1>1 DEF Enter, TypeOK, JobRecords
<1>4. IsLast(m, 0)
    BY <1>0, <1>3, QueueAssumption DEF IsLast, OneJobAtATime, QueueAssumption
<1>5. LastJob(m) = <<m, 0>>
    BY <1>0, <1>4 DEF LastFound
<1>6. LastJob(m)' = <<m, 0>>
    BY <1>0, <1>2 DEF LastFound
<1>7. OthersAlone(m)
    BY <1>1, <1>3 DEF OthersAlone
<1>8. FateOf(<<m, 0>>) = "new"
    BY <1>3 DEF FateOf
<1>9. FateOf(<<m, 0>>)' = "queued"
    BY <1>3 DEF FateOf
<1>10. Promise!Becomes(m, "new", "queued")
    BY <1>1, <1>5, <1>6, <1>7, <1>8, <1>9, FateIs, OtherFates, BecomesOther
<1>11. Promise!DeliveryNext
    BY <1>10 DEF Promise!DeliveryNext, Promise!Take
<1> QED
    BY <1>2, <1>11 DEF PromiseKept

LEMMA RetryFate ==
    ASSUME FateInv, LastFound, LastFound', NEW j \in Jobs, RetryQueue(j)
    PROVE  PlacesKept /\ PromiseKept
<1>1. PICK m \in Mails, p \in 0 .. MaxRetries : j = <<m, p>>
    BY DEF Jobs
<1> DEFINE k == p + 1
<1>0. /\ OneJobAtATime /\ PendingIsLast /\ OnePlace /\ TypeOK
      /\ <<m, p>> \in retrying
      /\ k \in 0 .. MaxRetries /\ <<m, k>> \in Jobs /\ k > 0 /\ k - 1 = p
      /\ \A l \in 0 .. MaxRetries : <<m, l>> \in Jobs
    BY <1>1, QueueAssumption DEF FateInv, QueueInv, Jobs, QueueAssumption, OnePlace, RetryQueue
<1>2. /\ Enter(<<m, k>>, {"waiting"})
      /\ retrying' = retrying \ {<<m, p>>}
      /\ UNCHANGED <<events, dlq, crashes, exits>>
    BY <1>1 DEF RetryQueue
<1>3. /\ <<m, p>> \notin dlq \cup retrying'
      /\ \A e \in events : e.step = "dead" => e.job # <<m, p>>
    BY <1>0, <1>2 DEF OnePlace
<1>4. /\ job[<<m, p>>].state = "failed"
      /\ \A l \in 0 .. MaxRetries : l > p => job[<<m, l>>].state = "none"
    BY <1>0 DEF PendingIsLast, Pending
<1> HIDE DEF k
<1>5. PlacesKept /\ IsLast(m, k)'
    <2>1. \A l \in 0 .. MaxRetries : l > k => job[<<m, l>>].state = "none"
        BY <1>0, <1>4, QueueAssumption DEF QueueAssumption
    <2>2. Enter(<<m, k>>, {"waiting", "delayed"}) /\ retrying' \subseteq retrying
        BY <1>2 DEF Enter
    <2> QED
        BY <1>0, <1>2, <1>3, <1>4, <2>1, <2>2, EnterKeeps DEF PlacesKept
<1>6. /\ job'[<<m, k>>].state = "waiting"
      /\ \A i \in Jobs \ {<<m, k>>} : job'[i] = job[i]
    BY <1>0, <1>2 DEF Enter, TypeOK, JobRecords
<1>7. IsLast(m, p)
    BY <1>4 DEF IsLast
<1>8. LastJob(m) = <<m, p>>
    BY <1>7 DEF LastFound
<1>9. LastJob(m)' = <<m, k>>
    BY <1>0, <1>5 DEF LastFound
<1>10. FateOf(<<m, p>>) = "queued"
    BY <1>0, <1>3, <1>4 DEF FateOf
<1>11. FateOf(<<m, k>>)' = "queued"
    BY <1>6 DEF FateOf
<1>12. Fate(m)' = Fate(m)
    BY <1>8, <1>9, <1>10, <1>11, FateIs
<1>13. OthersAlone(m)
    BY <1>2, <1>6 DEF OthersAlone
<1>14. UNCHANGED Promise!deliveryVars
    BY <1>2, <1>12, <1>13, OtherFates, NothingSeen
<1> QED
    BY <1>5, <1>14 DEF PromiseKept

LEMMA MoveFate ==
    ASSUME FateInv, LastFound, LastFound', NEW j \in Jobs,
           Promote(j) \/ Pick(j) \/ processEmailJob(j) \/ Complete(j) \/ FailAttempt(j)
             \/ CheckStalled(j)
    PROVE  PlacesKept /\ PromiseKept
<1>1. PICK m \in Mails, k \in 0 .. MaxRetries : j = <<m, k>>
    BY DEF Jobs
<1>0. /\ TypeOK /\ StallsCounted /\ j \in Jobs /\ Sound(j)
      /\ job[j] \in JobRecords /\ job[j].stalls \in Nat /\ job[j].made \in Nat
      /\ crashes \in Nat
    BY QueueAssumption
       DEF FateInv, QueueInv, TypeOK, JobRecords, JobsSound, QueueAssumption
<1>2. job[j].stalls + (IF job[j].state = "orphaned" THEN 1 ELSE 0) <= crashes
    BY <1>0 DEF StallsCounted
<1>3. ASSUME NEW new, Moves(m, k, new),
             job'[j].stalls + (IF job'[j].state = "orphaned" THEN 1 ELSE 0) <= crashes
      PROVE  PlacesKept
    BY <1>1, <1>3, MoveKeeps DEF PlacesKept
<1>4. ASSUME NEW new, Moves(m, k, new), Fate(m)' = "queued"
      PROVE  PromiseKept
    <2>1. UNCHANGED <<crashes, exits>>
        BY <1>4 DEF Moves
    <2> QED
        BY <1>4, <2>1, MoveFates, NothingSeen DEF PromiseKept
<1>5. ASSUME NEW new, Moves(m, k, new), NEW to, Fate(m)' = to,
             to = "sent" \/ (to = "lost" /\ crashes > MaxStalls)
      PROVE  PromiseKept
    <2>1. UNCHANGED <<crashes, exits>>
        BY <1>5 DEF Moves
    <2>2. Promise!Becomes(m, "queued", to)
        BY <1>5, <2>1, MoveFates, BecomesOther
    <2>3. Promise!DeliveryNext
        BY <1>5, <2>2 DEF Promise!DeliveryNext, Promise!Settle, Promise!GiveUp
    <2> QED
        BY <2>3 DEF PromiseKept
<1>6. CASE Promote(j) \/ Pick(j) \/ processEmailJob(j)
    <2>1. PICK s \in {"waiting", "sending", "answered", "refused"} :
              job' = [job EXCEPT ![j].state = s]
        BY <1>6 DEF Promote, Pick, processEmailJob
    <2>2. /\ job'[j].state = s /\ job'[j].stalls = job[j].stalls
          /\ \A i \in Jobs \ {j} : job'[i] = job[i]
        BY <1>0, <2>1 DEF TypeOK, JobRecords
    <2>3. Moves(m, k, {})
        BY <1>1, <1>6, <2>2 DEF Moves, Promote, Pick, processEmailJob, Settled
    <2>4. Fate(m)' = "queued"
        BY <1>1, <2>1, <2>2, <2>3, MoveFates
    <2>5. job'[j].stalls + (IF job'[j].state = "orphaned" THEN 1 ELSE 0) <= crashes
        BY <1>0, <1>2, <2>2
    <2> QED
        BY <1>3, <1>4, <2>3, <2>4, <2>5
<1>7. CASE Complete(j)
    <2> DEFINE new == {Event(j, "completed", job[j].made)}
    <2>1. /\ job'[j].state = "completed" /\ job'[j].stalls = job[j].stalls
          /\ \A i \in Jobs \ {j} : job'[i] = job[i]
        BY <1>0, <1>7 DEF Complete, TypeOK, JobRecords
    <2>2. Moves(m, k, new)
        BY <1>1, <1>7, <2>1 DEF Moves, Complete, Settled, Event
    <2>3. Fate(m)' = "sent"
        BY <1>1, <2>1, <2>2, MoveFates
    <2> HIDE DEF new
    <2>4. job'[j].stalls + (IF job'[j].state = "orphaned" THEN 1 ELSE 0) <= crashes
        BY <1>0, <1>2, <2>1
    <2> QED
        BY <1>3, <1>5, <2>2, <2>3, <2>4
<1>8. CASE FailAttempt(j)
    <2> DEFINE made == job[j].made + 1
               for_good == made >= Attempts
               new == {Event(j, IF for_good THEN "dead" ELSE "failed", made)}
    <2>1. /\ job'[j].state = (IF for_good THEN "failed" ELSE "delayed")
          /\ job'[j].stalls = job[j].stalls
          /\ job[j].state = "refused"
          /\ \A i \in Jobs \ {j} : job'[i] = job[i]
        BY <1>0, <1>8 DEF FailAttempt, TypeOK, JobRecords
    <2>2. for_good => made = Attempts
        BY <1>0, <2>1, QueueAssumption DEF Sound, QueueAssumption
    <2>3. /\ events' = events \cup new
          /\ UNCHANGED <<dlq, retrying, crashes, exits>>
        BY <1>8 DEF FailAttempt
    <2>4. \A e \in new : /\ e.job = j /\ e.made = made
                         /\ e.step = (IF for_good THEN "dead" ELSE "failed")
        BY DEF Event
    <2>5. for_good => \E e \in new : e.step = "dead"
        BY DEF Event
    <2> HIDE DEF new, for_good, made
    <2>6. Moves(m, k, new)
        BY <1>1, <2>1, <2>2, <2>3, <2>4 DEF Moves, Settled
    <2>7. Fate(m)' = "queued"
        BY <1>1, <2>1, <2>5, <2>6, MoveFates
    <2>8. job'[j].stalls + (IF job'[j].state = "orphaned" THEN 1 ELSE 0) <= crashes
        BY <1>0, <1>2, <2>1
    <2> QED
        BY <1>3, <1>4, <2>6, <2>7, <2>8
<1>9. CASE CheckStalled(j)
    <2> DEFINE stalls == job[j].stalls + 1
               for_good == stalls > MaxStalls
               new == IF for_good THEN {Event(j, "failed", job[j].made)} ELSE {}
    <2>1. /\ job'[j].state = (IF for_good THEN "failed" ELSE "waiting")
          /\ job'[j].stalls = stalls
          /\ job[j].state = "orphaned"
          /\ \A i \in Jobs \ {j} : job'[i] = job[i]
        BY <1>0, <1>9 DEF CheckStalled, TypeOK, JobRecords
    <2>2. for_good => crashes > MaxStalls
        BY <1>0, <1>2, <2>1, QueueAssumption DEF QueueAssumption
    <2>3. /\ events' = events \cup new
          /\ UNCHANGED <<dlq, retrying, crashes, exits>>
        BY <1>9 DEF CheckStalled
    <2>4. \A e \in new : e.job = j /\ e.step = "failed"
        BY DEF Event
    <2>5. job'[j].stalls + (IF job'[j].state = "orphaned" THEN 1 ELSE 0) <= crashes
        BY <1>0, <1>2, <2>1
    <2> HIDE DEF new, for_good, stalls
    <2>6. Moves(m, k, new)
        BY <1>1, <2>1, <2>3, <2>4 DEF Moves, Settled
    <2>7. Fate(m)' = IF for_good THEN "lost" ELSE "queued"
        BY <1>1, <2>1, <2>4, <2>6, MoveFates
    <2> QED
        BY <1>3, <1>4, <1>5, <2>2, <2>5, <2>6, <2>7
<1> QED
    BY <1>6, <1>7, <1>8, <1>9
LEMMA HandlerFate ==
    ASSUME FateInv, LastFound, LastFound', HandlerStep
    PROVE  PlacesKept /\ PromiseKept
<1>0. /\ OneJobAtATime /\ PendingIsLast /\ OnePlace /\ StallsCounted /\ HasLast
      /\ TypeOK /\ EventsHold
    BY DEF FateInv, QueueInv
<1>1. PICK e \in events : DeadLetter(e) \/ recordDeliveryLog(e)
    BY DEF HandlerStep
<1>2. UNCHANGED <<job, retrying, crashes, exits>>
    BY <1>1 DEF DeadLetter, recordDeliveryLog
<1>3. OneJobAtATime' /\ StallsCounted' /\ HasLast'
    BY <1>0, <1>2 DEF OneJobAtATime, StallsCounted, HasLast, IsLast
<1>4. CASE recordDeliveryLog(e)
    <2>1. e.step # "dead" /\ dlq' = dlq /\ events' = events \ {e}
        BY <1>4 DEF recordDeliveryLog
    <2>2. \A j : Pending(j)' <=> Pending(j)
        BY <1>2, <2>1 DEF Pending
    <2>3. PendingIsLast' /\ OnePlace'
        BY <1>0, <1>2, <2>1, <2>2 DEF PendingIsLast, OnePlace
    <2>4. \A m \in Mails : Fate(m)' = Fate(m)
        BY <1>2, <2>1, <2>2, SameFate
    <2> QED
        BY <1>2, <1>3, <2>3, <2>4, NothingSeen DEF PlacesKept, PromiseKept
<1>5. CASE DeadLetter(e)
    <2>1. /\ e.step = "dead" /\ dlq' = dlq \cup {e.job}
          /\ events' = (events \ {e}) \cup {[e EXCEPT !.step = "buried"]}
          /\ e \in Events /\ e.job \in Jobs /\ e.made = Attempts
        BY <1>0, <1>1, <1>5 DEF DeadLetter, TypeOK, Events, OnePlace
    <2>2. PICK m \in Mails, k \in 0 .. MaxRetries : e.job = <<m, k>>
        BY <2>1 DEF Jobs
    <2>3. /\ [e EXCEPT !.step = "buried"].step = "buried"
          /\ [e EXCEPT !.step = "buried"].job = <<m, k>>
        BY <2>1, <2>2 DEF Events
    <2>4. \A d \in events : d.step = "dead" /\ d.job = <<m, k>> => d = e
        BY <1>0, <2>1, <2>2 DEF TypeOK, Events, OnePlace
    <2>5. \A d \in events' : d.step = "dead" => d \in events /\ d.job # <<m, k>>
        BY <2>1, <2>3, <2>4
    <2>6. Pending(<<m, k>>) /\ <<m, k>> \notin dlq
        BY <1>0, <1>1, <2>1, <2>2 DEF Pending, OnePlace
    <2>7. \A j : Pending(j)' => Pending(j)
        BY <1>2, <2>1, <2>2, <2>5, <2>6 DEF Pending
    <2>8. PendingIsLast'
        BY <1>0, <1>2, <2>7 DEF PendingIsLast
    <2>9. OnePlace'
        <3>1. <<m, k>> \notin retrying
            BY <1>0, <1>1, <2>1, <2>2 DEF OnePlace
        <3> QED
            BY <1>0, <1>2, <2>1, <2>2, <2>5, <3>1 DEF OnePlace
    <2>10. IsLast(m, k) /\ IsLast(m, k)' /\ job[<<m, k>>].state = "failed"
        BY <1>0, <1>2, <2>6 DEF PendingIsLast, IsLast
    <2>11. LastJob(m) = <<m, k>>
        BY <2>10 DEF LastFound
    <2>12. LastJob(m)' = <<m, k>>
        BY <2>10 DEF LastFound
    <2>13. FateOf(<<m, k>>) = "queued"
        BY <2>6, <2>10 DEF FateOf, Pending
    <2>14. FateOf(<<m, k>>)' = "dead"
        BY <1>2, <2>1, <2>2, <2>10 DEF FateOf
    <2>15. OthersAlone(m)
        <3>1. \A i \in Jobs : i[1] # m => i # <<m, k>>
            OBVIOUS
        <3>2. \A d \in events \cup events' :
                  d.job # <<m, k>> => (d \in events <=> d \in events')
            BY <2>1, <2>2, <2>3
        <3> QED
            BY <1>2, <2>1, <2>2, <3>1, <3>2 DEF OthersAlone
    <2>16. Promise!Becomes(m, "queued", "dead")
        BY <1>2, <2>11, <2>12, <2>13, <2>14, <2>15, FateIs, OtherFates, BecomesOther
    <2>17. Promise!DeliveryNext
        BY <2>16 DEF Promise!DeliveryNext, Promise!Settle
    <2> QED
        BY <1>3, <2>8, <2>9, <2>17 DEF PlacesKept, PromiseKept
<1> QED
    BY <1>1, <1>4, <1>5

LEMMA TakeFate ==
    ASSUME FateInv, LastFound, LastFound', NEW j \in Jobs, RetryTake(j)
    PROVE  PlacesKept /\ PromiseKept
<1>0. /\ OneJobAtATime /\ PendingIsLast /\ OnePlace /\ StallsCounted /\ HasLast
    BY DEF FateInv
<1>1. PICK m \in Mails, k \in 0 .. MaxRetries : j = <<m, k>>
    BY DEF Jobs
<1>2. /\ j \in dlq /\ j[2] < MaxRetries
      /\ dlq' = dlq \ {j} /\ retrying' = retrying \cup {j}
      /\ UNCHANGED <<job, events, crashes, exits>>
    BY DEF RetryTake
<1>3. OneJobAtATime' /\ StallsCounted' /\ HasLast'
    BY <1>0, <1>2 DEF OneJobAtATime, StallsCounted, HasLast, IsLast
<1>4. \A i : Pending(i)' => Pending(i)
    BY <1>2 DEF Pending
<1>5. PendingIsLast'
    BY <1>0, <1>2, <1>4 DEF PendingIsLast
<1>6. OnePlace'
    BY <1>0, <1>2 DEF OnePlace
<1>7. IsLast(m, k) /\ IsLast(m, k)' /\ job[<<m, k>>].state = "failed"
    BY <1>0, <1>1, <1>2 DEF PendingIsLast, Pending, IsLast
<1>8. LastJob(m) = <<m, k>>
    BY <1>7 DEF LastFound
<1>9. LastJob(m)' = <<m, k>>
    BY <1>7 DEF LastFound
<1>10. FateOf(<<m, k>>) = "dead"
    BY <1>1, <1>2, <1>7 DEF FateOf
<1>11. FateOf(<<m, k>>)' = "queued"
    BY <1>1, <1>2, <1>7 DEF FateOf
<1>12. OthersAlone(m)
    BY <1>1, <1>2 DEF OthersAlone
<1>13. Promise!Becomes(m, "dead", "queued")
    BY <1>2, <1>8, <1>9, <1>10, <1>11, <1>12, FateIs, OtherFates, BecomesOther
<1>14. Promise!DeliveryNext
    BY <1>13 DEF Promise!DeliveryNext, Promise!Revive
<1> QED
    BY <1>3, <1>5, <1>6, <1>14 DEF PlacesKept, PromiseKept

(* The process ends, and with it what its handlers and retries had to do.  *)
LEMMA StopFate ==
    ASSUME FateInv, LastFound, LastFound', Crash \/ Exit
    PROVE  PlacesKept /\ PromiseKept
<1>0. /\ OneJobAtATime /\ PendingIsLast /\ OnePlace /\ StallsCounted /\ HasLast
      /\ TypeOK /\ crashes \in Nat
      /\ \A m \in Mails, k \in 0 .. MaxRetries : <<m, k>> \in Jobs
    BY QueueAssumption DEF FateInv, QueueInv, TypeOK, QueueAssumption, Jobs
<1>1. /\ events' = {} /\ retrying' = {} /\ dlq' = dlq
      /\ job' = [j \in Jobs |-> IF j \in WithWorker
                                THEN [job[j] EXCEPT !.state = "orphaned"] ELSE job[j]]
    BY DEF Crash, Exit, Stop
<1>2. \/ crashes' = crashes + 1 /\ UNCHANGED exits
      \/ exits' = exits + 1 /\ UNCHANGED crashes /\ WithWorker = {}
    BY DEF Crash, Exit
<1>3. ASSUME NEW j \in Jobs
      PROVE  /\ job'[j].stalls = job[j].stalls /\ job[j].stalls \in Nat
             /\ job[j].state \in {"sending", "answered", "refused"} =>
                    job'[j].state = "orphaned" /\ j \in WithWorker
             /\ job[j].state \notin {"sending", "answered", "refused"} =>
                    job'[j].state = job[j].state
    BY <1>0, <1>1 DEF TypeOK, JobRecords, WithWorker
<1>4. \A m \in Mails, k \in 0 .. MaxRetries :
          /\ job'[<<m, k>>].state = "none" <=> job[<<m, k>>].state = "none"
          /\ job'[<<m, k>>].state = "failed" <=> job[<<m, k>>].state = "failed"
    BY <1>0, <1>3
<1>5. OneJobAtATime' /\ HasLast'
    BY <1>0, <1>4 DEF OneJobAtATime, HasLast, IsLast
<1>6. PendingIsLast' /\ OnePlace'
    BY <1>0, <1>1, <1>4 DEF PendingIsLast, Pending, OnePlace
<1>7. StallsCounted'
    <2> SUFFICES ASSUME NEW j \in Jobs
                 PROVE  job'[j].stalls + (IF job'[j].state = "orphaned" THEN 1 ELSE 0)
                            <= crashes'
        BY DEF StallsCounted
    <2>1. job[j].stalls + (IF job[j].state = "orphaned" THEN 1 ELSE 0) <= crashes
        BY <1>0 DEF StallsCounted
    <2> QED
        BY <1>0, <1>2, <1>3, <2>1
<1> DEFINE S == {m \in Mails : Fate(m) = "queued" /\ Fate(m)' = "lost"}
<1>8. ASSUME NEW m \in Mails
      PROVE  Fate(m)' = Fate(m) \/ (Fate(m) = "queued" /\ Fate(m)' = "lost")
    <2>1. PICK k \in 0 .. MaxRetries : IsLast(m, k)
        BY <1>0 DEF HasLast
    <2>2. IsLast(m, k)'
        BY <1>4, <2>1 DEF IsLast
    <2>3. LastJob(m) = <<m, k>>
        BY <2>1 DEF LastFound
    <2>4. LastJob(m)' = <<m, k>>
        BY <2>2 DEF LastFound
    <2>5. FateOf(<<m, k>>)' = FateOf(<<m, k>>)
          \/ (FateOf(<<m, k>>) = "queued" /\ FateOf(<<m, k>>)' = "lost")
        <3>1. <<m, k>> \in Jobs
            BY <1>0
        <3>2. CASE job[<<m, k>>].state = "failed"
            BY <1>1, <1>3, <3>1, <3>2 DEF FateOf
        <3>3. CASE job[<<m, k>>].state # "failed"
            BY <1>3, <3>1, <3>3 DEF FateOf
        <3> QED
            BY <3>2, <3>3
    <2> QED
        BY <2>3, <2>4, <2>5, FateIs
<1>9. FateMap' = [m \in Mails |-> IF m \in S THEN "lost" ELSE FateMap[m]]
    BY <1>8 DEF FateMap
<1>10. S \in SUBSET {m \in Mails : FateMap[m] = "queued"}
    BY DEF FateMap
<1> HIDE DEF S
<1>11. Promise!End
    <2>1. \E T \in SUBSET {m \in Mails : FateMap[m] = "queued"} :
              FateMap' = [m \in Mails |-> IF m \in T THEN "lost" ELSE FateMap[m]]
        BY <1>9, <1>10
    <2> QED
        BY <1>2, <2>1 DEF Promise!End, FateMap, Fate
<1>12. Promise!DeliveryNext
    BY <1>11 DEF Promise!DeliveryNext
<1> QED
    BY <1>5, <1>6, <1>7, <1>12 DEF PlacesKept, PromiseKept

-----------------------------------------------------------------------------
LEMMA FateStep ==
    ASSUME FateInv, QueueInv', LastFound, LastFound', [Next]_queueVars
    PROVE  FateInv' /\ PromiseKept
<1>1. PlacesKept /\ PromiseKept
    <2>1. ASSUME UNCHANGED <<job, events, dlq, retrying, crashes, exits>>
          PROVE  PlacesKept /\ PromiseKept
        <3>1. PlacesKept
            BY <2>1 DEF FateInv, PlacesKept, OneJobAtATime, PendingIsLast, Pending, OnePlace,
                        StallsCounted, HasLast, IsLast
        <3>2. \A m \in Mails : Fate(m)' = Fate(m)
            BY <2>1, SameFate DEF Pending
        <3> QED
            BY <2>1, <3>1, <3>2, NothingSeen DEF PromiseKept
    <2>2. CASE Signal \/ CloseQueue \/ Start
        BY <2>1, <2>2 DEF Signal, CloseQueue, Start
    <2>3. CASE UNCHANGED queueVars
        BY <2>1, <2>3 DEF queueVars
    <2>4. ASSUME NEW j \in Jobs, JobStep(j) PROVE PlacesKept /\ PromiseKept
        BY <2>4, MoveFate, RetryFate DEF JobStep
    <2> QED
        BY <2>2, <2>3, <2>4, QueueFate, HandlerFate, TakeFate, StopFate DEF Next, Work
<1> QED
    BY <1>1 DEF FateInv, PlacesKept

(* No interleaving of workers, handlers, retries and restarts does to a    *)
(* mail what the queue does not promise: a mail is lost only when the      *)
(* process ends or after more crashes than stalls are tolerated, and only  *)
(* a mail that was set aside as dead is revived.  (That it is sent or set  *)
(* aside in the end is left to the model checker.)                         *)
THEOREM KeepsPromise == Spec => Promise!DeliverySafety
<1>1. Init => Promise!DeliveryInit /\ OneJobAtATime /\ PendingIsLast /\ OnePlace
                  /\ StallsCounted /\ HasLast
    <2> SUFFICES ASSUME Init
                 PROVE  Promise!DeliveryInit /\ OneJobAtATime /\ PendingIsLast /\ OnePlace
                            /\ StallsCounted /\ HasLast
        OBVIOUS
    <2>1. \A m \in Mails, k \in 0 .. MaxRetries :
              <<m, k>> \in Jobs /\ job[<<m, k>>].state = "none"
        BY DEF Init, Jobs
    <2>2. 0 \in 0 .. MaxRetries /\ \A m \in Mails : IsLast(m, 0)
        BY <2>1, QueueAssumption DEF IsLast, QueueAssumption
    <2>3. \A m \in Mails : LastJob(m) = <<m, 0>>
        BY <2>2, LastChoice DEF LastFound
    <2>4. \A m \in Mails : FateOf(LastJob(m)) = "new"
        BY <2>1, <2>2, <2>3 DEF FateOf
    <2>5. Promise!DeliveryInit
        BY <2>4 DEF Init, Promise!DeliveryInit
    <2>6. OneJobAtATime /\ HasLast
        BY <2>1, <2>2, <2>3 DEF OneJobAtATime, HasLast
    <2>7. PendingIsLast /\ OnePlace /\ StallsCounted
        BY DEF Init, PendingIsLast, Pending, OnePlace, StallsCounted
    <2> QED
        BY <2>5, <2>6, <2>7
<1>2. QueueInv /\ Init => FateInv
    BY <1>1 DEF FateInv
<1>3. FateInv /\ QueueInv' /\ LastFound /\ LastFound' /\ [Next]_queueVars =>
          FateInv' /\ [Promise!DeliveryNext]_(Promise!deliveryVars)
    BY FateStep DEF PromiseKept
<1> QED
    BY <1>1, <1>2, <1>3, LastChoice, QueueInvariant, PTL
    DEF Spec, Promise!DeliverySafety

-----------------------------------------------------------------------------
(* Onboarding: every step of the whole is a step of the queue or leaves it *)
(* alone, and the same of the registrations.                               *)
LEMMA StepOfEach ==
    ASSUME [OnboardingNext]_vars
    PROVE  [Next]_queueVars /\ [Register!Next]_regVars
<1>1. ASSUME NEW r \in Mails, Serve(r) PROVE Register!Next /\ UNCHANGED queueVars
    BY <1>1 DEF Serve, Register!Next
<1>2. ASSUME NEW r \in Mails, Welcome(r) PROVE Register!Next /\ Next
    BY <1>2 DEF Welcome, Register!Next, Next
<1>3. Deliver => Next /\ UNCHANGED regVars
    BY DEF Deliver, Next
<1>4. ServerSignal \/ Drained \/ Insist \/ ServerStart => Next /\ UNCHANGED regVars
    BY DEF ServerSignal, Drained, Insist, ServerStart, Next
<1>5. ServerExit \/ ServerCrash => Next /\ Register!Next
    BY DEF ServerExit, ServerCrash, Next, Register!Next
<1>6. UNCHANGED vars => UNCHANGED queueVars /\ UNCHANGED regVars
    BY DEF vars
<1> QED
    BY <1>1, <1>2, <1>3, <1>4, <1>5, <1>6 DEF OnboardingNext

(* Put together in one process, the queue is still a queue and the         *)
(* registrations are still registrations: neither does anything it would   *)
(* not do by itself.                                                       *)
THEOREM ComponentsKept == OnboardingSpec => Spec /\ Register!Spec
<1>1. OnboardingInit => Init /\ Register!Init
    BY DEF OnboardingInit
<1>2. [OnboardingNext]_vars => [Next]_queueVars /\ [Register!Next]_(Register!regVars)
    BY StepOfEach DEF regVars, Register!regVars
<1> QED
    BY <1>1, <1>2, PTL DEF OnboardingSpec, Spec, Register!Spec

-----------------------------------------------------------------------------
Reg == [pc : Register!Steps, slug : Slugs, email : Emails]

RegTyped ==
    /\ tenant \in [Mails -> Register!Tenant \cup {None}]
    /\ reg \in [Mails -> Reg]
    /\ client \in [Mails -> BOOLEAN]

(* Only a request whose transaction has been committed has a tenant.       *)
CreatedLate ==
    \A r \in Register!Created : reg[r].pc \in {"welcome", "done", "unwelcomed", "cut"}

(* A request that has looked its address up alone is right until it        *)
(* commits: nobody else can have created a tenant with it meanwhile.       *)
StillFree ==
    \A r \in Mails : (reg[r].pc = "commit" /\ reg[r].email \in LoneEmails) =>
        \A t \in Register!Created : tenant[t].email # reg[r].email

(* EmailUniqueAlone by itself is not inductive: the address is looked up   *)
(* long before the tenant is created.                                      *)
AloneInv ==
    RegTyped /\ CreatedLate /\ Register!OneAtATime /\ StillFree /\ EmailUniqueAlone

(* One request moves to another step.                                      *)
LEMMA RegGoto ==
    ASSUME RegTyped, NEW r \in Mails, NEW step \in Register!Steps, Register!Goto(r, step)
    PROVE  /\ reg' \in [Mails -> Reg]
           /\ reg'[r].pc = step /\ reg'[r].email = reg[r].email
           /\ \A q \in Mails \ {r} : reg'[q] = reg[q]
<1>1. [reg[r] EXCEPT !.pc = step] \in Reg
    BY DEF RegTyped, Reg
<1> QED
    BY <1>1 DEF RegTyped, Register!Goto, Reg

(* Steps that create no tenant, and bring nobody to commit.                *)
LEMMA NothingCreated ==
    ASSUME AloneInv, UNCHANGED tenant, RegTyped', Register!OneAtATime',
           \A q \in Mails :
               \/ reg'[q] = reg[q]
               \/ reg'[q].pc # "commit" /\ tenant[q] = None
               \/ reg'[q].pc \in {"done", "unwelcomed", "cut"}
    PROVE  AloneInv'
<1>1. Register!Created' = Register!Created
    BY DEF Register!Created
<1>2. CreatedLate'
    BY <1>1 DEF AloneInv, CreatedLate, Register!Created
<1>3. StillFree'
    BY <1>1 DEF AloneInv, StillFree
<1>4. EmailUniqueAlone'
    BY <1>1 DEF AloneInv, EmailUniqueAlone, Register!EmailUniqueAlone
<1> QED
    BY <1>2, <1>3, <1>4 DEF AloneInv

(* Every step of a registration keeps the invariant.                       *)
LEMMA AloneStep ==
    ASSUME AloneInv, [Register!Next]_regVars
    PROVE  AloneInv'
<1>0. RegTyped /\ CreatedLate /\ Register!OneAtATime
    BY DEF AloneInv
<1>1. ASSUME NEW r \in Mails, Register!OneAtATime',
             Register!CheckSlug(r) \/ Register!CheckEmail(r) \/ Register!Commit(r)
                 \/ Register!NoWelcome(r) \/ Register!Fail(r) \/ Register!Leave(r)
      PROVE  AloneInv'
    <2>1. CASE Register!CheckSlug(r)
        <3>1. PICK s \in Slugs, e \in Emails :
                  reg' = [reg EXCEPT ![r] = [pc |-> "email", slug |-> s, email |-> e]]
            BY <2>1 DEF Register!CheckSlug
        <3>2. /\ reg[r].pc = "idle" /\ UNCHANGED tenant
              /\ client' = [client EXCEPT ![r] = TRUE]
            BY <2>1 DEF Register!CheckSlug
        <3>3. [pc |-> "email", slug |-> s, email |-> e] \in Reg
            BY DEF Reg, Register!Steps
        <3>4. /\ RegTyped' /\ reg'[r].pc = "email"
              /\ \A q \in Mails \ {r} : reg'[q] = reg[q]
            BY <1>0, <3>1, <3>2, <3>3 DEF RegTyped
        <3>5. tenant[r] = None
            BY <1>0, <3>2 DEF CreatedLate, Register!Created
        <3> QED
            BY <1>1, <3>2, <3>4, <3>5, NothingCreated
    <2>2. CASE Register!CheckEmail(r)
        <3>1. /\ reg[r].pc = "email" /\ UNCHANGED <<tenant, client>>
              /\ \A t \in Register!Created : tenant[t].email # reg[r].email
              /\ Register!Goto(r, "commit") /\ "commit" \in Register!Steps
            BY <2>2 DEF Register!CheckEmail, Register!Steps
        <3>2. /\ reg' \in [Mails -> Reg]
              /\ reg'[r].pc = "commit" /\ reg'[r].email = reg[r].email
              /\ \A q \in Mails \ {r} : reg'[q] = reg[q]
            BY <1>0, <3>1, RegGoto
        <3>3. RegTyped' /\ Register!Created' = Register!Created /\ r \notin Register!Created
            BY <1>0, <3>1, <3>2 DEF RegTyped, Register!Created, CreatedLate
        <3>4. CreatedLate' /\ StillFree' /\ EmailUniqueAlone'
            BY <3>1, <3>2, <3>3 DEF AloneInv, CreatedLate, StillFree, EmailUniqueAlone,
                                    Register!EmailUniqueAlone, Register!Created
        <3> QED
            BY <1>1, <3>3, <3>4 DEF AloneInv
    <2>3. CASE Register!Commit(r) /\ UNCHANGED tenant
        <3>1. /\ reg[r].pc = "commit" /\ "failed" \in Register!Steps
              /\ Register!Goto(r, "failed") \/ tenant'[r] # None
            BY <1>0, <2>3, OnboardingAssumption
               DEF Register!Commit, Register!Answer, Register!Steps, RegTyped, Register!Tenant,
                   Reg
        <3>2. tenant[r] = None
            BY <1>0, <3>1 DEF CreatedLate, Register!Created
        <3>3. /\ reg' \in [Mails -> Reg] /\ reg'[r].pc = "failed"
              /\ \A q \in Mails \ {r} : reg'[q] = reg[q]
            BY <1>0, <2>3, <3>1, <3>2, RegGoto
        <3>4. RegTyped'
            BY <1>0, <2>3, <3>3 DEF RegTyped, Register!Commit, Register!Answer
        <3> QED
            BY <1>1, <2>3, <3>2, <3>3, <3>4, NothingCreated
    <2>4. CASE Register!Commit(r) /\ tenant' # tenant
        <3> DEFINE new == [slug |-> reg[r].slug, email |-> reg[r].email]
        <3>1. /\ reg[r].pc = "commit" /\ tenant' = [tenant EXCEPT ![r] = new]
              /\ Register!Goto(r, "welcome") /\ UNCHANGED client
              /\ "welcome" \in Register!Steps
            BY <2>4 DEF Register!Commit, Register!Steps
        <3>2. /\ reg' \in [Mails -> Reg] /\ reg'[r].pc = "welcome"
              /\ \A q \in Mails \ {r} : reg'[q] = reg[q]
            BY <1>0, <3>1, RegGoto
        <3>3. new \in Register!Tenant /\ new # None /\ new.email = reg[r].email
            BY <1>0, OnboardingAssumption DEF RegTyped, Reg, Register!Tenant
        <3> HIDE DEF new
        <3>4. /\ RegTyped' /\ tenant'[r] = new
              /\ \A q \in Mails \ {r} : tenant'[q] = tenant[q]
              /\ Register!Created' = Register!Created \cup {r}
              /\ r \notin Register!Created
            BY <1>0, <3>1, <3>2, <3>3 DEF RegTyped, Register!Created, CreatedLate
        <3>5. CreatedLate'
            BY <1>0, <3>2, <3>4 DEF CreatedLate, Register!Created
        <3>6. StillFree'
            <4> SUFFICES ASSUME NEW q \in Mails, reg'[q].pc = "commit",
                                reg'[q].email \in LoneEmails, NEW t \in Register!Created'
                         PROVE  tenant'[t].email # reg'[q].email
                BY DEF StillFree
            <4>1. q # r /\ reg'[q] = reg[q]
                BY <3>2
            <4>2. reg[q].email # reg[r].email
                BY <1>0, <3>1, <4>1 DEF Register!OneAtATime
            <4>3. CASE t = r
                BY <3>3, <3>4, <4>1, <4>2, <4>3
            <4>4. CASE t \in Register!Created
                BY <3>4, <4>1, <4>4 DEF AloneInv, StillFree, Register!Created
            <4> QED
                BY <3>4, <4>3, <4>4
        <3>7. EmailUniqueAlone'
            <4> SUFFICES ASSUME NEW q \in Register!Created', NEW t \in Register!Created',
                                tenant'[q].email = tenant'[t].email,
                                tenant'[t].email \in LoneEmails
                         PROVE  q = t
                BY DEF EmailUniqueAlone, Register!EmailUniqueAlone
            <4>1. new.email \in LoneEmails =>
                      \A p \in Register!Created : tenant'[p].email # new.email
                BY <3>1, <3>3, <3>4 DEF AloneInv, StillFree, Register!Created
            <4>2. CASE q \in Register!Created /\ t \in Register!Created
                BY <3>4, <4>2 DEF AloneInv, EmailUniqueAlone, Register!EmailUniqueAlone,
                                  Register!Created
            <4> QED
                BY <3>4, <4>1, <4>2
        <3> QED
            BY <1>1, <3>4, <3>5, <3>6, <3>7 DEF AloneInv
    <2>5. CASE Register!NoWelcome(r) \/ Register!Fail(r)
        <3>1. PICK step \in {"unwelcomed", "failed"} :
                  /\ Register!Answer(r, step) /\ UNCHANGED tenant
                  /\ step = "failed" => reg[r].pc \in {"email", "commit"}
            BY <2>5 DEF Register!NoWelcome, Register!Fail
        <3>2. /\ reg' \in [Mails -> Reg] /\ reg'[r].pc = step
              /\ \A q \in Mails \ {r} : reg'[q] = reg[q]
            BY <1>0, <3>1, RegGoto DEF Register!Answer, Register!Steps
        <3>3. RegTyped'
            BY <1>0, <3>1, <3>2 DEF RegTyped, Register!Answer
        <3>4. step = "failed" => tenant[r] = None
            BY <1>0, <3>1 DEF CreatedLate, Register!Created
        <3> QED
            BY <1>1, <3>1, <3>2, <3>3, <3>4, NothingCreated
    <2>6. CASE Register!Leave(r)
        <3>1. RegTyped' /\ UNCHANGED <<tenant, reg>>
            BY <1>0, <2>6 DEF RegTyped, Register!Leave
        <3> QED
            BY <1>1, <3>1, NothingCreated
    <2> QED
        BY <1>1, <2>1, <2>2, <2>3, <2>4, <2>5, <2>6
<1>2. ASSUME NEW r \in Mails, Register!Welcome(r) PROVE AloneInv'
    <2>1. Register!Goto(r, "done") /\ UNCHANGED tenant /\ "done" \in Register!Steps
        BY <1>2 DEF Register!Welcome, Register!Answer, Register!Steps
    <2>2. /\ reg' \in [Mails -> Reg] /\ reg'[r].pc = "done"
          /\ \A q \in Mails \ {r} : reg'[q] = reg[q]
        BY <1>0, <2>1, RegGoto
    <2>3. RegTyped'
        BY <1>0, <1>2, <2>2 DEF RegTyped, Register!Welcome, Register!Answer
    <2>4. Register!OneAtATime'
        BY <1>0, <2>2 DEF Register!OneAtATime
    <2> QED
        BY <2>1, <2>2, <2>3, <2>4, NothingCreated
<1>3. CASE Register!CutOff
    <2>1. /\ reg' \in [Mails -> Reg] /\ UNCHANGED <<tenant, client>>
          /\ \A q \in Mails : reg'[q] = reg[q] \/ reg'[q].pc = "cut"
        BY <1>0, <1>3 DEF Register!CutOff, RegTyped, Reg, Register!Steps
    <2>2. RegTyped' /\ Register!OneAtATime'
        BY <1>0, <2>1 DEF RegTyped, Register!OneAtATime
    <2> QED
        BY <2>1, <2>2, NothingCreated
<1>4. CASE UNCHANGED regVars
    <2>1. UNCHANGED <<tenant, reg, client>>
        BY <1>4 DEF regVars
    <2>2. RegTyped' /\ Register!OneAtATime'
        BY <1>0, <2>1 DEF RegTyped, Register!OneAtATime
    <2> QED
        BY <2>1, <2>2, NothingCreated
<1> QED
    BY <1>1, <1>2, <1>3, <1>4 DEF Register!Next, Register!Step

LEMMA AloneInvariant == OnboardingSpec => []AloneInv
<1>1. OnboardingInit => AloneInv
    <2> SUFFICES ASSUME OnboardingInit PROVE AloneInv
        OBVIOUS
    <2>1. PICK s \in Slugs, e \in Emails :
              /\ tenant = [r \in Mails |-> None]
              /\ reg = [r \in Mails |-> [pc |-> "idle", slug |-> s, email |-> e]]
              /\ client = [r \in Mails |-> FALSE]
        BY DEF OnboardingInit, Register!Init
    <2>2. RegTyped /\ Register!Created = {}
        BY <2>1 DEF RegTyped, Reg, Register!Steps, Register!Created
    <2> QED
        BY <2>1, <2>2 DEF AloneInv, CreatedLate, Register!OneAtATime, StillFree,
                          EmailUniqueAlone, Register!EmailUniqueAlone
<1>2. AloneInv /\ [OnboardingNext]_vars => AloneInv'
    BY StepOfEach, AloneStep
<1> QED
    BY <1>1, <1>2, PTL DEF OnboardingSpec

(* An address that is not registered by overlapping requests owns one      *)
(* tenant, however long the password is hashed between the lookup and the  *)
(* creation, and whatever else is created meanwhile.                       *)
THEOREM AddressesUnique == OnboardingSpec => []EmailUniqueAlone
<1>1. AloneInv => EmailUniqueAlone
    BY DEF AloneInv
<1> QED
    BY <1>1, AloneInvariant, PTL

-----------------------------------------------------------------------------
(* Nothing has gone wrong that a graceful stop does not answer for.        *)
Smooth == crashes = 0 /\ ~ insisted

NoneOrphaned == crashes = 0 => \A j \in Jobs : job[j].state # "orphaned" /\ job[j].stalls = 0

(* The queues close when no client is left, and then nobody comes; so a    *)
(* handler that the exit cuts off has lost its client before.              *)
ClosedAlone ==
    Smooth => /\ phase \in {"closing", "down"} => \A r \in Mails : ~ client[r]
              /\ \A r \in Mails : reg[r].pc = "cut" => ~ client[r]

(* A handler that has answered as if the mail was queued has queued it.    *)
Welcomed == \A r \in Mails : reg[r].pc = "done" => job[<<r, 0>>].state # "none"

(* GracefulStop is about what is left in the end; it depends on the order  *)
(* in which the server closes.                                             *)
GracefulInv == NoneOrphaned /\ ClosedAlone /\ Welcomed

(* A job never goes back to where it was not queued, and only a process    *)
(* that ends with work in its hands leaves orphans.                        *)
LEMMA JobsGoOn ==
    ASSUME TypeOK, TypeOK', NoneOrphaned, [Next]_queueVars
    PROVE  /\ NoneOrphaned'
           /\ \A j \in Jobs : job[j].state # "none" => job'[j].state # "none"
           /\ crashes' = 0 => crashes = 0
<1>1. ASSUME UNCHANGED <<job, crashes>>
      PROVE  /\ NoneOrphaned' /\ crashes' = crashes
             /\ \A j \in Jobs : job[j].state # "none" => job'[j].state # "none"
    BY <1>1 DEF NoneOrphaned
<1>2. ASSUME NEW i \in Jobs, NEW x, crashes' = crashes, job' = [job EXCEPT ![i] = x],
             x.state # "none", crashes = 0 => x.state # "orphaned" /\ x.stalls = 0
      PROVE  /\ NoneOrphaned' /\ crashes' = crashes
             /\ \A j \in Jobs : job[j].state # "none" => job'[j].state # "none"
    BY <1>2 DEF NoneOrphaned, TypeOK
<1>3. ASSUME NEW i, NEW states \in SUBSET {"waiting", "delayed"}, Enter(i, states),
             crashes' = crashes
      PROVE  /\ NoneOrphaned' /\ crashes' = crashes
             /\ \A j \in Jobs : job[j].state # "none" => job'[j].state # "none"
    <2>1. PICK s \in states : job' = [job EXCEPT ![i].state = s]
        BY <1>3 DEF Enter
    <2>2. CASE i \in Jobs
        <3> DEFINE x == [job[i] EXCEPT !.state = s]
        <3>1. job[i] \in JobRecords
            BY <2>2 DEF TypeOK
        <3>2. /\ job' = [job EXCEPT ![i] = x] /\ x.state # "none"
              /\ crashes = 0 => x.state # "orphaned" /\ x.stalls = 0
            BY <2>1, <2>2, <3>1 DEF NoneOrphaned, JobRecords
        <3> HIDE DEF x
        <3> QED
            BY <1>2, <1>3, <2>2, <3>2
    <2>3. CASE i \notin Jobs
        BY <1>1, <1>3, <2>1, <2>3 DEF TypeOK
    <2> QED
        BY <2>2, <2>3
<1>4. ASSUME NEW j \in Jobs, JobStep(j)
      PROVE  /\ NoneOrphaned' /\ crashes' = crashes
             /\ \A k \in Jobs : job[k].state # "none" => job'[k].state # "none"
    <2>1. job[j] \in JobRecords
        BY DEF TypeOK
    <2>2. CASE RetryQueue(j)
        BY <1>3, <2>2 DEF RetryQueue
    <2>3. ASSUME ~ RetryQueue(j)
          PROVE  /\ crashes' = crashes
                 /\ \E x : /\ job' = [job EXCEPT ![j] = x]
                           /\ x.state # "none"
                           /\ crashes = 0 => x.state # "orphaned" /\ x.stalls = 0
        <3>1. CASE Promote(j) \/ Pick(j) \/ processEmailJob(j) \/ Complete(j)
            <4>1. PICK s \in {"waiting", "sending", "answered", "refused", "completed"} :
                      job' = [job EXCEPT ![j].state = s] /\ crashes' = crashes
                BY <3>1 DEF Promote, Pick, processEmailJob, Complete
            <4> DEFINE x == [job[j] EXCEPT !.state = s]
            <4>2. /\ job' = [job EXCEPT ![j] = x] /\ x.state # "none"
                  /\ crashes = 0 => x.state # "orphaned" /\ x.stalls = 0
                BY <2>1, <4>1 DEF NoneOrphaned, JobRecords
            <4> QED
                BY <4>1, <4>2
        <3>2. CASE FailAttempt(j)
            <4> DEFINE n == job[j].made + 1
            <4>1. PICK s \in {"failed", "delayed"} :
                      job' = [job EXCEPT ![j].made = n, ![j].state = s] /\ crashes' = crashes
                BY <3>2 DEF FailAttempt
            <4> DEFINE x == [job[j] EXCEPT !.made = n, !.state = s]
            <4>2. /\ job' = [job EXCEPT ![j] = x] /\ x.state # "none"
                  /\ crashes = 0 => x.state # "orphaned" /\ x.stalls = 0
                BY <2>1, <4>1 DEF NoneOrphaned, JobRecords, TypeOK
            <4> QED
                BY <4>1, <4>2
        <3>3. CASE CheckStalled(j)
            <4> DEFINE n == job[j].stalls + 1
            <4>1. PICK s \in {"failed", "waiting"} :
                      job' = [job EXCEPT ![j].stalls = n, ![j].state = s] /\ crashes' = crashes
                BY <3>3 DEF CheckStalled
            <4> DEFINE x == [job[j] EXCEPT !.stalls = n, !.state = s]
            <4>2. job' = [job EXCEPT ![j] = x] /\ x.state # "none"
                BY <2>1, <4>1 DEF JobRecords, TypeOK
            <4>3. crashes # 0
                BY <3>3 DEF CheckStalled, NoneOrphaned
            <4> QED
                BY <4>1, <4>2, <4>3
        <3> QED
            BY <1>4, <2>3, <3>1, <3>2, <3>3 DEF JobStep
    <2> QED
        BY <1>2, <2>2, <2>3
<1>5. ASSUME NEW m \in Mails, queueEmail(m)
      PROVE  /\ NoneOrphaned' /\ crashes' = crashes
             /\ \A k \in Jobs : job[k].state # "none" => job'[k].state # "none"
    BY <1>3, <1>5 DEF queueEmail
<1>6. CASE Exit
    <2>1. UNCHANGED <<job, crashes>>
        BY <1>6 DEF Exit, Stop, TypeOK
    <2> QED
        BY <1>1, <2>1
<1>7. CASE Crash
    <2>1. crashes' # 0
        BY <1>7 DEF Crash, TypeOK
    <2>2. \A j \in Jobs : job[j].state # "none" => job'[j].state # "none"
        <3> SUFFICES ASSUME NEW j \in Jobs, job[j].state # "none"
                     PROVE  job'[j].state # "none"
            OBVIOUS
        <3>1. job'[j] = job[j] \/ job'[j] = [job[j] EXCEPT !.state = "orphaned"]
            BY <1>7 DEF Crash, Stop
        <3> QED
            BY <3>1 DEF TypeOK, JobRecords
    <2> QED
        BY <2>1, <2>2 DEF NoneOrphaned
<1>8. CASE HandlerStep
    BY <1>1, <1>8 DEF HandlerStep, DeadLetter, recordDeliveryLog
<1>9. CASE Signal \/ CloseQueue \/ Start \/ (\E j \in Jobs : RetryTake(j)) \/ UNCHANGED queueVars
    BY <1>1, <1>9 DEF Signal, CloseQueue, Start, RetryTake, queueVars
<1> QED
    BY <1>4, <1>5, <1>6, <1>7, <1>8, <1>9 DEF Next, Work

(* No step of the whole leaves a client waiting in a server that closes.   *)
LEMMA GracefulStep ==
    ASSUME GracefulInv, AloneInv, AloneInv', TypeOK, TypeOK', [OnboardingNext]_vars
    PROVE  GracefulInv'
<1>0. RegTyped /\ RegTyped' /\ QueueAssumption
    BY QueueAssumption DEF AloneInv
<1>1. /\ NoneOrphaned'
      /\ \A j \in Jobs : job[j].state # "none" => job'[j].state # "none"
      /\ crashes' = 0 => crashes = 0
    BY StepOfEach, JobsGoOn DEF GracefulInv
<1>2. \A r \in Mails : <<r, 0>> \in Jobs
    BY <1>0 DEF Jobs, QueueAssumption
<1>3. ASSUME \A r \in Mails : reg'[r].pc = "done" => reg[r].pc = "done"
      PROVE  Welcomed'
    BY <1>1, <1>2, <1>3 DEF GracefulInv, Welcomed
<1>4. ASSUME NEW r \in Mails, Serve(r) PROVE ClosedAlone' /\ Welcomed'
    <2>1. UNCHANGED <<phase, crashes, insisted, job>>
        BY <1>4 DEF Serve, queueVars
    <2>2. /\ \A q \in Mails \ {r} : reg'[q] = reg[q] /\ client'[q] = client[q]
          /\ reg'[r].pc \notin {"done", "cut"} \/ reg'[r] = reg[r]
          /\ client'[r] => client[r] \/ reg[r].pc = "idle"
        BY <1>0, <1>4 DEF Serve, Register!Step, Register!CheckSlug, Register!CheckEmail,
                     Register!Commit, Register!NoWelcome, Register!Fail, Register!Leave,
                     Register!Answer, Register!Goto, RegTyped, Reg
    <2>3. reg[r].pc = "idle" => phase \notin {"closing", "down"}
        BY <1>4 DEF Serve, Serving
    <2>4. ClosedAlone'
        BY <2>1, <2>2, <2>3 DEF GracefulInv, ClosedAlone, Smooth
    <2>5. Welcomed'
        BY <1>3, <2>2
    <2> QED
        BY <2>4, <2>5
<1>5. ASSUME NEW r \in Mails, Welcome(r) PROVE ClosedAlone' /\ Welcomed'
    <2>1. UNCHANGED <<phase, crashes, insisted>>
        BY <1>5 DEF Welcome, queueEmail
    <2>2. /\ \A q \in Mails \ {r} : reg'[q] = reg[q] /\ client'[q] = client[q]
          /\ reg'[r].pc = "done" /\ ~ client'[r]
        BY <1>0, <1>5 DEF Welcome, Register!Welcome, Register!Answer, Register!Goto, RegTyped, Reg
    <2>3. ClosedAlone'
        BY <2>1, <2>2 DEF GracefulInv, ClosedAlone, Smooth
    <2>4. job'[<<r, 0>>].state # "none"
        <3>1. PICK s \in {"waiting", "delayed"} : job' = [job EXCEPT ![<<r, 0>>].state = s]
            BY <1>5 DEF Welcome, queueEmail, Enter
        <3> QED
            BY <1>2, <3>1 DEF TypeOK, JobRecords
    <2>5. Welcomed'
        BY <1>1, <1>2, <2>2, <2>4 DEF GracefulInv, Welcomed
    <2> QED
        BY <2>3, <2>5
<1>6. ASSUME Deliver \/ ServerSignal \/ ServerStart \/ UNCHANGED vars
      PROVE  ClosedAlone' /\ Welcomed'
    <2>1. /\ UNCHANGED <<tenant, reg, client, insisted>>
          /\ phase' \in {"closing", "down"} => phase' = phase
        BY <1>6 DEF Deliver, ServerSignal, ServerStart, vars, regVars, queueVars, Signal, Start,
                    Work, JobStep, HandlerStep, RetryTake, Promote, Pick, processEmailJob,
                    Complete, FailAttempt, CheckStalled, RetryQueue, DeadLetter,
                    recordDeliveryLog
    <2>2. ClosedAlone'
        BY <1>1, <2>1 DEF GracefulInv, ClosedAlone, Smooth
    <2> QED
        BY <1>3, <2>1, <2>2
<1>7. ASSUME Drained
      PROVE  ClosedAlone' /\ Welcomed'
    <2>1. UNCHANGED <<tenant, reg, client, insisted, crashes>> /\ \A r \in Mails : ~ client[r]
        BY <1>7 DEF Drained, regVars, CloseQueue
    <2> QED
        BY <1>3, <2>1 DEF ClosedAlone
<1>8. ASSUME Insist
      PROVE  ClosedAlone' /\ Welcomed'
    <2>1. UNCHANGED <<tenant, reg, client>> /\ insisted'
        BY <1>8 DEF Insist, regVars
    <2> QED
        BY <1>3, <2>1 DEF ClosedAlone, Smooth
<1>9. ASSUME ServerExit \/ ServerCrash
      PROVE  ClosedAlone' /\ Welcomed'
    <2>1. /\ \A r \in Mails : reg'[r] = reg[r] \/ reg'[r].pc = "cut"
          /\ UNCHANGED <<tenant, client, insisted>>
        BY <1>0, <1>9 DEF ServerExit, ServerCrash, Register!CutOff, RegTyped, Reg
    <2>2. ClosedAlone'
        <3>1. CASE ServerExit
            <4>1. phase = "closing" /\ crashes' = crashes
                BY <3>1 DEF ServerExit, Exit
            <4> QED
                BY <2>1, <4>1 DEF GracefulInv, ClosedAlone, Smooth
        <3>2. CASE ServerCrash
            <4>1. crashes' # 0
                BY <3>2 DEF ServerCrash, Crash, TypeOK
            <4> QED
                BY <4>1 DEF ClosedAlone, Smooth
        <3> QED
            BY <1>9, <3>1, <3>2
    <2> QED
        BY <1>3, <2>1, <2>2
<1> QED
    BY <1>1, <1>4, <1>5, <1>6, <1>7, <1>8, <1>9 DEF GracefulInv, OnboardingNext

(* A process that is stopped once, and does not crash, finishes what it    *)
(* has begun: no mail is left half sent, and a registration that is in the *)
(* database has queued its welcome mail unless its client had gone or the  *)
(* queue refused the mail.                                                 *)
THEOREM StopsGracefully == OnboardingSpec => []GracefulStop
<1>1. OnboardingInit => GracefulInv
    BY DEF OnboardingInit, Register!Init, Init, GracefulInv, NoneOrphaned, ClosedAlone, Welcomed,
           Smooth
<1>2. GracefulInv /\ AloneInv /\ AloneInv' /\ TypeOK /\ TypeOK' /\ [OnboardingNext]_vars
          => GracefulInv'
    BY GracefulStep
<1>3. GracefulInv /\ AloneInv => GracefulStop
    BY DEF GracefulInv, AloneInv, NoneOrphaned, ClosedAlone, Welcomed, Smooth, GracefulStop,
           CreatedLate, Register!Created, Register!Running
<1> QED
    BY <1>1, <1>2, <1>3, AloneInvariant, ComponentsKept, TypeCorrect, PTL DEF OnboardingSpec
=============================================================================
