------------------------------- MODULE SLAQueue -------------------------------
(***************************************************************************)
(* The 'sla-escalation' queue: the BullMQ jobs SLATimerManager schedules   *)
(* and cancels, and BullMQ's own bookkeeping of a job (attempts, stalls),  *)
(* which is outside the repository and modelled from the options the code  *)
(* passes.  A job's delay is abstracted: a delayed job may fire any time.  *)
(***************************************************************************)
EXTENDS IncidentStore

CONSTANTS
    MaxAttempts,  \* attempts: 3, the job's retry limit
    MaxStalls     \* BullMQ's maxStalledCount, 1 by default

ASSUME QueueAssumption == MaxAttempts \in Nat \ {0} /\ MaxStalls \in Nat

VARIABLE jobs     \* the job `sla:<id>:1` of each incident

JobStates == {"none", "delayed", "waiting", "active", "completed", "failed", "removed"}

Job == [st : JobStates, attempts : Nat, stalls : Nat]

QueueInit == jobs = [i \in Incidents |-> [st |-> "none", attempts |-> 0, stalls |-> 0]]

QueueType == jobs \in [Incidents -> Job]

SetJob(i, st) == jobs' = [jobs EXCEPT ![i].st = st]

Due(i) == jobs[i].st \in {"delayed", "waiting"}

Pending(i) == jobs[i].st \in {"delayed", "waiting", "active"}

\* (mutant) A timer that is already due is not scheduled.
ScheduleNothing(i) == i \in Incidents /\ UNCHANGED jobs

\* SLATimerManager on INCIDENT_CREATED.  It sets slaJobId on the entity of the
\* request, which is not saved again: the row keeps slaJobId = null.
ScheduleEscalation(i) == SetJob(i, "delayed")

\* SLATimerManager on INCIDENT_RESOLVED: nothing to cancel without a slaJobId;
\* a job being processed is locked and cannot be removed.
CancelEscalation(i, e) ==
    IF e.slaJob /\ Due(i) THEN SetJob(i, "removed") ELSE UNCHANGED jobs

\* The processor threw: BullMQ retries until the attempts are used up.
FailAttempt(i) ==
    jobs' = [jobs EXCEPT ![i] =
        [st       |-> IF @.attempts + 1 >= MaxAttempts THEN "failed" ELSE "waiting",
         attempts |-> @.attempts + 1,
         stalls   |-> @.stalls]]

\* The worker's process died with jobs in hand: each is found stalled and goes
\* back to the queue, unless it has stalled too often.
StallActive ==
    jobs' = [i \in Incidents |->
        IF jobs[i].st # "active" THEN jobs[i]
        ELSE [st       |-> IF jobs[i].stalls + 1 > MaxStalls THEN "failed" ELSE "waiting",
              attempts |-> jobs[i].attempts,
              stalls   |-> jobs[i].stalls + 1]]
=============================================================================
