------------------------------- MODULE SLAWorker -------------------------------
(***************************************************************************)
(* The processor of the 'sla-escalation' queue: it reads the incident when *)
(* its job fires, decides, saves the whole row and publishes, each at an   *)
(* await of its own.  It runs in the server's process beside the request   *)
(* handlers, up to five jobs at a time, and an incident has one job.       *)
(***************************************************************************)
EXTENDS IncidentService

VARIABLES
    worker,         \* the processor of each incident's job
    announced       \* how often INCIDENT_ESCALATED was published for an incident

workerVars == <<worker, announced>>

Processor == [ stage  : {"idle", "save", "publish", "complete"},
               base   : Row \cup {NoRow},
               entity : Row \cup {NoRow} ]

Idle == [stage |-> "idle", base |-> NoRow, entity |-> NoRow]

WorkerInit == /\ worker = [i \in Incidents |-> Idle]
              /\ announced = [i \in Incidents |-> 0]

WorkerType == /\ worker \in [Incidents -> Processor]
              /\ announced \in [Incidents -> Nat]

-----------------------------------------------------------------------------
\* (mutant) What somebody is working on needs no escalation.
SkipInProgress(e) == e.status \in {"RESOLVED", "ESCALATED", "REOPENED", "IN_PROGRESS"}

\* What the worker returns on without an effect: the two checks of the status,
\* and the InvalidTransitionError of a REOPENED incident that it catches.
Handled(e) == e.status \in {"RESOLVED", "ESCALATED"} \/ ~CanEscalate(e)

\* The job fires: findById, and escalate() if that is still called for.
WorkerLoad(i) ==
    /\ Due(i) /\ Admits
    /\ IF rows[i] = NoRow \/ Handled(ToEntity(rows[i]))
       THEN SetJob(i, "completed") /\ UNCHANGED worker
       ELSE /\ SetJob(i, "active")
            /\ worker' = [worker EXCEPT ![i] =
                   [stage |-> "save", base |-> ToEntity(rows[i]),
                    entity |-> Escalate(ToEntity(rows[i]))]]
    /\ UNCHANGED <<storeVars, faults, req, staffState, announced>>

\* (mutant) The entity has a publisher of its own: escalate() announces it too.
WorkerSaveAndPublish(i) ==
    /\ worker[i].stage = "save"
    /\ announced' = [announced EXCEPT ![i] = @ + 1]
    /\ Update(i, worker[i].entity)
    /\ worker' = [worker EXCEPT ![i].stage = "publish"]
    /\ UNCHANGED <<faults, jobs, req, staffState>>

WorkerSave(i) ==
    /\ worker[i].stage = "save"
    /\ Update(i, worker[i].entity)
    /\ worker' = [worker EXCEPT ![i].stage = "publish"]
    /\ UNCHANGED <<faults, jobs, req, staffState, announced>>

\* (mutant) Nobody is subscribed to INCIDENT_ESCALATED.
WorkerPublishUnheard(i) ==
    /\ worker[i].stage = "publish"
    /\ worker' = [worker EXCEPT ![i] = [Idle EXCEPT !.stage = "complete"]]
    /\ UNCHANGED <<storeVars, faults, jobs, req, staffState, announced>>

\* publish('INCIDENT_ESCALATED').  BullMQ has yet to be told that the job is done.
WorkerPublish(i) ==
    /\ worker[i].stage = "publish"
    /\ announced' = [announced EXCEPT ![i] = @ + 1]
    /\ worker' = [worker EXCEPT ![i] = [Idle EXCEPT !.stage = "complete"]]
    /\ UNCHANGED <<storeVars, faults, jobs, req, staffState>>

\* The processor returned: BullMQ moves the job to 'completed'.
WorkerComplete(i) ==
    /\ worker[i].stage = "complete"
    /\ SetJob(i, "completed")
    /\ worker' = [worker EXCEPT ![i] = Idle]
    /\ UNCHANGED <<storeVars, faults, req, staffState, announced>>

\* (mutant) An observer's failure is rethrown by publish().
WorkerObserverFails(i) ==
    /\ Due(i) \/ worker[i].stage \in {"save", "publish"}
    /\ Fault
    /\ FailAttempt(i)
    /\ worker' = [worker EXCEPT ![i] = Idle]
    /\ UNCHANGED <<storeVars, req, staffState, announced>>

\* findById or save throws: the attempt fails and BullMQ retries the job.
WorkerQueryFails(i) ==
    /\ Due(i) \/ worker[i].stage = "save"
    /\ Fault
    /\ FailAttempt(i)
    /\ worker' = [worker EXCEPT ![i] = Idle]
    /\ UNCHANGED <<storeVars, req, staffState, announced>>

Process(i) == WorkerLoad(i) \/ WorkerSave(i) \/ WorkerPublish(i) \/ WorkerComplete(i)
=============================================================================
