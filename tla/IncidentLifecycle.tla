--------------------------- MODULE IncidentLifecycle ---------------------------
(***************************************************************************)
(* The incident service, the SLA queue and its worker running together in  *)
(* one server process that may die and be started again.                   *)
(***************************************************************************)
EXTENDS SLAWorker

vars == <<storeVars, faults, jobs, req, staffState, workerVars>>

Init == StoreInit /\ QueueInit /\ ServiceInit /\ WorkerInit

-----------------------------------------------------------------------------
\* The process dies.  Every handler and processor is gone with the entity it held;
\* what it had saved stays saved, and the rest of its steps is never taken.
Crash ==
    /\ Fault
    /\ req' = [r \in Requests |->
                  IF r \in InFlight THEN Answered(req[r].kind, req[r].inc, "LOST")
                                    ELSE req[r]]
    /\ worker' = [i \in Incidents |-> Idle]
    /\ StallActive
    /\ UNCHANGED <<storeVars, staffState, announced>>

\* A request comes in: the first query of its operation.
Arrive(r) ==
    /\ \/ \E report \in Reports : CreateCheckDuplicates(r, report)
       \/ \E i \in Incidents :
             \/ AssignLoad(r, i)
             \/ \E filed \in BOOLEAN : ResolveLoad(r, i, filed)
             \/ \E low \in BOOLEAN : FeedbackLoad(r, i, low)
    /\ UNCHANGED workerVars

Serve(r) == Continue(r) /\ UNCHANGED workerVars

Environment ==
    \/ \E r \in Requests : QueryFails(r) /\ UNCHANGED workerVars
    \/ \E i \in Incidents : WorkerQueryFails(i)
    \/ \E i \in Incidents : GrowOld(i) /\ UNCHANGED <<faults, jobs, req, staffState, workerVars>>
    \/ \E s \in Staff, state \in StaffStates :
           UpdateStaffState(s, state) /\ UNCHANGED workerVars
    \/ Crash

Next ==
    \/ \E r \in Requests : Arrive(r) \/ Serve(r)
    \/ \E i \in Incidents : Process(i)
    \/ Environment

Spec == Init /\ [][Next]_vars

\* The event loop runs every handler whose query has been answered, and BullMQ
\* delivers every due job.  Nothing makes clients send requests, staff change
\* state, rows grow old or the infrastructure fail.
Fairness == /\ \A r \in Requests : WF_vars(Serve(r))
            /\ \A i \in Incidents : WF_vars(Process(i))

FairSpec == Spec /\ Fairness

-----------------------------------------------------------------------------
TypeOK == StoreType /\ QueueType /\ ServiceType /\ WorkerType

\* The columns of a row agree with its status, however the handlers and the worker
\* overtake one another: only whole entities are written (IncidentRepository.save),
\* and each went through one method of its state.
RowsCoherent == \A i \in Incidents : rows[i] # NoRow => Coherent(rows[i])

\* Every write is one state transition away from a version the row has had: a stale
\* save() can undo the work of others, and can never invent a state.
Snapshots == INSTANCE SnapshotWrites
WritesAreSnapshots == Snapshots!SnapshotSpec

Versions(i, statuses) == {v \in hist[i] : v.status \in statuses}

\* The statuses in which a successful call leaves its incident.
Promised(kind) ==
    CASE kind = "create"   -> {"OPEN"}
      [] kind = "assign"   -> {"IN_PROGRESS"}
      [] kind = "resolve"  -> {"RESOLVED"}
      [] kind = "feedback" -> {"RESOLVED", "REOPENED"}

\* A caller who is told 200 or 201 was not told so in vain: the transition it asked
\* for was stored in that row, though it may have been overwritten since.
AnswersAreRecorded ==
    \A r \in Requests : req[r].outcome = "OK" =>
        req[r].inc \in Incidents /\ Versions(req[r].inc, Promised(req[r].kind)) # {}

\* The timer of an incident is used up only on an incident that was escalated, or
\* resolved before: no crash, retry or interleaving lets a completed job have
\* passed over an OPEN or IN_PROGRESS incident.
SpentTimerWasJustified ==
    \A i \in Incidents : jobs[i].st = "completed" =>
        Versions(i, {"ESCALATED", "RESOLVED", "REOPENED"}) # {}

\* Administrators hear of an escalation once, and once more only for each time the
\* process died with the job in hand; retries of failed attempts announce nothing.
EscalationAnnouncedOnce ==
    \A i \in Incidents : announced[i] <= 1 + jobs[i].stalls

\* An escalation that was stored and never announced is the mark of a process that
\* died between save and publish (the retried job finds it ESCALATED and returns).
SilentEscalationNeedsCrash ==
    \A i \in Incidents :
        Versions(i, {"ESCALATED"}) # {} /\ announced[i] = 0 =>
            worker[i].stage = "publish" \/ jobs[i].stalls > 0

\* Somebody is about to write row i from contents it no longer has.
StaleWriter(i) ==
    \/ \E r \in Requests : /\ req[r].stage = "save" /\ req[r].inc = i
                           /\ req[r].base # rows[i]
    \/ worker[i].stage = "save" /\ worker[i].base # rows[i]

\* A row leaves the documented paths only under a stale write: every other change is
\* an edge of the state diagram from its current contents, or a counted duplicate.
EdgesUnlessStale ==
    [][\A i \in Incidents :
          rows[i] # NoRow /\ rows'[i] # rows[i] /\ ~StaleWriter(i) =>
              Edge(rows[i], rows'[i]) \/ Counted(rows[i], rows'[i])]_vars

\* Every incident whose reporter got an answer has a timer, unless the queue failed.
CreatedHasTimer ==
    \A r \in Requests :
        req[r].kind = "create" /\ req[r].outcome = "OK" /\ faults = 0 =>
            jobs[req[r].inc].st # "none"

\* Nobody has more than MaxPerHour incidents of the last hour, when requests are
\* served one at a time.  SpamThrottleValidator counts and save() inserts at two
\* awaits: each further request served meanwhile may add one more, and no more.
SpamLimit == \A u \in Users : Cardinality(RecentByUser(u)) < MaxPerHour + MaxInFlight

Rejected(i) == {r \in Requests : /\ req[r].inc = i
                                 /\ req[r].outcome = "DUPLICATE_INCIDENT"}

\* A stale save() may put duplicateCount back; nothing makes it count a report that
\* was not refused in favour of the incident.
DuplicatesNotInvented ==
    \A i \in Incidents : rows[i] # NoRow => rows[i].dups <= Cardinality(Rejected(i))

-----------------------------------------------------------------------------
\* What holds when requests and jobs are served one at a time (MaxInFlight = 1).

\* The table then is the state machine the design describes.
Machine == INSTANCE IncidentMachine
WritesAreTransitions == Machine!MachineSpec

\* The incidents of the last day that are open, of category e.category, and that a
\* report of e's place matches.
Twins(e) == {j \in Incidents : /\ rows[j] # NoRow /\ age[j] <= 1
                               /\ rows[j].status \in {"OPEN", "IN_PROGRESS"}
                               /\ rows[j].category = e.category
                               /\ e.room \in {rows[j].room, NoRoom}}

Inserted(r) == req[r].stage = "insert" /\ req'[r].stage = "publish"

\* No incident is stored beside a twin (DuplicateDetector), unless it was reported as
\* CLEANLINESS: those are looked for under that name and stored under MAINTENANCE.
CreatesAreNovel ==
    [][\A r \in Requests : Inserted(r) /\ req[r].report.category # "CLEANLINESS" =>
          Twins(req[r].entity) = {}]_vars

\* duplicateCount is the number of reports refused in favour of the incident.
DuplicatesCounted ==
    \A i \in Incidents : rows[i] # NoRow => rows[i].dups = Cardinality(Rejected(i))

-----------------------------------------------------------------------------
\* What happens in the end, under FairSpec.

\* Every request that was read is answered, if only by the process dying.
RequestsAnswered == \A r \in Requests : r \in InFlight ~> req[r].stage = "done"

\* An incident with a timer is escalated or resolved in the end, or its job used up
\* its attempts or stalled too often and is among BullMQ's failed jobs.
OverdueIsHandled ==
    \A i \in Incidents :
        Pending(i) ~> \/ Versions(i, {"ESCALATED", "RESOLVED", "REOPENED"}) # {}
                      \/ jobs[i].st = "failed"

\* When nothing fails, administrators hear of every incident that nobody resolved.
OverdueIsAnnounced ==
    \A i \in Incidents :
        Pending(i) ~> \/ announced[i] > 0
                      \/ Versions(i, {"RESOLVED", "REOPENED"}) # {}
                      \/ faults > 0
=============================================================================
