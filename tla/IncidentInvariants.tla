-------------------------- MODULE IncidentInvariants --------------------------
(***************************************************************************)
(* The inductive invariant behind the safety properties of                 *)
(* IncidentLifecycle, in parts: what the table holds, and what a handler   *)
(* and the worker know of it at each await.                                *)
(***************************************************************************)
EXTENDS IncidentLifecycle

\* A version that the state machine made and that toEntity() gives back unchanged.
Sound(v) == Coherent(v) /\ v.category # "CLEANLINESS"

\* The history is that of the table, and holds sound versions only.
StoreInv ==
    /\ StoreType
    /\ \A i \in Incidents : /\ rows[i] # NoRow => rows[i] \in hist[i]
                            /\ rows[i] = NoRow => hist[i] = {}
                            /\ \A v \in hist[i] : Sound(v)

\* What IncidentFactory built and nobody has stored.
Newborn(e) ==
    /\ e \in Row /\ e.category # "CLEANLINESS"
    /\ e.status = "OPEN" /\ e.assignee = NoOne /\ ~e.escalated
    /\ ~e.resolved /\ ~e.slaJob /\ e.dups = 0

\* What handler h knows at its next await, where versions is the history of the table.
HandlerGood(h, versions) ==
    /\ h.stage = "count"     => h.kind = "create" /\ h.report \in Reports
    /\ h.stage = "increment" => h.kind = "create" /\ h.inc \in Incidents /\ versions[h.inc] # {}
    /\ h.stage = "insert"    => h.kind = "create" /\ Newborn(h.entity)
    /\ h.stage = "staff"     => /\ h.kind = "assign" /\ h.inc \in Incidents
                                /\ h.base \in versions[h.inc] /\ h.entity = h.base
                                /\ h.base.status \in {"OPEN", "ESCALATED"}
    /\ h.stage = "save"      => /\ h.kind \in {"assign", "resolve", "feedback"}
                                /\ h.inc \in Incidents
                                /\ h.base \in versions[h.inc] /\ Edge(h.base, h.entity)
                                /\ h.entity.status \in Promised(h.kind)
    /\ h.stage = "publish"   => /\ h.kind \in Operations /\ h.inc \in Incidents
                                /\ h.entity \in versions[h.inc]
                                /\ h.entity.status \in Promised(h.kind)
    /\ h.outcome = "OK"      => /\ h.stage = "done"
                                /\ h.kind \in Operations /\ h.inc \in Incidents
                                /\ \E v \in versions[h.inc] : v.status \in Promised(h.kind)

HandlersInv == ServiceType /\ \A r \in Requests : HandlerGood(req[r], hist)

\* What processor w knows at its next await, where versions are those of its incident.
ProcessorGood(w, versions) ==
    /\ w.stage = "save"    => /\ w.base \in versions /\ Edge(w.base, w.entity)
                              /\ w.entity.status = "ESCALATED"
    /\ w.stage = "publish" => w.entity \in versions /\ w.entity.status = "ESCALATED"

WorkersInv ==
    /\ QueueType
    /\ WorkerType
    /\ \A i \in Incidents : ProcessorGood(worker[i], hist[i])

DataInv == StoreInv /\ HandlersInv /\ WorkersInv

-----------------------------------------------------------------------------
\* The handler of a create call that is about to schedule the timer of i.
Scheduling(r, i) ==
    req[r].stage = "publish" /\ req[r].kind = "create" /\ req[r].inc = i

\* The job of i did all it had to do.
Finished(i) == worker[i].stage = "complete" \/ jobs[i].st = "completed"

TimerGood(i) ==
    /\ jobs[i].st # "none" => hist[i] # {}
    /\ worker[i].stage # "idle" <=> jobs[i].st = "active"
    /\ worker[i].stage = "complete" => Versions(i, {"ESCALATED"}) # {} /\ announced[i] > 0
    /\ jobs[i].st = "completed" => Versions(i, {"ESCALATED", "RESOLVED", "REOPENED"}) # {}
    /\ announced[i] <= jobs[i].stalls + (IF Finished(i) THEN 1 ELSE 0)
    /\ Versions(i, {"ESCALATED"}) # {} /\ announced[i] = 0 =>
           worker[i].stage = "publish" \/ jobs[i].stalls > 0

\* A timer is scheduled once: by the one handler that created the incident.
TimerInv ==
    /\ \A i \in Incidents : TimerGood(i)
    /\ \A r \in Requests, i \in Incidents : Scheduling(r, i) =>
           /\ jobs[i].st = "none"
           /\ \A q \in Requests \ {r} : ~Scheduling(q, i)
    /\ CreatedHasTimer

-----------------------------------------------------------------------------
\* The handlers of u's reports that passed the throttle and have yet to insert.
Inserting(u) == {r \in Requests : req[r].stage = "insert" /\ req[r].report.user = u}

\* What handler h of a report holds to, whatever the others write meanwhile.
ReportGood(h) ==
    /\ h.outcome # "none" => h.stage = "done"
    /\ h.stage = "insert" => h.entity = NewIncident(h.report)

\* A handler that passes the throttle counts for one of the at most MaxInFlight that
\* are under way, and keeps that place when its incident is stored.
ReportsInv ==
    /\ Cardinality(InFlight) <= MaxInFlight
    /\ \A r \in Requests : ReportGood(req[r])
    /\ \A i \in Incidents : \A v \in hist[i] :
           v.creator = rows[i].creator /\ v.dups <= Cardinality(Rejected(i))
    /\ \A u \in Users : Cardinality(RecentByUser(u)) + Cardinality(Inserting(u))
                           < MaxPerHour + MaxInFlight

IInv == DataInv /\ TimerInv /\ ReportsInv

-----------------------------------------------------------------------------
\* When whoever reads a row to write it keeps the others from writing it meanwhile,
\* which nothing in the code does.

\* Somebody is between reading row i and writing it back.
Held(i) ==
    \/ \E r \in Requests : req[r].stage \in {"staff", "save"} /\ req[r].inc = i
    \/ worker[i].stage = "save"

\* A write leaves nobody with a copy of what was there before it.
RowLocks == [][\A i \in Incidents : rows'[i] # rows[i] => ~Held(i)']_vars

\* What was read is what is there.
CopiesAreFresh ==
    /\ \A r \in Requests : req[r].stage \in {"staff", "save"} => req[r].base = rows[req[r].inc]
    /\ \A i \in Incidents : worker[i].stage = "save" => worker[i].base = rows[i]

\* Then nothing puts a count back: every refusal is counted in the row it named.
RefusalsCounted ==
    /\ DuplicatesCounted
    /\ \A i \in Incidents : rows[i] = NoRow => Rejected(i) = {}

-----------------------------------------------------------------------------
\* When requests and jobs are served one at a time (MaxInFlight = 1).

Active == {i \in Incidents : jobs[i].st = "active"}

\* One handler or one processor is at work, or none.
OneAtATime ==
    /\ \A r, q \in InFlight : r = q
    /\ \A i, j \in Active : i = j
    /\ InFlight = {} \/ Active = {}
    /\ \A i \in Incidents : worker[i].stage # "idle" => i \in Active

\* What handler h read of the table at its earlier awaits still holds.
StillTrue(h) ==
    /\ h.stage \in {"staff", "save"} => h.base = rows[h.inc]
    /\ h.stage \in {"count", "insert"} =>
           /\ h.report \in Reports
           /\ FindDuplicates(h.report.category, h.report.room) = {}
    /\ h.stage = "insert" => h.entity = NewIncident(h.report)

SerialInv ==
    /\ OneAtATime
    /\ \A r \in Requests : StillTrue(req[r])
    /\ \A i \in Incidents : worker[i].stage = "save" => worker[i].base = rows[i]
=============================================================================
