------------------------------ MODULE TimerProofs ------------------------------
(***************************************************************************)
(* The SLA timer of an incident: what a spent timer, an announced and an   *)
(* unannounced escalation say of the incident, whatever crashes.           *)
(***************************************************************************)
EXTENDS RefinementProofs

\* Handler r moves on, and neither starts to schedule a timer nor reports a creation.
MovesAside(r) ==
    \E h \in Handler : /\ req' = [req EXCEPT ![r] = h]
                       /\ h.kind = "create" => h.stage # "publish" /\ h.outcome # "OK"

\* No handler starts to schedule a timer or reports a creation.
HandlersAside ==
    /\ \A r \in Requests, i \in Incidents : Scheduling(r, i)' => Scheduling(r, i)
    /\ \A r \in Requests :
           req'[r].kind = "create" /\ req'[r].outcome = "OK" => req'[r] = req[r]

\* No incident is escalated that was not before.
NoEscalation ==
    \A i \in Incidents : \A v \in hist'[i] :
        v.status = "ESCALATED" => Versions(i, {"ESCALATED"}) # {}

LEMMA MovesAsideIsAside ==
    ASSUME DataInv, NEW r \in Requests, MovesAside(r)
    PROVE  HandlersAside
<1>1. PICK h \in Handler : /\ req' = [req EXCEPT ![r] = h]
                           /\ h.kind = "create" => h.stage # "publish" /\ h.outcome # "OK"
  BY DEF MovesAside
<1>2. \A q \in Requests : req'[q] = IF q = r THEN h ELSE req[q]
  BY <1>1 DEF DataInv, HandlersInv, ServiceType
<1> QED
  BY <1>1, <1>2 DEF HandlersAside, Scheduling

LEMMA StillIsAside ==
    ASSUME UNCHANGED req
    PROVE  HandlersAside
BY DEF HandlersAside, Scheduling

\* A table left alone escalates nothing and grows.
LEMMA StillTable ==
    ASSUME UNCHANGED hist
    PROVE  Grows /\ NoEscalation
BY DEF Grows, NoEscalation, Versions

\* What has been seen in the history stays seen.
LEMMA VersionsGrow ==
    ASSUME Grows, NEW i \in Incidents, NEW statuses, Versions(i, statuses) # {}
    PROVE  Versions(i, statuses)' # {}
<1>1. PICK v \in hist[i] : v.status \in statuses
  BY DEF Versions
<1>2. v \in hist'[i]
  BY DEF Grows
<1> QED
  BY <1>1, <1>2 DEF Versions

\* A step that leaves queue and worker alone and escalates nothing keeps every timer.
LEMMA TimersStay ==
    ASSUME TimerInv, Grows, NoEscalation, UNCHANGED <<jobs, worker, announced>>,
           NEW i \in Incidents
    PROVE  TimerGood(i)'
<1>1. TimerGood(i)
  BY DEF TimerInv
<1>2. hist[i] # {} => hist'[i] # {}
  BY DEF Grows
<1>3. /\ Versions(i, {"ESCALATED"}) # {} => Versions(i, {"ESCALATED"})' # {}
      /\ Versions(i, {"ESCALATED", "RESOLVED", "REOPENED"}) # {} =>
             Versions(i, {"ESCALATED", "RESOLVED", "REOPENED"})' # {}
  BY VersionsGrow
<1>4. Versions(i, {"ESCALATED"})' # {} => Versions(i, {"ESCALATED"}) # {}
  BY DEF NoEscalation, Versions
<1>5. Finished(i)' <=> Finished(i)
  BY DEF Finished
<1> QED
  BY <1>1, <1>2, <1>3, <1>4, <1>5 DEF TimerGood

\* A step that keeps every timer, schedules none and reports no creation.
LEMMA TimerStep ==
    ASSUME DataInv, TimerInv, HandlersAside,
           \A i \in Incidents : /\ TimerGood(i)'
                                /\ jobs'[i].st = "none" <=> jobs[i].st = "none",
           faults' = 0 => faults = 0
    PROVE  TimerInv'
<1>1. ASSUME NEW r \in Requests, NEW i \in Incidents, Scheduling(r, i)'
      PROVE  jobs'[i].st = "none" /\ \A q \in Requests \ {r} : ~Scheduling(q, i)'
  BY <1>1 DEF TimerInv, HandlersAside
<1>2. CreatedHasTimer'
  <2> SUFFICES ASSUME NEW r \in Requests, req'[r].kind = "create", req'[r].outcome = "OK",
                      faults' = 0
               PROVE  jobs'[req'[r].inc].st # "none"
    BY DEF CreatedHasTimer
  <2>1. req'[r] = req[r]
    BY DEF HandlersAside
  <2>2. req[r].inc \in Incidents
    BY <2>1 DEF DataInv, HandlersInv, HandlerGood
  <2> QED
    BY <2>1, <2>2 DEF TimerInv, CreatedHasTimer
<1> QED
  BY <1>1, <1>2 DEF TimerInv

LEMMA AsideStep ==
    ASSUME DataInv, TimerInv, Grows, NoEscalation, HandlersAside,
           UNCHANGED <<jobs, worker, announced>>, faults' = 0 => faults = 0
    PROVE  TimerInv'
BY TimersStay, TimerStep

-----------------------------------------------------------------------------
\* The handlers.

\* A handler that moves alone.
LEMMA MovesAlone ==
    ASSUME DataInv, NEW r \in Requests, NEW h, req' = [req EXCEPT ![r] = h]
    PROVE  req' = [req EXCEPT ![r] = req'[r]] /\ req'[r] = h
BY DEF DataInv, HandlersInv, ServiceType

LEMMA ArriveAside ==
    ASSUME DataInv, NEW r \in Requests, Arrive(r), DataInv'
    PROVE  MovesAside(r)
<1> DEFINE Aside == /\ req' = [req EXCEPT ![r] = req'[r]]
                    /\ req'[r].kind = "create" => req'[r].stage # "publish"
                                                  /\ req'[r].outcome # "OK"
<1>1. ASSUME NEW h, req' = [req EXCEPT ![r] = h],
             h.kind = "create" => h.stage # "publish" /\ h.outcome # "OK"
      PROVE  Aside
  BY <1>1, MovesAlone
<1>2. ASSUME NEW kind, NEW i, NEW o, o # "OK", Refuse(r, kind, i, o) PROVE Aside
  <2>1. req' = [req EXCEPT ![r] = Answered(kind, i, o)]
    BY <1>2 DEF Refuse
  <2>2. Answered(kind, i, o).outcome = o /\ Answered(kind, i, o).stage = "done"
    BY DEF Answered, Unserved
  <2> QED
    BY <1>1, <1>2, <2>1, <2>2
<1>3. ASSUME NEW kind, NEW i, NEW stage, NEW base, NEW e, stage # "publish",
             Hold(r, kind, i, stage, base, e)
      PROVE  Aside
  <2> DEFINE h == [Unserved EXCEPT !.stage = stage, !.kind = kind, !.inc = i,
                                   !.base = base, !.entity = e]
  <2>1. req' = [req EXCEPT ![r] = h]
    BY <1>3 DEF Hold
  <2>2. h.stage = stage /\ h.outcome = "none"
    BY DEF Unserved
  <2> HIDE DEF h, Aside
  <2> QED
    BY <1>1, <1>3, <2>1, <2>2
<1>4. ASSUME NEW report \in Reports, CreateCheckDuplicates(r, report) PROVE Aside
  <2> DEFINE h == [Unserved EXCEPT !.stage = "count", !.kind = "create", !.report = report]
  <2>1. h.stage = "count" /\ h.outcome = "none"
    BY DEF Unserved
  <2>2. \/ Refuse(r, "create", NoIncident, "VALIDATION_ERROR")
        \/ req' = [req EXCEPT ![r] = h]
        \/ \E i \in Incidents : Hold(r, "create", i, "increment", NoRow, NoRow)
    BY <1>4 DEF CreateCheckDuplicates, Newest, FindDuplicates
  <2> HIDE DEF h, Aside
  <2> QED
    BY <1>1, <1>2, <1>3, <2>1, <2>2
<1> HIDE DEF Aside
<1>5. ASSUME NEW i \in Incidents, AssignLoad(r, i) PROVE Aside
  BY <1>2, <1>3, <1>5 DEF AssignLoad
<1>6. ASSUME NEW i \in Incidents, NEW b \in BOOLEAN, ResolveLoad(r, i, b) PROVE Aside
  BY <1>2, <1>3, <1>6 DEF ResolveLoad
<1>7. ASSUME NEW i \in Incidents, NEW b \in BOOLEAN, FeedbackLoad(r, i, b) PROVE Aside
  BY <1>2, <1>3, <1>7 DEF FeedbackLoad
<1>8. req'[r] \in Handler
  BY DEF DataInv, HandlersInv, ServiceType
<1>9. Aside
  BY <1>4, <1>5, <1>6, <1>7 DEF Arrive
<1> QED
  BY <1>8, <1>9 DEF MovesAside, Aside

\* A handler that answers something else than OK.
LEMMA AnswerAside ==
    ASSUME DataInv, NEW r \in Requests, NEW o \in Outcomes \ {"OK"}, Answer(r, o)
    PROVE  MovesAside(r)
<1> DEFINE h == Answered(req[r].kind, req[r].inc, o)
<1>1. req[r].kind \in Operations \cup {"none"} /\ req[r].inc \in Incidents \cup {NoIncident}
  BY DEF DataInv, HandlersInv, ServiceType, Handler
<1>2. h \in Handler
  BY <1>1, AnswerIsGood
<1>3. h.stage = "done" /\ h.outcome = o
  BY DEF Answered, Unserved
<1>4. req' = [req EXCEPT ![r] = h]
  BY DEF Answer
<1> HIDE DEF h
<1> QED
  BY <1>2, <1>3, <1>4 DEF MovesAside

\* The steps of a handler between its first query and its answer, insert and publish
\* of create apart.
LEMMA MiddleAside ==
    ASSUME DataInv, DataInv', NEW r \in Requests,
           \/ CreateCountRecent(r) \/ AssignSelectStaff(r) \/ Save(r)
           \/ AssignPublish(r) \/ ResolvePublish(r) \/ FeedbackPublish(r)
    PROVE  MovesAside(r)
<1>1. CASE \E o \in Outcomes \ {"OK"} : Answer(r, o)
  BY <1>1, AnswerAside
<1>2. req[r] \in Handler /\ HandlerGood(req[r], hist) /\ req'[r] \in Handler
  BY DEF DataInv, HandlersInv, ServiceType
<1>3. CASE CreateCountRecent(r) /\ ~\E o \in Outcomes \ {"OK"} : Answer(r, o)
  <2>1. req' = [req EXCEPT ![r].stage = "insert", ![r].entity = NewIncident(req[r].report)]
    BY <1>3 DEF CreateCountRecent, Outcomes
  <2>2. req[r].outcome # "OK"
    BY <1>2, <1>3 DEF CreateCountRecent, HandlerGood
  <2>3. req' = [req EXCEPT ![r] = req'[r]] /\ req'[r].stage = "insert" /\ req'[r].outcome # "OK"
    BY <1>2, <2>1, <2>2 DEF DataInv, HandlersInv, ServiceType, Handler
  <2> QED
    BY <1>2, <2>3 DEF MovesAside
<1>4. CASE AssignSelectStaff(r) /\ ~\E o \in Outcomes \ {"OK"} : Answer(r, o)
  <2>1. PICK s \in Staff :
            req' = [req EXCEPT ![r].stage = "save", ![r].entity = AssignStaff(@, s)]
    BY <1>4 DEF AssignSelectStaff, Outcomes
  <2>2. req[r].kind = "assign"
    BY <1>2, <1>4 DEF AssignSelectStaff, HandlerGood
  <2> DEFINE w == AssignStaff(req[r].entity, s)
             h == [req[r] EXCEPT !.stage = "save", !.entity = w]
  <2>3. req' = [req EXCEPT ![r] = h]
    BY <2>1 DEF DataInv, HandlersInv, ServiceType, Handler
  <2> HIDE DEF w
  <2>4. h.kind = "assign"
    BY <1>2, <2>2 DEF Handler
  <2> HIDE DEF h
  <2>5. req' = [req EXCEPT ![r] = req'[r]] /\ req'[r].kind = "assign"
    BY <2>3, <2>4, MovesAlone
  <2> QED
    BY <1>2, <2>5 DEF MovesAside
<1>5. CASE Save(r)
  <2>1. req' = [req EXCEPT ![r].stage = "publish"]
    BY <1>5 DEF Save
  <2>2. req[r].kind # "create"
    BY <1>2, <1>5 DEF Save, HandlerGood
  <2>3. req' = [req EXCEPT ![r] = req'[r]] /\ req'[r].kind # "create"
    BY <1>2, <2>1, <2>2 DEF DataInv, HandlersInv, ServiceType, Handler
  <2> QED
    BY <1>2, <2>3 DEF MovesAside
<1>6. CASE AssignPublish(r) \/ ResolvePublish(r) \/ FeedbackPublish(r)
  <2>1. req[r].kind # "create" /\ Answer(r, "OK")
    BY <1>6 DEF AssignPublish, ResolvePublish, FeedbackPublish
  <2>2. req' = [req EXCEPT ![r] = req'[r]] /\ req'[r].kind # "create"
    BY <1>2, <2>1 DEF Answer, Answered, Unserved, DataInv, HandlersInv, ServiceType
  <2> QED
    BY <1>2, <2>2 DEF MovesAside
<1> QED
  BY <1>1, <1>3, <1>4, <1>5, <1>6

\* Storing a version that is not the first escalated one.
LEMMA StoredAside ==
    ASSUME DataInv, NEW i \in Incidents, NEW e,
           hist' = [hist EXCEPT ![i] = @ \cup {e}],
           e.status = "ESCALATED" => \E v \in hist[i] : v.status = "ESCALATED"
    PROVE  Grows /\ NoEscalation
<1>1. Grows
  BY DEF Grows, DataInv, StoreInv, StoreType
<1>2. ASSUME NEW j \in Incidents, NEW v \in hist'[j], v.status = "ESCALATED"
      PROVE  Versions(j, {"ESCALATED"}) # {}
  BY <1>2 DEF Versions, DataInv, StoreInv, StoreType
<1> QED
  BY <1>1, <1>2 DEF NoEscalation

LEMMA SaveTable ==
    ASSUME DataInv, NEW r \in Requests, Save(r)
    PROVE  Grows /\ NoEscalation
<1> DEFINE i == req[r].inc
           e == req[r].entity
<1>1. /\ i \in Incidents /\ req[r].kind \in {"assign", "resolve", "feedback"}
      /\ e.status \in Promised(req[r].kind)
  BY DEF Save, DataInv, HandlersInv, HandlerGood
<1>2. e.status # "ESCALATED"
  BY <1>1 DEF Promised
<1>3. hist' = [hist EXCEPT ![i] = @ \cup {e}]
  BY DEF Save, Update
<1> HIDE DEF i, e
<1> QED
  BY <1>1, <1>2, <1>3, StoredAside

LEMMA CountTable ==
    ASSUME DataInv, NEW r \in Requests, CreateCountDuplicate(r)
    PROVE  Grows /\ NoEscalation
<1> DEFINE i == req[r].inc
           e == [rows[i] EXCEPT !.dups = @ + 1]
<1>1. i \in Incidents /\ hist[i] # {} /\ hist' = [hist EXCEPT ![i] = @ \cup {e}]
  BY DEF CreateCountDuplicate, IncrementDuplicateCount, DataInv, HandlersInv, HandlerGood
<1>2. rows[i] \in hist[i] /\ rows[i] \in Row
  BY <1>1 DEF DataInv, StoreInv, StoreType
<1>3. e.status = rows[i].status
  BY <1>2 DEF Row
<1> HIDE DEF i, e
<1> QED
  BY <1>1, <1>2, <1>3, StoredAside

-----------------------------------------------------------------------------
\* The handlers keep TimerInv.

LEMMA ArriveKeepsTimers ==
    ASSUME DataInv, DataInv', TimerInv, NEW r \in Requests, Arrive(r)
    PROVE  TimerInv'
<1>1. UNCHANGED <<storeVars, faults, jobs, workerVars>>
  BY DEF Arrive, CreateCheckDuplicates, AssignLoad, ResolveLoad, FeedbackLoad
<1>2. Grows /\ NoEscalation
  BY <1>1, StillTable DEF storeVars
<1>3. HandlersAside
  BY ArriveAside, MovesAsideIsAside
<1> QED
  BY <1>1, <1>2, <1>3, AsideStep DEF workerVars

LEMMA MiddleKeepsTimers ==
    ASSUME DataInv, DataInv', TimerInv, NEW r \in Requests,
           \/ CreateCountRecent(r) \/ AssignSelectStaff(r) \/ Save(r)
           \/ AssignPublish(r) \/ FeedbackPublish(r),
           UNCHANGED workerVars
    PROVE  TimerInv'
<1>1. UNCHANGED <<faults, jobs>>
  BY DEF CreateCountRecent, AssignSelectStaff, Save, AssignPublish, FeedbackPublish
<1>2. Save(r) \/ UNCHANGED hist
  BY DEF CreateCountRecent, AssignSelectStaff, AssignPublish, FeedbackPublish, storeVars
<1>3. Grows /\ NoEscalation
  BY <1>2, SaveTable, StillTable
<1>4. HandlersAside
  BY MiddleAside, MovesAsideIsAside
<1> QED
  BY <1>1, <1>3, <1>4, AsideStep DEF workerVars

LEMMA RefusalKeepsTimers ==
    ASSUME DataInv, TimerInv, NEW r \in Requests, NEW o \in Outcomes \ {"OK"}, Answer(r, o),
           Grows, NoEscalation, UNCHANGED <<jobs, workerVars>>, faults' = 0 => faults = 0
    PROVE  TimerInv'
BY AnswerAside, MovesAsideIsAside, AsideStep DEF workerVars

LEMMA CountKeepsTimers ==
    ASSUME DataInv, TimerInv, NEW r \in Requests, CreateCountDuplicate(r), UNCHANGED workerVars
    PROVE  TimerInv'
<1>1. Answer(r, "DUPLICATE_INCIDENT") /\ UNCHANGED <<faults, jobs>>
  BY DEF CreateCountDuplicate
<1> QED
  BY <1>1, CountTable, RefusalKeepsTimers DEF Outcomes

LEMMA QueryFailsKeepsTimers ==
    ASSUME DataInv, TimerInv, NEW r \in Requests, QueryFails(r), UNCHANGED workerVars
    PROVE  TimerInv'
<1>1. Answer(r, "INTERNAL_ERROR") /\ UNCHANGED <<storeVars, jobs>> /\ Fault
  BY DEF QueryFails
<1>2. faults' = 0 => faults = 0
  BY <1>1 DEF Fault, DataInv, StoreInv, StoreType
<1>3. Grows /\ NoEscalation
  BY <1>1, StillTable DEF storeVars
<1> QED
  BY <1>1, <1>2, <1>3, RefusalKeepsTimers DEF Outcomes

LEMMA ResolvePublishKeepsTimers ==
    ASSUME DataInv, DataInv', TimerInv, NEW r \in Requests, ResolvePublish(r),
           UNCHANGED workerVars
    PROVE  TimerInv'
<1> DEFINE i == req[r].inc
<1>1. HandlersAside
  BY MiddleAside, MovesAsideIsAside
<1>2. UNCHANGED <<storeVars, faults>> /\ i \in Incidents
  BY DEF ResolvePublish, DataInv, HandlersInv, HandlerGood
<1>3. CASE UNCHANGED jobs
  BY <1>1, <1>2, <1>3, StillTable, AsideStep DEF storeVars, workerVars
<1>4. CASE Due(i) /\ SetJob(i, "removed")
  <2> HIDE DEF i
  <2>1. /\ jobs' = [jobs EXCEPT ![i].st = "removed"] /\ jobs[i].st \in {"delayed", "waiting"}
        /\ jobs[i] \in Job
    BY <1>2, <1>4 DEF SetJob, Due, DataInv, WorkersInv, QueueType
  <2>2. ASSUME NEW j \in Incidents
        PROVE  /\ TimerGood(j)'
               /\ jobs'[j].st = "none" <=> jobs[j].st = "none"
    <3>1. TimerGood(j) /\ Versions(j, {"ESCALATED"})' = Versions(j, {"ESCALATED"})
          /\ Versions(j, {"ESCALATED", "RESOLVED", "REOPENED"})'
                 = Versions(j, {"ESCALATED", "RESOLVED", "REOPENED"})
      BY <1>2 DEF TimerInv, Versions, storeVars
    <3>2. CASE j = i
      <4>1. jobs'[j].st = "removed" /\ jobs'[j].stalls = jobs[j].stalls
        BY <2>1, <3>2 DEF DataInv, WorkersInv, QueueType, Job
      <4> QED
        BY <1>2, <2>1, <3>1, <3>2, <4>1 DEF TimerGood, Finished, storeVars, workerVars
    <3>3. CASE j # i
      <4>1. jobs'[j] = jobs[j]
        BY <2>1, <3>3 DEF DataInv, WorkersInv, QueueType
      <4> QED
        BY <1>2, <3>1, <4>1 DEF TimerGood, Finished, storeVars, workerVars
    <3> QED
      BY <3>2, <3>3
  <2> QED
    BY <1>1, <1>2, <2>2, TimerStep
<1> QED
  BY <1>3, <1>4 DEF ResolvePublish, CancelEscalation

\* The handler that created an incident is the one to schedule its timer.
LEMMA InsertKeepsTimers ==
    ASSUME DataInv, TimerInv, NEW r \in Requests, CreateInsert(r), UNCHANGED workerVars
    PROVE  TimerInv'
<1>1. UNCHANGED <<faults, jobs, worker, announced>> /\ req[r].stage = "insert"
  BY DEF CreateInsert, workerVars
<1>2. CASE ~CanCreate(req[r].entity)
  <2>1. Answer(r, "INTERNAL_ERROR") /\ UNCHANGED storeVars
    BY <1>2 DEF CreateInsert
  <2>2. Grows /\ NoEscalation
    BY <2>1, StillTable DEF storeVars
  <2> QED
    BY <1>1, <2>1, <2>2, RefusalKeepsTimers DEF Outcomes
<1>3. CASE CanCreate(req[r].entity)
  <2>1. PICK i \in FreeIds : /\ Create(i, req[r].entity)
                             /\ Hold(r, "create", i, "publish", NoRow, req[r].entity)
    BY <1>3 DEF CreateInsert
  <2> DEFINE e == req[r].entity
             h == [Unserved EXCEPT !.stage = "publish", !.kind = "create", !.inc = i,
                                   !.base = NoRow, !.entity = e]
  <2>2. i \in Incidents /\ rows[i] = NoRow /\ hist[i] = {}
    BY DEF FreeIds, DataInv, StoreInv
  <2>3. e.status = "OPEN"
    BY <1>1 DEF DataInv, HandlersInv, HandlerGood, Newborn
  <2>4. hist' = [hist EXCEPT ![i] = @ \cup {e}] /\ req' = [req EXCEPT ![r] = h]
    BY <2>1 DEF Create, Hold
  <2>5. h.stage = "publish" /\ h.inc = i /\ h.outcome = "none"
    BY DEF Unserved
  <2> HIDE DEF e, h
  <2>6. Grows /\ NoEscalation
    BY <2>2, <2>3, <2>4, StoredAside
  <2>7. \A j \in Incidents : TimerGood(j)'
    BY <1>1, <2>6, TimersStay
  <2>8. \A q \in Requests : req'[q] = IF q = r THEN h ELSE req[q]
    BY <2>4 DEF DataInv, HandlersInv, ServiceType
  <2>9. jobs[i].st = "none" /\ \A q \in Requests : ~Scheduling(q, i)
    BY <2>2 DEF TimerInv, TimerGood, Scheduling, DataInv, HandlersInv, HandlerGood
  <2>10. ASSUME NEW q \in Requests, NEW j \in Incidents, Scheduling(q, j)'
         PROVE  jobs'[j].st = "none" /\ \A p \in Requests \ {q} : ~Scheduling(p, j)'
    <3>1. CASE j = i
      <4>1. q = r
        BY <2>8, <2>9, <2>10, <3>1 DEF Scheduling
      <4> QED
        BY <1>1, <2>8, <2>9, <3>1, <4>1 DEF Scheduling
    <3>2. CASE j # i
      <4>1. Scheduling(q, j)
        BY <2>5, <2>8, <2>10, <3>2 DEF Scheduling
      <4>2. \A p \in Requests : Scheduling(p, j)' => Scheduling(p, j)
        BY <2>5, <2>8, <3>2 DEF Scheduling
      <4> QED
        BY <1>1, <4>1, <4>2 DEF TimerInv
    <3> QED
      BY <3>1, <3>2
  <2>11. CreatedHasTimer'
    BY <1>1, <2>5, <2>8 DEF TimerInv, CreatedHasTimer
  <2> QED
    BY <2>7, <2>10, <2>11 DEF TimerInv
<1> QED
  BY <1>2, <1>3

\* It schedules one, or the queue has failed.
LEMMA CreatePublishKeepsTimers ==
    ASSUME DataInv, TimerInv, NEW r \in Requests, CreatePublish(r), UNCHANGED workerVars
    PROVE  TimerInv'
<1> DEFINE i == req[r].inc
           h == Answered(req[r].kind, i, "OK")
<1>1. UNCHANGED <<hist, worker, announced>> /\ Scheduling(r, i) /\ i \in Incidents
  BY DEF CreatePublish, storeVars, workerVars, Scheduling, DataInv, HandlersInv, HandlerGood
<1>2. hist[i] # {}
  BY DEF CreatePublish, DataInv, HandlersInv, HandlerGood
<1>3. jobs[i].st = "none" /\ \A q \in Requests \ {r} : ~Scheduling(q, i)
  BY <1>1 DEF TimerInv
<1>4. req' = [req EXCEPT ![r] = h]
  BY DEF CreatePublish, Answer
<1>5. h.stage = "done" /\ h.inc = i
  BY DEF Answered, Unserved
<1> HIDE DEF i, h
<1>6. \A q \in Requests : req'[q] = IF q = r THEN h ELSE req[q]
  BY <1>4 DEF DataInv, HandlersInv, ServiceType
<1>7. \A q \in Requests, j \in Incidents : Scheduling(q, j)' => Scheduling(q, j) /\ j # i
  BY <1>3, <1>5, <1>6 DEF Scheduling
<1>8. CASE ScheduleEscalation(i) /\ UNCHANGED faults
  <2>1. \A j \in Incidents : jobs'[j] = IF j = i THEN [jobs[i] EXCEPT !.st = "delayed"]
                                               ELSE jobs[j]
    BY <1>8 DEF ScheduleEscalation, SetJob, DataInv, WorkersInv, QueueType
  <2>2. jobs'[i].st = "delayed" /\ jobs'[i].stalls = jobs[i].stalls
    BY <1>1, <2>1 DEF DataInv, WorkersInv, QueueType, Job
  <2>3. ASSUME NEW j \in Incidents PROVE TimerGood(j)'
    <3>1. TimerGood(j) /\ Versions(j, {"ESCALATED"})' = Versions(j, {"ESCALATED"})
          /\ Versions(j, {"ESCALATED", "RESOLVED", "REOPENED"})'
                 = Versions(j, {"ESCALATED", "RESOLVED", "REOPENED"})
      BY <1>1 DEF TimerInv, Versions
    <3>2. CASE j = i
      BY <1>1, <1>2, <1>3, <2>2, <3>1, <3>2 DEF TimerGood, Finished
    <3>3. CASE j # i
      BY <1>1, <2>1, <3>1, <3>3 DEF TimerGood, Finished
    <3> QED
      BY <3>2, <3>3
  <2>4. ASSUME NEW q \in Requests, NEW j \in Incidents, Scheduling(q, j)'
        PROVE  jobs'[j].st = "none" /\ \A p \in Requests \ {q} : ~Scheduling(p, j)'
    BY <1>7, <2>1, <2>4 DEF TimerInv
  <2>5. CreatedHasTimer'
    <3> SUFFICES ASSUME NEW q \in Requests, req'[q].kind = "create", req'[q].outcome = "OK",
                        faults' = 0
                 PROVE  jobs'[req'[q].inc].st # "none"
      BY DEF CreatedHasTimer
    <3>1. CASE q = r
      BY <1>5, <1>6, <2>2, <3>1
    <3>2. CASE q # r
      <4>1. req'[q] = req[q] /\ req[q].inc \in Incidents
        BY <1>6, <3>2 DEF DataInv, HandlersInv, HandlerGood
      <4>2. jobs[req[q].inc].st # "none"
        BY <1>8, <4>1 DEF TimerInv, CreatedHasTimer
      <4> QED
        BY <2>1, <2>2, <4>1, <4>2
    <3> QED
      BY <3>1, <3>2
  <2> QED
    BY <2>3, <2>4, <2>5 DEF TimerInv
<1>9. CASE Fault /\ UNCHANGED jobs
  <2>1. faults' # 0
    BY <1>9 DEF Fault, DataInv, StoreInv, StoreType
  <2>2. \A j \in Incidents : TimerGood(j)'
    BY <1>1, <1>9, StillTable, TimersStay
  <2>3. CreatedHasTimer'
    BY <2>1 DEF CreatedHasTimer
  <2>4. ASSUME NEW q \in Requests, NEW j \in Incidents, Scheduling(q, j)'
        PROVE  jobs'[j].st = "none" /\ \A p \in Requests \ {q} : ~Scheduling(p, j)'
    BY <1>7, <1>9, <2>4 DEF TimerInv
  <2> QED
    BY <2>2, <2>3, <2>4 DEF TimerInv
<1> QED
  BY <1>8, <1>9 DEF CreatePublish, i

-----------------------------------------------------------------------------
\* The worker keeps TimerInv.

\* A step of the job of i leaves the other timers alone.
LEMMA OneTimerStep ==
    ASSUME DataInv, TimerInv, NEW i \in Incidents, UNCHANGED req, TimerGood(i)',
           \A j \in Incidents \ {i} :
               /\ hist'[j] = hist[j] /\ jobs'[j] = jobs[j]
               /\ worker'[j] = worker[j] /\ announced'[j] = announced[j],
           jobs[i].st # "none", jobs'[i].st # "none", faults' = 0 => faults = 0
    PROVE  TimerInv'
<1>1. ASSUME NEW j \in Incidents, j # i PROVE TimerGood(j)'
  <2>1. TimerGood(j) /\ Versions(j, {"ESCALATED"})' = Versions(j, {"ESCALATED"})
        /\ Versions(j, {"ESCALATED", "RESOLVED", "REOPENED"})'
               = Versions(j, {"ESCALATED", "RESOLVED", "REOPENED"})
    BY <1>1 DEF TimerInv, Versions
  <2> QED
    BY <1>1, <2>1 DEF TimerGood, Finished
<1>2. \A j \in Incidents : jobs'[j].st = "none" <=> jobs[j].st = "none"
  OBVIOUS
<1> QED
  BY <1>1, <1>2, StillIsAside, TimerStep

\* What one job's step does to the queue and the processors.
LEMMA OneJobMoves ==
    ASSUME DataInv, NEW i \in Incidents, NEW st, SetJob(i, st)
    PROVE  /\ jobs'[i].st = st /\ jobs'[i].stalls = jobs[i].stalls
           /\ \A j \in Incidents \ {i} : jobs'[j] = jobs[j]
BY DEF SetJob, DataInv, WorkersInv, QueueType, Job

LEMMA IdleIsIdle == Idle.stage = "idle"
BY DEF Idle

LEMMA OneProcessorMoves ==
    ASSUME DataInv, NEW i \in Incidents, NEW w, worker' = [worker EXCEPT ![i] = w]
    PROVE  worker'[i] = w /\ \A j \in Incidents \ {i} : worker'[j] = worker[j]
BY DEF DataInv, WorkersInv, WorkerType

\* The worker returns without an effect on what is escalated or was resolved.
LEMMA WorkerLoadKeepsTimers ==
    ASSUME DataInv, TimerInv, NEW i \in Incidents, WorkerLoad(i)
    PROVE  TimerInv'
<1>1. UNCHANGED <<storeVars, faults, req, announced>> /\ Due(i)
  BY DEF WorkerLoad
<1>2. TimerGood(i) /\ Versions(i, {"ESCALATED"})' = Versions(i, {"ESCALATED"})
      /\ Versions(i, {"ESCALATED", "RESOLVED", "REOPENED"})'
             = Versions(i, {"ESCALATED", "RESOLVED", "REOPENED"})
      /\ announced'[i] = announced[i] /\ hist'[i] = hist[i]
  BY <1>1 DEF TimerInv, Versions, storeVars
<1>3. jobs[i].st \in {"delayed", "waiting"} /\ worker[i].stage = "idle" /\ hist[i] # {}
  BY <1>1, <1>2 DEF Due, TimerGood
<1>4. rows[i] # NoRow
  BY <1>3 DEF DataInv, StoreInv
<1>5. rows[i] \in hist[i] /\ ToEntity(rows[i]) = rows[i] /\ rows[i] \in Row
  BY <1>4, LoadedIsRow
<1>6. announced[i] \in Nat /\ jobs[i].stalls \in Nat
  BY DEF DataInv, WorkersInv, WorkerType, QueueType, Job
<1>7. announced[i] <= jobs[i].stalls /\ (Versions(i, {"ESCALATED"}) # {} /\ announced[i] = 0
                                             => jobs[i].stalls > 0)
  BY <1>2, <1>3, <1>6 DEF TimerGood, Finished
<1>8. CASE Handled(rows[i]) /\ SetJob(i, "completed") /\ UNCHANGED worker
  <2>1. rows[i].status \in {"ESCALATED", "RESOLVED", "REOPENED"}
    BY <1>5, <1>8 DEF Handled, CanEscalate, Row, Statuses
  <2>2. Versions(i, {"ESCALATED", "RESOLVED", "REOPENED"}) # {}
    BY <1>5, <2>1 DEF Versions
  <2>3. jobs'[i].st = "completed" /\ jobs'[i].stalls = jobs[i].stalls
    BY <1>8, OneJobMoves
  <2>4. worker'[i].stage = "idle"
    BY <1>3, <1>8
  <2>5. announced'[i] <= jobs'[i].stalls + 1
    BY <1>2, <1>6, <1>7, <2>3
  <2>6. TimerGood(i)'
    BY <1>2, <1>3, <1>7, <2>2, <2>3, <2>4, <2>5 DEF TimerGood, Finished
  <2> QED
    BY <1>1, <1>3, <1>8, <2>3, <2>6, OneJobMoves, OneTimerStep DEF storeVars
<1>9. CASE /\ SetJob(i, "active")
           /\ \E w : w.stage = "save" /\ worker' = [worker EXCEPT ![i] = w]
  <2>1. jobs'[i].st = "active" /\ jobs'[i].stalls = jobs[i].stalls
    BY <1>9, OneJobMoves
  <2>2. worker'[i].stage = "save"
    BY <1>9, OneProcessorMoves
  <2>3. announced'[i] <= jobs'[i].stalls + 0
    BY <1>2, <1>6, <1>7, <2>1
  <2>4. TimerGood(i)'
    BY <1>2, <1>3, <1>7, <2>1, <2>2, <2>3 DEF TimerGood, Finished
  <2> QED
    BY <1>1, <1>3, <1>9, <2>1, <2>4, OneJobMoves, OneProcessorMoves, OneTimerStep DEF storeVars
<1>10. ASSUME worker' = [worker EXCEPT ![i] =
                   [stage |-> "save", base |-> rows[i], entity |-> Escalate(rows[i])]]
       PROVE  \E w : w.stage = "save" /\ worker' = [worker EXCEPT ![i] = w]
  <2> DEFINE w == [stage |-> "save", base |-> rows[i], entity |-> Escalate(rows[i])]
  <2>1. w.stage = "save" /\ worker' = [worker EXCEPT ![i] = w]
    BY <1>10
  <2> HIDE DEF w
  <2> QED
    BY <2>1
<1> QED
  BY <1>4, <1>5, <1>8, <1>9, <1>10 DEF WorkerLoad

LEMMA WorkerSaveKeepsTimers ==
    ASSUME DataInv, DataInv', TimerInv, NEW i \in Incidents, WorkerSave(i)
    PROVE  TimerInv'
<1> DEFINE e == worker[i].entity
           w == [worker[i] EXCEPT !.stage = "publish"]
<1>1. UNCHANGED <<faults, jobs, req, announced>> /\ worker[i].stage = "save"
  BY DEF WorkerSave
<1>2. hist' = [hist EXCEPT ![i] = @ \cup {e}]
  BY DEF WorkerSave, Update
<1>3. worker' = [worker EXCEPT ![i] = w] /\ w.stage = "publish"
  BY DEF WorkerSave, DataInv, WorkersInv, WorkerType, Processor
<1> HIDE DEF w
<1>4. worker'[i].stage = "publish" /\ \A j \in Incidents \ {i} : worker'[j] = worker[j]
  BY <1>3, OneProcessorMoves
<1> HIDE DEF e
<1>5. hist[i] \subseteq hist'[i] /\ \A j \in Incidents \ {i} : hist'[j] = hist[j]
  BY <1>2 DEF DataInv, StoreInv, StoreType
<1>6. TimerGood(i) /\ jobs[i].st = "active"
  BY <1>1 DEF TimerInv, TimerGood
<1>7. TimerGood(i)'
  <2>1. hist[i] # {} => hist'[i] # {}
    BY <1>5
  <2> QED
    BY <1>1, <1>4, <1>6, <2>1 DEF TimerGood, Finished
<1> QED
  BY <1>1, <1>4, <1>5, <1>6, <1>7, OneTimerStep

LEMMA WorkerPublishKeepsTimers ==
    ASSUME DataInv, TimerInv, NEW i \in Incidents, WorkerPublish(i)
    PROVE  TimerInv'
<1>1. UNCHANGED <<storeVars, faults, jobs, req>> /\ worker[i].stage = "publish"
  BY DEF WorkerPublish
<1>2. announced[i] \in Nat /\ jobs[i].stalls \in Nat /\ announced \in [Incidents -> Nat]
  BY DEF DataInv, WorkersInv, WorkerType, QueueType, Job
<1>3. announced'[i] = announced[i] + 1 /\ \A j \in Incidents \ {i} : announced'[j] = announced[j]
  BY <1>2 DEF WorkerPublish
<1>4. worker'[i].stage = "complete" /\ \A j \in Incidents \ {i} : worker'[j] = worker[j]
  <2> DEFINE w == [Idle EXCEPT !.stage = "complete"]
  <2>1. w.stage = "complete" /\ worker' = [worker EXCEPT ![i] = w]
    BY DEF WorkerPublish, Idle
  <2> HIDE DEF w
  <2> QED
    BY <2>1, OneProcessorMoves
<1>5. TimerGood(i) /\ jobs[i].st = "active" /\ hist'[i] = hist[i]
  BY <1>1 DEF TimerInv, TimerGood, storeVars
<1>6. Versions(i, {"ESCALATED"})' # {}
  BY <1>1, <1>5 DEF Versions, DataInv, WorkersInv, ProcessorGood
<1>7. announced[i] <= jobs[i].stalls
  BY <1>1, <1>2, <1>5 DEF TimerGood, Finished
<1>8. announced'[i] > 0 /\ announced'[i] <= jobs'[i].stalls + 1
  BY <1>1, <1>2, <1>3, <1>7
<1>9. TimerGood(i)'
  BY <1>1, <1>4, <1>5, <1>6, <1>8 DEF TimerGood, Finished
<1> QED
  BY <1>1, <1>3, <1>4, <1>5, <1>9, OneTimerStep DEF storeVars

LEMMA WorkerCompleteKeepsTimers ==
    ASSUME DataInv, TimerInv, NEW i \in Incidents, WorkerComplete(i)
    PROVE  TimerInv'
<1>1. /\ UNCHANGED <<storeVars, faults, req, announced>> /\ worker[i].stage = "complete"
      /\ SetJob(i, "completed") /\ worker' = [worker EXCEPT ![i] = Idle]
  BY DEF WorkerComplete
<1>2. worker'[i].stage = "idle" /\ jobs'[i].st = "completed" /\ jobs'[i].stalls = jobs[i].stalls
  BY <1>1, IdleIsIdle, OneJobMoves, OneProcessorMoves
<1>3. TimerGood(i) /\ jobs[i].st = "active" /\ hist'[i] = hist[i]
  BY <1>1 DEF TimerInv, TimerGood, storeVars
<1>4. Versions(i, {"ESCALATED", "RESOLVED", "REOPENED"})' # {}
  BY <1>1, <1>3 DEF TimerGood, Versions
<1>5. TimerGood(i)'
  BY <1>1, <1>2, <1>3, <1>4 DEF TimerGood, Finished, Versions
<1> QED
  BY <1>1, <1>2, <1>3, <1>5, OneJobMoves, OneProcessorMoves, OneTimerStep DEF storeVars

LEMMA WorkerQueryFailsKeepsTimers ==
    ASSUME DataInv, TimerInv, NEW i \in Incidents, WorkerQueryFails(i)
    PROVE  TimerInv'
<1>1. /\ UNCHANGED <<storeVars, req, announced>>
      /\ Due(i) \/ worker[i].stage = "save"
      /\ Fault /\ worker' = [worker EXCEPT ![i] = Idle]
  BY DEF WorkerQueryFails
<1>2. faults' = 0 => faults = 0
  BY <1>1 DEF Fault, DataInv, StoreInv, StoreType
<1>3. /\ jobs'[i].st \in {"failed", "waiting"} /\ jobs'[i].stalls = jobs[i].stalls
      /\ \A j \in Incidents \ {i} : jobs'[j] = jobs[j]
  BY DEF WorkerQueryFails, FailAttempt, DataInv, WorkersInv, QueueType
<1>4. worker'[i].stage = "idle" /\ \A j \in Incidents \ {i} : worker'[j] = worker[j]
  BY <1>1, IdleIsIdle, OneProcessorMoves
<1>5. /\ TimerGood(i) /\ hist'[i] = hist[i]
      /\ jobs[i].st \in {"delayed", "waiting", "active"} /\ worker[i].stage \in {"idle", "save"}
  BY <1>1 DEF TimerInv, TimerGood, Due, storeVars
<1>6. TimerGood(i)'
  BY <1>1, <1>3, <1>4, <1>5 DEF TimerGood, Finished, Versions
<1> QED
  BY <1>1, <1>2, <1>3, <1>4, <1>5, <1>6, OneTimerStep DEF storeVars

-----------------------------------------------------------------------------
\* Crashes and the rest.

\* A crash drops every processor, and the jobs it had are counted as stalled.
LEMMA CrashKeepsTimers ==
    ASSUME DataInv, TimerInv, Crash
    PROVE  TimerInv'
<1>1. UNCHANGED <<storeVars, announced>> /\ faults' # 0
  BY DEF Crash, Fault, DataInv, StoreInv, StoreType
<1>2. HandlersAside
  <2>1. ASSUME NEW r \in Requests
        PROVE  \/ req'[r] = req[r] /\ req[r].stage \in {"new", "done"}
               \/ req'[r] = Answered(req[r].kind, req[r].inc, "LOST")
    BY DEF Crash, InFlight
  <2>2. \A r \in Requests : req'[r].stage # "publish"
                            /\ (req'[r] = req[r] \/ req'[r].outcome # "OK")
    BY <2>1 DEF Answered, Unserved
  <2> QED
    BY <2>2 DEF HandlersAside, Scheduling
<1>3. ASSUME NEW i \in Incidents
      PROVE  TimerGood(i)' /\ (jobs'[i].st = "none" <=> jobs[i].st = "none")
  <2>1. TimerGood(i) /\ hist'[i] = hist[i] /\ announced'[i] = announced[i]
    BY <1>1 DEF TimerInv, storeVars
  <2>2. worker'[i].stage = "idle"
    BY IdleIsIdle DEF Crash
  <2>3. announced[i] \in Nat /\ jobs[i].stalls \in Nat
    BY DEF DataInv, WorkersInv, WorkerType, QueueType, Job
  <2>4. CASE jobs[i].st # "active"
    <3>1. jobs'[i] = jobs[i] /\ worker[i].stage = "idle"
      BY <2>1, <2>4 DEF Crash, StallActive, TimerGood
    <3> QED
      BY <2>1, <2>2, <2>4, <3>1 DEF TimerGood, Finished, Versions
  <2>5. CASE jobs[i].st = "active"
    <3>1. jobs'[i].st \in {"failed", "waiting"} /\ jobs'[i].stalls = jobs[i].stalls + 1
      BY <2>5 DEF Crash, StallActive
    <3>2. announced'[i] <= jobs'[i].stalls + 0 /\ jobs'[i].stalls > 0
      BY <2>1, <2>3, <3>1 DEF TimerGood
    <3> QED
      BY <2>1, <2>2, <2>5, <3>1, <3>2 DEF TimerGood, Finished
  <2> QED
    BY <2>4, <2>5
<1> QED
  BY <1>1, <1>2, <1>3, TimerStep

LEMMA InitTimers == Init => TimerInv
<1> SUFFICES ASSUME Init PROVE TimerInv
  OBVIOUS
<1>1. /\ \A i \in Incidents : /\ hist[i] = {} /\ announced[i] = 0 /\ worker[i].stage = "idle"
                              /\ jobs[i].st = "none" /\ jobs[i].stalls = 0
      /\ \A r \in Requests : req[r].stage = "new" /\ req[r].outcome = "none"
  BY IdleIsIdle DEF Init, StoreInit, QueueInit, WorkerInit, ServiceInit, Unserved
<1> QED
  BY <1>1 DEF TimerInv, TimerGood, Finished, Versions, Scheduling, CreatedHasTimer

\* Every step of the system keeps the timers in order.
THEOREM NextKeepsTimers == DataInv /\ TimerInv /\ [Next]_vars => TimerInv'
<1> SUFFICES ASSUME DataInv, TimerInv, [Next]_vars PROVE TimerInv'
  OBVIOUS
<1>1. DataInv'
  BY NextKeeps
<1>2. ASSUME NEW r \in Requests, Serve(r) PROVE TimerInv'
  BY <1>1, <1>2, MiddleKeepsTimers, CountKeepsTimers, InsertKeepsTimers,
     CreatePublishKeepsTimers, ResolvePublishKeepsTimers DEF Serve, Continue
<1>3. ASSUME NEW i \in Incidents, Process(i) PROVE TimerInv'
  BY <1>1, <1>3, WorkerLoadKeepsTimers, WorkerSaveKeepsTimers, WorkerPublishKeepsTimers,
     WorkerCompleteKeepsTimers DEF Process
<1>4. ASSUME UNCHANGED <<hist, faults, jobs, req, worker, announced>> PROVE TimerInv'
  BY <1>4, StillTable, StillIsAside, AsideStep
<1>5. CASE Environment
  <2>1. ASSUME NEW i \in Incidents, GrowOld(i),
               UNCHANGED <<faults, jobs, req, staffState, workerVars>>
        PROVE  TimerInv'
    BY <1>4, <2>1 DEF GrowOld, workerVars
  <2>2. ASSUME NEW s \in Staff, NEW state \in StaffStates, UpdateStaffState(s, state),
               UNCHANGED workerVars
        PROVE  TimerInv'
    BY <1>4, <2>2 DEF UpdateStaffState, storeVars, workerVars
  <2> QED
    BY <1>5, <2>1, <2>2, QueryFailsKeepsTimers, WorkerQueryFailsKeepsTimers, CrashKeepsTimers
       DEF Environment
<1>6. CASE UNCHANGED vars
  BY <1>4, <1>6 DEF vars, storeVars, workerVars
<1> QED
  BY <1>1, <1>2, <1>3, <1>5, <1>6, ArriveKeepsTimers DEF Next

\* The whole inductive invariant: the data, the timers and the counts.
THEOREM InductiveInvariant == Spec => []IInv
<1>1. Init => IInv
  BY InitGood, InitTimers, InitReports DEF IInv
<1>2. IInv /\ [Next]_vars => IInv'
  BY NextKeeps, NextKeepsTimers, NextKeepsReports DEF IInv
<1> QED
  BY <1>1, <1>2, PTL DEF Spec

\* A timer is used up on an incident that was escalated or resolved before.
THEOREM TimersAreSpentWell == Spec => []SpentTimerWasJustified
<1>1. IInv => SpentTimerWasJustified
  BY DEF IInv, TimerInv, TimerGood, SpentTimerWasJustified
<1> QED
  BY InductiveInvariant, <1>1, PTL

\* Only a death of the process has an escalation announced twice.
THEOREM AnnouncedOnce == Spec => []EscalationAnnouncedOnce
<1>1. IInv => EscalationAnnouncedOnce
  <2> SUFFICES ASSUME IInv, NEW i \in Incidents PROVE announced[i] <= 1 + jobs[i].stalls
    BY DEF EscalationAnnouncedOnce
  <2>1. announced[i] \in Nat /\ jobs[i].stalls \in Nat
    BY DEF IInv, DataInv, WorkersInv, WorkerType, QueueType, Job
  <2>2. announced[i] <= jobs[i].stalls + (IF Finished(i) THEN 1 ELSE 0)
    BY DEF IInv, TimerInv, TimerGood
  <2> QED
    BY <2>1, <2>2
<1> QED
  BY InductiveInvariant, <1>1, PTL

\* Only a death of the process leaves an escalation unannounced.
THEOREM SilenceMeansCrash == Spec => []SilentEscalationNeedsCrash
<1>1. IInv => SilentEscalationNeedsCrash
  BY DEF IInv, TimerInv, TimerGood, SilentEscalationNeedsCrash
<1> QED
  BY InductiveInvariant, <1>1, PTL

\* While nothing has failed, an incident whose reporter was answered has a timer.
THEOREM TimersAreScheduled == Spec => []CreatedHasTimer
<1>1. IInv => CreatedHasTimer
  BY DEF IInv, TimerInv
<1> QED
  BY InductiveInvariant, <1>1, PTL
=============================================================================
