---------------------------- MODULE IncidentProofs ----------------------------
(***************************************************************************)
(* Proofs about IncidentLifecycle for any numbers of incidents, requests,  *)
(* staff and failures.                                                     *)
(***************************************************************************)
EXTENDS IncidentInvariants, TLAPS

-----------------------------------------------------------------------------
\* The State pattern.

\* A method of a state is an edge of the diagram.
LEMMA AssignIsEdge ==
    ASSUME NEW e \in Row, NEW s \in Staff, NEW active, CanAssignStaff(e, active),
           e.status # "REOPENED"
    PROVE  Edge(e, AssignStaff(e, s)) /\ AssignStaff(e, s).status = "IN_PROGRESS"
BY DEF Edge, SameReport, Assigned, AssignStaff, CanAssignStaff, Row, Statuses

LEMMA ResolveIsEdge ==
    ASSUME NEW e \in Row, CanResolve(e)
    PROVE  Edge(e, Resolve(e)) /\ Resolve(e).status = "RESOLVED"
BY DEF Edge, SameReport, Resolved, Resolve, CanResolve, Row, Statuses

LEMMA EscalateIsEdge ==
    ASSUME NEW e \in Row, CanEscalate(e)
    PROVE  Edge(e, Escalate(e)) /\ Escalate(e).status = "ESCALATED"
BY DEF Edge, SameReport, Escalated, Escalate, CanEscalate, Row, Statuses

LEMMA FeedbackIsEdge ==
    ASSUME NEW e \in Row, CanReceiveFeedback(e), NEW low
    PROVE  /\ Edge(e, ReceiveFeedback(e, low))
           /\ ReceiveFeedback(e, low).status \in {"RESOLVED", "REOPENED"}
BY DEF Edge, SameReport, Rated, ReceiveFeedback, CanReceiveFeedback, Row, Statuses

\* An edge leads from a sound version to a sound one.
LEMMA EdgeKeepsSound ==
    ASSUME NEW v \in Row, NEW w, Sound(v), Edge(v, w)
    PROVE  w \in Row /\ Sound(w)
<1>1. w \in Row /\ w.category = v.category
  BY DEF Edge, SameReport
<1>2. NoOne \notin Staff
  BY NullsAssumption
<1>3. CASE Assigned(v, w)
  BY <1>1, <1>2, <1>3 DEF Assigned, Sound, Coherent
<1>4. CASE Resolved(v, w)
  BY <1>1, <1>4 DEF Resolved, Sound, Coherent
<1>5. CASE Escalated(v, w)
  BY <1>1, <1>5 DEF Escalated, Sound, Coherent
<1>6. CASE Rated(v, w)
  BY <1>1, <1>6 DEF Rated, Sound, Coherent
<1> QED
  BY <1>1, <1>3, <1>4, <1>5, <1>6 DEF Edge

\* So does the increment of duplicateCount.
LEMMA CountKeepsSound ==
    ASSUME NEW v \in Row, Sound(v)
    PROVE  LET w == [v EXCEPT !.dups = @ + 1] IN w \in Row /\ Sound(w)
BY DEF Sound, Coherent, Row

\* toEntity() gives a sound version back as it is.
LEMMA ToEntityIsIdentity ==
    ASSUME NEW v \in Row, Sound(v)
    PROVE  ToEntity(v) = v
BY DEF Sound, ToEntity, Row

\* The first version of an incident.
LEMMA NewbornIsSound ==
    ASSUME NEW e, Newborn(e), CanCreate(e)
    PROVE  e \in Row /\ Sound(e) /\ e \in Fresh
BY DEF Newborn, CanCreate, Sound, Coherent, Row, Fresh

LEMMA NewIncidentIsNewborn ==
    ASSUME NEW report \in Report
    PROVE  Newborn(NewIncident(report))
BY DEF Newborn, NewIncident, BuiltCategory, Report, Row, Statuses, ValidCategories, Undefined

-----------------------------------------------------------------------------
\* The table.

\* The history only grows.
Grows == \A i \in Incidents : hist[i] \subseteq hist'[i]

\* Storing a sound version in a row keeps the table and its history in order.
LEMMA StoreKeepsInv ==
    ASSUME StoreInv, NEW i \in Incidents, NEW e \in Row, Sound(e),
           rows' = [rows EXCEPT ![i] = e],
           hist' = [hist EXCEPT ![i] = @ \cup {e}],
           age' \in [Incidents -> 0..2], faults' \in Nat
    PROVE  StoreInv' /\ Grows /\ e \in hist'[i]
<1>1. NoRow \notin Row
  BY StoreAssumption
<1>2. StoreType' /\ Grows /\ e \in hist'[i]
  BY DEF StoreInv, StoreType, Grows
<1>3. ASSUME NEW j \in Incidents
      PROVE  /\ rows'[j] # NoRow => rows'[j] \in hist'[j]
             /\ rows'[j] = NoRow => hist'[j] = {}
             /\ \A v \in hist'[j] : Sound(v)
  <2>1. CASE j = i
    BY <1>1, <2>1 DEF StoreInv, StoreType
  <2>2. CASE j # i
    BY <2>2 DEF StoreInv, StoreType
  <2> QED
    BY <2>1, <2>2
<1> QED
  BY <1>2, <1>3 DEF StoreInv

\* So does leaving it alone.
LEMMA StoreStays ==
    ASSUME StoreInv, UNCHANGED <<rows, hist>>,
           age' \in [Incidents -> 0..2], faults' \in Nat
    PROVE  StoreInv' /\ Grows
BY DEF StoreInv, StoreType, Grows

\* Outside failures only count up.
LEMMA FaultIsNat ==
    ASSUME faults \in Nat, Fault
    PROVE  faults' \in Nat
BY DEF Fault

\* The increment of duplicateCount.
LEMMA IncrementKeepsInv ==
    ASSUME StoreInv, NEW i \in Incidents, hist[i] # {},
           IncrementDuplicateCount(i), faults' \in Nat
    PROVE  StoreInv' /\ Grows /\ Counted(rows[i], rows'[i])
<1>1. rows[i] \in Row /\ Sound(rows[i])
  BY DEF StoreInv, StoreType
<1> DEFINE w == [rows[i] EXCEPT !.dups = @ + 1]
<1>2. w \in Row /\ Sound(w)
  BY <1>1, CountKeepsSound
<1>3. /\ rows' = [rows EXCEPT ![i] = w]
      /\ hist' = [hist EXCEPT ![i] = @ \cup {w}]
      /\ age' = age
  BY DEF IncrementDuplicateCount
<1>4. age' \in [Incidents -> 0..2]
  BY <1>3 DEF StoreInv, StoreType
<1>5. rows'[i] = w
  BY <1>3 DEF StoreInv, StoreType
<1> HIDE DEF w
<1>6. StoreInv' /\ Grows
  BY <1>2, <1>3, <1>4, StoreKeepsInv
<1> QED
  BY <1>5, <1>6 DEF Counted, w

-----------------------------------------------------------------------------
\* The handlers and processors.

\* What a handler knows of the history stays true as the history grows.
LEMMA HandlerStaysGood ==
    ASSUME NEW h, NEW old, NEW new, HandlerGood(h, old),
           \A i \in Incidents : old[i] \subseteq new[i]
    PROVE  HandlerGood(h, new)
BY DEF HandlerGood, Operations

\* One handler moves on, the others keep what they know.
LEMMA HandlerMoves ==
    ASSUME HandlersInv, Grows, NEW r \in Requests, NEW h \in Handler, HandlerGood(h, hist'),
           req' = [req EXCEPT ![r] = h], staffState' \in [Staff -> StaffStates]
    PROVE  HandlersInv'
<1>1. ServiceType'
  BY DEF HandlersInv, ServiceType
<1>2. ASSUME NEW q \in Requests
      PROVE  HandlerGood(req'[q], hist')
  <2>1. CASE q = r
    BY <2>1 DEF HandlersInv, ServiceType
  <2>2. CASE q # r
    <3>1. HandlerGood(req[q], hist) /\ req'[q] = req[q]
      BY <2>2 DEF HandlersInv, ServiceType
    <3> QED
      BY <3>1, HandlerStaysGood DEF Grows
  <2> QED
    BY <2>1, <2>2
<1> QED
  BY <1>1, <1>2 DEF HandlersInv

\* No handler moves.
LEMMA HandlersStay ==
    ASSUME HandlersInv, Grows, UNCHANGED req, staffState' \in [Staff -> StaffStates]
    PROVE  HandlersInv'
<1>1. \A q \in Requests : HandlerGood(req'[q], hist')
  BY HandlerStaysGood DEF HandlersInv, Grows
<1> QED
  BY <1>1 DEF HandlersInv, ServiceType

\* No processor moves.
LEMMA WorkersStay ==
    ASSUME WorkersInv, Grows, UNCHANGED workerVars, QueueType'
    PROVE  WorkersInv'
BY DEF WorkersInv, WorkerType, ProcessorGood, Grows, workerVars

\* One processor moves on, the others keep what they know.
LEMMA ProcessorMoves ==
    ASSUME WorkersInv, Grows, NEW i \in Incidents, NEW w \in Processor,
           ProcessorGood(w, hist'[i]), worker' = [worker EXCEPT ![i] = w],
           announced' \in [Incidents -> Nat], QueueType'
    PROVE  WorkersInv'
<1>1. WorkerType'
  BY DEF WorkersInv, WorkerType
<1>2. ASSUME NEW j \in Incidents
      PROVE  ProcessorGood(worker'[j], hist'[j])
  <2>1. CASE j = i
    BY <2>1 DEF WorkersInv, WorkerType
  <2>2. CASE j # i
    BY <2>2 DEF WorkersInv, WorkerType, ProcessorGood, Grows
  <2> QED
    BY <2>1, <2>2
<1> QED
  BY <1>1, <1>2 DEF WorkersInv

-----------------------------------------------------------------------------
\* Answers and held entities.

\* An answer other than OK claims nothing.
LEMMA AnswerIsGood ==
    ASSUME NEW kind \in Operations \cup {"none"}, NEW i \in Incidents \cup {NoIncident},
           NEW o \in Outcomes \ {"OK"}, NEW versions
    PROVE  Answered(kind, i, o) \in Handler /\ HandlerGood(Answered(kind, i, o), versions)
BY DEF Answered, Unserved, Handler, HandlerGood, Stages

\* An OK claims that what was promised is on record.
LEMMA SuccessIsGood ==
    ASSUME NEW kind \in Operations, NEW i \in Incidents, NEW versions,
           NEW v \in versions[i], v.status \in Promised(kind)
    PROVE  /\ Answered(kind, i, "OK") \in Handler
           /\ HandlerGood(Answered(kind, i, "OK"), versions)
BY DEF Answered, Unserved, Handler, HandlerGood, Stages, Outcomes

\* A step of one handler that leaves the table alone.
LEMMA QuietStep ==
    ASSUME DataInv, NEW r \in Requests, NEW h \in Handler, HandlerGood(h, hist),
           req' = [req EXCEPT ![r] = h], UNCHANGED <<storeVars, staffState, workerVars>>,
           faults' \in Nat, QueueType'
    PROVE  DataInv'
<1>1. StoreInv' /\ Grows
  BY StoreStays DEF DataInv, StoreInv, StoreType, storeVars
<1>2. hist' = hist /\ staffState' \in [Staff -> StaffStates]
  BY DEF DataInv, HandlersInv, ServiceType, storeVars
<1>3. HandlersInv'
  BY <1>1, <1>2, HandlerMoves DEF DataInv
<1>4. WorkersInv'
  BY <1>1, WorkersStay DEF DataInv
<1> QED
  BY <1>1, <1>3, <1>4 DEF DataInv

\* A request that is refused when it arrives.
LEMMA RefuseStep ==
    ASSUME DataInv, NEW r \in Requests, NEW kind \in Operations,
           NEW i \in Incidents \cup {NoIncident}, NEW o \in Outcomes \ {"OK"},
           Refuse(r, kind, i, o),
           UNCHANGED <<storeVars, faults, jobs, staffState, workerVars>>
    PROVE  DataInv'
<1>1. faults' \in Nat /\ QueueType'
  BY DEF DataInv, StoreInv, StoreType, WorkersInv, QueueType
<1> DEFINE h == Answered(kind, i, o)
<1>2. h \in Handler /\ HandlerGood(h, hist)
  BY AnswerIsGood
<1>3. req' = [req EXCEPT ![r] = h]
  BY DEF Refuse
<1> HIDE DEF h
<1> QED
  BY <1>1, <1>2, <1>3, QuietStep

\* A handler that gives up.
LEMMA AnswerStep ==
    ASSUME DataInv, NEW r \in Requests, NEW o \in Outcomes \ {"OK"}, Answer(r, o),
           UNCHANGED <<storeVars, jobs, staffState, workerVars>>, faults' \in Nat
    PROVE  DataInv'
<1>1. QueueType'
  BY DEF DataInv, WorkersInv, QueueType
<1> DEFINE h == Answered(req[r].kind, req[r].inc, o)
<1>2. req[r].kind \in Operations \cup {"none"} /\ req[r].inc \in Incidents \cup {NoIncident}
  BY DEF DataInv, HandlersInv, ServiceType, Handler
<1>3. h \in Handler /\ HandlerGood(h, hist)
  BY <1>2, AnswerIsGood
<1>4. req' = [req EXCEPT ![r] = h]
  BY DEF Answer
<1> HIDE DEF h
<1> QED
  BY <1>1, <1>3, <1>4, QuietStep

\* A handler that read incident i and is to save what became of it.
LEMMA HoldStep ==
    ASSUME DataInv, NEW r \in Requests, NEW kind \in {"assign", "resolve", "feedback"},
           NEW i \in Incidents, NEW e, rows[i] # NoRow, Edge(rows[i], e),
           e.status \in Promised(kind), Hold(r, kind, i, "save", rows[i], e),
           UNCHANGED <<storeVars, faults, jobs, staffState, workerVars>>
    PROVE  DataInv'
<1>1. faults' \in Nat /\ QueueType'
  BY DEF DataInv, StoreInv, StoreType, WorkersInv, QueueType
<1> DEFINE h == [Unserved EXCEPT !.stage = "save", !.kind = kind, !.inc = i,
                                 !.base = rows[i], !.entity = e]
<1>2. rows[i] \in Row /\ rows[i] \in hist[i] /\ e \in Row
  BY DEF DataInv, StoreInv, StoreType, Edge
<1>3. h \in Handler
  BY <1>2 DEF Handler, Unserved, Stages, Operations, Outcomes
<1>4. HandlerGood(h, hist)
  BY <1>2 DEF HandlerGood, Unserved
<1>5. req' = [req EXCEPT ![r] = h]
  BY DEF Hold
<1> HIDE DEF h
<1> QED
  BY <1>1, <1>3, <1>4, <1>5, QuietStep

\* What findById() gives of a row that exists.
LEMMA LoadedIsRow ==
    ASSUME DataInv, NEW i \in Incidents, rows[i] # NoRow
    PROVE  rows[i] \in Row /\ rows[i] \in hist[i] /\ Sound(rows[i]) /\ ToEntity(rows[i]) = rows[i]
BY ToEntityIsIdentity DEF DataInv, StoreInv, StoreType

-----------------------------------------------------------------------------
\* Every action keeps the invariant: createIncident.

LEMMA CreateCheckDuplicatesKeeps ==
    ASSUME DataInv, NEW r \in Requests, NEW report \in Reports,
           CreateCheckDuplicates(r, report), UNCHANGED workerVars
    PROVE  DataInv'
<1>1. UNCHANGED <<storeVars, faults, jobs, staffState>>
  BY DEF CreateCheckDuplicates
<1>2. CASE report.defect = "field"
  <2>1. Refuse(r, "create", NoIncident, "VALIDATION_ERROR")
    BY <1>2 DEF CreateCheckDuplicates
  <2> QED
    BY <1>1, <2>1, RefuseStep DEF Operations, Outcomes
<1>3. faults' \in Nat /\ QueueType'
  BY <1>1 DEF DataInv, StoreInv, StoreType, WorkersInv, QueueType
<1> DEFINE found == FindDuplicates(report.category, report.room)
           counting == [Unserved EXCEPT !.stage = "count", !.kind = "create", !.report = report]
           doubled(i) == [Unserved EXCEPT !.stage = "increment", !.kind = "create", !.inc = i,
                                          !.base = NoRow, !.entity = NoRow]
<1>4. CASE report.defect # "field" /\ found = {}
  <2>1. req' = [req EXCEPT ![r] = counting]
    BY <1>4 DEF CreateCheckDuplicates
  <2>2. counting \in Handler /\ HandlerGood(counting, hist)
    BY DEF Handler, Unserved, Stages, Operations, Outcomes, HandlerGood
  <2> HIDE DEF counting
  <2> QED
    BY <1>1, <1>3, <2>1, <2>2, QuietStep
<1>5. CASE report.defect # "field" /\ found # {}
  <2>1. PICK i \in Newest(found) : Hold(r, "create", i, "increment", NoRow, NoRow)
    BY <1>5 DEF CreateCheckDuplicates
  <2>2. i \in Incidents /\ rows[i] # NoRow
    BY DEF Newest, FindDuplicates
  <2>3. req' = [req EXCEPT ![r] = doubled(i)]
    BY <2>1 DEF Hold
  <2>4. doubled(i) \in Handler
    BY <2>2 DEF Handler, Unserved, Stages, Operations, Outcomes
  <2>5. HandlerGood(doubled(i), hist)
    BY <2>2, LoadedIsRow DEF Unserved, HandlerGood
  <2> HIDE DEF doubled
  <2> QED
    BY <1>1, <1>3, <2>3, <2>4, <2>5, QuietStep
<1> QED
  BY <1>2, <1>4, <1>5

LEMMA CreateCountRecentKeeps ==
    ASSUME DataInv, NEW r \in Requests, CreateCountRecent(r), UNCHANGED workerVars
    PROVE  DataInv'
<1>1. UNCHANGED <<storeVars, faults, jobs, staffState>> /\ req[r].stage = "count"
  BY DEF CreateCountRecent
<1>2. faults' \in Nat /\ QueueType'
  BY <1>1 DEF DataInv, StoreInv, StoreType, WorkersInv, QueueType
<1>3. req[r] \in Handler /\ HandlerGood(req[r], hist)
  BY DEF DataInv, HandlersInv, ServiceType
<1>4. req[r].kind = "create" /\ req[r].report \in Reports /\ req[r].outcome # "OK"
  BY <1>1, <1>3 DEF HandlerGood
<1>5. CASE Answer(r, "SPAM_THROTTLE") \/ Answer(r, "VALIDATION_ERROR")
  BY <1>1, <1>2, <1>5, AnswerStep DEF Outcomes
<1> DEFINE e == NewIncident(req[r].report)
           h == [req[r] EXCEPT !.stage = "insert", !.entity = e]
<1>6. CASE req' = [req EXCEPT ![r].stage = "insert", ![r].entity = e]
  <2>1. Newborn(e)
    BY <1>4, NewIncidentIsNewborn, ServiceAssumption
  <2>2. e \in Row
    BY <2>1 DEF Newborn
  <2> HIDE DEF e
  <2>3. req' = [req EXCEPT ![r] = h]
    BY <1>6 DEF DataInv, HandlersInv, ServiceType, Handler
  <2>4. h \in Handler
    BY <1>3, <2>2 DEF Handler, Stages
  <2>5. HandlerGood(h, hist)
    BY <1>3, <1>4, <2>1 DEF HandlerGood, Handler
  <2> HIDE DEF h
  <2> QED
    BY <1>1, <1>2, <2>3, <2>4, <2>5, QuietStep
<1> QED
  BY <1>5, <1>6 DEF CreateCountRecent

LEMMA CreateInsertKeeps ==
    ASSUME DataInv, NEW r \in Requests, CreateInsert(r), UNCHANGED workerVars
    PROVE  DataInv'
<1>1. UNCHANGED <<faults, jobs, staffState>> /\ req[r].stage = "insert"
  BY DEF CreateInsert
<1>2. faults' \in Nat /\ QueueType' /\ staffState' \in [Staff -> StaffStates]
  BY <1>1 DEF DataInv, StoreInv, StoreType, WorkersInv, QueueType, HandlersInv, ServiceType
<1>3. req[r].kind = "create" /\ Newborn(req[r].entity)
  BY <1>1 DEF DataInv, HandlersInv, HandlerGood
<1>4. CASE ~CanCreate(req[r].entity)
  BY <1>1, <1>2, <1>4, AnswerStep DEF CreateInsert, Outcomes
<1>5. CASE CanCreate(req[r].entity)
  <2>1. PICK i \in FreeIds : /\ Create(i, req[r].entity)
                             /\ Hold(r, "create", i, "publish", NoRow, req[r].entity)
    BY <1>5 DEF CreateInsert
  <2> DEFINE e == req[r].entity
             h == [Unserved EXCEPT !.stage = "publish", !.kind = "create", !.inc = i,
                                   !.base = NoRow, !.entity = e]
  <2>2. i \in Incidents
    BY DEF FreeIds
  <2>3. e \in Row /\ Sound(e) /\ e.status = "OPEN"
    BY <1>3, <1>5, NewbornIsSound DEF Newborn
  <2>4. /\ rows' = [rows EXCEPT ![i] = e]
        /\ hist' = [hist EXCEPT ![i] = @ \cup {e}]
        /\ age'  = [age EXCEPT ![i] = 0]
        /\ req' = [req EXCEPT ![r] = h]
    BY <2>1 DEF Create, Hold
  <2> HIDE DEF e
  <2>5. age' \in [Incidents -> 0..2]
    <3>1. age \in [Incidents -> 0..2] /\ age' = [age EXCEPT ![i] = 0] /\ 0 \in 0..2
      BY <2>4 DEF DataInv, StoreInv, StoreType
    <3> QED
      BY <3>1
  <2>6. StoreInv' /\ Grows /\ e \in hist'[i]
    BY <1>2, <2>2, <2>3, <2>4, <2>5, StoreKeepsInv DEF DataInv
  <2>7. h \in Handler
    BY <2>2, <2>3 DEF Handler, Unserved, Stages, Operations, Outcomes
  <2>8. HandlerGood(h, hist')
    BY <2>2, <2>3, <2>6 DEF HandlerGood, Unserved, Operations, Promised
  <2> HIDE DEF h
  <2>9. HandlersInv'
    BY <1>2, <2>4, <2>6, <2>7, <2>8, HandlerMoves DEF DataInv
  <2>10. WorkersInv'
    BY <1>2, <2>6, WorkersStay DEF DataInv
  <2> QED
    BY <2>6, <2>9, <2>10 DEF DataInv
<1> QED
  BY <1>4, <1>5

LEMMA CreateCountDuplicateKeeps ==
    ASSUME DataInv, NEW r \in Requests, CreateCountDuplicate(r), UNCHANGED workerVars
    PROVE  DataInv'
<1> DEFINE i == req[r].inc
           h == Answered(req[r].kind, i, "DUPLICATE_INCIDENT")
<1>1. /\ UNCHANGED <<faults, jobs, staffState>>
      /\ IncrementDuplicateCount(i)
      /\ req' = [req EXCEPT ![r] = h]
  BY DEF CreateCountDuplicate, Answer
<1>2. req[r].kind = "create" /\ i \in Incidents /\ hist[i] # {}
  BY DEF CreateCountDuplicate, DataInv, HandlersInv, HandlerGood
<1>3. faults' \in Nat /\ QueueType' /\ staffState' \in [Staff -> StaffStates]
  BY <1>1 DEF DataInv, StoreInv, StoreType, WorkersInv, QueueType, HandlersInv, ServiceType
<1>4. h \in Handler /\ HandlerGood(h, hist')
  BY <1>2, AnswerIsGood DEF Operations, Outcomes
<1> HIDE DEF h, i
<1>5. StoreInv' /\ Grows
  BY <1>1, <1>2, <1>3, IncrementKeepsInv DEF DataInv
<1>6. HandlersInv'
  BY <1>1, <1>3, <1>4, <1>5, HandlerMoves DEF DataInv
<1>7. WorkersInv'
  BY <1>3, <1>5, WorkersStay DEF DataInv
<1> QED
  BY <1>5, <1>6, <1>7 DEF DataInv

\* The queue's own steps.
LEMMA SetJobKeepsType ==
    ASSUME QueueType, NEW i \in Incidents, NEW st \in JobStates, SetJob(i, st)
    PROVE  QueueType'
BY DEF QueueType, SetJob, Job

LEMMA FailAttemptKeepsType ==
    ASSUME QueueType, NEW i \in Incidents, FailAttempt(i)
    PROVE  QueueType'
BY QueueAssumption DEF QueueType, FailAttempt, Job, JobStates

LEMMA StallKeepsType ==
    ASSUME QueueType, StallActive
    PROVE  QueueType'
BY QueueAssumption DEF QueueType, StallActive, Job, JobStates

\* A handler that has saved its entity answers, whatever publish() does.
LEMMA PublishStep ==
    ASSUME DataInv, NEW r \in Requests, req[r].stage = "publish", Answer(r, "OK"),
           UNCHANGED <<storeVars, staffState, workerVars>>, faults' \in Nat, QueueType'
    PROVE  DataInv'
<1> DEFINE h == Answered(req[r].kind, req[r].inc, "OK")
<1>1. /\ req[r].kind \in Operations /\ req[r].inc \in Incidents
      /\ req[r].entity \in hist[req[r].inc]
      /\ req[r].entity.status \in Promised(req[r].kind)
  BY DEF DataInv, HandlersInv, HandlerGood
<1>2. h \in Handler /\ HandlerGood(h, hist)
  BY <1>1, SuccessIsGood
<1>3. req' = [req EXCEPT ![r] = h]
  BY DEF Answer
<1> HIDE DEF h
<1> QED
  BY <1>2, <1>3, QuietStep

LEMMA CreatePublishKeeps ==
    ASSUME DataInv, NEW r \in Requests, CreatePublish(r), UNCHANGED workerVars
    PROVE  DataInv'
<1>1. req[r].stage = "publish" /\ Answer(r, "OK") /\ UNCHANGED <<storeVars, staffState>>
  BY DEF CreatePublish
<1>2. req[r].inc \in Incidents
  BY <1>1 DEF DataInv, HandlersInv, HandlerGood
<1>3. faults \in Nat /\ QueueType
  BY DEF DataInv, StoreInv, StoreType, WorkersInv
<1>4. CASE ScheduleEscalation(req[r].inc) /\ UNCHANGED faults
  <2>1. QueueType'
    BY <1>2, <1>3, <1>4, SetJobKeepsType DEF ScheduleEscalation, JobStates
  <2> QED
    BY <1>1, <1>3, <1>4, <2>1, PublishStep
<1>5. CASE Fault /\ UNCHANGED jobs
  <2>1. QueueType' /\ faults' \in Nat
    BY <1>3, <1>5, FaultIsNat DEF QueueType
  <2> QED
    BY <1>1, <2>1, PublishStep
<1> QED
  BY <1>4, <1>5 DEF CreatePublish

-----------------------------------------------------------------------------
\* assignIncident, resolveIncident, submitFeedback.

LEMMA AssignLoadKeeps ==
    ASSUME DataInv, NEW r \in Requests, NEW i \in Incidents, AssignLoad(r, i), UNCHANGED workerVars
    PROVE  DataInv'
<1>1. UNCHANGED <<storeVars, faults, jobs, staffState>>
  BY DEF AssignLoad
<1>2. CASE Refuse(r, "assign", i, "INCIDENT_NOT_ASSIGNABLE")
  BY <1>1, <1>2, RefuseStep DEF Operations, Outcomes
<1> DEFINE e == ToEntity(rows[i])
           h == [Unserved EXCEPT !.stage = "staff", !.kind = "assign", !.inc = i,
                                 !.base = e, !.entity = e]
<1>3. CASE /\ rows[i] # NoRow /\ rows[i].status \in {"OPEN", "ESCALATED"}
           /\ Hold(r, "assign", i, "staff", e, e)
  <2>1. e = rows[i] /\ e \in Row /\ e \in hist[i] /\ e.status \in {"OPEN", "ESCALATED"}
    BY <1>3, LoadedIsRow
  <2>2. req' = [req EXCEPT ![r] = h]
    BY <1>3 DEF Hold
  <2> HIDE DEF e
  <2>3. h \in Handler
    BY <2>1 DEF Handler, Unserved, Stages, Operations, Outcomes
  <2>4. HandlerGood(h, hist)
    BY <2>1 DEF HandlerGood, Unserved
  <2>5. faults' \in Nat /\ QueueType'
    BY <1>1 DEF DataInv, StoreInv, StoreType, WorkersInv, QueueType
  <2> HIDE DEF h
  <2> QED
    BY <1>1, <2>2, <2>3, <2>4, <2>5, QuietStep
<1> QED
  BY <1>2, <1>3 DEF AssignLoad

LEMMA AssignSelectStaffKeeps ==
    ASSUME DataInv, NEW r \in Requests, AssignSelectStaff(r), UNCHANGED workerVars
    PROVE  DataInv'
<1>1. UNCHANGED <<storeVars, faults, jobs, staffState>> /\ req[r].stage = "staff"
  BY DEF AssignSelectStaff
<1>2. faults' \in Nat /\ QueueType'
  BY <1>1 DEF DataInv, StoreInv, StoreType, WorkersInv, QueueType
<1>3. CASE Answer(r, "NO_STAFF_AVAILABLE") \/ Answer(r, "INTERNAL_ERROR")
  BY <1>1, <1>2, <1>3, AnswerStep DEF Outcomes
<1>4. CASE \E s \in Staff :
              /\ staffState[s] = "ACTIVE"
              /\ CanAssignStaff(req[r].entity, staffState[s] = "ACTIVE")
              /\ req' = [req EXCEPT ![r].stage = "save", ![r].entity = AssignStaff(@, s)]
  <2>1. PICK s \in Staff :
            /\ staffState[s] = "ACTIVE"
            /\ CanAssignStaff(req[r].entity, staffState[s] = "ACTIVE")
            /\ req' = [req EXCEPT ![r].stage = "save", ![r].entity = AssignStaff(@, s)]
    BY <1>4
  <2> DEFINE e == req[r].entity
             w == AssignStaff(e, s)
             h == [req[r] EXCEPT !.stage = "save", !.entity = w]
  <2>2. req[r] \in Handler /\ HandlerGood(req[r], hist)
    BY DEF DataInv, HandlersInv, ServiceType
  <2>3. /\ req[r].kind = "assign" /\ req[r].inc \in Incidents
        /\ req[r].base \in hist[req[r].inc] /\ e = req[r].base
        /\ e.status \in {"OPEN", "ESCALATED"} /\ req[r].outcome # "OK"
    BY <1>1, <2>2 DEF HandlerGood
  <2>4. e \in Row
    BY <2>3 DEF DataInv, StoreInv, StoreType
  <2>5. Edge(e, w) /\ w.status = "IN_PROGRESS"
    BY <2>1, <2>3, <2>4, AssignIsEdge
  <2>6. w \in Row
    BY <2>5 DEF Edge
  <2>7. req' = [req EXCEPT ![r] = h]
    BY <2>1 DEF DataInv, HandlersInv, ServiceType, Handler
  <2> HIDE DEF w
  <2>8. h \in Handler
    BY <2>2, <2>6 DEF Handler, Stages
  <2>9. HandlerGood(h, hist)
    BY <2>2, <2>3, <2>5 DEF HandlerGood, Handler, Promised
  <2> HIDE DEF h
  <2> QED
    BY <1>1, <1>2, <2>7, <2>8, <2>9, QuietStep
<1> QED
  BY <1>3, <1>4 DEF AssignSelectStaff

LEMMA ResolveLoadKeeps ==
    ASSUME DataInv, NEW r \in Requests, NEW i \in Incidents, NEW filed \in BOOLEAN,
           ResolveLoad(r, i, filed), UNCHANGED workerVars
    PROVE  DataInv'
<1>1. UNCHANGED <<storeVars, faults, jobs, staffState>>
  BY DEF ResolveLoad
<1>2. CASE \E o \in {"NOT_FOUND", "INVALID_STATE_TRANSITION", "RESOLUTION_REJECTED"} :
              Refuse(r, "resolve", i, o)
  BY <1>1, <1>2, RefuseStep DEF Operations, Outcomes
<1> DEFINE e == ToEntity(rows[i])
<1>3. CASE rows[i] # NoRow /\ CanResolve(e) /\ Hold(r, "resolve", i, "save", e, Resolve(e))
  <2>1. e = rows[i] /\ e \in Row
    BY <1>3, LoadedIsRow
  <2>2. Edge(e, Resolve(e)) /\ Resolve(e).status \in Promised("resolve")
    BY <1>3, <2>1, ResolveIsEdge DEF Promised
  <2> HIDE DEF e
  <2> DEFINE w == Resolve(e)
  <2>3. Hold(r, "resolve", i, "save", rows[i], w) /\ Edge(rows[i], w)
        /\ w.status \in Promised("resolve")
    BY <1>3, <2>1, <2>2
  <2> HIDE DEF w
  <2> QED
    BY <1>1, <1>3, <2>3, HoldStep
<1> QED
  BY <1>2, <1>3 DEF ResolveLoad

LEMMA FeedbackLoadKeeps ==
    ASSUME DataInv, NEW r \in Requests, NEW i \in Incidents, NEW low \in BOOLEAN,
           FeedbackLoad(r, i, low), UNCHANGED workerVars
    PROVE  DataInv'
<1>1. UNCHANGED <<storeVars, faults, jobs, staffState>>
  BY DEF FeedbackLoad
<1>2. CASE \E o \in {"NOT_FOUND", "INVALID_STATE_TRANSITION"} : Refuse(r, "feedback", i, o)
  BY <1>1, <1>2, RefuseStep DEF Operations, Outcomes
<1> DEFINE e == ToEntity(rows[i])
<1>3. CASE /\ rows[i] # NoRow /\ CanReceiveFeedback(e)
           /\ Hold(r, "feedback", i, "save", e, ReceiveFeedback(e, low))
  <2>1. e = rows[i] /\ e \in Row
    BY <1>3, LoadedIsRow
  <2>2. Edge(e, ReceiveFeedback(e, low)) /\ ReceiveFeedback(e, low).status \in Promised("feedback")
    BY <1>3, <2>1, FeedbackIsEdge DEF Promised
  <2> HIDE DEF e
  <2> DEFINE w == ReceiveFeedback(e, low)
  <2>3. Hold(r, "feedback", i, "save", rows[i], w) /\ Edge(rows[i], w)
        /\ w.status \in Promised("feedback")
    BY <1>3, <2>1, <2>2
  <2> HIDE DEF w
  <2> QED
    BY <1>1, <1>3, <2>3, HoldStep
<1> QED
  BY <1>2, <1>3 DEF FeedbackLoad

LEMMA SaveKeeps ==
    ASSUME DataInv, NEW r \in Requests, Save(r), UNCHANGED workerVars
    PROVE  DataInv'
<1> DEFINE i == req[r].inc
           e == req[r].entity
           h == [req[r] EXCEPT !.stage = "publish"]
<1>1. req[r] \in Handler /\ HandlerGood(req[r], hist) /\ req[r].stage = "save"
  BY DEF DataInv, HandlersInv, ServiceType, Save
<1>2. /\ req[r].kind \in {"assign", "resolve", "feedback"} /\ i \in Incidents
      /\ req[r].base \in hist[i] /\ Edge(req[r].base, e)
      /\ e.status \in Promised(req[r].kind) /\ req[r].outcome # "OK"
  BY <1>1 DEF HandlerGood
<1>3. req[r].base \in Row /\ Sound(req[r].base)
  BY <1>2 DEF DataInv, StoreInv, StoreType
<1>4. e \in Row /\ Sound(e)
  BY <1>2, <1>3, EdgeKeepsSound
<1>5. /\ rows' = [rows EXCEPT ![i] = e]
      /\ hist' = [hist EXCEPT ![i] = @ \cup {e}]
      /\ UNCHANGED <<age, faults, jobs, staffState>>
  BY DEF Save, Update
<1>6. req' = [req EXCEPT ![r] = h]
  BY DEF Save, DataInv, HandlersInv, ServiceType, Handler
<1>7. /\ age' \in [Incidents -> 0..2] /\ faults' \in Nat /\ QueueType'
      /\ staffState' \in [Staff -> StaffStates]
  BY <1>5 DEF DataInv, StoreInv, StoreType, WorkersInv, QueueType, HandlersInv, ServiceType
<1>8. h \in Handler /\ h.kind = req[r].kind /\ h.inc = i /\ h.entity = e
      /\ h.stage = "publish" /\ h.outcome # "OK"
  BY <1>1, <1>2 DEF Handler, Stages
<1> HIDE DEF h, i, e
<1>9. StoreInv' /\ Grows /\ e \in hist'[i]
  BY <1>2, <1>4, <1>5, <1>7, StoreKeepsInv DEF DataInv
<1>10. HandlerGood(h, hist')
  BY <1>2, <1>8, <1>9 DEF HandlerGood, Operations
<1>11. HandlersInv'
  BY <1>6, <1>7, <1>8, <1>9, <1>10, HandlerMoves DEF DataInv
<1>12. WorkersInv'
  BY <1>7, <1>9, WorkersStay DEF DataInv
<1> QED
  BY <1>9, <1>11, <1>12 DEF DataInv

LEMMA ContinueKeeps ==
    ASSUME DataInv, NEW r \in Requests, Continue(r), UNCHANGED workerVars
    PROVE  DataInv'
<1>1. CASE AssignPublish(r) \/ ResolvePublish(r) \/ FeedbackPublish(r)
  <2>1. /\ req[r].stage = "publish" /\ Answer(r, "OK")
        /\ UNCHANGED <<storeVars, faults, staffState>>
    BY <1>1 DEF AssignPublish, ResolvePublish, FeedbackPublish
  <2>2. faults' \in Nat
    BY <2>1 DEF DataInv, StoreInv, StoreType
  <2>3. QueueType /\ req[r].inc \in Incidents
    BY <2>1 DEF DataInv, WorkersInv, HandlersInv, HandlerGood
  <2>4. UNCHANGED jobs \/ SetJob(req[r].inc, "removed")
    BY <1>1 DEF AssignPublish, ResolvePublish, FeedbackPublish, CancelEscalation
  <2>5. QueueType'
    BY <2>3, <2>4, SetJobKeepsType DEF QueueType, JobStates
  <2> QED
    BY <2>1, <2>2, <2>5, PublishStep
<1> QED
  BY <1>1, CreateCountDuplicateKeeps, CreateCountRecentKeeps, CreateInsertKeeps,
     CreatePublishKeeps, AssignSelectStaffKeeps, SaveKeeps DEF Continue

-----------------------------------------------------------------------------
\* The SLA worker and the environment.

LEMMA WorkerLoadKeeps ==
    ASSUME DataInv, NEW i \in Incidents, WorkerLoad(i)
    PROVE  DataInv'
<1>1. UNCHANGED <<storeVars, faults, req, staffState, announced>>
  BY DEF WorkerLoad
<1>2. StoreInv' /\ Grows /\ hist' = hist
  BY <1>1, StoreStays DEF DataInv, StoreInv, StoreType, storeVars
<1>3. HandlersInv'
  BY <1>1, <1>2, HandlersStay DEF DataInv, HandlersInv, ServiceType
<1>4. QueueType'
  BY SetJobKeepsType DEF DataInv, WorkersInv, WorkerLoad, JobStates
<1> DEFINE e == ToEntity(rows[i])
           w == [stage |-> "save", base |-> e, entity |-> Escalate(e)]
<1>5. CASE UNCHANGED worker
  BY <1>1, <1>2, <1>3, <1>4, <1>5, WorkersStay DEF DataInv, workerVars
<1>6. CASE rows[i] # NoRow /\ ~Handled(e) /\ worker' = [worker EXCEPT ![i] = w]
  <2>1. e = rows[i] /\ e \in Row /\ e \in hist[i]
    BY <1>6, LoadedIsRow
  <2>2. Edge(e, Escalate(e)) /\ Escalate(e).status = "ESCALATED"
    BY <1>6, <2>1, EscalateIsEdge DEF Handled
  <2>3. Escalate(e) \in Row
    BY <2>2 DEF Edge
  <2> HIDE DEF e
  <2>4. w \in Processor /\ ProcessorGood(w, hist'[i])
    BY <1>2, <2>1, <2>2, <2>3 DEF Processor, ProcessorGood
  <2>5. announced' \in [Incidents -> Nat]
    BY <1>1 DEF DataInv, WorkersInv, WorkerType
  <2>6. worker' = [worker EXCEPT ![i] = w]
    BY <1>6
  <2> HIDE DEF w
  <2>7. WorkersInv'
    BY <1>2, <1>4, <2>4, <2>5, <2>6, ProcessorMoves DEF DataInv
  <2> QED
    BY <1>2, <1>3, <2>7 DEF DataInv
<1> QED
  BY <1>5, <1>6 DEF WorkerLoad

LEMMA WorkerSaveKeeps ==
    ASSUME DataInv, NEW i \in Incidents, WorkerSave(i)
    PROVE  DataInv'
<1> DEFINE e == worker[i].entity
           w == [worker[i] EXCEPT !.stage = "publish"]
<1>1. worker[i] \in Processor /\ worker[i].base \in hist[i] /\ Edge(worker[i].base, e)
      /\ e.status = "ESCALATED"
  BY DEF DataInv, WorkersInv, WorkerType, ProcessorGood, WorkerSave
<1>2. worker[i].base \in Row /\ Sound(worker[i].base)
  BY <1>1 DEF DataInv, StoreInv, StoreType
<1>3. e \in Row /\ Sound(e)
  BY <1>1, <1>2, EdgeKeepsSound
<1>4. /\ rows' = [rows EXCEPT ![i] = e]
      /\ hist' = [hist EXCEPT ![i] = @ \cup {e}]
      /\ UNCHANGED <<age, faults, jobs, req, staffState, announced>>
  BY DEF WorkerSave, Update
<1>5. worker' = [worker EXCEPT ![i] = w]
  BY DEF WorkerSave, DataInv, WorkersInv, WorkerType, Processor
<1>6. /\ age' \in [Incidents -> 0..2] /\ faults' \in Nat /\ QueueType'
      /\ staffState' \in [Staff -> StaffStates] /\ announced' \in [Incidents -> Nat]
  BY <1>4 DEF DataInv, StoreInv, StoreType, WorkersInv, WorkerType, QueueType, HandlersInv, ServiceType
<1>7. w \in Processor /\ w.stage = "publish" /\ w.entity = e
  BY <1>1 DEF Processor
<1> HIDE DEF w, e
<1>8. StoreInv' /\ Grows /\ e \in hist'[i]
  BY <1>3, <1>4, <1>6, StoreKeepsInv DEF DataInv
<1>9. HandlersInv'
  BY <1>4, <1>6, <1>8, HandlersStay DEF DataInv
<1>10. ProcessorGood(w, hist'[i])
  BY <1>1, <1>7, <1>8 DEF ProcessorGood
<1>11. WorkersInv'
  BY <1>5, <1>6, <1>7, <1>8, <1>10, ProcessorMoves DEF DataInv
<1> QED
  BY <1>8, <1>9, <1>11 DEF DataInv

\* The steps of the worker that touch neither the table nor a handler.
LEMMA WorkerAsideKeeps ==
    ASSUME DataInv, NEW i \in Incidents,
           WorkerPublish(i) \/ WorkerComplete(i) \/ WorkerQueryFails(i)
    PROVE  DataInv'
<1>1. UNCHANGED <<storeVars, req, staffState>> /\ faults' \in Nat
  BY FaultIsNat DEF WorkerPublish, WorkerComplete, WorkerQueryFails, DataInv, StoreInv, StoreType
<1>2. StoreInv' /\ Grows
  BY <1>1, StoreStays DEF DataInv, StoreInv, StoreType, storeVars
<1>3. HandlersInv'
  BY <1>1, <1>2, HandlersStay DEF DataInv, HandlersInv, ServiceType
<1>4. QueueType'
  BY SetJobKeepsType, FailAttemptKeepsType
     DEF DataInv, WorkersInv, WorkerPublish, WorkerComplete, WorkerQueryFails, JobStates, QueueType
<1>5. announced' \in [Incidents -> Nat]
  BY DEF DataInv, WorkersInv, WorkerType, WorkerPublish, WorkerComplete, WorkerQueryFails
<1>6. PICK w \in {Idle, [Idle EXCEPT !.stage = "complete"]} : worker' = [worker EXCEPT ![i] = w]
  BY DEF WorkerPublish, WorkerComplete, WorkerQueryFails
<1>7. w \in Processor /\ ProcessorGood(w, hist'[i])
  BY DEF Processor, ProcessorGood, Idle
<1>8. WorkersInv'
  BY <1>2, <1>4, <1>5, <1>6, <1>7, ProcessorMoves DEF DataInv
<1> QED
  BY <1>2, <1>3, <1>8 DEF DataInv

LEMMA CrashKeeps ==
    ASSUME DataInv, Crash
    PROVE  DataInv'
<1>1. UNCHANGED <<storeVars, staffState, announced>> /\ faults' \in Nat
  BY FaultIsNat DEF Crash, DataInv, StoreInv, StoreType
<1>2. StoreInv' /\ Grows /\ hist' = hist
  BY <1>1, StoreStays DEF DataInv, StoreInv, StoreType, storeVars
<1>3. ASSUME NEW r \in Requests
      PROVE  req'[r] \in Handler /\ HandlerGood(req'[r], hist')
  <2>1. req[r] \in Handler /\ HandlerGood(req[r], hist)
    BY DEF DataInv, HandlersInv, ServiceType
  <2>2. req'[r] = req[r] \/ req'[r] = Answered(req[r].kind, req[r].inc, "LOST")
    BY DEF Crash
  <2>3. /\ Answered(req[r].kind, req[r].inc, "LOST") \in Handler
        /\ HandlerGood(Answered(req[r].kind, req[r].inc, "LOST"), hist)
    BY <2>1, AnswerIsGood DEF Handler, Outcomes
  <2> QED
    BY <1>2, <2>1, <2>2, <2>3
<1>4. req' \in [Requests -> Handler]
  BY <1>3 DEF Crash
<1>5. HandlersInv'
  BY <1>1, <1>3, <1>4 DEF DataInv, HandlersInv, ServiceType
<1>6. QueueType'
  BY StallKeepsType DEF Crash, DataInv, WorkersInv
<1>7. Idle \in Processor /\ \A i \in Incidents : ProcessorGood(Idle, hist'[i])
  BY DEF Idle, Processor, ProcessorGood
<1>8. worker' = [i \in Incidents |-> Idle]
  BY DEF Crash
<1>9. WorkersInv'
  BY <1>1, <1>6, <1>7, <1>8 DEF DataInv, WorkersInv, WorkerType
<1> QED
  BY <1>2, <1>5, <1>9 DEF DataInv

LEMMA GrowOldKeeps ==
    ASSUME DataInv, NEW i \in Incidents, GrowOld(i),
           UNCHANGED <<faults, jobs, req, staffState, workerVars>>
    PROVE  DataInv'
<1>1. UNCHANGED <<rows, hist>> /\ faults' \in Nat /\ QueueType'
  BY DEF GrowOld, DataInv, StoreInv, StoreType, WorkersInv, QueueType
<1>2. age' \in [Incidents -> 0..2]
  <2>1. age \in [Incidents -> 0..2] /\ age[i] < MaxAge /\ age' = [age EXCEPT ![i] = age[i] + 1]
    BY DEF GrowOld, DataInv, StoreInv, StoreType
  <2>2. age[i] + 1 \in 0..2
    BY <2>1, StoreAssumption
  <2> QED
    BY <2>1, <2>2
<1>3. StoreInv' /\ Grows
  BY <1>1, <1>2, StoreStays DEF DataInv
<1>4. HandlersInv'
  BY <1>3, HandlersStay DEF DataInv, HandlersInv, ServiceType
<1>5. WorkersInv'
  BY <1>1, <1>3, WorkersStay DEF DataInv
<1> QED
  BY <1>3, <1>4, <1>5 DEF DataInv

LEMMA UpdateStaffStateKeeps ==
    ASSUME DataInv, NEW s \in Staff, NEW state \in StaffStates, UpdateStaffState(s, state),
           UNCHANGED workerVars
    PROVE  DataInv'
<1>1. UNCHANGED <<storeVars, faults, jobs, req>> /\ staffState' \in [Staff -> StaffStates]
  BY DEF UpdateStaffState, DataInv, HandlersInv, ServiceType
<1>2. StoreInv' /\ Grows /\ QueueType'
  BY <1>1, StoreStays DEF DataInv, StoreInv, StoreType, storeVars, WorkersInv, QueueType
<1>3. HandlersInv'
  BY <1>1, <1>2, HandlersStay DEF DataInv
<1>4. WorkersInv'
  BY <1>2, WorkersStay DEF DataInv
<1> QED
  BY <1>2, <1>3, <1>4 DEF DataInv

-----------------------------------------------------------------------------
\* The invariant.

LEMMA InitGood == Init => DataInv
<1> SUFFICES ASSUME Init PROVE DataInv
  OBVIOUS
<1>1. StoreInv
  BY DEF Init, StoreInit, StoreInv, StoreType
<1>2. HandlersInv
  BY DEF Init, ServiceInit, HandlersInv, ServiceType, Handler, HandlerGood, Unserved, Stages,
         Outcomes, StaffStates
<1>3. WorkersInv
  BY DEF Init, QueueInit, WorkerInit, WorkersInv, QueueType, WorkerType, Job, JobStates,
         Processor, Idle, ProcessorGood
<1> QED
  BY <1>1, <1>2, <1>3 DEF DataInv

LEMMA StutterKeeps ==
    ASSUME DataInv, UNCHANGED vars
    PROVE  DataInv'
<1>1. /\ UNCHANGED <<storeVars, faults, jobs, req, staffState, workerVars>>
      /\ faults' \in Nat /\ QueueType' /\ staffState' \in [Staff -> StaffStates]
  BY DEF vars, DataInv, StoreInv, StoreType, WorkersInv, QueueType, HandlersInv, ServiceType
<1>2. StoreInv' /\ Grows
  BY <1>1, StoreStays DEF DataInv, StoreInv, StoreType, storeVars
<1>3. HandlersInv' /\ WorkersInv'
  BY <1>1, <1>2, HandlersStay, WorkersStay DEF DataInv
<1> QED
  BY <1>2, <1>3 DEF DataInv

\* Every step of the system keeps the invariant.
THEOREM NextKeeps == DataInv /\ [Next]_vars => DataInv'
<1> SUFFICES ASSUME DataInv, [Next]_vars PROVE DataInv'
  OBVIOUS
<1>1. ASSUME NEW r \in Requests, Arrive(r) PROVE DataInv'
  BY <1>1, CreateCheckDuplicatesKeeps, AssignLoadKeeps, ResolveLoadKeeps, FeedbackLoadKeeps
     DEF Arrive
<1>2. ASSUME NEW r \in Requests, Serve(r) PROVE DataInv'
  BY <1>2, ContinueKeeps DEF Serve
<1>3. ASSUME NEW i \in Incidents, Process(i) PROVE DataInv'
  BY <1>3, WorkerLoadKeeps, WorkerSaveKeeps, WorkerAsideKeeps DEF Process
<1>4. ASSUME NEW r \in Requests, QueryFails(r), UNCHANGED workerVars PROVE DataInv'
  <2>1. /\ Answer(r, "INTERNAL_ERROR") /\ UNCHANGED <<storeVars, jobs, staffState>>
        /\ faults' \in Nat
    BY <1>4, FaultIsNat DEF QueryFails, DataInv, StoreInv, StoreType
  <2> QED
    BY <1>4, <2>1, AnswerStep DEF Outcomes
<1>5. CASE Environment
  BY <1>4, <1>5, WorkerAsideKeeps, GrowOldKeeps, UpdateStaffStateKeeps, CrashKeeps DEF Environment
<1>6. CASE UNCHANGED vars
  BY <1>6, StutterKeeps
<1> QED
  BY <1>1, <1>2, <1>3, <1>5, <1>6 DEF Next

\* The table, the handlers and the worker agree at every moment.
THEOREM Invariance == Spec => []DataInv
<1>1. DataInv /\ [Next]_vars => DataInv'
  BY NextKeeps
<1> QED
  BY InitGood, <1>1, PTL DEF Spec

\* Type correctness.
THEOREM TypeCorrectness == Spec => []TypeOK
<1>1. DataInv => TypeOK
  BY DEF DataInv, StoreInv, HandlersInv, WorkersInv, TypeOK
<1> QED
  BY Invariance, <1>1, PTL

\* However handlers and the worker overtake one another, the columns of every row
\* agree with its status.
THEOREM Coherence == Spec => []RowsCoherent
<1>1. DataInv => RowsCoherent
  BY DEF DataInv, StoreInv, Sound, RowsCoherent
<1> QED
  BY Invariance, <1>1, PTL

\* What a 200 or 201 reports was stored, whatever has happened to the row since.
THEOREM AnswersHold == Spec => []AnswersAreRecorded
<1>1. DataInv => AnswersAreRecorded
  <2> SUFFICES ASSUME DataInv, NEW r \in Requests, req[r].outcome = "OK"
               PROVE  req[r].inc \in Incidents /\ Versions(req[r].inc, Promised(req[r].kind)) # {}
    BY DEF AnswersAreRecorded
  <2>1. req[r].inc \in Incidents /\ \E v \in hist[req[r].inc] : v.status \in Promised(req[r].kind)
    BY DEF DataInv, HandlersInv, HandlerGood
  <2> QED
    BY <2>1 DEF Versions
<1> QED
  BY Invariance, <1>1, PTL
=============================================================================
