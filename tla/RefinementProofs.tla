--------------------------- MODULE RefinementProofs ---------------------------
(***************************************************************************)
(* The incident table implements SnapshotWrites, and leaves the documented *)
(* state diagram only under a stale write; locks on rows, or one request   *)
(* or job served at a time, would make it implement IncidentMachine.  The  *)
(* checks of a new report, when reports overlap and when they do not.      *)
(***************************************************************************)
EXTENDS IncidentProofs, DocumentedClaims, FiniteSetTheorems

\* e is stored in row i.
Stored(i, e) == /\ rows' = [rows EXCEPT ![i] = e]
                /\ hist' = [hist EXCEPT ![i] = @ \cup {e}]

\* All that a step can do to the table that counts no duplicate.
WriteStep ==
    \/ UNCHANGED <<rows, hist>>
    \/ \E i \in Incidents : rows[i] = NoRow /\ \E e \in Fresh : Stored(i, e)
    \/ \E i \in Incidents : /\ \E v \in hist[i] : /\ Edge(v, rows'[i])
                                                  /\ v # rows[i] => StaleWriter(i)
                            /\ Stored(i, rows'[i])

\* All that a step can do to the table.
TableStep ==
    \/ WriteStep
    \/ \E i \in Incidents : /\ rows[i] # NoRow
                            /\ Counted(rows[i], rows'[i])
                            /\ Stored(i, rows'[i])

LEMMA InsertIsWriteStep ==
    ASSUME DataInv, NEW r \in Requests, CreateInsert(r)
    PROVE  WriteStep
<1>1. CASE ~CanCreate(req[r].entity)
  BY <1>1 DEF CreateInsert, WriteStep, storeVars
<1>2. CASE CanCreate(req[r].entity)
  <2>1. PICK i \in FreeIds : Create(i, req[r].entity)
    BY <1>2 DEF CreateInsert
  <2>2. Newborn(req[r].entity)
    BY DEF CreateInsert, DataInv, HandlersInv, HandlerGood
  <2>3. req[r].entity \in Fresh
    BY <1>2, <2>2, NewbornIsSound
  <2>4. i \in Incidents /\ rows[i] = NoRow /\ Stored(i, req[r].entity)
    BY <2>1 DEF FreeIds, Create, Stored
  <2> QED
    BY <2>3, <2>4 DEF WriteStep
<1> QED
  BY <1>1, <1>2

LEMMA SaveIsWriteStep ==
    ASSUME DataInv, NEW r \in Requests, Save(r)
    PROVE  WriteStep
<1> DEFINE i == req[r].inc
           e == req[r].entity
           v == req[r].base
<1>1. req[r].stage = "save"
  BY DEF Save
<1>2. i \in Incidents /\ v \in hist[i] /\ Edge(v, e)
  BY <1>1 DEF DataInv, HandlersInv, HandlerGood
<1>3. Stored(i, e)
  BY DEF Save, Update, Stored
<1>4. v # rows[i] => StaleWriter(i)
  BY <1>1 DEF StaleWriter
<1> HIDE DEF i, e, v
<1>5. rows'[i] = e
  BY <1>2, <1>3 DEF Stored, DataInv, StoreInv, StoreType
<1> QED
  BY <1>2, <1>3, <1>4, <1>5 DEF WriteStep

LEMMA WorkerSaveIsWriteStep ==
    ASSUME DataInv, NEW i \in Incidents, WorkerSave(i)
    PROVE  WriteStep
<1> DEFINE e == worker[i].entity
           v == worker[i].base
<1>1. worker[i].stage = "save"
  BY DEF WorkerSave
<1>2. v \in hist[i] /\ Edge(v, e)
  BY <1>1 DEF DataInv, WorkersInv, ProcessorGood
<1>3. Stored(i, e)
  BY DEF WorkerSave, Update, Stored
<1>4. v # rows[i] => StaleWriter(i)
  BY <1>1 DEF StaleWriter
<1> HIDE DEF e, v
<1>5. rows'[i] = e
  BY <1>3 DEF Stored, DataInv, StoreInv, StoreType
<1> QED
  BY <1>2, <1>3, <1>4, <1>5 DEF WriteStep

LEMMA CountIsTableStep ==
    ASSUME DataInv, NEW r \in Requests, CreateCountDuplicate(r)
    PROVE  TableStep
<1> DEFINE i == req[r].inc
<1>1. i \in Incidents /\ hist[i] # {} /\ IncrementDuplicateCount(i)
  BY DEF CreateCountDuplicate, DataInv, HandlersInv, HandlerGood
<1>2. faults' \in Nat
  BY DEF CreateCountDuplicate, DataInv, StoreInv, StoreType
<1> HIDE DEF i
<1>3. rows[i] # NoRow
  BY <1>1 DEF DataInv, StoreInv
<1>4. Counted(rows[i], rows'[i])
  BY <1>1, <1>2, IncrementKeepsInv DEF DataInv
<1>5. Stored(i, rows'[i])
  BY <1>1, <1>4 DEF IncrementDuplicateCount, Counted, Stored
<1> QED
  BY <1>1, <1>3, <1>4, <1>5 DEF TableStep

LEMMA NextIsWriteStep ==
    ASSUME DataInv, [Next]_vars
    PROVE  WriteStep \/ \E r \in Requests : CreateCountDuplicate(r)
<1>1. ASSUME NEW r \in Requests, Arrive(r) PROVE WriteStep
  BY <1>1 DEF Arrive, CreateCheckDuplicates, AssignLoad, ResolveLoad, FeedbackLoad, storeVars,
              WriteStep
<1>2. ASSUME NEW r \in Requests, Serve(r) PROVE WriteStep \/ CreateCountDuplicate(r)
  <2>1. CASE CreateInsert(r) \/ Save(r)
    BY <2>1, InsertIsWriteStep, SaveIsWriteStep
  <2>2. CASE \/ CreateCountRecent(r) \/ CreatePublish(r) \/ AssignSelectStaff(r)
             \/ AssignPublish(r) \/ ResolvePublish(r) \/ FeedbackPublish(r)
    BY <2>2 DEF CreateCountRecent, CreatePublish, AssignSelectStaff, AssignPublish,
                ResolvePublish, FeedbackPublish, storeVars, WriteStep
  <2> QED
    BY <1>2, <2>1, <2>2 DEF Serve, Continue
<1>3. ASSUME NEW i \in Incidents, Process(i) PROVE WriteStep
  BY <1>3, WorkerSaveIsWriteStep
     DEF Process, WorkerLoad, WorkerPublish, WorkerComplete, storeVars, WriteStep
<1>4. CASE Environment
  BY <1>4 DEF Environment, QueryFails, WorkerQueryFails, GrowOld, UpdateStaffState, Crash,
              storeVars, WriteStep
<1>5. CASE UNCHANGED vars
  BY <1>5 DEF vars, storeVars, WriteStep
<1> QED
  BY <1>1, <1>2, <1>3, <1>4, <1>5 DEF Next

LEMMA NextIsTableStep ==
    ASSUME DataInv, [Next]_vars
    PROVE  TableStep
BY NextIsWriteStep, CountIsTableStep DEF TableStep

\* The abstract specification speaks of the same incidents.
LEMMA SameContract ==
    /\ Snapshots!Fresh = Fresh
    /\ \A v, w : Snapshots!Edge(v, w) <=> Edge(v, w)
    /\ \A v, w : Snapshots!Counted(v, w) <=> Counted(v, w)
BY DEF Fresh, Snapshots!Fresh, Edge, Snapshots!Edge, SameReport, Snapshots!SameReport,
       Assigned, Snapshots!Assigned, Resolved, Snapshots!Resolved, Escalated,
       Snapshots!Escalated, Rated, Snapshots!Rated, Counted, Snapshots!Counted,
       Row, Snapshots!Row, Statuses, Snapshots!Statuses, ValidCategories,
       Snapshots!ValidCategories, Undefined, Snapshots!Undefined

\* The table implements SnapshotWrites: however requests, jobs, failures and crashes
\* interleave, each write is one edge from some version the row has had.
THEOREM Refinement == Spec => WritesAreSnapshots
<1>1. Init => Snapshots!SnapshotInit
  BY DEF Init, StoreInit, Snapshots!SnapshotInit
<1>2. DataInv /\ [Next]_vars => [Snapshots!SnapshotNext]_<<rows, hist>>
  <2> SUFFICES ASSUME DataInv, [Next]_vars
               PROVE  Snapshots!SnapshotNext \/ UNCHANGED <<rows, hist>>
    OBVIOUS
  <2> QED
    BY NextIsTableStep, SameContract
       DEF TableStep, WriteStep, Stored, Snapshots!SnapshotNext, Snapshots!CreateRow,
           Snapshots!WriteFromSnapshot, Snapshots!CountDuplicate, Snapshots!Store
<1> QED
  BY Invariance, <1>1, <1>2, PTL DEF Spec, WritesAreSnapshots, Snapshots!SnapshotSpec

\* While nobody holds a stale copy of a row, the row only moves along the diagram.
THEOREM StalenessIsTheOnlyDanger == Spec => EdgesUnlessStale
<1> DEFINE A == \A i \in Incidents :
                  rows[i] # NoRow /\ rows'[i] # rows[i] /\ ~StaleWriter(i) =>
                      Edge(rows[i], rows'[i]) \/ Counted(rows[i], rows'[i])
<1>1. DataInv /\ [Next]_vars => A
  <2> SUFFICES ASSUME DataInv, [Next]_vars, NEW j \in Incidents,
                      rows[j] # NoRow, rows'[j] # rows[j], ~StaleWriter(j)
               PROVE  Edge(rows[j], rows'[j]) \/ Counted(rows[j], rows'[j])
    OBVIOUS
  <2>1. TableStep
    BY NextIsTableStep
  <2>2. \A i \in Incidents : \A e : Stored(i, e) => i = j
    BY DEF Stored, DataInv, StoreInv, StoreType
  <2> QED
    BY <2>1, <2>2 DEF TableStep, WriteStep
<1>2. DataInv /\ [Next]_vars => [A]_vars
  BY <1>1
<1> HIDE DEF A
<1>3. Spec => [][A]_vars
  BY Invariance, <1>2, PTL DEF Spec
<1> QED
  BY <1>3 DEF EdgesUnlessStale, A

LEMMA OnlyInsertsCreate ==
    ASSUME DataInv, [Next]_vars, NEW i \in Incidents, rows[i] = NoRow, rows'[i] # NoRow
    PROVE  \E r \in Requests : CreateInsert(r)
<1>1. ASSUME NEW j \in Incidents, NEW e, rows[j] # NoRow \/ hist[j] # {},
             rows' = [rows EXCEPT ![j] = e]
      PROVE  FALSE
  BY <1>1 DEF DataInv, StoreInv, StoreType
<1>2. rows' # rows
  OBVIOUS
<1>3. ASSUME NEW r \in Requests, Arrive(r) PROVE FALSE
  BY <1>2, <1>3 DEF Arrive, CreateCheckDuplicates, AssignLoad, ResolveLoad, FeedbackLoad, storeVars
<1>4. ASSUME NEW r \in Requests, Serve(r) PROVE CreateInsert(r)
  <2>1. CASE Save(r)
    <3>1. req[r].inc \in Incidents /\ hist[req[r].inc] # {}
      BY <2>1 DEF Save, DataInv, HandlersInv, HandlerGood
    <3> QED
      BY <1>1, <2>1, <3>1 DEF Save, Update
  <2>2. CASE CreateCountDuplicate(r)
    <3>1. req[r].inc \in Incidents /\ hist[req[r].inc] # {}
      BY <2>2 DEF CreateCountDuplicate, DataInv, HandlersInv, HandlerGood
    <3> QED
      BY <1>1, <2>2, <3>1 DEF CreateCountDuplicate, IncrementDuplicateCount
  <2>3. CASE \/ CreateCountRecent(r) \/ CreatePublish(r) \/ AssignSelectStaff(r)
             \/ AssignPublish(r) \/ ResolvePublish(r) \/ FeedbackPublish(r)
    BY <1>2, <2>3 DEF CreateCountRecent, CreatePublish, AssignSelectStaff, AssignPublish,
                      ResolvePublish, FeedbackPublish, storeVars
  <2> QED
    BY <1>4, <2>1, <2>2, <2>3 DEF Serve, Continue
<1>5. ASSUME NEW j \in Incidents, Process(j) PROVE FALSE
  <2>1. CASE WorkerSave(j)
    <3>1. hist[j] # {}
      BY <2>1 DEF WorkerSave, DataInv, WorkersInv, ProcessorGood
    <3> QED
      BY <1>1, <2>1, <3>1 DEF WorkerSave, Update
  <2> QED
    BY <1>2, <1>5, <2>1 DEF Process, WorkerLoad, WorkerPublish, WorkerComplete, storeVars
<1>6. CASE Environment
  BY <1>2, <1>6 DEF Environment, QueryFails, WorkerQueryFails, GrowOld, UpdateStaffState, Crash,
                    storeVars
<1>7. CASE UNCHANGED vars
  BY <1>2, <1>7 DEF vars, storeVars
<1> QED
  BY <1>3, <1>4, <1>5, <1>6, <1>7 DEF Next

-----------------------------------------------------------------------------
\* What the two checks of a report are worth when others are served meanwhile.

\* Handler r passes the throttle.
Passes(r) ==
    /\ req[r].stage = "count"
    /\ ~Throttled(Cardinality(RecentByUser(req[r].report.user)))
    /\ req' = [req EXCEPT ![r].stage = "insert", ![r].entity = NewIncident(req[r].report)]
    /\ UNCHANGED storeVars

\* All that a step can do to handler r.
HandlerStep(r) ==
    \/ req'[r] = req[r]
    \/ /\ req[r].stage = "new" /\ Admits
       /\ \A q \in Requests \ {r} : req'[q] = req[q]
       /\ req'[r].stage # "insert" /\ (req'[r].outcome # "none" => req'[r].stage = "done")
       /\ req'[r].outcome # "DUPLICATE_INCIDENT"
    \/ /\ r \in InFlight /\ req'[r].stage # "insert"
       /\ \/ req'[r].outcome \in {"none", req[r].outcome}
          \/ /\ req'[r].stage = "done"
             /\ req'[r].outcome = "DUPLICATE_INCIDENT" => CreateCountDuplicate(r)
    \/ Passes(r)

LEMMA ArriveMovesOne ==
    ASSUME DataInv, NEW r \in Requests, Arrive(r), NEW q \in Requests
    PROVE  HandlerStep(q)
<1>1. req[r].stage = "new" /\ Admits
  BY DEF Arrive, CreateCheckDuplicates, AssignLoad, ResolveLoad, FeedbackLoad, Arrives
<1>2. ASSUME NEW h, req' = [req EXCEPT ![r] = h], h.stage # "insert",
             h.outcome # "none" => h.stage = "done", h.outcome # "DUPLICATE_INCIDENT"
      PROVE  HandlerStep(q)
  <2>1. req'[r] = h /\ \A p \in Requests \ {r} : req'[p] = req[p]
    BY <1>2 DEF DataInv, HandlersInv, ServiceType
  <2> QED
    BY <1>1, <1>2, <2>1 DEF HandlerStep
<1>3. ASSUME NEW kind, NEW i, NEW outcome, outcome # "DUPLICATE_INCIDENT",
             Refuse(r, kind, i, outcome)
      PROVE  HandlerStep(q)
  <2> DEFINE h == Answered(kind, i, outcome)
  <2>1. h.stage = "done" /\ h.outcome = outcome
    BY DEF Answered, Unserved
  <2>2. req' = [req EXCEPT ![r] = h]
    BY <1>3 DEF Refuse
  <2> HIDE DEF h
  <2> QED
    BY <1>2, <1>3, <2>1, <2>2
<1>4. ASSUME NEW kind, NEW i, NEW stage \in {"increment", "staff", "save"}, NEW base, NEW entity,
             Hold(r, kind, i, stage, base, entity)
      PROVE  HandlerStep(q)
  <2> DEFINE h == [Unserved EXCEPT !.stage = stage, !.kind = kind, !.inc = i,
                                   !.base = base, !.entity = entity]
  <2>1. h.stage = stage /\ h.outcome = "none"
    BY DEF Unserved
  <2>2. req' = [req EXCEPT ![r] = h]
    BY <1>4 DEF Hold
  <2> HIDE DEF h
  <2> QED
    BY <1>2, <2>1, <2>2
<1>5. ASSUME NEW report,
             req' = [req EXCEPT ![r] = [Unserved EXCEPT !.stage = "count", !.kind = "create",
                                                        !.report = report]]
      PROVE  HandlerStep(q)
  <2> DEFINE h == [Unserved EXCEPT !.stage = "count", !.kind = "create", !.report = report]
  <2>1. h.stage = "count" /\ h.outcome = "none"
    BY DEF Unserved
  <2>2. req' = [req EXCEPT ![r] = h]
    BY <1>5
  <2> HIDE DEF h
  <2> QED
    BY <1>2, <2>1, <2>2
<1>6. CASE \E report \in Reports : CreateCheckDuplicates(r, report)
  BY <1>3, <1>4, <1>5, <1>6 DEF CreateCheckDuplicates
<1>7. CASE \E i \in Incidents : AssignLoad(r, i)
  BY <1>3, <1>4, <1>7 DEF AssignLoad
<1>8. CASE \E i \in Incidents : \E filed \in BOOLEAN : ResolveLoad(r, i, filed)
  BY <1>3, <1>4, <1>8 DEF ResolveLoad
<1>9. CASE \E i \in Incidents : \E low \in BOOLEAN : FeedbackLoad(r, i, low)
  BY <1>3, <1>4, <1>9 DEF FeedbackLoad
<1> QED
  BY <1>6, <1>7, <1>8, <1>9 DEF Arrive

LEMMA AnswerMovesOne ==
    ASSUME DataInv, NEW r \in Requests, r \in InFlight, NEW outcome, Answer(r, outcome),
           outcome = "DUPLICATE_INCIDENT" => CreateCountDuplicate(r), NEW q \in Requests
    PROVE  HandlerStep(q)
<1> DEFINE h == Answered(req[r].kind, req[r].inc, outcome)
<1>1. h.stage = "done" /\ h.outcome = outcome
  BY DEF Answered, Unserved
<1>2. req' = [req EXCEPT ![r] = h]
  BY DEF Answer
<1> HIDE DEF h
<1>3. req'[r] = h /\ \A p \in Requests \ {r} : req'[p] = req[p]
  BY <1>2 DEF DataInv, HandlersInv, ServiceType
<1> QED
  BY <1>1, <1>3 DEF HandlerStep

LEMMA ServeMovesOne ==
    ASSUME DataInv, NEW r \in Requests, Serve(r), NEW q \in Requests
    PROVE  HandlerStep(q)
<1>1. r \in InFlight
  BY DEF Serve, Continue, CreateCountDuplicate, CreateCountRecent, CreateInsert, CreatePublish,
         AssignSelectStaff, AssignPublish, ResolvePublish, FeedbackPublish, Save, InFlight
<1>2. ASSUME NEW outcome, Answer(r, outcome),
             outcome = "DUPLICATE_INCIDENT" => CreateCountDuplicate(r)
      PROVE  HandlerStep(q)
  BY <1>1, <1>2, AnswerMovesOne
<1>3. ASSUME NEW h, req' = [req EXCEPT ![r] = h], h.stage # "insert",
             h.outcome \in {"none", req[r].outcome}
      PROVE  HandlerStep(q)
  <2>1. req'[r] = h /\ \A p \in Requests \ {r} : req'[p] = req[p]
    BY <1>3 DEF DataInv, HandlersInv, ServiceType
  <2> QED
    BY <1>1, <1>3, <2>1 DEF HandlerStep
<1>4. CASE \/ CreateCountDuplicate(r) \/ CreatePublish(r) \/ AssignPublish(r)
           \/ ResolvePublish(r) \/ FeedbackPublish(r)
  BY <1>2, <1>4 DEF CreateCountDuplicate, CreatePublish, AssignPublish, ResolvePublish,
                    FeedbackPublish
<1>5. CASE CreateCountRecent(r)
  <2>1. \/ \E outcome : outcome # "DUPLICATE_INCIDENT" /\ Answer(r, outcome)
        \/ Passes(r)
    BY <1>5 DEF CreateCountRecent, Passes
  <2>2. ASSUME Passes(r), q # r PROVE req'[q] = req[q]
    BY <2>2 DEF Passes, DataInv, HandlersInv, ServiceType
  <2> QED
    BY <1>2, <2>1, <2>2 DEF HandlerStep
<1>6. CASE CreateInsert(r)
  <2>1. CASE CanCreate(req[r].entity)
    <3>1. PICK i \in FreeIds : Hold(r, "create", i, "publish", NoRow, req[r].entity)
      BY <1>6, <2>1 DEF CreateInsert
    <3> DEFINE h == [Unserved EXCEPT !.stage = "publish", !.kind = "create", !.inc = i,
                                     !.base = NoRow, !.entity = req[r].entity]
    <3>2. h.stage = "publish" /\ h.outcome = "none"
      BY DEF Unserved
    <3>3. req' = [req EXCEPT ![r] = h]
      BY <3>1 DEF Hold
    <3> HIDE DEF h
    <3> QED
      BY <1>3, <3>2, <3>3
  <2> QED
    BY <1>2, <1>6, <2>1 DEF CreateInsert
<1>7. CASE AssignSelectStaff(r)
  <2>1. CASE \E s \in Staff :
                 req' = [req EXCEPT ![r].stage = "save", ![r].entity = AssignStaff(@, s)]
    <3>1. PICK s \in Staff :
              req' = [req EXCEPT ![r].stage = "save", ![r].entity = AssignStaff(@, s)]
      BY <2>1
    <3> DEFINE w == AssignStaff(req[r].entity, s)
               h == [req[r] EXCEPT !.stage = "save", !.entity = w]
    <3>2. req' = [req EXCEPT ![r] = h]
      BY <3>1 DEF DataInv, HandlersInv, ServiceType, Handler
    <3> HIDE DEF w
    <3>3. h.stage = "save" /\ h.outcome = req[r].outcome
      BY DEF DataInv, HandlersInv, ServiceType, Handler
    <3> HIDE DEF h
    <3> QED
      BY <1>3, <3>2, <3>3
  <2> QED
    BY <1>2, <1>7, <2>1 DEF AssignSelectStaff
<1>8. CASE Save(r)
  <2> DEFINE h == [req[r] EXCEPT !.stage = "publish"]
  <2>1. req' = [req EXCEPT ![r] = h]
    BY <1>8 DEF Save, DataInv, HandlersInv, ServiceType, Handler
  <2>2. h.stage = "publish" /\ h.outcome = req[r].outcome
    BY DEF DataInv, HandlersInv, ServiceType, Handler
  <2> HIDE DEF h
  <2> QED
    BY <1>3, <2>1, <2>2
<1> QED
  BY <1>4, <1>5, <1>6, <1>7, <1>8 DEF Serve, Continue

LEMMA HandlersMoveSo ==
    ASSUME DataInv, [Next]_vars, NEW q \in Requests
    PROVE  HandlerStep(q)
<1>1. ASSUME req' = req PROVE HandlerStep(q)
  BY <1>1 DEF HandlerStep
<1>2. ASSUME NEW i \in Incidents, Process(i) PROVE HandlerStep(q)
  BY <1>1, <1>2 DEF Process, WorkerLoad, WorkerSave, WorkerPublish, WorkerComplete
<1>3. ASSUME NEW r \in Requests, QueryFails(r) PROVE HandlerStep(q)
  <2>1. r \in InFlight /\ Answer(r, "INTERNAL_ERROR")
    BY <1>3 DEF QueryFails, InFlight
  <2> QED
    BY <2>1, AnswerMovesOne
<1>4. CASE Crash
  <2>1. CASE q \in InFlight
    <3>1. req'[q] = Answered(req[q].kind, req[q].inc, "LOST")
      BY <1>4, <2>1 DEF Crash
    <3>2. req'[q].stage = "done" /\ req'[q].outcome # "DUPLICATE_INCIDENT"
      BY <3>1 DEF Answered, Unserved
    <3> QED
      BY <2>1, <3>2 DEF HandlerStep
  <2>2. CASE q \notin InFlight
    BY <1>4, <2>2 DEF Crash, HandlerStep
  <2> QED
    BY <2>1, <2>2
<1>5. CASE Environment
  BY <1>1, <1>3, <1>4, <1>5 DEF Environment, WorkerQueryFails, UpdateStaffState
<1>6. CASE UNCHANGED vars
  BY <1>1, <1>6 DEF vars
<1> QED
  BY <1>2, <1>5, <1>6, ArriveMovesOne, ServeMovesOne DEF Next

LEMMA AnsweredStays ==
    ASSUME DataInv, [Next]_vars, NEW r \in Requests, req[r].stage = "done"
    PROVE  req'[r] = req[r]
BY HandlersMoveSo DEF HandlerStep, Passes, InFlight

LEMMA ReportsStayGood ==
    ASSUME DataInv, ReportsInv, [Next]_vars, NEW r \in Requests
    PROVE  ReportGood(req[r])'
<1>1. HandlerStep(r) /\ ReportGood(req[r])
  BY HandlersMoveSo DEF ReportsInv
<1>2. CASE Passes(r)
  <2> DEFINE h == [req[r] EXCEPT !.stage = "insert", !.entity = NewIncident(req[r].report)]
  <2>1. req'[r] = h
    BY <1>2 DEF Passes, DataInv, HandlersInv, ServiceType, Handler
  <2>2. /\ h.stage = "insert" /\ h.report = req[r].report /\ h.outcome = req[r].outcome
        /\ h.entity = NewIncident(req[r].report)
    BY DEF DataInv, HandlersInv, ServiceType, Handler
  <2> HIDE DEF h
  <2>3. req[r].outcome = "none"
    BY <1>1, <1>2 DEF Passes, ReportGood
  <2> QED
    BY <2>1, <2>2, <2>3 DEF ReportGood
<1>3. CASE ~Passes(r)
  BY <1>1, <1>3 DEF HandlerStep, ReportGood, InFlight
<1> QED
  BY <1>2, <1>3

LEMMA FewStayInFlight ==
    ASSUME DataInv, ReportsInv, [Next]_vars
    PROVE  Cardinality(InFlight)' <= MaxInFlight
<1>1. /\ IsFiniteSet(InFlight) /\ Cardinality(InFlight) \in Nat
      /\ Cardinality(InFlight) <= MaxInFlight /\ MaxInFlight \in Nat
  <2>1. InFlight \subseteq Requests
    BY DEF InFlight
  <2> QED
    BY <2>1, ServiceAssumption, FS_Subset, FS_CardinalityType DEF ReportsInv
<1>2. \A r \in Requests : HandlerStep(r)
  BY HandlersMoveSo
<1>3. CASE \E r \in Requests : /\ req[r].stage = "new" /\ Admits
                               /\ \A q \in Requests \ {r} : req'[q] = req[q]
  <2>1. PICK r \in Requests : /\ req[r].stage = "new" /\ Admits
                              /\ \A q \in Requests \ {r} : req'[q] = req[q]
    BY <1>3
  <2>2. Cardinality(InFlight) < MaxInFlight
    <3> DEFINE active == {i \in Incidents : jobs[i].st = "active"}
    <3>1. active \subseteq Incidents
      OBVIOUS
    <3>2. Cardinality(active) \in Nat
      BY <3>1, ServiceAssumption, FS_Subset, FS_CardinalityType
    <3>3. Cardinality(InFlight) + Cardinality(active) < MaxInFlight
      BY <2>1 DEF Admits
    <3> HIDE DEF active
    <3> QED
      BY <1>1, <3>2, <3>3
  <2>3. InFlight' \subseteq InFlight \cup {r} /\ r \notin InFlight
    BY <2>1 DEF InFlight
  <2>4. /\ IsFiniteSet(InFlight \cup {r})
        /\ Cardinality(InFlight \cup {r}) = Cardinality(InFlight) + 1
    BY <1>1, <2>3, FS_AddElement
  <2>5. Cardinality(InFlight') <= Cardinality(InFlight) + 1 /\ Cardinality(InFlight') \in Nat
    BY <2>3, <2>4, FS_Subset, FS_CardinalityType
  <2> QED
    BY <1>1, <2>2, <2>5
<1>4. CASE ~\E r \in Requests : /\ req[r].stage = "new" /\ Admits
                                /\ \A q \in Requests \ {r} : req'[q] = req[q]
  <2>1. InFlight' \subseteq InFlight
    BY <1>2, <1>4 DEF HandlerStep, Passes, InFlight
  <2>2. Cardinality(InFlight') <= Cardinality(InFlight) /\ Cardinality(InFlight') \in Nat
    BY <1>1, <2>1, FS_Subset, FS_CardinalityType
  <2> QED
    BY <1>1, <2>2
<1> QED
  BY <1>3, <1>4

-----------------------------------------------------------------------------
\* The versions.

LEMMA RejectedIsFinite ==
    ASSUME NEW i
    PROVE  IsFiniteSet(Rejected(i)) /\ Cardinality(Rejected(i)) \in Nat
<1>1. Rejected(i) \subseteq Requests
  BY DEF Rejected
<1> QED
  BY <1>1, ServiceAssumption, FS_Subset, FS_CardinalityType

\* No refusal is taken back.
LEMMA RejectedGrows ==
    ASSUME DataInv, ReportsInv, [Next]_vars, NEW i
    PROVE  /\ Rejected(i) \subseteq Rejected(i)'
           /\ IsFiniteSet(Rejected(i)') /\ Cardinality(Rejected(i)') \in Nat
           /\ Cardinality(Rejected(i)) <= Cardinality(Rejected(i)')
<1>1. ASSUME NEW r \in Rejected(i) PROVE r \in Rejected(i)'
  <2>1. r \in Requests /\ req[r].stage = "done"
    BY DEF Rejected, ReportsInv, ReportGood
  <2>2. req'[r] = req[r]
    BY <2>1, AnsweredStays
  <2> QED
    BY <2>1, <2>2 DEF Rejected
<1>2. Rejected(i)' \subseteq Requests
  BY DEF Rejected
<1> QED
  BY <1>1, <1>2, ServiceAssumption, FS_Subset, FS_CardinalityType

\* A refusal is counted, and nothing but a counted refusal is one.
LEMMA RefusalIsCounted ==
    ASSUME DataInv, ReportsInv, NEW r \in Requests, CreateCountDuplicate(r),
           NEW i, i = req[r].inc
    PROVE  /\ i \in Incidents /\ rows[i] \in hist[i] /\ rows[i] \in Row
           /\ \E w \in Row : Stored(i, w) /\ w.dups = rows[i].dups + 1
           /\ Cardinality(Rejected(i)') = Cardinality(Rejected(i)) + 1
           /\ \A j \in Incidents \ {i} : Rejected(j)' = Rejected(j)
<1>1. i \in Incidents /\ req[r].stage = "increment" /\ rows[i] \in hist[i] /\ rows[i] \in Row
  BY StoreAssumption
     DEF CreateCountDuplicate, DataInv, HandlersInv, HandlerGood, StoreInv, StoreType
<1> DEFINE w == [rows[i] EXCEPT !.dups = @ + 1]
           h == Answered(req[r].kind, i, "DUPLICATE_INCIDENT")
<1>2. Stored(i, w)
  BY DEF CreateCountDuplicate, IncrementDuplicateCount, Stored
<1>3. w \in Row /\ w.dups = rows[i].dups + 1
  BY <1>1 DEF Row
<1>4. req' = [req EXCEPT ![r] = h]
  BY DEF CreateCountDuplicate, Answer
<1>5. h.inc = i /\ h.outcome = "DUPLICATE_INCIDENT" /\ req[r].outcome # "DUPLICATE_INCIDENT"
  BY <1>1 DEF Answered, Unserved, ReportsInv, ReportGood
<1> HIDE DEF h, w
<1>6. req'[r] = h /\ \A q \in Requests \ {r} : req'[q] = req[q]
  BY <1>4 DEF DataInv, HandlersInv, ServiceType
<1>7. r \notin Rejected(i) /\ Rejected(i)' = Rejected(i) \cup {r}
  <2>1. \A q \in Requests : q \in Rejected(i)' <=> q \in Rejected(i) \/ q = r
    BY <1>5, <1>6 DEF Rejected
  <2>2. Rejected(i) \subseteq Requests /\ Rejected(i)' \subseteq Requests /\ r \notin Rejected(i)
    BY <1>5 DEF Rejected
  <2> QED
    BY <2>1, <2>2
<1>8. Cardinality(Rejected(i)') = Cardinality(Rejected(i)) + 1
  BY <1>7, RejectedIsFinite, FS_AddElement
<1>9. ASSUME NEW j \in Incidents \ {i} PROVE Rejected(j)' = Rejected(j)
  <2>1. \A q \in Requests : q \in Rejected(j)' <=> q \in Rejected(j)
    BY <1>5, <1>6 DEF Rejected
  <2> QED
    BY <2>1 DEF Rejected
<1> QED
  BY <1>1, <1>2, <1>3, <1>8, <1>9

LEMMA RejectedOnlyByCounting ==
    ASSUME DataInv, ReportsInv, [Next]_vars, ~\E r \in Requests : CreateCountDuplicate(r), NEW i
    PROVE  Rejected(i)' = Rejected(i)
<1>1. ASSUME NEW r \in Requests, r \in Rejected(i)' PROVE r \in Rejected(i)
  <2>1. HandlerStep(r) /\ ReportGood(req[r]) /\ req'[r].outcome = "DUPLICATE_INCIDENT"
    BY <1>1, HandlersMoveSo DEF ReportsInv, Rejected
  <2>2. CASE req'[r] = req[r]
    BY <1>1, <2>2 DEF Rejected
  <2>3. CASE Passes(r)
    <3>1. req'[r].outcome = req[r].outcome /\ req[r].stage = "count"
      BY <2>3 DEF Passes, DataInv, HandlersInv, ServiceType, Handler
    <3> QED
      BY <2>1, <3>1 DEF ReportGood
  <2> QED
    BY <2>1, <2>2, <2>3 DEF HandlerStep, ReportGood, InFlight
<1>2. Rejected(i)' \subseteq Requests
  BY DEF Rejected
<1> QED
  BY <1>1, <1>2, RejectedGrows

\* A row stays its reporter's.
LEMMA CreatorStays ==
    ASSUME DataInv, ReportsInv, [Next]_vars, NEW i \in Incidents, rows[i] # NoRow
    PROVE  rows'[i] # NoRow /\ rows'[i].creator = rows[i].creator
<1>1. TableStep
  BY NextIsTableStep
<1>2. NoRow \notin Row /\ rows[i] \in Row
  BY StoreAssumption DEF DataInv, StoreInv, StoreType
<1>3. ASSUME NEW j \in Incidents, NEW e, Stored(j, e), j # i PROVE rows'[i] = rows[i]
  BY <1>3 DEF Stored, DataInv, StoreInv, StoreType
<1>4. ASSUME NEW v \in hist[i], Edge(v, rows'[i])
      PROVE  rows'[i] # NoRow /\ rows'[i].creator = rows[i].creator
  BY <1>2, <1>4 DEF ReportsInv, Edge, SameReport
<1>5. ASSUME Counted(rows[i], rows'[i])
      PROVE  rows'[i] # NoRow /\ rows'[i].creator = rows[i].creator
  BY <1>2, <1>5 DEF Counted, Row
<1> QED
  BY <1>1, <1>2, <1>3, <1>4, <1>5 DEF TableStep, WriteStep

LEMMA VersionsStayGood ==
    ASSUME DataInv, ReportsInv, [Next]_vars, NEW i \in Incidents, NEW v \in hist'[i]
    PROVE  v.creator = rows'[i].creator /\ v.dups <= Cardinality(Rejected(i)')
<1>1. /\ Cardinality(Rejected(i)') \in Nat /\ Cardinality(Rejected(i)) \in Nat
      /\ Cardinality(Rejected(i)) <= Cardinality(Rejected(i)')
  BY RejectedGrows, RejectedIsFinite
<1>2. CASE v \in hist[i]
  <2>1. /\ rows[i] # NoRow /\ v.creator = rows[i].creator
        /\ v.dups <= Cardinality(Rejected(i)) /\ v.dups \in Nat
    BY <1>2 DEF DataInv, StoreInv, StoreType, ReportsInv, Row
  <2> QED
    BY <1>1, <2>1, CreatorStays
<1>3. CASE v \notin hist[i]
  <2>1. ASSUME NEW j \in Incidents, NEW e, Stored(j, e) PROVE j = i /\ v = e /\ e = rows'[i]
    BY <1>3, <2>1 DEF Stored, DataInv, StoreInv, StoreType
  <2>2. ASSUME NEW e \in Fresh, v = e PROVE v.dups <= Cardinality(Rejected(i)')
    BY <1>1, <2>2 DEF Fresh
  <2>3. ASSUME NEW w \in hist[i], Edge(w, v) PROVE v.dups <= Cardinality(Rejected(i)')
    <3>1. v.dups = w.dups /\ w.dups <= Cardinality(Rejected(i)) /\ w.dups \in Nat
      BY <2>3 DEF Edge, SameReport, ReportsInv, DataInv, StoreInv, StoreType, Row
    <3> QED
      BY <1>1, <3>1
  <2>4. ASSUME NEW r \in Requests, CreateCountDuplicate(r)
        PROVE  v = rows'[i] /\ v.dups <= Cardinality(Rejected(i)')
    <3>1. PICK j : j = req[r].inc
      OBVIOUS
    <3>2. /\ j \in Incidents /\ rows[j] \in hist[j] /\ rows[j] \in Row
          /\ \E w \in Row : Stored(j, w) /\ w.dups = rows[j].dups + 1
          /\ Cardinality(Rejected(j)') = Cardinality(Rejected(j)) + 1
      BY <2>4, <3>1, RefusalIsCounted
    <3>3. j = i /\ v = rows'[i] /\ v.dups = rows[i].dups + 1
      BY <2>1, <3>2
    <3>4. rows[i].dups <= Cardinality(Rejected(i)) /\ rows[i].dups \in Nat
      BY <3>2, <3>3 DEF ReportsInv, Row
    <3> QED
      BY <1>1, <3>2, <3>3, <3>4
  <2>5. WriteStep \/ \E r \in Requests : CreateCountDuplicate(r)
    BY NextIsWriteStep
  <2>6. ASSUME WriteStep PROVE v = rows'[i] /\ v.dups <= Cardinality(Rejected(i)')
    BY <1>3, <2>1, <2>2, <2>3, <2>6 DEF WriteStep
  <2> QED
    BY <2>4, <2>5, <2>6
<1> QED
  BY <1>2, <1>3

-----------------------------------------------------------------------------
\* The throttle.

LEMMA FiniteByUser ==
    ASSUME NEW u
    PROVE  /\ IsFiniteSet(RecentByUser(u)) /\ Cardinality(RecentByUser(u)) \in Nat
           /\ IsFiniteSet(Inserting(u)) /\ Cardinality(Inserting(u)) \in Nat
<1>1. RecentByUser(u) \subseteq Incidents /\ Inserting(u) \subseteq Requests
  BY DEF RecentByUser, Inserting
<1> QED
  BY <1>1, ServiceAssumption, FS_Subset, FS_CardinalityType

\* Only an insert brings rows into the last hour.
LEMMA RecentOnlyByInsert ==
    ASSUME DataInv, ReportsInv, [Next]_vars,
           ~ \E r \in Requests, i \in FreeIds :
                 CreateInsert(r) /\ CanCreate(req[r].entity) /\ Create(i, req[r].entity),
           NEW u
    PROVE  RecentByUser(u)' \subseteq RecentByUser(u)
<1>1. ASSUME NEW j \in Incidents, rows[j] = NoRow PROVE rows'[j] = NoRow
  <2>1. SUFFICES ASSUME rows'[j] # NoRow PROVE FALSE
    OBVIOUS
  <2>2. PICK r \in Requests : CreateInsert(r)
    BY <1>1, <2>1, OnlyInsertsCreate
  <2> QED
    BY <1>1, <2>1, <2>2 DEF CreateInsert, storeVars
<1>2. \A j \in Incidents : age[j] \in 0..2
  BY DEF DataInv, StoreInv, StoreType
<1>3. ASSUME NEW j \in Incidents, age'[j] = 0 PROVE age[j] = 0
  <2>1. ASSUME age' = age PROVE age[j] = 0
    BY <1>3, <2>1
  <2>2. ASSUME NEW r \in Requests, Arrive(r) PROVE age' = age
    BY <2>2 DEF Arrive, CreateCheckDuplicates, AssignLoad, ResolveLoad, FeedbackLoad, storeVars
  <2>3. ASSUME NEW r \in Requests, Serve(r) PROVE age' = age
    BY <2>3 DEF Serve, Continue, CreateCountDuplicate, IncrementDuplicateCount, CreateCountRecent,
                CreateInsert, CreatePublish, AssignSelectStaff, AssignPublish, ResolvePublish,
                FeedbackPublish, Save, Update, storeVars
  <2>4. ASSUME NEW i \in Incidents, Process(i) PROVE age' = age
    BY <2>4 DEF Process, WorkerLoad, WorkerSave, Update, WorkerPublish, WorkerComplete, storeVars
  <2>5. ASSUME NEW i \in Incidents, GrowOld(i) PROVE age[j] = 0
    <3>1. age'[j] = IF j = i THEN age[j] + 1 ELSE age[j]
      BY <2>5 DEF GrowOld, DataInv, StoreInv, StoreType
    <3> QED
      BY <1>2, <1>3, <3>1
  <2>6. CASE Environment
    BY <2>1, <2>5, <2>6 DEF Environment, QueryFails, WorkerQueryFails, UpdateStaffState, Crash,
                            storeVars
  <2>7. CASE UNCHANGED vars
    BY <2>1, <2>7 DEF vars, storeVars
  <2> QED
    BY <2>1, <2>2, <2>3, <2>4, <2>6, <2>7 DEF Next
<1> QED
  BY <1>1, <1>3, CreatorStays DEF RecentByUser

LEMMA InsertingOnlyByPassing ==
    ASSUME DataInv, [Next]_vars, NEW u, ~ \E r \in Requests : Passes(r)
    PROVE  Inserting(u)' \subseteq Inserting(u)
BY HandlersMoveSo DEF HandlerStep, Inserting

LEMMA ThrottleHolds ==
    ASSUME DataInv, ReportsInv, [Next]_vars, NEW u \in Users
    PROVE  Cardinality(RecentByUser(u)') + Cardinality(Inserting(u)') < MaxPerHour + MaxInFlight
<1> DEFINE n == Cardinality(RecentByUser(u))
           m == Cardinality(Inserting(u))
           n2 == Cardinality(RecentByUser(u)')
           m2 == Cardinality(Inserting(u)')
<1>1. /\ IsFiniteSet(RecentByUser(u)) /\ IsFiniteSet(Inserting(u)) /\ n \in Nat /\ m \in Nat
      /\ n + m < MaxPerHour + MaxInFlight
  BY FiniteByUser DEF ReportsInv
<1>2. n2 \in Nat /\ m2 \in Nat
  <2>1. RecentByUser(u)' \subseteq Incidents /\ Inserting(u)' \subseteq Requests
    BY DEF RecentByUser, Inserting
  <2> QED
    BY <2>1, ServiceAssumption, FS_Subset, FS_CardinalityType
<1>3. RecentByUser(u)' \subseteq RecentByUser(u) => n2 <= n
  BY <1>1, FS_Subset
<1>4. Inserting(u)' \subseteq Inserting(u) => m2 <= m
  BY <1>1, FS_Subset
<1>5. MaxPerHour \in Nat /\ MaxInFlight \in Nat \ {0}
  BY ServiceAssumption
<1> HIDE DEF n, m, n2, m2
<1>6. CASE \E r \in Requests : Passes(r)
  <2>1. PICK r \in Requests : Passes(r)
    BY <1>6
  <2>2. RecentByUser(u)' = RecentByUser(u)
    BY <2>1 DEF Passes, storeVars, RecentByUser
  <2>3. n2 <= n
    BY <1>3, <2>2
  <2>4. CASE req[r].report.user = u
    <3>1. n < MaxPerHour
      BY <1>1, <1>5, <2>1, <2>4 DEF Passes, Throttled, n
    <3>2. m2 <= MaxInFlight
      <4>1. Inserting(u)' \subseteq InFlight' /\ InFlight' \subseteq Requests
        BY DEF Inserting, InFlight
      <4>2. Cardinality(InFlight') \in Nat /\ m2 <= Cardinality(InFlight')
        BY <4>1, ServiceAssumption, FS_Subset, FS_CardinalityType DEF m2
      <4> QED
        BY <1>2, <1>5, <4>2, FewStayInFlight
    <3> QED
      BY <1>1, <1>2, <1>5, <2>3, <3>1, <3>2 DEF n2, m2
  <2>5. CASE req[r].report.user # u
    <3>1. \A q \in Requests : /\ req'[q].report = req[q].report
                              /\ q # r => req'[q] = req[q]
      BY <2>1 DEF Passes, DataInv, HandlersInv, ServiceType, Handler
    <3>2. Inserting(u)' \subseteq Inserting(u)
      BY <2>5, <3>1 DEF Inserting
    <3> QED
      BY <1>1, <1>2, <1>4, <1>5, <2>3, <3>2 DEF n2, m2
  <2> QED
    BY <2>4, <2>5
<1>7. CASE ~\E r \in Requests : Passes(r)
  <2>1. Inserting(u)' \subseteq Inserting(u)
    BY <1>7, InsertingOnlyByPassing
  <2>2. CASE ~ \E r \in Requests, i \in FreeIds :
                   CreateInsert(r) /\ CanCreate(req[r].entity) /\ Create(i, req[r].entity)
    <3>1. RecentByUser(u)' \subseteq RecentByUser(u)
      BY <2>2, RecentOnlyByInsert
    <3> QED
      BY <1>1, <1>2, <1>3, <1>4, <1>5, <2>1, <3>1 DEF n2, m2
  <2>3. ASSUME NEW r \in Requests, NEW i \in FreeIds,
               CreateInsert(r), CanCreate(req[r].entity), Create(i, req[r].entity)
        PROVE  n2 + m2 < MaxPerHour + MaxInFlight
    <3>1. req[r].stage = "insert" /\ req[r].entity.creator = req[r].report.user
      <4>1. req[r].stage = "insert" /\ req[r].entity = NewIncident(req[r].report)
        BY <2>3 DEF CreateInsert, ReportsInv, ReportGood
      <4>2. NewIncident(req[r].report).creator = req[r].report.user
        BY DEF NewIncident
      <4> QED
        BY <4>1, <4>2
    <3>2. /\ i \in Incidents
          /\ \A j \in Incidents : /\ rows'[j] = IF j = i THEN req[r].entity ELSE rows[j]
                                  /\ age'[j] = IF j = i THEN 0 ELSE age[j]
      BY <2>3 DEF Create, FreeIds, DataInv, StoreInv, StoreType
    <3>3. CASE req[r].report.user # u
      <4>1. RecentByUser(u)' \subseteq RecentByUser(u)
        BY <3>1, <3>2, <3>3 DEF RecentByUser
      <4> QED
        BY <1>1, <1>2, <1>3, <1>4, <1>5, <2>1, <4>1
    <3>4. CASE req[r].report.user = u
      <4>1. RecentByUser(u)' \subseteq RecentByUser(u) \cup {i}
        BY <3>2 DEF RecentByUser
      <4>2. n2 <= n + 1
        <5>1. /\ IsFiniteSet(RecentByUser(u) \cup {i})
              /\ Cardinality(RecentByUser(u) \cup {i}) = n + 1
          <6>1. i \notin RecentByUser(u)
            BY DEF FreeIds, RecentByUser
          <6> QED
            BY <1>1, <6>1, FS_AddElement DEF n
        <5>2. Cardinality(RecentByUser(u) \cup {i}) \in Nat
          BY <5>1, FS_CardinalityType
        <5> QED
          BY <1>1, <1>2, <4>1, <5>1, <5>2, FS_Subset DEF n2
      <4>3. r \in Inserting(u) /\ r \notin Inserting(u)'
        <5>1. PICK k \in FreeIds : Hold(r, "create", k, "publish", NoRow, req[r].entity)
          BY <2>3 DEF CreateInsert
        <5>2. req'[r].stage = "publish"
          BY <5>1 DEF Hold, Unserved, DataInv, HandlersInv, ServiceType
        <5> QED
          BY <3>1, <3>4, <5>2 DEF Inserting
      <4>4. m2 <= m - 1
        <5>1. Cardinality(Inserting(u) \ {r}) = m - 1 /\ IsFiniteSet(Inserting(u) \ {r})
          BY <1>1, <4>3, FS_RemoveElement DEF m
        <5>2. Inserting(u)' \subseteq Inserting(u) \ {r}
          BY <2>1, <4>3
        <5> QED
          BY <5>1, <5>2, FS_Subset DEF m2
      <4> QED
        BY <1>1, <1>2, <1>5, <4>2, <4>4
    <3> QED
      BY <3>3, <3>4
  <2> QED
    BY <2>2, <2>3 DEF n2, m2
<1> QED
  BY <1>6, <1>7

LEMMA InitReports == Init => ReportsInv
<1> SUFFICES ASSUME Init PROVE ReportsInv
  OBVIOUS
<1>1. InFlight = {} /\ \A u : RecentByUser(u) = {} /\ Inserting(u) = {}
  BY DEF Init, ServiceInit, StoreInit, Unserved, InFlight, RecentByUser, Inserting
<1>2. Cardinality({}) = 0
  BY FS_EmptySet
<1>3. \A r \in Requests : ReportGood(req[r])
  BY DEF Init, ServiceInit, Unserved, ReportGood
<1>4. \A i \in Incidents : hist[i] = {}
  BY DEF Init, StoreInit
<1> QED
  BY <1>1, <1>2, <1>3, <1>4, ServiceAssumption DEF ReportsInv

THEOREM NextKeepsReports == DataInv /\ ReportsInv /\ [Next]_vars => ReportsInv'
<1> SUFFICES ASSUME DataInv, ReportsInv, [Next]_vars PROVE ReportsInv'
  OBVIOUS
<1> QED
  BY FewStayInFlight, ReportsStayGood, VersionsStayGood, ThrottleHolds DEF ReportsInv

LEMMA ReportsInvariance == Spec => [](DataInv /\ ReportsInv)
<1>1. Init => DataInv /\ ReportsInv
  BY InitGood, InitReports
<1>2. DataInv /\ ReportsInv /\ [Next]_vars => (DataInv /\ ReportsInv)'
  BY NextKeeps, NextKeepsReports
<1> QED
  BY <1>1, <1>2, PTL DEF Spec

\* Nobody gets further past the limit than requests overlap, whatever is reported,
\* whatever fails and wherever the process dies: served one at a time, nobody has more
\* than MaxPerHour incidents of the last hour, and each further request that may be
\* served beside adds at most one.
THEOREM SpamIsThrottled == Spec => []SpamLimit
<1>1. ReportsInv => SpamLimit
  <2> SUFFICES ASSUME ReportsInv, NEW u \in Users
               PROVE  Cardinality(RecentByUser(u)) < MaxPerHour + MaxInFlight
    BY DEF SpamLimit
  <2> QED
    BY FiniteByUser, ServiceAssumption DEF ReportsInv
<1> QED
  BY ReportsInvariance, <1>1, PTL

\* Whatever overlaps, duplicateCount never exceeds the number of reports that were
\* refused in favour of the incident, though a stale save may put it back.
THEOREM DuplicatesAreNotInvented == Spec => []DuplicatesNotInvented
<1>1. DataInv /\ ReportsInv => DuplicatesNotInvented
  BY DEF DataInv, StoreInv, ReportsInv, DuplicatesNotInvented
<1> QED
  BY ReportsInvariance, <1>1, PTL

-----------------------------------------------------------------------------
\* What a lock on the row between reading and writing it would be worth.

\* A handler that is to write a row holds what it read at an earlier step or at this one.
LEMMA HandlerReads ==
    ASSUME DataInv, [Next]_vars, NEW r \in Requests, req'[r].stage \in {"staff", "save"}
    PROVE  \/ /\ req[r].stage \in {"staff", "save"}
              /\ req'[r].base = req[r].base /\ req'[r].inc = req[r].inc
           \/ req'[r].base = rows[req'[r].inc]
<1> DEFINE Kept == /\ req[r].stage \in {"staff", "save"}
                   /\ req'[r].base = req[r].base /\ req'[r].inc = req[r].inc
           Read == req'[r].base = rows[req'[r].inc]
<1>1. ASSUME req'[r] = req[r] PROVE Kept
  BY <1>1
<1>2. ASSUME NEW q \in Requests, NEW h, req' = [req EXCEPT ![q] = h],
             q = r => h.stage \notin {"staff", "save"}
      PROVE  Kept
  <2>1. q # r
    BY <1>2 DEF DataInv, HandlersInv, ServiceType
  <2> QED
    BY <1>1, <1>2, <2>1 DEF DataInv, HandlersInv, ServiceType
<1>3. ASSUME NEW q \in Requests, NEW kind, NEW i, NEW outcome,
             req' = [req EXCEPT ![q] = Answered(kind, i, outcome)]
      PROVE  Kept
  <2> DEFINE h == Answered(kind, i, outcome)
  <2>1. h.stage = "done"
    BY DEF Answered, Unserved
  <2>2. req' = [req EXCEPT ![q] = h]
    BY <1>3
  <2> HIDE DEF h
  <2> QED
    BY <1>2, <2>1, <2>2
<1>4. ASSUME NEW q \in Requests, NEW kind, NEW i \in Incidents, NEW stage \in {"staff", "save"},
             NEW entity, Hold(q, kind, i, stage, ToEntity(rows[i]), entity), rows[i] # NoRow
      PROVE  Kept \/ Read
  <2> DEFINE base == ToEntity(rows[i])
             h == [Unserved EXCEPT !.stage = stage, !.kind = kind, !.inc = i,
                                   !.base = base, !.entity = entity]
  <2>1. base = rows[i]
    BY <1>4, LoadedIsRow
  <2>2. req' = [req EXCEPT ![q] = h]
    BY <1>4 DEF Hold
  <2> HIDE DEF base
  <2>3. h.base = base /\ h.inc = i
    BY DEF Unserved
  <2> HIDE DEF h
  <2>4. CASE q = r
    BY <2>1, <2>2, <2>3, <2>4 DEF DataInv, HandlersInv, ServiceType
  <2>5. CASE q # r
    BY <1>2, <2>2, <2>5
  <2> QED
    BY <2>4, <2>5
<1>5. ASSUME NEW q \in Requests, Arrive(q) PROVE Kept \/ Read
  <2>1. CASE \E report \in Reports : CreateCheckDuplicates(q, report)
    <3>1. PICK report \in Reports : CreateCheckDuplicates(q, report)
      BY <2>1
    <3> DEFINE counting == [Unserved EXCEPT !.stage = "count", !.kind = "create", !.report = report]
               doubled(i) == [Unserved EXCEPT !.stage = "increment", !.kind = "create", !.inc = i,
                                              !.base = NoRow, !.entity = NoRow]
    <3>2. counting.stage = "count" /\ \A i : doubled(i).stage = "increment"
      BY DEF Unserved
    <3>3. \/ Refuse(q, "create", NoIncident, "VALIDATION_ERROR")
          \/ req' = [req EXCEPT ![q] = counting]
          \/ \E i : req' = [req EXCEPT ![q] = doubled(i)]
      BY <3>1 DEF CreateCheckDuplicates, Hold
    <3> HIDE DEF counting, doubled
    <3> QED
      BY <1>2, <1>3, <3>2, <3>3 DEF Refuse
  <2>2. CASE \E i \in Incidents : AssignLoad(q, i)
    BY <1>3, <1>4, <2>2 DEF AssignLoad, Refuse
  <2>3. CASE \E i \in Incidents : \E filed \in BOOLEAN : ResolveLoad(q, i, filed)
    BY <1>3, <1>4, <2>3 DEF ResolveLoad, Refuse
  <2>4. CASE \E i \in Incidents : \E low \in BOOLEAN : FeedbackLoad(q, i, low)
    BY <1>3, <1>4, <2>4 DEF FeedbackLoad, Refuse
  <2> QED
    BY <1>5, <2>1, <2>2, <2>3, <2>4 DEF Arrive
<1>6. ASSUME NEW q \in Requests, Serve(q) PROVE Kept
  <2>1. CASE \E outcome : Answer(q, outcome)
    BY <1>3, <2>1 DEF Answer
  <2>2. CASE CreateCountRecent(q) /\ ~\E outcome : Answer(q, outcome)
    <3> DEFINE h == [req[q] EXCEPT !.stage = "insert", !.entity = NewIncident(req[q].report)]
    <3>1. req' = [req EXCEPT ![q] = h] /\ h.stage = "insert"
      BY <2>2 DEF CreateCountRecent, DataInv, HandlersInv, ServiceType, Handler
    <3> HIDE DEF h
    <3> QED
      BY <1>2, <3>1
  <2>3. CASE CreateInsert(q) /\ ~\E outcome : Answer(q, outcome)
    <3>1. PICK i \in FreeIds : Hold(q, "create", i, "publish", NoRow, req[q].entity)
      BY <2>3 DEF CreateInsert
    <3> DEFINE h == [Unserved EXCEPT !.stage = "publish", !.kind = "create", !.inc = i,
                                     !.base = NoRow, !.entity = req[q].entity]
    <3>2. req' = [req EXCEPT ![q] = h] /\ h.stage = "publish"
      BY <3>1 DEF Hold, Unserved
    <3> HIDE DEF h
    <3> QED
      BY <1>2, <3>2
  <2>4. CASE AssignSelectStaff(q) /\ ~\E outcome : Answer(q, outcome)
    <3>1. PICK s \in Staff :
              req' = [req EXCEPT ![q].stage = "save", ![q].entity = AssignStaff(@, s)]
      BY <2>4 DEF AssignSelectStaff
    <3> DEFINE w == AssignStaff(req[q].entity, s)
               h == [req[q] EXCEPT !.stage = "save", !.entity = w]
    <3>2. req' = [req EXCEPT ![q] = h]
      BY <3>1 DEF DataInv, HandlersInv, ServiceType, Handler
    <3> HIDE DEF w
    <3>3. h.base = req[q].base /\ h.inc = req[q].inc /\ req[q].stage = "staff"
      BY <2>4 DEF AssignSelectStaff, DataInv, HandlersInv, ServiceType, Handler
    <3> HIDE DEF h
    <3>4. CASE q = r
      BY <3>2, <3>3, <3>4 DEF DataInv, HandlersInv, ServiceType
    <3>5. CASE q # r
      BY <1>2, <3>2, <3>5
    <3> QED
      BY <3>4, <3>5
  <2>5. CASE Save(q)
    <3> DEFINE h == [req[q] EXCEPT !.stage = "publish"]
    <3>1. req' = [req EXCEPT ![q] = h] /\ h.stage = "publish"
      BY <2>5 DEF Save, DataInv, HandlersInv, ServiceType, Handler
    <3> HIDE DEF h
    <3> QED
      BY <1>2, <3>1
  <2>6. CASE \/ CreateCountDuplicate(q) \/ CreatePublish(q) \/ AssignPublish(q)
             \/ ResolvePublish(q) \/ FeedbackPublish(q)
    BY <2>1, <2>6 DEF CreateCountDuplicate, CreatePublish, AssignPublish, ResolvePublish,
                      FeedbackPublish
  <2> QED
    BY <1>6, <2>1, <2>2, <2>3, <2>4, <2>5, <2>6 DEF Serve, Continue
<1>7. ASSUME NEW i \in Incidents, Process(i) PROVE Kept
  BY <1>1, <1>7 DEF Process, WorkerLoad, WorkerSave, WorkerPublish, WorkerComplete
<1>8. ASSUME NEW q \in Requests, QueryFails(q) PROVE Kept
  BY <1>3, <1>8 DEF QueryFails, Answer
<1>9. CASE Crash
  <2>1. r \notin InFlight
    BY <1>9 DEF Crash, Answered, Unserved
  <2> QED
    BY <1>1, <1>9, <2>1 DEF Crash
<1>10. CASE Environment
  BY <1>1, <1>8, <1>9, <1>10 DEF Environment, WorkerQueryFails, UpdateStaffState
<1>11. CASE UNCHANGED vars
  BY <1>1, <1>11 DEF vars
<1> QED
  BY <1>5, <1>6, <1>7, <1>10, <1>11 DEF Next

LEMMA ProcessorReads ==
    ASSUME DataInv, [Next]_vars, NEW i \in Incidents, worker'[i].stage = "save"
    PROVE  worker'[i] = worker[i] \/ worker'[i].base = rows[i]
<1>1. ASSUME NEW j \in Incidents, NEW w, worker' = [worker EXCEPT ![j] = w], w.stage # "save"
      PROVE  worker'[i] = worker[i]
  BY <1>1 DEF DataInv, WorkersInv, WorkerType
<1>2. Idle.stage = "idle" /\ [Idle EXCEPT !.stage = "complete"].stage = "complete"
  BY DEF Idle
<1>3. ASSUME NEW j \in Incidents, WorkerLoad(j)
      PROVE  worker'[i] = worker[i] \/ worker'[i].base = rows[i]
  <2>1. CASE worker' = worker
    BY <2>1
  <2>2. CASE worker' # worker
    <3>1. rows[j] # NoRow
      BY <1>3, <2>2 DEF WorkerLoad
    <3>2. ToEntity(rows[j]) = rows[j]
      BY <3>1, LoadedIsRow
    <3>3. worker' = [worker EXCEPT ![j] = [stage |-> "save", base |-> rows[j],
                                           entity |-> Escalate(rows[j])]]
      BY <1>3, <2>2, <3>2 DEF WorkerLoad
    <3> QED
      BY <3>3 DEF DataInv, WorkersInv, WorkerType
  <2> QED
    BY <2>1, <2>2
<1>4. ASSUME NEW j \in Incidents, WorkerSave(j) PROVE worker'[i] = worker[i]
  <2> DEFINE w == [worker[j] EXCEPT !.stage = "publish"]
  <2>1. worker' = [worker EXCEPT ![j] = w] /\ w.stage = "publish"
    BY <1>4 DEF WorkerSave, DataInv, WorkersInv, WorkerType, Processor
  <2> HIDE DEF w
  <2> QED
    BY <1>1, <2>1
<1>5. ASSUME NEW j \in Incidents,
             WorkerPublish(j) \/ WorkerComplete(j) \/ WorkerQueryFails(j)
      PROVE  worker'[i] = worker[i]
  BY <1>1, <1>2, <1>5 DEF WorkerPublish, WorkerComplete, WorkerQueryFails
<1>6. CASE Crash
  BY <1>2, <1>6 DEF Crash
<1>7. CASE Environment
  BY <1>5, <1>6, <1>7 DEF Environment, workerVars
<1>8. CASE \E r \in Requests : Arrive(r) \/ Serve(r)
  BY <1>8 DEF Arrive, Serve, workerVars
<1>9. CASE UNCHANGED vars
  BY <1>9 DEF vars, workerVars
<1> QED
  BY <1>3, <1>4, <1>5, <1>7, <1>8, <1>9 DEF Next, Process

LEMMA LockedCopiesStayFresh ==
    ASSUME DataInv, DataInv', CopiesAreFresh, [Next]_vars,
           \A i \in Incidents : rows'[i] # rows[i] => ~Held(i)'
    PROVE  CopiesAreFresh'
<1>1. ASSUME NEW r \in Requests, req'[r].stage \in {"staff", "save"}
      PROVE  req'[r].base = rows'[req'[r].inc]
  <2>1. req'[r].inc \in Incidents
    BY <1>1 DEF DataInv, HandlersInv, HandlerGood
  <2>2. rows'[req'[r].inc] = rows[req'[r].inc]
    BY <1>1, <2>1 DEF Held
  <2> QED
    BY <1>1, <2>2, HandlerReads DEF CopiesAreFresh
<1>2. ASSUME NEW i \in Incidents, worker'[i].stage = "save"
      PROVE  worker'[i].base = rows'[i]
  <2>1. rows'[i] = rows[i]
    BY <1>2 DEF Held
  <2> QED
    BY <1>2, <2>1, ProcessorReads DEF CopiesAreFresh
<1> QED
  BY <1>1, <1>2 DEF CopiesAreFresh

LEMMA LocksKeepCopiesFresh == Spec /\ RowLocks => []CopiesAreFresh
<1> DEFINE Locked == \A i \in Incidents : rows'[i] # rows[i] => ~Held(i)'
<1>1. Init => CopiesAreFresh
  BY DEF Init, ServiceInit, WorkerInit, Unserved, Idle, CopiesAreFresh
<1>2. DataInv /\ DataInv' /\ CopiesAreFresh /\ [Next]_vars /\ [Locked]_vars => CopiesAreFresh'
  <2> SUFFICES ASSUME DataInv, DataInv', CopiesAreFresh, [Next]_vars, [Locked]_vars
               PROVE  CopiesAreFresh'
    OBVIOUS
  <2>1. CASE Locked
    BY <2>1, LockedCopiesStayFresh
  <2>2. CASE UNCHANGED vars
    BY <2>2 DEF vars, storeVars, workerVars, CopiesAreFresh
  <2> QED
    BY <2>1, <2>2
<1> HIDE DEF Locked
<1>3. Spec /\ [][Locked]_vars => []CopiesAreFresh
  BY Invariance, <1>1, <1>2, PTL DEF Spec
<1> QED
  BY <1>3 DEF RowLocks, Locked

LEMMA SameDiagram ==
    /\ Machine!Fresh = Fresh
    /\ \A v, w : Machine!Edge(v, w) <=> Edge(v, w)
    /\ \A v, w : Machine!Counted(v, w) <=> Counted(v, w)
BY DEF Fresh, Machine!Fresh, Edge, Machine!Edge, SameReport, Machine!SameReport,
       Assigned, Machine!Assigned, Resolved, Machine!Resolved, Escalated,
       Machine!Escalated, Rated, Machine!Rated, Counted, Machine!Counted,
       Row, Machine!Row, Statuses, Machine!Statuses, ValidCategories,
       Machine!ValidCategories, Undefined, Machine!Undefined

LEMMA FreshMovesOnDiagram ==
    ASSUME DataInv, CopiesAreFresh, [Next]_vars
    PROVE  [Machine!MachineNext]_rows
<1>1. \A i \in Incidents : ~StaleWriter(i)
  BY DEF CopiesAreFresh, StaleWriter
<1>2. TableStep
  BY NextIsTableStep
<1>3. CASE UNCHANGED rows
  BY <1>3
<1>4. ASSUME NEW i \in Incidents, Stored(i, rows'[i]),
             \/ rows[i] = NoRow /\ rows'[i] \in Fresh
             \/ rows[i] # NoRow /\ (Edge(rows[i], rows'[i]) \/ Counted(rows[i], rows'[i]))
      PROVE  Machine!MachineNext
  <2>1. Machine!Report(i) \/ Machine!Transition(i)
    BY <1>4, SameDiagram DEF Machine!Report, Machine!Transition
  <2>2. rows' = [rows EXCEPT ![i] = rows'[i]]
    BY <1>4 DEF Stored
  <2> QED
    BY <2>1, <2>2 DEF Machine!MachineNext
<1>5. ASSUME NEW i \in Incidents, rows[i] = NoRow, NEW e \in Fresh, Stored(i, e)
      PROVE  Machine!MachineNext
  <2>1. rows'[i] = e
    BY <1>5 DEF Stored, DataInv, StoreInv, StoreType
  <2> QED
    BY <1>4, <1>5, <2>1
<1>6. ASSUME NEW i \in Incidents, NEW v \in hist[i], Edge(v, rows'[i]),
             v # rows[i] => StaleWriter(i), Stored(i, rows'[i])
      PROVE  Machine!MachineNext
  <2>1. v = rows[i]
    BY <1>6, <1>1
  <2>2. rows[i] # NoRow
    BY DEF DataInv, StoreInv
  <2> QED
    BY <1>4, <1>6, <2>1, <2>2
<1> QED
  BY <1>2, <1>3, <1>4, <1>5, <1>6 DEF TableStep, WriteStep

\* If every write of a row left nobody with a copy of what was there before, the table
\* would be the state machine of the design, whatever else overlaps, fails or dies; no
\* resolution would be lost to an escalation, and no assignment stored in an incident
\* that does not wait for one.  The three are claims of the repository's documents and
\* comments, and what refutes them is that nothing locks the row.
THEOREM RowLocksSuffice ==
    Spec /\ RowLocks => WritesAreTransitions /\ ResolvedIsNotEscalated /\ AssignedWhileAssignable
<1> DEFINE Kept == \A i \in Incidents :
                      rows[i] # NoRow /\ rows'[i] # NoRow /\ rows[i].status = "RESOLVED" =>
                          rows'[i].status # "ESCALATED"
           Timely == \A r \in Requests :
                        req[r].kind = "assign" /\ req[r].stage = "save" /\ req'[r].stage = "publish" =>
                            rows[req[r].inc].status \in {"OPEN", "ESCALATED"}
<1>1. Init => Machine!MachineInit
  BY DEF Init, StoreInit, Machine!MachineInit
<1>2. DataInv /\ CopiesAreFresh /\ [Next]_vars => [Machine!MachineNext]_rows
  BY FreshMovesOnDiagram
<1>3. DataInv /\ CopiesAreFresh /\ [Next]_vars => [Kept]_vars
  <2> SUFFICES ASSUME DataInv, CopiesAreFresh, [Next]_vars, NEW i \in Incidents,
                      rows[i] # NoRow, rows'[i] # NoRow, rows[i].status = "RESOLVED"
               PROVE  rows'[i].status # "ESCALATED"
    OBVIOUS
  <2>1. rows[i] \in Row
    BY DEF DataInv, StoreInv, StoreType
  <2>2. ~StaleWriter(i)
    BY DEF CopiesAreFresh, StaleWriter
  <2>3. TableStep
    BY NextIsTableStep
  <2>4. ASSUME NEW j \in Incidents, NEW e, Stored(j, e), j # i PROVE rows'[i] = rows[i]
    BY <2>4 DEF Stored, DataInv, StoreInv, StoreType
  <2>5. ASSUME Edge(rows[i], rows'[i]) PROVE rows'[i].status # "ESCALATED"
    BY <2>5 DEF Edge, Assigned, Resolved, Escalated, Rated
  <2>6. ASSUME Counted(rows[i], rows'[i]) PROVE rows'[i].status # "ESCALATED"
    BY <2>1, <2>6 DEF Counted, Row
  <2> QED
    BY <2>2, <2>3, <2>4, <2>5, <2>6 DEF TableStep, WriteStep
<1>4. DataInv /\ CopiesAreFresh /\ [Next]_vars => [Timely]_vars
  <2> SUFFICES ASSUME DataInv, CopiesAreFresh, NEW r \in Requests,
                      req[r].kind = "assign", req[r].stage = "save"
               PROVE  rows[req[r].inc].status \in {"OPEN", "ESCALATED"}
    OBVIOUS
  <2>1. /\ Edge(req[r].base, req[r].entity) /\ req[r].entity.status = "IN_PROGRESS"
        /\ req[r].base = rows[req[r].inc]
    BY DEF DataInv, HandlersInv, HandlerGood, Promised, CopiesAreFresh
  <2> QED
    BY <2>1 DEF Edge, Assigned, Resolved, Escalated, Rated
<1> HIDE DEF Kept, Timely
<1>5. Spec /\ RowLocks => [][Machine!MachineNext]_rows /\ [][Kept]_vars /\ [][Timely]_vars
  BY Invariance, LocksKeepCopiesFresh, <1>2, <1>3, <1>4, PTL DEF Spec
<1>6. Spec => Machine!MachineInit
  BY <1>1 DEF Spec
<1> QED
  BY <1>5, <1>6 DEF WritesAreTransitions, Machine!MachineSpec, ResolvedIsNotEscalated,
                    AssignedWhileAssignable, Kept, Timely

LEMMA FreshIsRow ==
    ASSUME NEW e \in Fresh
    PROVE  e # NoRow /\ e.dups = 0
<1>1. /\ {"OPEN"} \subseteq Statuses /\ {NoOne} \subseteq Staff \cup {NoOne}
      /\ {FALSE} \subseteq BOOLEAN /\ {0} \subseteq Nat
  BY DEF Statuses
<1>2. e \in Row
  BY <1>1 DEF Fresh, Row
<1>3. e.dups = 0
  BY DEF Fresh
<1> QED
  BY <1>2, <1>3, StoreAssumption

LEMMA FreshWritesCountRefusals ==
    ASSUME DataInv, ReportsInv, CopiesAreFresh, RefusalsCounted, [Next]_vars
    PROVE  RefusalsCounted'
<1>1. ASSUME NEW j \in Incidents, NEW w, Stored(j, w)
      PROVE  \A i \in Incidents : rows'[i] = IF i = j THEN w ELSE rows[i]
  BY <1>1 DEF Stored, DataInv, StoreInv, StoreType
<1>2. NoRow \notin Row
  BY StoreAssumption
<1>3. CASE \E r \in Requests : CreateCountDuplicate(r)
  <2>1. PICK r \in Requests : CreateCountDuplicate(r)
    BY <1>3
  <2>2. PICK j : j = req[r].inc
    OBVIOUS
  <2>3. PICK w \in Row : Stored(j, w) /\ w.dups = rows[j].dups + 1
    BY <2>1, <2>2, RefusalIsCounted
  <2>4. /\ j \in Incidents /\ rows[j] \in Row
        /\ Cardinality(Rejected(j)') = Cardinality(Rejected(j)) + 1
        /\ \A i \in Incidents \ {j} : Rejected(i)' = Rejected(i)
    BY <2>1, <2>2, RefusalIsCounted
  <2> QED
    BY <1>1, <1>2, <2>3, <2>4 DEF RefusalsCounted, DuplicatesCounted
<1>4. CASE ~\E r \in Requests : CreateCountDuplicate(r)
  <2>1. \A i \in Incidents : Rejected(i)' = Rejected(i)
    BY <1>4, RejectedOnlyByCounting
  <2>2. \A i \in Incidents : ~StaleWriter(i)
    BY DEF CopiesAreFresh, StaleWriter
  <2>3. CASE UNCHANGED rows
    BY <2>1, <2>3 DEF RefusalsCounted, DuplicatesCounted
  <2>4. ASSUME NEW j \in Incidents, rows[j] = NoRow, NEW e \in Fresh, Stored(j, e)
        PROVE  RefusalsCounted'
    <3>1. Cardinality(Rejected(j)) = 0
      BY <2>4, FS_EmptySet DEF RefusalsCounted
    <3>2. e # NoRow /\ e.dups = 0
      BY <2>4, FreshIsRow
    <3> QED
      BY <1>1, <2>1, <2>4, <3>1, <3>2 DEF RefusalsCounted, DuplicatesCounted
  <2>5. ASSUME NEW j \in Incidents, NEW v \in hist[j], Edge(v, rows'[j]),
               v # rows[j] => StaleWriter(j), Stored(j, rows'[j])
        PROVE  RefusalsCounted'
    <3>1. v = rows[j] /\ rows[j] # NoRow
      BY <2>2, <2>5 DEF DataInv, StoreInv
    <3>2. rows'[j] # NoRow /\ rows'[j].dups = rows[j].dups
      BY <1>2, <2>5, <3>1 DEF Edge, SameReport
    <3> QED
      BY <1>1, <2>1, <2>5, <3>1, <3>2 DEF RefusalsCounted, DuplicatesCounted
  <2> QED
    BY <1>4, <2>3, <2>4, <2>5, NextIsWriteStep DEF WriteStep
<1> QED
  BY <1>3, <1>4

\* Nor would a refused report go uncounted: what loses a count is a save() of what was
\* read before it.
THEOREM LocksKeepTheCount == Spec /\ RowLocks => []DuplicatesCounted
<1>1. Init => RefusalsCounted
  BY DEF Init, StoreInit, ServiceInit, Unserved, RefusalsCounted, DuplicatesCounted, Rejected
<1>2. RefusalsCounted => DuplicatesCounted
  BY DEF RefusalsCounted
<1> QED
  BY ReportsInvariance, LocksKeepCopiesFresh, FreshWritesCountRefusals, <1>1, <1>2, PTL DEF Spec

-----------------------------------------------------------------------------
\* One request or job at a time (MaxInFlight = 1).

\* A request or a job is taken up when nothing else is under way.
LEMMA AdmittedAlone ==
    ASSUME MaxInFlight = 1, Admits
    PROVE  InFlight = {} /\ Active = {}
<1>1. IsFiniteSet(InFlight) /\ IsFiniteSet(Active)
  <2>1. InFlight \subseteq Requests /\ Active \subseteq Incidents
    BY DEF InFlight, Active
  <2> QED
    BY <2>1, ServiceAssumption, FS_Subset
<1>2. Cardinality(InFlight) \in Nat /\ Cardinality(Active) \in Nat
  BY <1>1, FS_CardinalityType
<1>3. Cardinality(InFlight) + Cardinality(Active) < 1
  BY DEF Admits, Active
<1>4. Cardinality(InFlight) = 0 /\ Cardinality(Active) = 0
  BY <1>2, <1>3
<1> QED
  BY <1>1, <1>4, FS_EmptySet

\* A handler that is at work is alone.
LEMMA HandlerAlone ==
    ASSUME SerialInv, NEW r \in Requests, req[r].stage \notin {"new", "done"}
    PROVE  /\ \A q \in Requests \ {r} : q \notin InFlight
           /\ Active = {} /\ \A i \in Incidents : worker[i].stage = "idle"
<1>1. r \in InFlight
  BY DEF InFlight
<1> QED
  BY <1>1 DEF SerialInv, OneAtATime, InFlight

\* So is a processor.
LEMMA ProcessorAlone ==
    ASSUME SerialInv, NEW i \in Incidents, worker[i].stage # "idle"
    PROVE  /\ InFlight = {} /\ Active = {i}
           /\ \A j \in Incidents \ {i} : worker[j].stage = "idle"
BY DEF SerialInv, OneAtATime, Active

\* Nothing is at work when a request or a job is taken up.
LEMMA NobodyAtWork ==
    ASSUME SerialInv, InFlight = {}, Active = {}
    PROVE  /\ \A r \in Requests : r \notin InFlight
           /\ \A i \in Incidents : worker[i].stage = "idle"
BY DEF SerialInv, OneAtATime

-----------------------------------------------------------------------------
\* The steps.

\* The turn of request r, alone.
LEMMA Turn ==
    ASSUME SerialInv, NEW r \in Requests,
           \A q \in Requests \ {r} : req'[q] = req[q] /\ q \notin InFlight,
           \A i \in Incidents : worker[i].stage = "idle", worker' = worker,
           Active' = {}, StillTrue(req[r])'
    PROVE  SerialInv'
<1>1. InFlight' \subseteq {r}
  BY DEF InFlight
<1>2. OneAtATime'
  BY <1>1 DEF OneAtATime
<1>3. ASSUME NEW q \in Requests \ {r} PROVE StillTrue(req[q])'
  <2>1. req[q].stage \in {"new", "done"} /\ req'[q] = req[q]
    BY DEF InFlight
  <2> QED
    BY <2>1 DEF StillTrue
<1>4. \A q \in Requests : StillTrue(req[q])'
  BY <1>3
<1> QED
  BY <1>2, <1>4 DEF SerialInv

\* Such a turn that reads only.
LEMMA ReadingTurn ==
    ASSUME SerialInv, DataInv, NEW r \in Requests, NEW h,
           \A q \in Requests \ {r} : q \notin InFlight, Active = {},
           req' = [req EXCEPT ![r] = h], UNCHANGED <<rows, age, worker>>,
           Active' = {}, StillTrue(h)
    PROVE  SerialInv'
<1>1. req'[r] = h /\ \A q \in Requests \ {r} : req'[q] = req[q]
  BY DEF DataInv, HandlersInv, ServiceType
<1>2. \A i \in Incidents : worker[i].stage = "idle"
  BY DEF SerialInv, OneAtATime
<1>3. StillTrue(req[r])'
  BY <1>1 DEF StillTrue, FindDuplicates
<1> QED
  BY <1>1, <1>2, <1>3, Turn

\* The turn of the processor of incident i, alone.
LEMMA ProcessorTurn ==
    ASSUME SerialInv, NEW i \in Incidents, InFlight = {}, req' = req,
           \A j \in Incidents \ {i} : worker'[j] = worker[j] /\ worker[j].stage = "idle",
           Active' \subseteq {i}, worker'[i].stage # "idle" => i \in Active',
           worker'[i].stage = "save" => worker'[i].base = rows'[i]
    PROVE  SerialInv'
<1>1. InFlight' = {} /\ \A q \in Requests : req[q].stage \in {"new", "done"}
  BY DEF InFlight
<1>2. OneAtATime'
  BY <1>1 DEF OneAtATime
<1>3. \A q \in Requests : StillTrue(req[q])'
  BY <1>1 DEF SerialInv, StillTrue
<1>4. \A j \in Incidents : worker'[j].stage = "save" => worker'[j].base = rows'[j]
  OBVIOUS
<1> QED
  BY <1>2, <1>3, <1>4 DEF SerialInv

LEMMA RefusingTurn ==
    ASSUME SerialInv, DataInv, NEW r \in Requests, NEW kind, NEW i, NEW o,
           \A q \in Requests \ {r} : q \notin InFlight, Active = {},
           req' = [req EXCEPT ![r] = Answered(kind, i, o)],
           UNCHANGED <<rows, age, worker>>, Active' = {}
    PROVE  SerialInv'
<1> DEFINE h == Answered(kind, i, o)
<1>1. h.stage = "done"
  BY DEF Answered, Unserved
<1>2. StillTrue(h)
  BY <1>1 DEF StillTrue
<1> HIDE DEF h
<1>3. req' = [req EXCEPT ![r] = h]
  BY DEF h
<1> QED
  BY <1>1, <1>2, <1>3, ReadingTurn

LEMMA LoadingTurn ==
    ASSUME SerialInv, DataInv, NEW r \in Requests, NEW kind, NEW i \in Incidents,
           NEW stage \in {"staff", "save"}, NEW e,
           Hold(r, kind, i, stage, rows[i], e),
           \A q \in Requests \ {r} : q \notin InFlight, Active = {},
           UNCHANGED <<rows, age, worker>>, Active' = {}
    PROVE  SerialInv'
<1> DEFINE h == [Unserved EXCEPT !.stage = stage, !.kind = kind, !.inc = i,
                                 !.base = rows[i], !.entity = e]
<1>1. h.stage = stage /\ h.base = rows[i] /\ h.inc = i
  BY DEF Unserved
<1>2. req' = [req EXCEPT ![r] = h]
  BY DEF Hold
<1> HIDE DEF h
<1>3. StillTrue(h)
  BY <1>1 DEF StillTrue
<1> QED
  BY <1>1, <1>2, <1>3, ReadingTurn

LEMMA SerialArrive ==
    ASSUME MaxInFlight = 1, SerialInv, DataInv, NEW r \in Requests, Arrive(r)
    PROVE  SerialInv'
<1>1. req[r].stage = "new" /\ Admits
  BY DEF Arrive, CreateCheckDuplicates, AssignLoad, ResolveLoad, FeedbackLoad, Arrives
<1>2. UNCHANGED <<rows, age, worker, jobs>>
  BY DEF Arrive, CreateCheckDuplicates, AssignLoad, ResolveLoad, FeedbackLoad, storeVars,
         workerVars
<1>3. InFlight = {} /\ Active = {}
  BY <1>1, AdmittedAlone
<1>4. Active' = {} /\ \A q \in Requests \ {r} : q \notin InFlight
  BY <1>1, <1>2, <1>3 DEF Active
<1>5. ASSUME NEW kind, NEW i, NEW o, Refuse(r, kind, i, o)
      PROVE  SerialInv'
  BY <1>2, <1>3, <1>4, <1>5, RefusingTurn DEF Refuse
<1>6. ASSUME NEW i \in Incidents, AssignLoad(r, i) \/ (\E filed \in BOOLEAN : ResolveLoad(r, i, filed))
                                  \/ \E low \in BOOLEAN : FeedbackLoad(r, i, low)
      PROVE  SerialInv'
  <2>1. rows[i] # NoRow => ToEntity(rows[i]) = rows[i]
    BY LoadedIsRow
  <2>2. ASSUME NEW kind, NEW stage \in {"staff", "save"}, NEW e,
               Hold(r, kind, i, stage, rows[i], e)
        PROVE  SerialInv'
    BY <1>2, <1>3, <1>4, <2>2, LoadingTurn
  <2>3. CASE AssignLoad(r, i)
    <3>1. \/ Refuse(r, "assign", i, "INCIDENT_NOT_ASSIGNABLE")
          \/ Hold(r, "assign", i, "staff", rows[i], rows[i])
      BY <2>1, <2>3 DEF AssignLoad
    <3> QED
      BY <1>5, <2>2, <3>1
  <2>4. CASE \E filed \in BOOLEAN : ResolveLoad(r, i, filed)
    <3>1. \/ Refuse(r, "resolve", i, "NOT_FOUND")
          \/ Refuse(r, "resolve", i, "INVALID_STATE_TRANSITION")
          \/ Refuse(r, "resolve", i, "RESOLUTION_REJECTED")
          \/ Hold(r, "resolve", i, "save", rows[i], Resolve(rows[i]))
      BY <2>1, <2>4 DEF ResolveLoad
    <3> QED
      BY <1>5, <2>2, <3>1
  <2>5. CASE \E low \in BOOLEAN : FeedbackLoad(r, i, low)
    <3>1. PICK low \in BOOLEAN : FeedbackLoad(r, i, low)
      BY <2>5
    <3>2. \/ Refuse(r, "feedback", i, "NOT_FOUND")
          \/ Refuse(r, "feedback", i, "INVALID_STATE_TRANSITION")
          \/ Hold(r, "feedback", i, "save", rows[i], ReceiveFeedback(rows[i], low))
      BY <2>1, <3>1 DEF FeedbackLoad
    <3> QED
      BY <1>5, <2>2, <3>2
  <2> QED
    BY <1>6, <2>3, <2>4, <2>5
<1>7. ASSUME NEW report \in Reports, CreateCheckDuplicates(r, report)
      PROVE  SerialInv'
  <2> DEFINE found == FindDuplicates(report.category, report.room)
             counting == [Unserved EXCEPT !.stage = "count", !.kind = "create", !.report = report]
             doubled(i) == [Unserved EXCEPT !.stage = "increment", !.kind = "create", !.inc = i,
                                            !.base = NoRow, !.entity = NoRow]
  <2>1. CASE Refuse(r, "create", NoIncident, "VALIDATION_ERROR")
    BY <1>5, <2>1
  <2>2. CASE found = {} /\ req' = [req EXCEPT ![r] = counting]
    <3>1. counting.stage = "count" /\ counting.report = report
      BY DEF Unserved
    <3> HIDE DEF counting
    <3>2. StillTrue(counting)
      BY <2>2, <3>1 DEF StillTrue
    <3> QED
      BY <1>2, <1>3, <1>4, <2>2, <3>1, <3>2, ReadingTurn
  <2>3. CASE \E i \in Newest(found) : Hold(r, "create", i, "increment", NoRow, NoRow)
    <3>1. PICK i \in Newest(found) : req' = [req EXCEPT ![r] = doubled(i)]
      BY <2>3 DEF Hold
    <3>2. doubled(i).stage = "increment"
      BY DEF Unserved
    <3> HIDE DEF doubled
    <3>3. StillTrue(doubled(i))
      BY <3>2 DEF StillTrue
    <3> QED
      BY <1>2, <1>3, <1>4, <3>1, <3>2, <3>3, ReadingTurn
  <2> QED
    BY <1>7, <2>1, <2>2, <2>3 DEF CreateCheckDuplicates
<1> QED
  BY <1>6, <1>7 DEF Arrive

\* A handler that answers.
LEMMA SerialAnswer ==
    ASSUME SerialInv, DataInv, NEW r \in Requests, req[r].stage \notin {"new", "done"},
           NEW o, Answer(r, o), UNCHANGED <<rows, age, worker>>, Active' = {}
    PROVE  SerialInv'
BY HandlerAlone, RefusingTurn DEF Answer

LEMMA SerialCountRecent ==
    ASSUME SerialInv, DataInv, NEW r \in Requests, CreateCountRecent(r), worker' = worker
    PROVE  SerialInv'
<1>1. req[r].stage = "count" /\ UNCHANGED <<rows, age, worker, jobs>>
  BY DEF CreateCountRecent, storeVars
<1>2. /\ \A q \in Requests \ {r} : q \notin InFlight
      /\ Active = {} /\ Active' = {}
  BY <1>1, HandlerAlone DEF Active
<1>3. CASE \E o : Answer(r, o)
  BY <1>1, <1>2, <1>3, SerialAnswer
<1>4. CASE ~\E o : Answer(r, o)
  <2> DEFINE h == [req[r] EXCEPT !.stage = "insert", !.entity = NewIncident(req[r].report)]
  <2>1. req' = [req EXCEPT ![r].stage = "insert", ![r].entity = NewIncident(req[r].report)]
    BY <1>4 DEF CreateCountRecent
  <2>2. req' = [req EXCEPT ![r] = h]
    BY <2>1 DEF DataInv, HandlersInv, ServiceType, Handler
  <2>3. /\ h.stage = "insert" /\ h.report = req[r].report
        /\ h.entity = NewIncident(req[r].report)
    BY DEF DataInv, HandlersInv, ServiceType, Handler
  <2> HIDE DEF h
  <2>4. StillTrue(req[r])
    BY DEF SerialInv
  <2>5. StillTrue(h)
    BY <1>1, <2>3, <2>4 DEF StillTrue
  <2> QED
    BY <1>1, <1>2, <2>2, <2>3, <2>4, <2>5, ReadingTurn
<1> QED
  BY <1>3, <1>4

LEMMA SerialSelectStaff ==
    ASSUME SerialInv, DataInv, NEW r \in Requests, AssignSelectStaff(r), worker' = worker
    PROVE  SerialInv'
<1>1. req[r].stage = "staff" /\ UNCHANGED <<rows, age, worker, jobs>>
  BY DEF AssignSelectStaff, storeVars
<1>2. /\ \A q \in Requests \ {r} : q \notin InFlight
      /\ Active = {} /\ Active' = {}
  BY <1>1, HandlerAlone DEF Active
<1>3. CASE \E o : Answer(r, o)
  BY <1>1, <1>2, <1>3, SerialAnswer
<1>4. CASE ~\E o : Answer(r, o)
  <2>1. PICK s \in Staff :
            req' = [req EXCEPT ![r].stage = "save", ![r].entity = AssignStaff(@, s)]
    BY <1>4 DEF AssignSelectStaff
  <2> DEFINE w == AssignStaff(req[r].entity, s)
             h == [req[r] EXCEPT !.stage = "save", !.entity = w]
  <2>2. req' = [req EXCEPT ![r] = h]
    BY <2>1 DEF DataInv, HandlersInv, ServiceType, Handler
  <2> HIDE DEF w
  <2>3. h.stage = "save" /\ h.base = req[r].base /\ h.inc = req[r].inc
    BY DEF DataInv, HandlersInv, ServiceType, Handler
  <2> HIDE DEF h
  <2>4. StillTrue(req[r])
    BY DEF SerialInv
  <2>5. StillTrue(h)
    BY <1>1, <2>3, <2>4 DEF StillTrue
  <2> QED
    BY <1>1, <1>2, <2>2, <2>3, <2>4, <2>5, ReadingTurn
<1> QED
  BY <1>3, <1>4

LEMMA SerialSave ==
    ASSUME SerialInv, DataInv, NEW r \in Requests, Save(r), worker' = worker
    PROVE  SerialInv'
<1> DEFINE h == [req[r] EXCEPT !.stage = "publish"]
<1>1. req[r].stage = "save" /\ jobs' = jobs
  BY DEF Save
<1>2. /\ \A q \in Requests \ {r} : q \notin InFlight
      /\ Active = {} /\ Active' = {} /\ \A j \in Incidents : worker[j].stage = "idle"
  BY <1>1, HandlerAlone DEF Active
<1>3. req' = [req EXCEPT ![r] = h] /\ h.stage = "publish"
  BY DEF Save, DataInv, HandlersInv, ServiceType, Handler
<1> HIDE DEF h
<1>4. req'[r] = h /\ \A q \in Requests \ {r} : req'[q] = req[q]
  BY <1>3 DEF DataInv, HandlersInv, ServiceType
<1>5. StillTrue(req[r])'
  BY <1>3, <1>4 DEF StillTrue
<1> QED
  BY <1>2, <1>4, <1>5, Turn

LEMMA SerialInsert ==
    ASSUME SerialInv, DataInv, NEW r \in Requests, CreateInsert(r), worker' = worker
    PROVE  SerialInv'
<1>1. req[r].stage = "insert" /\ jobs' = jobs
  BY DEF CreateInsert
<1>2. /\ \A q \in Requests \ {r} : q \notin InFlight
      /\ Active = {} /\ Active' = {} /\ \A j \in Incidents : worker[j].stage = "idle"
  BY <1>1, HandlerAlone DEF Active
<1>3. CASE ~CanCreate(req[r].entity)
  BY <1>1, <1>2, <1>3, SerialAnswer DEF CreateInsert, storeVars
<1>4. CASE CanCreate(req[r].entity)
  <2>1. PICK i \in FreeIds : Hold(r, "create", i, "publish", NoRow, req[r].entity)
    BY <1>4 DEF CreateInsert
  <2> DEFINE h == [Unserved EXCEPT !.stage = "publish", !.kind = "create", !.inc = i,
                                   !.base = NoRow, !.entity = req[r].entity]
  <2>2. req' = [req EXCEPT ![r] = h] /\ h.stage = "publish"
    BY <2>1 DEF Hold, Unserved
  <2> HIDE DEF h
  <2>3. req'[r] = h /\ \A q \in Requests \ {r} : req'[q] = req[q]
    BY <2>2 DEF DataInv, HandlersInv, ServiceType
  <2>4. StillTrue(req[r])'
    BY <2>2, <2>3 DEF StillTrue
  <2> QED
    BY <1>2, <2>3, <2>4, Turn
<1> QED
  BY <1>3, <1>4

LEMMA SerialCountDuplicate ==
    ASSUME SerialInv, DataInv, NEW r \in Requests, CreateCountDuplicate(r), worker' = worker
    PROVE  SerialInv'
<1> DEFINE h == Answered(req[r].kind, req[r].inc, "DUPLICATE_INCIDENT")
<1>1. req[r].stage = "increment" /\ jobs' = jobs
  BY DEF CreateCountDuplicate
<1>2. /\ \A q \in Requests \ {r} : q \notin InFlight
      /\ Active = {} /\ Active' = {} /\ \A j \in Incidents : worker[j].stage = "idle"
  BY <1>1, HandlerAlone DEF Active
<1>3. req' = [req EXCEPT ![r] = h] /\ h.stage = "done"
  BY DEF CreateCountDuplicate, Answer, Answered, Unserved
<1> HIDE DEF h
<1>4. req'[r] = h /\ \A q \in Requests \ {r} : req'[q] = req[q]
  BY <1>3 DEF DataInv, HandlersInv, ServiceType
<1>5. StillTrue(req[r])'
  BY <1>3, <1>4 DEF StillTrue
<1> QED
  BY <1>2, <1>4, <1>5, Turn

LEMMA SerialPublish ==
    ASSUME SerialInv, DataInv, NEW r \in Requests, worker' = worker,
           \/ CreatePublish(r) \/ AssignPublish(r) \/ ResolvePublish(r) \/ FeedbackPublish(r)
    PROVE  SerialInv'
<1>1. req[r].stage = "publish" /\ Answer(r, "OK") /\ UNCHANGED <<rows, age>>
  BY DEF CreatePublish, AssignPublish, ResolvePublish, FeedbackPublish, storeVars
<1>2. Active = {}
  BY <1>1, HandlerAlone
<1>3. \A j \in Incidents : jobs'[j].st = "active" => jobs[j].st = "active"
  <2>1. req[r].inc \in Incidents /\ jobs \in [Incidents -> Job]
    BY <1>1 DEF DataInv, HandlersInv, HandlerGood, WorkersInv, QueueType
  <2>2. CASE SetJob(req[r].inc, "delayed") \/ SetJob(req[r].inc, "removed")
    BY <2>1, <2>2 DEF SetJob, Job
  <2>3. CASE jobs' = jobs
    BY <2>3
  <2> QED
    BY <2>2, <2>3 DEF CreatePublish, AssignPublish, ResolvePublish, FeedbackPublish,
                      ScheduleEscalation, CancelEscalation
<1>4. Active' = {}
  BY <1>2, <1>3 DEF Active
<1> QED
  BY <1>1, <1>4, SerialAnswer

LEMMA SerialQueryFails ==
    ASSUME SerialInv, DataInv, NEW r \in Requests, QueryFails(r), worker' = worker
    PROVE  SerialInv'
<1>1. /\ req[r].stage \notin {"new", "done"} /\ Answer(r, "INTERNAL_ERROR")
      /\ UNCHANGED <<rows, age, jobs>>
  BY DEF QueryFails, storeVars
<1>2. Active' = {}
  BY <1>1, HandlerAlone DEF Active
<1> QED
  BY <1>1, <1>2, SerialAnswer

LEMMA SerialServe ==
    ASSUME SerialInv, DataInv, NEW r \in Requests, Serve(r)
    PROVE  SerialInv'
<1>1. worker' = worker
  BY DEF Serve, workerVars
<1> QED
  BY <1>1, SerialCountDuplicate, SerialCountRecent, SerialInsert, SerialPublish,
     SerialSelectStaff, SerialSave DEF Serve, Continue

\* The worker's steps.
LEMMA SerialLoad ==
    ASSUME MaxInFlight = 1, SerialInv, DataInv, NEW i \in Incidents, WorkerLoad(i)
    PROVE  SerialInv'
<1>1. InFlight = {} /\ Active = {} /\ req' = req /\ UNCHANGED <<rows, age>>
  BY AdmittedAlone DEF WorkerLoad, storeVars
<1>2. \A j \in Incidents : worker[j].stage = "idle"
  BY <1>1, NobodyAtWork
<1>3. jobs \in [Incidents -> Job] /\ worker \in [Incidents -> Processor]
  BY DEF DataInv, WorkersInv, QueueType, WorkerType
<1>4. CASE SetJob(i, "completed") /\ worker' = worker
  <2>1. Active' \subseteq {i}
    BY <1>1, <1>3, <1>4 DEF Active, SetJob, Job
  <2> QED
    BY <1>1, <1>2, <1>4, <2>1, ProcessorTurn
<1>5. CASE /\ ~(rows[i] = NoRow \/ Handled(ToEntity(rows[i])))
           /\ SetJob(i, "active")
           /\ worker' = [worker EXCEPT ![i] =
                  [stage |-> "save", base |-> ToEntity(rows[i]),
                   entity |-> Escalate(ToEntity(rows[i]))]]
  <2>1. Active' = {i}
    <3>1. \A j \in Incidents : jobs'[j].st = IF j = i THEN "active" ELSE jobs[j].st
      BY <1>3, <1>5 DEF SetJob, Job
    <3> QED
      BY <1>1, <3>1 DEF Active
  <2>2. ToEntity(rows[i]) = rows[i]
    BY <1>5, LoadedIsRow
  <2>3. /\ worker'[i].base = rows'[i]
        /\ \A j \in Incidents \ {i} : worker'[j] = worker[j]
    BY <1>1, <1>3, <1>5, <2>2
  <2> QED
    BY <1>1, <1>2, <2>1, <2>3, ProcessorTurn
<1> QED
  BY <1>4, <1>5 DEF WorkerLoad

LEMMA SerialWorkerSave ==
    ASSUME SerialInv, DataInv, NEW i \in Incidents, WorkerSave(i)
    PROVE  SerialInv'
<1>1. /\ worker[i].stage = "save" /\ req' = req /\ jobs' = jobs
      /\ worker' = [worker EXCEPT ![i].stage = "publish"]
  BY DEF WorkerSave
<1>2. /\ InFlight = {} /\ Active = {i} /\ Active' = {i}
      /\ \A j \in Incidents \ {i} : worker[j].stage = "idle"
  BY <1>1, ProcessorAlone DEF Active
<1>3. worker'[i].stage = "publish" /\ \A j \in Incidents \ {i} : worker'[j] = worker[j]
  BY <1>1 DEF DataInv, WorkersInv, WorkerType, Processor
<1> QED
  BY <1>1, <1>2, <1>3, ProcessorTurn

LEMMA SerialWorkerEnds ==
    ASSUME SerialInv, DataInv, NEW i \in Incidents, WorkerPublish(i) \/ WorkerComplete(i)
    PROVE  SerialInv'
<1>1. worker[i].stage # "idle" /\ req' = req /\ UNCHANGED <<rows, age>>
  BY DEF WorkerPublish, WorkerComplete, storeVars
<1>2. /\ InFlight = {} /\ Active = {i}
      /\ \A j \in Incidents \ {i} : worker[j].stage = "idle"
  BY <1>1, ProcessorAlone
<1>3. CASE WorkerPublish(i)
  <2>1. Active' = {i}
    BY <1>2, <1>3 DEF WorkerPublish, Active
  <2>2. worker'[i].stage = "complete" /\ \A j \in Incidents \ {i} : worker'[j] = worker[j]
    BY <1>3 DEF WorkerPublish, Idle, DataInv, WorkersInv, WorkerType
  <2> QED
    BY <1>1, <1>2, <2>1, <2>2, ProcessorTurn
<1>4. CASE WorkerComplete(i)
  <2>1. Active' \subseteq {i}
    BY <1>2, <1>4 DEF WorkerComplete, SetJob, Active, DataInv, WorkersInv, QueueType, Job
  <2>2. worker'[i].stage = "idle" /\ \A j \in Incidents \ {i} : worker'[j] = worker[j]
    BY <1>4 DEF WorkerComplete, Idle, DataInv, WorkersInv, WorkerType
  <2> QED
    BY <1>1, <1>2, <2>1, <2>2, ProcessorTurn
<1> QED
  BY <1>3, <1>4

\* Nobody takes a turn: rows grow old, staff change state, an attempt fails.
LEMMA SerialRest ==
    ASSUME SerialInv, UNCHANGED <<rows, req>>,
           \A j \in Incidents : /\ age'[j] = 0 => age[j] = 0
                                /\ age'[j] <= 1 => age[j] <= 1,
           Active' \subseteq Active,
           \A j \in Incidents : \/ worker'[j] = Idle
                                \/ worker'[j] = worker[j] /\ (j \in Active => j \in Active')
    PROVE  SerialInv'
<1>1. InFlight' = InFlight /\ Idle.stage = "idle"
  BY DEF InFlight, Idle
<1>2. OneAtATime'
  BY <1>1 DEF SerialInv, OneAtATime
<1>3. ASSUME NEW r \in Requests PROVE StillTrue(req[r])'
  <2> DEFINE category == req[r].report.category
             room == req[r].report.room
  <2>1. FindDuplicates(category, room)' \subseteq FindDuplicates(category, room)
    BY DEF FindDuplicates
  <2>2. StillTrue(req[r])
    BY DEF SerialInv
  <2> QED
    BY <2>1, <2>2 DEF StillTrue
<1>4. \A j \in Incidents : worker'[j].stage = "save" => worker'[j].base = rows'[j]
  BY <1>1 DEF SerialInv
<1> QED
  BY <1>2, <1>3, <1>4 DEF SerialInv

LEMMA SerialCrash ==
    ASSUME SerialInv, DataInv, Crash
    PROVE  SerialInv'
<1>1. /\ UNCHANGED <<rows, age>> /\ worker' = [i \in Incidents |-> Idle] /\ StallActive
      /\ req' = [r \in Requests |-> IF r \in InFlight THEN Answered(req[r].kind, req[r].inc, "LOST")
                                                      ELSE req[r]]
  BY DEF Crash, storeVars
<1>2. ASSUME NEW r \in InFlight
      PROVE  req'[r].stage = "done"
  <2>1. r \in Requests
    BY DEF InFlight
  <2>2. req'[r] = Answered(req[r].kind, req[r].inc, "LOST")
    BY <1>1, <2>1
  <2> QED
    BY <2>1, <2>2 DEF Answered, Unserved
<1>3. \A r \in Requests \ InFlight : req'[r] = req[r]
  BY <1>1
<1>4. InFlight' = {}
  BY <1>2, <1>3 DEF InFlight
<1>5. Active' = {}
  BY <1>1 DEF StallActive, Active
<1>6. \A i \in Incidents : worker'[i].stage = "idle"
  BY <1>1 DEF Idle
<1>7. OneAtATime'
  BY <1>4, <1>5, <1>6 DEF OneAtATime
<1>8. ASSUME NEW r \in Requests PROVE StillTrue(req[r])'
  <2>1. CASE r \in InFlight
    BY <1>2, <2>1 DEF StillTrue
  <2>2. CASE r \notin InFlight
    <3>1. req'[r] = req[r] /\ req[r].stage \in {"new", "done"} /\ StillTrue(req[r])
      BY <1>3, <2>2 DEF InFlight, SerialInv
    <3> QED
      BY <1>1, <3>1 DEF StillTrue
  <2> QED
    BY <2>1, <2>2
<1> QED
  BY <1>6, <1>7, <1>8 DEF SerialInv

LEMMA SerialEnvironment ==
    ASSUME SerialInv, DataInv, Environment
    PROVE  SerialInv'
<1>1. \A j \in Incidents : age[j] \in 0..2
  BY DEF DataInv, StoreInv, StoreType
<1>2. ASSUME NEW r \in Requests, QueryFails(r), UNCHANGED workerVars PROVE SerialInv'
  BY <1>2, SerialQueryFails DEF workerVars
<1>3. ASSUME NEW i \in Incidents, WorkerQueryFails(i) PROVE SerialInv'
  <2>1. UNCHANGED <<rows, age, req>> /\ worker' = [worker EXCEPT ![i] = Idle]
    BY <1>3 DEF WorkerQueryFails, storeVars
  <2>2. \A j \in Incidents : IF j = i THEN jobs'[j].st # "active" ELSE jobs'[j] = jobs[j]
    BY <1>3 DEF WorkerQueryFails, FailAttempt, DataInv, WorkersInv, QueueType
  <2>3. Active' \subseteq Active /\ \A j \in Incidents \ {i} : j \in Active => j \in Active'
    BY <2>2 DEF Active
  <2>4. \A j \in Incidents : worker'[j] = IF j = i THEN Idle ELSE worker[j]
    BY <2>1 DEF DataInv, WorkersInv, WorkerType
  <2> QED
    BY <1>1, <2>1, <2>3, <2>4, SerialRest
<1>4. ASSUME NEW i \in Incidents, GrowOld(i), UNCHANGED <<jobs, req, workerVars>>
      PROVE  SerialInv'
  <2>1. rows' = rows /\ age' = [age EXCEPT ![i] = @ + 1] /\ worker' = worker
    BY <1>4 DEF GrowOld, workerVars
  <2>2. \A j \in Incidents : age'[j] = IF j = i THEN age[j] + 1 ELSE age[j]
    BY <2>1 DEF DataInv, StoreInv, StoreType
  <2>3. Active' = Active
    BY <1>4 DEF Active
  <2>4. \A j \in Incidents : (age'[j] = 0 => age[j] = 0) /\ (age'[j] <= 1 => age[j] <= 1)
    BY <1>1, <2>2
  <2> QED
    BY <1>4, <2>1, <2>3, <2>4, SerialRest
<1>5. ASSUME NEW s \in Staff, NEW state \in StaffStates, UpdateStaffState(s, state),
             UNCHANGED workerVars
      PROVE  SerialInv'
  <2>1. UNCHANGED <<rows, age, req, jobs, worker>>
    BY <1>5 DEF UpdateStaffState, storeVars, workerVars
  <2>2. Active' = Active
    BY <2>1 DEF Active
  <2> QED
    BY <2>1, <2>2, SerialRest
<1> QED
  BY <1>2, <1>3, <1>4, <1>5, SerialCrash DEF Environment

LEMMA SerialInit == Init => SerialInv
<1> SUFFICES ASSUME Init PROVE SerialInv
  OBVIOUS
<1>1. InFlight = {} /\ Active = {}
  BY DEF Init, ServiceInit, QueueInit, Unserved, InFlight, Active
<1>2. OneAtATime
  BY <1>1 DEF OneAtATime, Init, WorkerInit, Idle
<1>3. \A r \in Requests : StillTrue(req[r])
  BY DEF Init, ServiceInit, Unserved, StillTrue
<1>4. \A i \in Incidents : worker[i].stage # "save"
  BY DEF Init, WorkerInit, Idle
<1> QED
  BY <1>2, <1>3, <1>4 DEF SerialInv

LEMMA SerialStep ==
    ASSUME MaxInFlight = 1, SerialInv, DataInv, [Next]_vars
    PROVE  SerialInv'
<1>1. CASE UNCHANGED vars
  <2>1. UNCHANGED <<rows, age, req, jobs, worker>>
    BY <1>1 DEF vars, storeVars, workerVars
  <2>2. Active' = Active
    BY <2>1 DEF Active
  <2> QED
    BY <2>1, <2>2, SerialRest
<1>2. ASSUME NEW i \in Incidents, Process(i) PROVE SerialInv'
  BY <1>2, SerialLoad, SerialWorkerSave, SerialWorkerEnds DEF Process
<1> QED
  BY <1>1, <1>2, SerialArrive, SerialServe, SerialEnvironment DEF Next

LEMMA SerialInvariance ==
    ASSUME MaxInFlight = 1
    PROVE  Spec => []SerialInv
<1>1. SerialInv /\ DataInv /\ DataInv' /\ [Next]_vars => SerialInv'
  BY SerialStep
<1> QED
  BY Invariance, SerialInit, <1>1, PTL DEF Spec

-----------------------------------------------------------------------------
\* What holds one request or job at a time.

LEMMA SerialCopiesAreFresh == SerialInv => CopiesAreFresh
BY DEF SerialInv, StillTrue, CopiesAreFresh

\* Then RowLocks holds, with all that follows from it: what was read is still there,
\* so no write can have come in between.
LEMMA OneAtATimeLocks ==
    ASSUME MaxInFlight = 1
    PROVE  Spec => RowLocks
<1> DEFINE Locked == \A i \in Incidents : rows'[i] # rows[i] => ~Held(i)'
<1>1. SerialInv /\ SerialInv' /\ DataInv /\ DataInv' /\ [Next]_vars => Locked
  <2> SUFFICES ASSUME SerialInv, SerialInv', DataInv, DataInv', [Next]_vars,
                      NEW i \in Incidents, Held(i)'
               PROVE  rows'[i] = rows[i]
    OBVIOUS
  <2>1. CopiesAreFresh /\ CopiesAreFresh'
    BY SerialCopiesAreFresh DEF SerialInv, StillTrue, CopiesAreFresh
  <2>2. ASSUME NEW r \in Requests, req'[r].stage \in {"staff", "save"}, req'[r].inc = i
        PROVE  rows'[i] = rows[i]
    BY <2>1, <2>2, HandlerReads DEF CopiesAreFresh
  <2>3. ASSUME worker'[i].stage = "save" PROVE rows'[i] = rows[i]
    BY <2>1, <2>3, ProcessorReads DEF CopiesAreFresh
  <2> QED
    BY <2>2, <2>3 DEF Held
<1>2. SerialInv /\ SerialInv' /\ DataInv /\ DataInv' /\ [Next]_vars => [Locked]_vars
  BY <1>1
<1> HIDE DEF Locked
<1>3. Spec => [][Locked]_vars
  BY SerialInvariance, Invariance, <1>2, PTL DEF Spec
<1> QED
  BY <1>3 DEF RowLocks, Locked

\* duplicateCount is the number of reports that were refused as duplicates.
THEOREM DuplicatesAreCounted ==
    ASSUME MaxInFlight = 1
    PROVE  Spec => []DuplicatesCounted
BY OneAtATimeLocks, LocksKeepTheCount, PTL

\* The table then is the state machine of the design: every write is one edge of the
\* diagram from what the row holds, or a counted duplicate.
THEOREM SerialRefinement ==
    ASSUME MaxInFlight = 1
    PROVE  Spec => WritesAreTransitions
BY OneAtATimeLocks, RowLocksSuffice, PTL

\* No incident is stored beside an open one of its category that its report matches.
\* CLEANLINESS is left out because the code loses it: such a report is looked for
\* under CLEANLINESS and stored under MAINTENANCE, so it never matches another.
THEOREM NoTwinIsCreated ==
    ASSUME MaxInFlight = 1
    PROVE  Spec => CreatesAreNovel
<1> DEFINE Novel == \A r \in Requests : Inserted(r) /\ req[r].report.category # "CLEANLINESS" =>
                        Twins(req[r].entity) = {}
<1>1. SerialInv /\ DataInv => Novel
  <2> SUFFICES ASSUME SerialInv, DataInv, NEW r \in Requests, Inserted(r),
                      req[r].report.category # "CLEANLINESS",
                      NEW j \in Incidents, j \in Twins(req[r].entity)
               PROVE  FALSE
    BY DEF Twins
  <2>1. PICK report \in Reports : report = req[r].report /\ req[r].entity = NewIncident(report)
    BY DEF Inserted, SerialInv, StillTrue
  <2>2. FindDuplicates(report.category, report.room) = {}
    BY <2>1 DEF Inserted, SerialInv, StillTrue
  <2>3. /\ rows[j] # NoRow /\ age[j] <= 1 /\ rows[j].status \in {"OPEN", "IN_PROGRESS"}
        /\ rows[j].category = BuiltCategory(report.category)
        /\ report.room \in {rows[j].room, NoRoom}
    BY <2>1 DEF Twins, NewIncident
  <2>4. rows[j].category # Undefined
    BY <2>3 DEF DataInv, StoreInv, Sound, Coherent
  <2>5. BuiltCategory(report.category) = report.category
    BY <2>1, <2>3, <2>4 DEF BuiltCategory
  <2> QED
    BY <2>2, <2>3, <2>5 DEF FindDuplicates
<1>2. SerialInv /\ DataInv => [Novel]_vars
  BY <1>1
<1> HIDE DEF Novel
<1>3. Spec => [][Novel]_vars
  BY SerialInvariance, Invariance, <1>2, PTL DEF Spec
<1> QED
  BY <1>3 DEF CreatesAreNovel, Novel

=============================================================================
