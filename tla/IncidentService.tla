---------------------------- MODULE IncidentService ----------------------------
(***************************************************************************)
(* IncidentService: creating, assigning, resolving and rating an incident. *)
(* A request is one HTTP call.  Its handler runs alone between two awaits, *)
(* so an action is one database statement and the code up to the next:     *)
(*                                                                         *)
(*   create    findDuplicates -> countRecentByUser -> insert -> publish    *)
(*                            -> increment duplicateCount                  *)
(*   assign    findById -> findEligibleStaff -> save -> publish            *)
(*   resolve   findById -> save -> publish                                 *)
(*   feedback  findById -> save -> publish                                 *)
(*                                                                         *)
(* Between findById and save the handler holds an entity other requests    *)
(* and the SLA worker do not see, nor does it see what they write.         *)
(***************************************************************************)
EXTENDS SLAQueue

CONSTANTS
    Requests,       \* the HTTP calls clients make, each served once
    Kinds,          \* bound: the operations they ask for
    Reports,        \* bound: the bodies of the create calls
    MaxPerHour,     \* MAX_PER_HOUR, 5 in the code
    MaxInFlight     \* bound: how many requests and jobs are served at once

VARIABLES
    req,            \* the handler of each request
    staffState      \* User.staffState of each member of staff

Operations == {"create", "assign", "resolve", "feedback"}

StaffStates == {"ACTIVE", "UNDER_REVIEW", "SUSPENDED"}

\* A create call: what it names, who sends it, and what is wrong with it: a field
\* the first three validators refuse, a critical priority with no photo, or nothing.
Report == [ category : ValidCategories, room : Rooms \cup {NoRoom}, user : Users,
            defect : {"none", "field", "photo"} ]

ASSUME ServiceAssumption ==
    /\ Kinds \subseteq Operations /\ Reports \subseteq Report
    /\ MaxPerHour \in Nat /\ MaxInFlight \in Nat \ {0}
    /\ IsFiniteSet(Requests) /\ IsFiniteSet(Incidents)

NoReport == [ category |-> Undefined, room |-> NoRoom, user |-> NoOne, defect |-> "none" ]
NoIncident == NoRow

Stages == {"new", "count", "increment", "insert", "staff", "save", "publish", "done"}

Outcomes == { "none", "OK", "VALIDATION_ERROR", "DUPLICATE_INCIDENT", "SPAM_THROTTLE",
              "INCIDENT_NOT_ASSIGNABLE", "NO_STAFF_AVAILABLE", "NOT_FOUND",
              "INVALID_STATE_TRANSITION", "RESOLUTION_REJECTED", "INTERNAL_ERROR",
              "LOST" }

\* base is what findById returned; entity is what the handler holds now.
Handler == [ stage   : Stages,
             kind    : Operations \cup {"none"},
             inc     : Incidents \cup {NoIncident},
             report  : Reports \cup {NoReport},
             base    : Row \cup {NoRow},
             entity  : Row \cup {NoRow},
             outcome : Outcomes ]

Unserved == [ stage |-> "new", kind |-> "none", inc |-> NoIncident, report |-> NoReport,
              base |-> NoRow, entity |-> NoRow, outcome |-> "none" ]

ServiceInit == /\ req = [r \in Requests |-> Unserved]
               /\ staffState = [s \in Staff |-> "ACTIVE"]

ServiceType == /\ req \in [Requests -> Handler]
               /\ staffState \in [Staff -> StaffStates]

-----------------------------------------------------------------------------
InFlight == {r \in Requests : req[r].stage \notin {"new", "done"}}

\* The room left for one more request or job (a bound, not a limit of the code).
Admits == Cardinality(InFlight) + Cardinality({i \in Incidents : jobs[i].st = "active"})
              < MaxInFlight

\* The answer; the handler's entity is garbage from here on.
Answered(kind, i, outcome) ==
    [Unserved EXCEPT !.stage = "done", !.kind = kind, !.inc = i, !.outcome = outcome]

Answer(r, outcome) ==
    req' = [req EXCEPT ![r] = Answered(req[r].kind, req[r].inc, outcome)]

Refuse(r, kind, i, outcome) == req' = [req EXCEPT ![r] = Answered(kind, i, outcome)]

\* The entity read for request r, and what it has become.
Hold(r, kind, i, stage, base, entity) ==
    req' = [req EXCEPT ![r] = [Unserved EXCEPT !.stage = stage, !.kind = kind, !.inc = i,
                                               !.base = base, !.entity = entity]]

Arrives(r, kind) == req[r].stage = "new" /\ kind \in Kinds /\ Admits

\* Clients file no more reports than there are ids (a bound, not a limit of the code).
IdsLeft == Cardinality({r \in InFlight : req[r].kind = "create" /\ req[r].stage # "publish"})
               < Cardinality(FreeIds)

-----------------------------------------------------------------------------
\* createIncident

\* The class CATEGORY_CLASS_MAP names is given no category: MaintenanceIncident and
\* its siblings fill in their own, GeneralIncident (OTHER) has none to fill in.
BuiltCategory(c) ==
    IF c = "CLEANLINESS" THEN "MAINTENANCE" ELSE IF c = "OTHER" THEN Undefined ELSE c

\* (mutant) assignedToId is left undefined instead of null.
NewIncidentUndefined(report) ==
    [ status |-> "OPEN", category |-> BuiltCategory(report.category), room |-> report.room,
      creator |-> report.user, assignee |-> Undefined, escalated |-> FALSE,
      resolved |-> FALSE, slaJob |-> FALSE, dups |-> 0 ]

\* IncidentFactory.create
NewIncident(report) ==
    [ status |-> "OPEN", category |-> BuiltCategory(report.category), room |-> report.room,
      creator |-> report.user, assignee |-> NoOne, escalated |-> FALSE,
      resolved |-> FALSE, slaJob |-> FALSE, dups |-> 0 ]

\* The request arrives; the validators that need no query; findDuplicates.
CreateCheckDuplicates(r, report) ==
    /\ Arrives(r, "create") /\ IdsLeft
    /\ IF report.defect = "field"
       THEN Refuse(r, "create", NoIncident, "VALIDATION_ERROR")
       ELSE LET found == FindDuplicates(report.category, report.room)
            IN  IF found = {}
                THEN req' = [req EXCEPT ![r] = [Unserved EXCEPT
                               !.stage = "count", !.kind = "create", !.report = report]]
                ELSE \E i \in Newest(found) :
                         Hold(r, "create", i, "increment", NoRow, NoRow)
    /\ UNCHANGED <<storeVars, faults, jobs, staffState>>

\* The duplicate is counted and the report refused.
CreateCountDuplicate(r) ==
    /\ req[r].stage = "increment"
    /\ IncrementDuplicateCount(req[r].inc)
    /\ Answer(r, "DUPLICATE_INCIDENT")
    /\ UNCHANGED <<faults, jobs, staffState>>

\* (mutant) The limit is passed before it is noticed.
TooMany(n) == n > MaxPerHour

\* SpamThrottleValidator's limit.
Throttled(n) == n >= MaxPerHour

\* countRecentByUser, then PhotoRequirementCheck and the factory.
CreateCountRecent(r) ==
    /\ req[r].stage = "count"
    /\ IF Throttled(Cardinality(RecentByUser(req[r].report.user)))
       THEN Answer(r, "SPAM_THROTTLE")
       ELSE IF req[r].report.defect = "photo"
            THEN Answer(r, "VALIDATION_ERROR")
            ELSE req' = [req EXCEPT ![r].stage = "insert",
                                    ![r].entity = NewIncident(req[r].report)]
    /\ UNCHANGED <<storeVars, faults, jobs, staffState>>

\* (mutant) A refused insert is an unhandled rejection: nobody answers.
CreateInsertUnhandled(r) ==
    /\ req[r].stage = "insert" /\ CanCreate(req[r].entity)
    /\ \E i \in FreeIds : /\ Create(i, req[r].entity)
                          /\ Hold(r, "create", i, "publish", NoRow, req[r].entity)
    /\ UNCHANGED <<faults, jobs, staffState>>

\* save() of the new entity; an entity without a category is refused by Prisma.
CreateInsert(r) ==
    /\ req[r].stage = "insert"
    /\ IF CanCreate(req[r].entity)
       THEN \E i \in FreeIds : /\ Create(i, req[r].entity)
                               /\ Hold(r, "create", i, "publish", NoRow, req[r].entity)
       ELSE Answer(r, "INTERNAL_ERROR") /\ UNCHANGED storeVars
    /\ UNCHANGED <<faults, jobs, staffState>>

\* publish('INCIDENT_CREATED').  A failing observer is logged and forgotten: when
\* queue.add fails the caller still answers 201 and the incident has no timer.
CreatePublish(r) ==
    /\ req[r].stage = "publish" /\ req[r].kind = "create"
    /\ \/ ScheduleEscalation(req[r].inc) /\ UNCHANGED faults
       \/ Fault /\ UNCHANGED jobs
    /\ Answer(r, "OK")
    /\ UNCHANGED <<storeVars, staffState>>

-----------------------------------------------------------------------------
\* save() of the entity the handler holds, by assign, resolve and feedback.
Save(r) ==
    /\ req[r].stage = "save"
    /\ Update(req[r].inc, req[r].entity)
    /\ req' = [req EXCEPT ![r].stage = "publish"]
    /\ UNCHANGED <<faults, jobs, staffState>>

\* assignIncident

\* findById, and the only states auto-assignment accepts.
AssignLoad(r, i) ==
    /\ Arrives(r, "assign")
    /\ IF rows[i] # NoRow /\ rows[i].status \in {"OPEN", "ESCALATED"}
       THEN Hold(r, "assign", i, "staff", ToEntity(rows[i]), ToEntity(rows[i]))
       ELSE Refuse(r, "assign", i, "INCIDENT_NOT_ASSIGNABLE")
    /\ UNCHANGED <<storeVars, faults, jobs, staffState>>

\* findEligibleStaff, the department's strategy and the state's assignStaff.  Every
\* strategy takes ACTIVE staff only, and any of them may find nobody (off shift);
\* MANUAL throws, for the service never passes a targetStaffId.
AssignSelectStaff(r) ==
    /\ req[r].stage = "staff"
    /\ \/ \E s \in Staff :
            /\ staffState[s] = "ACTIVE"
            /\ CanAssignStaff(req[r].entity, staffState[s] = "ACTIVE")
            /\ req' = [req EXCEPT ![r].stage = "save", ![r].entity = AssignStaff(@, s)]
       \/ Answer(r, "NO_STAFF_AVAILABLE")
       \/ Answer(r, "INTERNAL_ERROR")
    /\ UNCHANGED <<storeVars, faults, jobs, staffState>>

\* publish('INCIDENT_ASSIGNED'): no observer of it touches the table or the queue.
AssignPublish(r) ==
    /\ req[r].stage = "publish" /\ req[r].kind = "assign"
    /\ Answer(r, "OK")
    /\ UNCHANGED <<storeVars, faults, jobs, staffState>>

-----------------------------------------------------------------------------
\* resolveIncident; filed says whether there is a photo and a note of ten characters.
ResolveLoad(r, i, filed) ==
    /\ Arrives(r, "resolve")
    /\ IF rows[i] = NoRow
       THEN Refuse(r, "resolve", i, "NOT_FOUND")
       ELSE IF ~CanResolve(ToEntity(rows[i]))
            THEN Refuse(r, "resolve", i, "INVALID_STATE_TRANSITION")
            ELSE IF ~filed
                 THEN Refuse(r, "resolve", i, "RESOLUTION_REJECTED")
                 ELSE Hold(r, "resolve", i, "save", ToEntity(rows[i]),
                           Resolve(ToEntity(rows[i])))
    /\ UNCHANGED <<storeVars, faults, jobs, staffState>>

\* publish('INCIDENT_RESOLVED'): SLATimerManager cancels the timer it can name.
ResolvePublish(r) ==
    /\ req[r].stage = "publish" /\ req[r].kind = "resolve"
    /\ CancelEscalation(req[r].inc, req[r].entity)
    /\ Answer(r, "OK")
    /\ UNCHANGED <<storeVars, faults, staffState>>

-----------------------------------------------------------------------------
\* submitFeedback; low is a score of 1 or 2.  Nobody checks who rates, or how often.
FeedbackLoad(r, i, low) ==
    /\ Arrives(r, "feedback")
    /\ IF rows[i] = NoRow
       THEN Refuse(r, "feedback", i, "NOT_FOUND")
       ELSE IF ~CanReceiveFeedback(ToEntity(rows[i]))
            THEN Refuse(r, "feedback", i, "INVALID_STATE_TRANSITION")
            ELSE Hold(r, "feedback", i, "save", ToEntity(rows[i]),
                      ReceiveFeedback(ToEntity(rows[i]), low))
    /\ UNCHANGED <<storeVars, faults, jobs, staffState>>

\* publish('INCIDENT_REOPENED_BY_FEEDBACK') or publish('FEEDBACK_RECEIVED').
FeedbackPublish(r) ==
    /\ req[r].stage = "publish" /\ req[r].kind = "feedback"
    /\ Answer(r, "OK")
    /\ UNCHANGED <<storeVars, faults, jobs, staffState>>

-----------------------------------------------------------------------------
\* (mutant) The controller swallows the error.
SwallowError(r) ==
    /\ req[r].stage \in {"count", "increment", "insert", "staff", "save"}
    /\ Fault
    /\ Answer(r, "OK")
    /\ UNCHANGED <<storeVars, jobs, staffState>>

\* A query fails: the error goes to errorHandler, nothing is undone, nothing retried.
QueryFails(r) ==
    /\ req[r].stage \in {"count", "increment", "insert", "staff", "save"}
    /\ Fault
    /\ Answer(r, "INTERNAL_ERROR")
    /\ UNCHANGED <<storeVars, jobs, staffState>>

\* PATCH /api/users/:id/staff-state, by an administrator.
UpdateStaffState(s, state) ==
    /\ staffState[s] # state
    /\ staffState' = [staffState EXCEPT ![s] = state]
    /\ UNCHANGED <<storeVars, faults, jobs, req>>

\* The handler of a request that has been read takes its next step.
Continue(r) ==
    \/ CreateCountDuplicate(r) \/ CreateCountRecent(r) \/ CreateInsert(r)
    \/ CreatePublish(r)
    \/ AssignSelectStaff(r) \/ AssignPublish(r)
    \/ ResolvePublish(r) \/ FeedbackPublish(r)
    \/ Save(r)
=============================================================================
