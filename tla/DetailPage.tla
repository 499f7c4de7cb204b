------------------------------ MODULE DetailPage ------------------------------
(***************************************************************************)
(* The page of one incident: it loads the incident, offers what its status *)
(* and the viewer's role allow, and loads it again after an action.  The   *)
(* API answers with the entity, whose status is in its state object: the   *)
(* object has methods and no fields, so JSON carries no status at all.     *)
(***************************************************************************)
EXTENDS IncidentStates

CONSTANTS
    Viewers,    \* [role, id] of the people who open the page
    Reporter,   \* who created the incident
    Assignee    \* whom the incident is assigned to

VARIABLES
    incident,   \* its row
    detail      \* the page: its viewer, and what it loaded

detailVars == <<incident, detail>>

Reporting == {"STUDENT", "FACULTY"}
Working == {"MAINTENANCE", "SECURITY"}

(* JSON.stringify of an incident. *)
Serialized(e) == [status |-> Undefined, assignedToId |-> e.assignee, creatorId |-> e.creator]

NoAnswer == [status |-> Undefined, assignedToId |-> NoOne, creatorId |-> NoOne]

Opened(v) ==
    [viewer |-> v, stage |-> "loading", acting |-> "nothing", rated |-> FALSE,
     answer |-> NoAnswer, of |-> incident]

DetailInit ==
    /\ incident = [status |-> "OPEN", category |-> "MAINTENANCE", room |-> NoRoom,
                   creator |-> Reporter, assignee |-> NoOne, escalated |-> FALSE,
                   resolved |-> FALSE, slaJob |-> TRUE, dups |-> 0]
    /\ \E v \in Viewers : detail = Opened(v)

FetchIncident(failed) ==
    /\ detail.stage = "loading"
    /\ detail' = [detail EXCEPT
                    !.stage = IF failed THEN "error" ELSE "shown",
                    !.answer = IF failed THEN @ ELSE Serialized(incident),
                    !.of = incident]
    /\ UNCHANGED incident

viewerRole == detail.viewer.role

canAssign == viewerRole = "ADMIN" /\ detail.answer.status \in {"OPEN", "ESCALATED"}

canResolve ==
    /\ viewerRole \in Working
    /\ detail.answer.status = "IN_PROGRESS"
    /\ detail.answer.assignedToId = detail.viewer.id

canFeedback ==
    /\ viewerRole \in Reporting
    /\ detail.answer.status = "RESOLVED"
    /\ detail.answer.creatorId = detail.viewer.id
    /\ ~detail.rated

PressButton(action, offered) ==
    /\ detail.stage = "shown" /\ detail.acting = "nothing"
    /\ offered
    /\ detail' = [detail EXCEPT !.acting = action]
    /\ UNCHANGED incident

(* What the server does with a request, whoever makes it. *)
Accepted(action) ==
    \/ /\ action = "assign" /\ CanAssignStaff(incident, TRUE)
       /\ incident.status # "REOPENED"
       /\ incident' = AssignStaff(incident, Assignee)
    \/ /\ action = "resolve" /\ CanResolve(incident)
       /\ incident' = Resolve(incident)
    \/ /\ action = "feedback" /\ CanReceiveFeedback(incident)
       /\ \E low \in BOOLEAN : incident' = ReceiveFeedback(incident, low)

Done(loads, rated) ==
    detail' = [detail EXCEPT
                !.acting = "nothing",
                !.stage = IF loads THEN "loading" ELSE @,
                !.rated = @ \/ rated]

(* handleAssign, handleResolve, handleFeedback: an answer loads the        *)
(* incident again, an error is shown.                                      *)
Handle ==
    /\ detail.acting # "nothing"
    /\ \/ Accepted(detail.acting) /\ Done(TRUE, detail.acting = "feedback")
       \/ UNCHANGED incident /\ Done(FALSE, FALSE)

(* Somebody else acts, or the SLA timer fires. *)
Elsewhere ==
    /\ \/ \E action \in {"assign", "resolve", "feedback"} : Accepted(action)
       \/ CanEscalate(incident) /\ incident' = Escalate(incident)
    /\ UNCHANGED detail

DetailNext ==
    \/ \E failed \in BOOLEAN : FetchIncident(failed)
    \/ PressButton("assign", canAssign)
    \/ PressButton("resolve", canResolve)
    \/ PressButton("feedback", canFeedback)
    \/ Handle
    \/ Elsewhere

(* (claim) API_CONTRACT.md:332: the answer of GET /incidents/:id has the   *)
(* "status".  The page needs it: a viewer who looks at an incident as it   *)
(* is finds the button for what the server would accept from them.         *)
AcceptedIsOffered ==
    detail.stage = "shown" /\ detail.of = incident =>
        /\ viewerRole = "ADMIN" /\ incident.status \in {"OPEN", "ESCALATED"} => canAssign
        /\ viewerRole \in Working /\ CanResolve(incident) /\ incident.assignee = detail.viewer.id
            => canResolve
        /\ viewerRole \in Reporting /\ CanReceiveFeedback(incident) /\ ~detail.rated
           /\ incident.creator = detail.viewer.id => canFeedback
=============================================================================
