---------------------------- MODULE IncidentStates ----------------------------
(***************************************************************************)
(* The State pattern of src/domain/states: what each lifecycle method does *)
(* to an incident.  CanX says in which states X does not throw.            *)
(***************************************************************************)
EXTENDS IncidentData

\* OpenState insists on ACTIVE staff; EscalatedState and ReopenedState do not ask.
CanAssignStaff(e, active) ==
    \/ e.status = "OPEN" /\ active
    \/ e.status \in {"ESCALATED", "REOPENED"}

AssignStaff(e, s) == [e EXCEPT !.status = "IN_PROGRESS", !.assignee = s]

\* (mutant) Work that nobody was assigned to can be resolved.
CanResolveUnassigned(e) == e.status \in {"OPEN", "IN_PROGRESS"}

CanResolve(e) == e.status = "IN_PROGRESS"

Resolve(e) == [e EXCEPT !.status = "RESOLVED", !.resolved = TRUE]

\* (mutant) ReopenedState escalates too.
CanEscalateReopened(e) == e.status \in {"OPEN", "IN_PROGRESS", "REOPENED"}

CanEscalate(e) == e.status \in {"OPEN", "IN_PROGRESS"}

Escalate(e) == [e EXCEPT !.status = "ESCALATED", !.escalated = TRUE]

CanReceiveFeedback(e) == e.status = "RESOLVED"

\* A score of 1 or 2 reopens; any other score leaves the incident as it is.
ReceiveFeedback(e, low) == IF low THEN [e EXCEPT !.status = "REOPENED"] ELSE e
=============================================================================
