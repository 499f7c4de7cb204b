--------------------------- MODULE IncidentContract ---------------------------
(***************************************************************************)
(* What may become of an incident, stated without the code that does it:   *)
(* the state diagram of docs/DESIGN_PATTERNS.md (Pattern 1), less the edge *)
(* REOPENED -> IN_PROGRESS, which no caller in the server can take.        *)
(***************************************************************************)
EXTENDS IncidentData

\* An incident as it is first stored.
Fresh == [ status : {"OPEN"}, category : ValidCategories, room : Rooms \cup {NoRoom},
           creator : Users, assignee : {NoOne}, escalated : {FALSE},
           resolved : {FALSE}, slaJob : {FALSE}, dups : {0} ]

\* What no transition changes.
SameReport(v, w) ==
    /\ w.category = v.category /\ w.room = v.room /\ w.creator = v.creator
    /\ w.slaJob = v.slaJob /\ w.dups = v.dups

Assigned(v, w) ==
    /\ v.status \in {"OPEN", "ESCALATED"} /\ w.status = "IN_PROGRESS"
    /\ w.assignee \in Staff
    /\ w.escalated = v.escalated /\ w.resolved = v.resolved

Resolved(v, w) ==
    /\ v.status = "IN_PROGRESS" /\ w.status = "RESOLVED"
    /\ w.assignee = v.assignee /\ w.escalated = v.escalated /\ w.resolved

Escalated(v, w) ==
    /\ v.status \in {"OPEN", "IN_PROGRESS"} /\ w.status = "ESCALATED"
    /\ w.assignee = v.assignee /\ w.escalated /\ w.resolved = v.resolved

Rated(v, w) ==
    /\ v.status = "RESOLVED" /\ w.status \in {"RESOLVED", "REOPENED"}
    /\ w.assignee = v.assignee /\ w.escalated = v.escalated /\ w.resolved = v.resolved

\* One edge of the diagram.
Edge(v, w) ==
    /\ w \in Row
    /\ SameReport(v, w)
    /\ Assigned(v, w) \/ Resolved(v, w) \/ Escalated(v, w) \/ Rated(v, w)

\* A rejected duplicate is counted.
Counted(v, w) == w = [v EXCEPT !.dups = @ + 1]

\* The columns of a row agree with its status.
Coherent(e) ==
    /\ e.category # Undefined
    /\ e.status = "OPEN" => e.assignee = NoOne /\ ~e.escalated
    /\ e.status \in {"OPEN", "IN_PROGRESS", "ESCALATED"} => ~e.resolved
    /\ e.status = "ESCALATED" => e.escalated
    /\ e.status \in {"RESOLVED", "REOPENED"} => e.resolved
    /\ e.status \in {"IN_PROGRESS", "RESOLVED", "REOPENED"} => e.assignee # NoOne
=============================================================================
