--------------------------- MODULE DocumentedClaims ---------------------------
(***************************************************************************)
(* What the repository's comments and documents say of the incident        *)
(* lifecycle and the program does not do.  Each is violated in a run of    *)
(* its own; README.md tells the story of each counterexample.              *)
(***************************************************************************)
EXTENDS IncidentLifecycle

\* "Terminal happy-path state. Only valid action: receiveFeedback."
\* (ResolvedState.js:3): a RESOLVED incident does not become ESCALATED.  The worker's
\* check of the status (slaWorker.js:81) and its save (slaWorker.js:130) are two awaits
\* apart, and a resolution stored in between is overwritten.
ResolvedIsNotEscalated ==
    [][\A i \in Incidents :
          rows[i] # NoRow /\ rows'[i] # NoRow /\ rows[i].status = "RESOLVED" =>
              rows'[i].status # "ESCALATED"]_vars

\* "Without locking, both succeed ... Database prevents the race condition"
\* (SYSTEM_DESIGN.md 3.2): an assignment is stored only while the row still waits
\* for one.  assignIncident takes no lock (IncidentService.js:154, 198).
AssignedWhileAssignable ==
    [][\A r \in Requests :
          req[r].kind = "assign" /\ req[r].stage = "save" /\ req'[r].stage = "publish" =>
              rows[req[r].inc].status \in {"OPEN", "ESCALATED"}]_vars

\* "Duplicate detection: same location + category + 24hr window" (PRD.md:158, INC-03):
\* no report is stored beside an open one of its place, category and day.  The factory
\* stores CLEANLINESS under MAINTENANCE (CATEGORY_CLASS_MAP), and findDuplicates looks
\* for the category the report names.
DuplicatesAreRefused ==
    [][\A r \in Requests : Inserted(r) => Twins(req[r].entity) = {}]_vars
=============================================================================
