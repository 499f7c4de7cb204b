------------------------------- MODULE MCSerial -------------------------------
(***************************************************************************)
(* The same system with one request or job served at a time: two ids, four *)
(* requests, reports that repeat, crowd, change category, lack a photo or  *)
(* have no class.                                                          *)
(***************************************************************************)
EXTENDS IncidentLifecycle, TLC

CONSTANTS u1, u2, r1, r2, r3, r4, s1, i1, i2, a

ReportOf(category, room, user, defect) ==
    [category |-> category, room |-> room, user |-> user, defect |-> defect]

MixedReports == { ReportOf("SECURITY", a, u1, "none"),
                  ReportOf("SECURITY", NoRoom, u2, "none"),
                  ReportOf("SECURITY", a, u2, "field"),
                  ReportOf("MAINTENANCE", a, u1, "photo"),
                  ReportOf("OTHER", a, u2, "none"),
                  ReportOf("CLEANLINESS", a, u1, "none") }

Interchangeable == Permutations(Requests) \cup Permutations(Incidents)
=============================================================================
