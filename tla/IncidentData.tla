----------------------------- MODULE IncidentData -----------------------------
(***************************************************************************)
(* What an incident holds.  An incident in memory (src/domain/entities)    *)
(* and its row in PostgreSQL carry the same data here: both are in Row.    *)
(*                                                                         *)
(* CLOSED is in the database enum, and no code of the server writes it.    *)
(* The staff counters that the state methods touch (activeTaskCount,       *)
(* penaltyCount) and the status log and feedback they append live in       *)
(* memory only and are not columns that save() writes: they are left out.  *)
(***************************************************************************)
EXTENDS Naturals

CONSTANTS
    Staff,      \* maintenance and security staff
    Users,      \* students and faculty who report incidents
    Rooms,      \* rooms a report may name
    NoOne,      \* assignedToId = null
    NoRoom      \* location.room = null

ASSUME NullsAssumption == NoOne \notin Staff /\ NoRoom \notin Rooms

Statuses == {"OPEN", "IN_PROGRESS", "RESOLVED", "ESCALATED", "REOPENED"}

\* VALID_CATEGORIES, and the category of an entity whose class was never told one.
ValidCategories ==
    {"MAINTENANCE", "SECURITY", "INFRASTRUCTURE", "CLEANLINESS", "EMERGENCY", "OTHER"}
Undefined == "undefined"

Row == [ status    : Statuses,
         category  : ValidCategories \cup {Undefined},
         room      : Rooms \cup {NoRoom},
         creator   : Users,
         assignee  : Staff \cup {NoOne},   \* assignedToId
         escalated : BOOLEAN,              \* sla.isEscalated
         resolved  : BOOLEAN,              \* resolutionNote, resolutionPhoto, resolvedAt
         slaJob    : BOOLEAN,              \* slaJobId is set
         dups      : Nat ]                 \* duplicateCount
=============================================================================
