----------------------------- MODULE MCConcurrent -----------------------------
(***************************************************************************)
(* The request handlers and the SLA worker overtaking one another: four    *)
(* requests about one incident, its timer, and up to two outside failures. *)
(***************************************************************************)
EXTENDS IncidentInvariants, TLC

CONSTANTS u1, r1, r2, r3, r4, s1, i1

SecurityReport ==
    {[category |-> "SECURITY", room |-> NoRoom, user |-> u1, defect |-> "none"]}

Interchangeable == Permutations(Requests)
=============================================================================
