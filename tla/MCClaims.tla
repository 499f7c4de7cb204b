------------------------------- MODULE MCClaims -------------------------------
(***************************************************************************)
(* The smallest instances that refute the documented claims: five requests *)
(* about one incident and its timer, or two reports of one dirty room, and *)
(* nothing fails.                                                          *)
(***************************************************************************)
EXTENDS DocumentedClaims, TLC

CONSTANTS u1, r1, r2, r3, r4, r5, s1, i1, i2, a

SecurityReport ==
    {[category |-> "SECURITY", room |-> NoRoom, user |-> u1, defect |-> "none"]}

CleanlinessReport ==
    {[category |-> "CLEANLINESS", room |-> a, user |-> u1, defect |-> "none"]}

Interchangeable == Permutations(Requests)
=============================================================================
