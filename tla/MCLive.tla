-------------------------------- MODULE MCLive --------------------------------
(***************************************************************************)
(* What happens in the end, under weak fairness of the event loop and of   *)
(* BullMQ: three requests about one incident and one outside failure.      *)
(***************************************************************************)
EXTENDS IncidentLifecycle

CONSTANTS u1, r1, r2, r3, s1, i1

TwoReports ==
    { [category |-> "SECURITY", room |-> NoRoom, user |-> u1, defect |-> "none"],
      [category |-> "OTHER", room |-> NoRoom, user |-> u1, defect |-> "none"] }
=============================================================================
