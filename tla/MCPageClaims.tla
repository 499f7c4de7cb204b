---------------------------- MODULE MCPageClaims ----------------------------
(***************************************************************************)
(* The smallest instances that refute what the client's comments and the   *)
(* documents say of the panic button, alerts and the incident page.        *)
(***************************************************************************)
EXTENDS Panic, Alerts, DetailPage, TLC

CONSTANTS reporter, officer, admin

Viewing ==
    {[role |-> "ADMIN", id |-> admin], [role |-> "SECURITY", id |-> officer],
     [role |-> "STUDENT", id |-> reporter]}

TabRoles == (officer :> "SECURITY") @@ (admin :> "ADMIN")

ToCampus == <<CampusRoom>>

claimVars == <<socketVars, panicVars, alertVars, detailVars>>

Init == SocketsInit /\ PanicInit /\ AlertsInit /\ DetailInit

(* The interval fires while it is set, and React runs effects that are due. *)
HoldSpec ==
    /\ Init
    /\ [][PanicNext /\ UNCHANGED <<alertVars, detailVars>>]_claimVars
    /\ WF_button(HoldTick) /\ WF_button(HoldEffect)

CampusSpec ==
    /\ Init
    /\ [][AlertsNext /\ UNCHANGED <<panicVars, detailVars>>]_claimVars

DetailSpec ==
    /\ Init
    /\ [][DetailNext /\ UNCHANGED <<socketVars, panicVars, alertVars>>]_claimVars
=============================================================================
