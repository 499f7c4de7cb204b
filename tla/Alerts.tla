-------------------------------- MODULE Alerts --------------------------------
(***************************************************************************)
(* Alerts an administrator broadcasts and retracts.  Either handler writes *)
(* the row and then emits to the room of the alert's scope: the room of a  *)
(* role, the room of a department (which behaves like one of a role), or   *)
(* "campus", which no connection is ever put in.  GET /alerts lists the    *)
(* rows, and an alert on the list can be retracted before it was emitted.  *)
(***************************************************************************)
EXTENDS Sockets

CONSTANTS
    AlertScopes,    \* alert -> the room of its scope
    MaxRetractions  \* how often one alert is retracted

ASSUME AlertsAssumption == MaxRetractions \in Nat

VARIABLES
    alert,      \* alert -> its row, and the handlers at work on it
    heard,      \* tab -> alert -> what it last heard of the alert
    apart       \* tabs that were disconnected at some time

alertVars == <<alert, heard, apart>>

AlertIds == DOMAIN AlertScopes

CampusRoom == <<"campus">>

NoAlert == 
    [row |-> "none", emitted |-> FALSE, overtaken |-> FALSE,
     retraction |-> "none", retractions |-> 0]

AlertsInit ==
    /\ alert = [a \in AlertIds |-> NoAlert]
    /\ heard = [t \in Tabs |-> [a \in AlertIds |-> "nothing"]]
    /\ apart = {}

(* The insert, after the fields were checked: an alert that is refused     *)
(* leaves nothing.                                                         *)
CreateAlert(a) ==
    /\ alert[a].row = "none"
    /\ alert' = [alert EXCEPT ![a].row = "active"]
    /\ UNCHANGED <<heard, apart, socketVars>>

EmitAlert(a) ==
    /\ alert[a].row # "none" /\ ~alert[a].emitted
    /\ alert' = [alert EXCEPT ![a].emitted = TRUE, ![a].overtaken = alert[a].retraction = "emitted"]
    /\ socket' = Emitted({AlertScopes[a]}, <<"campus_alert", a>>)
    /\ UNCHANGED <<heard, apart, drops>>

ListAlerts == {a \in AlertIds : alert[a].row # "none"}

(* The update.  An alert that is retracted can be retracted again. *)
UpdateAlert(a) ==
    /\ a \in ListAlerts
    /\ alert[a].retraction # "updated"
    /\ alert[a].retractions < MaxRetractions
    /\ alert' = [alert EXCEPT ![a].row = "retracted", ![a].retraction = "updated",
                              ![a].retractions = @ + 1]
    /\ UNCHANGED <<heard, apart, socketVars>>

(* (mutant) everybody is told, by way of the room of everybody. *)
EmitRetractionToCampus(a) ==
    /\ alert[a].retraction = "updated"
    /\ alert' = [alert EXCEPT ![a].retraction = "emitted"]
    /\ socket' = Emitted({CampusRoom}, <<"alert_retracted", a>>)
    /\ UNCHANGED <<heard, apart, drops>>

EmitRetraction(a) ==
    /\ alert[a].retraction = "updated"
    /\ alert' = [alert EXCEPT ![a].retraction = "emitted"]
    /\ socket' = Emitted({AlertScopes[a]}, <<"alert_retracted", a>>)
    /\ UNCHANGED <<heard, apart, drops>>

Receive(t) ==
    /\ socket[t].inbox # <<>>
    /\ socket' = Received(t)
    /\ LET m == Head(socket[t].inbox)
       IN  heard' = [heard EXCEPT ![t][m[2]] = m[1]]
    /\ UNCHANGED <<alert, apart, drops>>

TabLost(t) ==
    /\ Drop(t)
    /\ apart' = apart \cup {t}
    /\ UNCHANGED <<alert, heard>>

TabBack(t) ==
    /\ Connect(t)
    /\ UNCHANGED alertVars

AlertsNext ==
    \/ \E a \in AlertIds :
        CreateAlert(a) \/ EmitAlert(a) \/ UpdateAlert(a) \/ EmitRetraction(a)
    \/ \E t \in Tabs : Receive(t) \/ TabLost(t) \/ TabBack(t)

AlertsSpec == SocketsInit /\ AlertsInit /\ [][AlertsNext]_<<alertVars, socketVars>>

-----------------------------------------------------------------------------

(* A tab that stayed connected and heard everything under way has, of a    *)
(* retracted alert, heard the retraction last, unless it was retracted     *)
(* from the list before it was emitted (alertController.js:101 and 188).   *)
RetractionsFollow ==
    \A t \in Tabs \ apart, a \in AlertIds :
        socket[t].inbox = <<>> /\ alert[a].retraction = "emitted" /\ ~alert[a].overtaken
            => heard[t][a] # "campus_alert"

(* (claim) "Can broadcast campus-wide emergency alerts" (docs/PRD.md:119), *)
(* "'CAMPUS' -> 'campus' (everyone connected)"                             *)
(* (BroadcastAlertCommand.js:49): an alert to the campus that was emitted  *)
(* and not retracted has been heard by every tab that stayed connected and *)
(* has nothing left to hear.                                               *)
CampusAlertsReachTabs ==
    \A t \in Tabs \ apart, a \in AlertIds :
        /\ socket[t].inbox = <<>>
        /\ AlertScopes[a] = CampusRoom /\ alert[a].row = "active" /\ alert[a].emitted
        => heard[t][a] = "campus_alert"

=============================================================================
