------------------------------- MODULE Hotspots -------------------------------
(***************************************************************************)
(* HotspotDetector: for each report of a place it counts a Redis counter   *)
(* up, in a second call puts off the expiry of the counter, and tells the  *)
(* administrators once the count has reached the threshold.  One place is  *)
(* modelled: places share nothing.  A room is a place apart from its block.*)
(***************************************************************************)
EXTENDS Naturals, FiniteSets, Sequences

CONSTANTS
    HotspotThreshold,
    HotspotTTL,     \* ticks a counter lives after it was last put off
    MaxReports,     \* bound on reports of the place
    MaxHotspotTime, \* bound on ticks
    Never           \* a counter without an expiry

ASSUME HotspotAssumption ==
    /\ HotspotThreshold \in Nat \ {0}
    /\ HotspotTTL \in Nat \ {0}
    /\ MaxReports \in Nat
    /\ MaxHotspotTime \in Nat
    /\ Never \notin Nat

VARIABLES
    counter,    \* its value, 0 when the key does not exist
    expires,    \* the tick at which the key goes
    hotspotTime,
    report,     \* reports in the order counted: when, the count, how far
    heldUp      \* a handler died, or a tick passed, between its two calls

hotspotVars == <<counter, expires, hotspotTime, report, heldUp>>

HotspotInit ==
    /\ counter = 0
    /\ expires = Never
    /\ hotspotTime = 0
    /\ report = <<>>
    /\ heldUp = FALSE

Renewing == {n \in DOMAIN report : report[n].stage = "counted"}

(* INCR creates the key without an expiry. *)
CountReport ==
    /\ Len(report) < MaxReports
    /\ counter' = counter + 1
    /\ report' = Append(report, [at |-> hotspotTime, count |-> counter', stage |-> "counted"])
    /\ UNCHANGED <<expires, hotspotTime, heldUp>>

(* (mutant) only the first report sets the expiry. *)
RenewFirst(n) ==
    /\ n \in Renewing
    /\ expires' = IF counter > 0 /\ report[n].count = 1
                  THEN hotspotTime + HotspotTTL ELSE expires
    /\ report' = [report EXCEPT ![n].stage = "renewed"]
    /\ UNCHANGED <<counter, hotspotTime, heldUp>>

(* EXPIRE does nothing to a key that is gone. *)
Renew(n) ==
    /\ n \in Renewing
    /\ expires' = IF counter > 0 THEN hotspotTime + HotspotTTL ELSE expires
    /\ report' = [report EXCEPT ![n].stage = "renewed"]
    /\ UNCHANGED <<counter, hotspotTime, heldUp>>

TellAdmins(n) ==
    /\ n \in DOMAIN report /\ report[n].stage = "renewed"
    /\ report' = [report EXCEPT ![n].stage =
                    IF report[n].count >= HotspotThreshold THEN "told" ELSE "quiet"]
    /\ UNCHANGED <<counter, expires, hotspotTime, heldUp>>

(* The process dies, or Redis refuses the second call. *)
HandlerDies(n) ==
    /\ n \in Renewing
    /\ heldUp' = TRUE
    /\ report' = [report EXCEPT ![n].stage = "lost"]
    /\ UNCHANGED <<counter, expires, hotspotTime>>

HotspotTick ==
    /\ hotspotTime < MaxHotspotTime
    /\ hotspotTime' = hotspotTime + 1
    /\ heldUp' = (heldUp \/ Renewing # {})
    /\ IF expires = hotspotTime'
       THEN counter' = 0 /\ expires' = Never
       ELSE UNCHANGED <<counter, expires>>
    /\ UNCHANGED report

HotspotNext ==
    \/ CountReport
    \/ HotspotTick
    \/ \E n \in 1..MaxReports : Renew(n) \/ TellAdmins(n) \/ HandlerDies(n)

HotspotSpec == HotspotInit /\ [][HotspotNext]_hotspotVars

-----------------------------------------------------------------------------

(* The reports up to the n-th made less than a window before it. *)
WithinWindow(n) == {m \in 1..n : report[n].at - report[m].at < HotspotTTL}

(* No report ends quietly when it is the third of its window, whatever the *)
(* handlers' order, unless one of them was held up between its two calls:  *)
(* the expiry is put off by every report (HotspotDetector.js:38-41).  The  *)
(* opposite can happen: reports that are each less than a window after the *)
(* one before add up for ever.                                             *)
HotspotNotMissed ==
    heldUp \/ \A n \in DOMAIN report :
        report[n].stage = "quiet" => Cardinality(WithinWindow(n)) < HotspotThreshold
=============================================================================
