---------------------------- MODULE Notifications ----------------------------
(***************************************************************************)
(* Two ways of telling people.  IncidentEventPublisher gives an event to   *)
(* all its observers at once and returns when each has ended, well or not. *)
(* NotificationService wraps the channels a user wants around each other:  *)
(* each one sends, waits, and hands on to the one it wraps.                *)
(***************************************************************************)
EXTENDS Naturals, Sequences

CONSTANTS
    Events,             \* published one after the other
    MaxSendFailures     \* bound on refused calls to the mailer and the rest

ASSUME NotificationAssumption == MaxSendFailures \in Nat

VARIABLES
    publishing, \* the event being published, and whether publish has returned
    observer,   \* observer -> how far it got with that event
    told,       \* rooms told and mails sent about it
    notice,     \* a notification: user's preferences, event, channels left
    reached,    \* channels that reached the user
    refusals

notificationVars == <<publishing, observer, told, notice, reached, refusals>>

Observers ==
    {"slaTimer", "rtNotifier", "hotspot", "auditLogger", "emailNotifier",
     "feedbackReq", "cacheInval"}

(* wireObservers. *)
Subscribed(event) ==
    CASE event = "INCIDENT_CREATED" -> {"slaTimer", "rtNotifier", "hotspot", "auditLogger"}
      [] event = "INCIDENT_ASSIGNED" -> {"rtNotifier", "emailNotifier", "auditLogger"}
      [] event = "INCIDENT_RESOLVED" -> Observers \ {"hotspot"}
      [] event = "INCIDENT_ESCALATED" -> {"rtNotifier", "emailNotifier", "auditLogger"}
      [] event = "INCIDENT_REOPENED_BY_FEEDBACK" -> {"rtNotifier", "cacheInval", "auditLogger"}
      [] event = "INCIDENT_REASSIGNED" -> {"rtNotifier", "auditLogger"}
      [] event = "STAFF_UNDER_REVIEW" -> {"rtNotifier", "emailNotifier"}
      [] event = "FEEDBACK_RECEIVED" -> {"auditLogger"}

ASSUME EventsAssumption == \A event \in Events : Subscribed(event) \subseteq Observers

(* The rooms RealTimeNotifier emits to. *)
RealTimeRooms(event) ==
    CASE event = "INCIDENT_CREATED" -> {"department"}
      [] event = "INCIDENT_ASSIGNED" -> {"staff"}
      [] event \in {"INCIDENT_RESOLVED", "INCIDENT_REOPENED_BY_FEEDBACK", "INCIDENT_REASSIGNED"}
            -> {"creator", "assignee"}
      [] OTHER -> {"admins"}

(* What an observer tells people, before the call that may fail and after. *)
TellsFirst(o, event) ==
    CASE o = "rtNotifier" -> RealTimeRooms(event)
      [] o = "feedbackReq" -> {"feedback request"}
      [] OTHER -> {}

(* Only the assigned staff's address is known, and they may have opted out. *)
TellsLast(o, event) ==
    CASE o = "emailNotifier" -> IF event = "INCIDENT_ASSIGNED" THEN {"mail to staff"} ELSE {}
      [] o = "auditLogger" -> {"audit row"}
      [] OTHER -> {}

(* Emitting does not fail, and CacheInvalidator ignores what Redis says. *)
MayFail(o, event) ==
    \/ o \in {"slaTimer", "hotspot", "auditLogger", "feedbackReq"}
    \/ o = "emailNotifier" /\ event = "INCIDENT_ASSIGNED"

EmailWorthy ==
    {"INCIDENT_ASSIGNED", "INCIDENT_RESOLVED", "INCIDENT_ESCALATED",
     "INCIDENT_REOPENED_BY_FEEDBACK", "STAFF_UNDER_REVIEW"}

NothingPublished == [event |-> "none", returned |-> TRUE]
NoNotice == [event |-> "none", critical |-> FALSE, prefs |-> {}, stack |-> <<>>, failed |-> FALSE]

NotificationInit ==
    /\ publishing = NothingPublished
    /\ observer = [o \in Observers |-> "idle"]
    /\ told = {}
    /\ notice = NoNotice
    /\ reached = {}
    /\ refusals = 0

MayRefuse(failed) ==
    /\ failed => refusals < MaxSendFailures
    /\ refusals' = IF failed THEN refusals + 1 ELSE refusals

-----------------------------------------------------------------------------
(* The publisher. *)

(* handle() of each runs up to its first call. *)
Publish(event) ==
    /\ publishing.returned
    /\ publishing' = [event |-> event, returned |-> FALSE]
    /\ observer' = [o \in Observers |-> IF o \in Subscribed(event) THEN "handling" ELSE "idle"]
    /\ told' = UNION {TellsFirst(o, event) : o \in Subscribed(event)}
    /\ UNCHANGED <<notice, reached, refusals>>

ObserverEnds(o, failed) ==
    /\ observer[o] = "handling"
    /\ failed => MayFail(o, publishing.event)
    /\ MayRefuse(failed)
    /\ observer' = [observer EXCEPT ![o] = IF failed THEN "failed" ELSE "done"]
    /\ told' = IF failed THEN told ELSE told \cup TellsLast(o, publishing.event)
    /\ UNCHANGED <<publishing, notice, reached>>

PublishReturns ==
    /\ ~publishing.returned
    /\ publishing' = [publishing EXCEPT !.returned = TRUE]
    /\ UNCHANGED <<observer, told, notice, reached, refusals>>

(* (mutant) Promise.all. *)
SettlesAtFirstFailure ==
    /\ \/ \E o \in Observers : observer[o] = "failed"
       \/ \A o \in Observers : observer[o] # "handling"
    /\ PublishReturns

(* Promise.allSettled. *)
AllSettled ==
    /\ \A o \in Observers : observer[o] # "handling"
    /\ PublishReturns

-----------------------------------------------------------------------------
(* The decorators. *)

Wants(prefs, critical, channel) ==
    CASE channel = "sms" -> critical \/ "sms" \in prefs
      [] OTHER -> channel \in prefs

(* A decorator goes around what was built if the user is to have it. *)
Around(inner, channel, prefs, critical) ==
    IF Wants(prefs, critical, channel) THEN <<channel>> \o inner ELSE inner

(* (mutant) real time outermost, then SMS. *)
BuildNotifierReversed(prefs, critical) ==
    LET sms == Around(<<>>, "sms", prefs, critical)
        email == Around(sms, "email", prefs, critical)
    IN  Around(email, "realtime", prefs, critical)

(* From the innermost: the one wrapped last sends first. *)
BuildNotifier(prefs, critical) ==
    LET realtime == Around(<<>>, "realtime", prefs, critical)
        email == Around(realtime, "email", prefs, critical)
    IN  Around(email, "sms", prefs, critical)

Notify(event, prefs, critical) ==
    /\ notice.stack = <<>>
    /\ notice' = [event |-> event, critical |-> critical, prefs |-> prefs,
                  stack |-> BuildNotifier(prefs, critical), failed |-> FALSE]
    /\ reached' = {}
    /\ UNCHANGED <<publishing, observer, told, refusals>>

Worthy(channel) ==
    CASE channel = "sms" -> notice.critical
      [] channel = "email" -> notice.event \in EmailWorthy
      [] OTHER -> TRUE

(* The outermost channel sends, if the event is worth it, and delegates.   *)
(* An error ends the chain: the ones it wraps do not send.                 *)
Send(channel, failed) ==
    /\ notice.stack # <<>> /\ Head(notice.stack) = channel
    /\ failed => Worthy(channel)
    /\ MayRefuse(failed)
    /\ notice' = [notice EXCEPT !.failed = failed, !.stack = IF failed THEN <<>> ELSE Tail(@)]
    /\ reached' = IF Worthy(channel) /\ ~failed THEN reached \cup {channel} ELSE reached
    /\ UNCHANGED <<publishing, observer, told>>

SendSMS(failed) == Send("sms", failed)
SendEmail(failed) == Send("email", failed)

(* An emit does not fail. *)
SendRealTime == Send("realtime", FALSE)

NotificationNext ==
    \/ \E event \in Events : Publish(event)
    \/ \E o \in Observers, failed \in BOOLEAN : ObserverEnds(o, failed)
    \/ AllSettled
    \/ \E event \in Events, prefs \in SUBSET {"sms", "email", "realtime"}, critical \in BOOLEAN :
        Notify(event, prefs, critical)
    \/ \E failed \in BOOLEAN : SendSMS(failed) \/ SendEmail(failed)
    \/ SendRealTime

NotificationSpec == NotificationInit /\ [][NotificationNext]_notificationVars

-----------------------------------------------------------------------------

(* When publish returns, every observer of the event has ended, and what   *)
(* an observer that did not fail tells people has been told, whichever of  *)
(* the others failed: IncidentEventPublisher.js:47.                        *)
ObserversAreIndependent ==
    publishing.returned /\ publishing.event # "none" =>
        \A o \in Subscribed(publishing.event) :
            /\ observer[o] \in {"done", "failed"}
            /\ TellsFirst(o, publishing.event) \subseteq told
            /\ observer[o] = "done" => TellsLast(o, publishing.event) \subseteq told

(* A user whom a channel was to reach and did not reach was lost by a      *)
(* channel further out: a failing SMS silences mail and real time, a       *)
(* failing mail silences real time, and never the other way round          *)
(* (NotificationService.js:50-70).                                         *)
SilenceIsExplained ==
    notice.stack = <<>> /\ notice.event # "none" =>
        LET wanted == {channel \in {"sms", "email", "realtime"} :
                        Wants(notice.prefs, notice.critical, channel) /\ Worthy(channel)}
        IN  /\ ~notice.failed => reached = wanted
            /\ "email" \in reached /\ "sms" \in wanted => "sms" \in reached
            /\ "realtime" \in reached => reached = wanted
=============================================================================
