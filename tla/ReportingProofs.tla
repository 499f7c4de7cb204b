--------------------------- MODULE ReportingProofs --------------------------
(***************************************************************************)
(* What is kept and what is told of what happened: the daily summaries,     *)
(* the observers of an event, the channels of a notification, commands      *)
(* and their audit, hotspots; for any departments, days and events.         *)
(***************************************************************************)
EXTENDS DailySummary, Notifications, Commands, Hotspots, FiniteSetTheorems, TLAPS

-----------------------------------------------------------------------------
\* Daily summaries.

TaskType == [stage : {"none", "due", "asking"}, day : Nat, listed : Nat, read : Nat]

(* A list read on a day that is over is complete for good. *)
Complete(d, day, listed, read) ==
    /\ d \in Divisions /\ day \in Days /\ listed \in Nat
    /\ day <= read /\ read <= Today
    /\ listed = happened[<<d, day>>] \/ read = day

RowOK(date, row) ==
    /\ row.totalNew = row.text.listed
    /\ date = RowDate(row.text.day)
    /\ row.text.read \in Nat
    /\ Complete(row.text.department, row.text.day, row.text.listed, row.text.read)

TaskOK(d, t) ==
    /\ t.stage # "none" => t.day \in Days /\ t.day <= Today
    /\ t.stage = "asking" => Complete(d, t.day, t.listed, t.read)

SummaryInv ==
    /\ zone \in {0, 1} /\ hour \in Days \X {"night", "day"}
    /\ happened \in [Divisions \X Days -> Nat]
    /\ repeating \in [Divisions -> {NoJob} \cup Days]
    /\ \A d \in Divisions : repeating[d] # NoJob => repeating[d] <= Today
    /\ task \in [Divisions -> TaskType]
    /\ \A d \in Divisions : TaskOK(d, task[d])
    /\ DOMAIN summary = 0..MaxDays
    /\ \A date \in 0..MaxDays : summary[date] # NoSummary => RowOK(date, summary[date])

\* Time passes, and incidents happen today only.
Onwards ==
    /\ zone' = zone /\ Today' \in Days /\ Today <= Today'
    /\ \A k \in Divisions \X Days : k[2] # Today => happened'[k] = happened[k]

LEMMA CompleteStays ==
    ASSUME SummaryInv, Onwards, NEW d, NEW day, NEW listed, NEW read \in Nat,
           Complete(d, day, listed, read)
    PROVE  Complete(d, day, listed, read)'
<1>1. day \in Nat /\ Today \in Nat /\ Today' \in Nat /\ Today <= Today'
  BY DEF Complete, Days, SummaryInv, Onwards, Today
<1>2. CASE read = day
  BY <1>1, <1>2 DEF Complete
<1>3. CASE read # day
  <2>1. day # Today
    BY <1>1, <1>3 DEF Complete
  <2> QED
    BY <1>1, <1>3, <2>1 DEF Complete, Onwards
<1> QED
  BY <1>2, <1>3

LEMMA RowStays ==
    ASSUME SummaryInv, Onwards, NEW date, NEW row, RowOK(date, row) PROVE RowOK(date, row)'
BY CompleteStays DEF RowOK, RowDate, Onwards

LEMMA TaskStays ==
    ASSUME SummaryInv, Onwards, NEW d, NEW t \in TaskType, TaskOK(d, t) PROVE TaskOK(d, t)'
<1>1. Today \in Nat /\ Today' \in Nat /\ Today <= Today' /\ Days \subseteq Nat
  BY DEF Days, SummaryInv, Onwards, Today
<1>2. t.read \in Nat
  BY DEF TaskType
<1>3. t.stage = "asking" => Complete(d, t.day, t.listed, t.read)'
  BY <1>2, CompleteStays DEF TaskOK
<1>4. t.stage # "none" => t.day \in Days /\ t.day <= Today'
  <2> SUFFICES ASSUME t.stage # "none" PROVE t.day \in Days /\ t.day <= Today'
    OBVIOUS
  <2>1. t.day \in Days /\ t.day \in Nat /\ t.day <= Today
    BY <1>1 DEF TaskOK
  <2> QED
    BY <1>1, <2>1
<1> QED
  BY <1>3, <1>4 DEF TaskOK

LEMMA NoTaskIs ==
    NoTask \in TaskType /\ NoTask.stage = "none" /\ \A d : TaskOK(d, NoTask)
BY DEF NoTask, TaskType, TaskOK

LEMMA SummaryInitInv == SummaryInit => SummaryInv
BY SummaryAssumption, NoTaskIs DEF SummaryInit, SummaryInv, Today, Days

\* Tasks and registrations that are still right, over rows that are.
LEMMA SummaryKeeps ==
    ASSUME SummaryInv, Onwards, hour' \in Days \X {"night", "day"},
           happened' \in [Divisions \X Days -> Nat],
           repeating' \in [Divisions -> {NoJob} \cup Days],
           \A d \in Divisions : repeating'[d] \in {NoJob, repeating[d], Today},
           task' \in [Divisions -> TaskType],
           \A d \in Divisions : task'[d] = task[d] \/ TaskOK(d, task[d])',
           DOMAIN summary' = 0..MaxDays,
           \A date \in 0..MaxDays : summary'[date] # NoSummary =>
                summary'[date] = summary[date] \/ RowOK(date, summary[date])'
    PROVE  SummaryInv'
<1>1. Today \in Nat /\ Today' \in Nat /\ Today <= Today' /\ Days \subseteq Nat
  BY DEF Days, SummaryInv, Onwards, Today
<1>2. ASSUME NEW d \in Divisions, task'[d] = task[d] PROVE TaskOK(d, task[d])'
  <2>1. task[d] \in TaskType /\ TaskOK(d, task[d])
    BY DEF SummaryInv
  <2>2. PICK t \in TaskType : t = task[d] /\ TaskOK(d, t)
    BY <2>1, Zenon
  <2>3. TaskOK(d, t)'
    BY <2>2, TaskStays
  <2> QED
    BY <1>2, <2>2, <2>3 DEF TaskOK
<1>3. ASSUME NEW date \in 0..MaxDays, summary'[date] # NoSummary, summary'[date] = summary[date]
      PROVE  RowOK(date, summary[date])'
  <2>1. RowOK(date, summary[date])
    BY <1>3 DEF SummaryInv
  <2>2. PICK row : row = summary[date] /\ RowOK(date, row)
    BY <2>1, Zenon
  <2>3. RowOK(date, row)'
    BY <2>2, RowStays
  <2> QED
    BY <1>3, <2>2, <2>3 DEF RowOK
<1>4. \A d \in Divisions : repeating'[d] # NoJob => repeating'[d] <= Today'
  <2> SUFFICES ASSUME NEW d \in Divisions, repeating'[d] # NoJob PROVE repeating'[d] <= Today'
    OBVIOUS
  <2>1. CASE repeating'[d] = Today
    BY <1>1, <2>1
  <2>2. CASE repeating'[d] = repeating[d] /\ repeating[d] # NoJob
    <3>1. repeating[d] \in Nat /\ repeating[d] <= Today
      BY <1>1, <2>2 DEF SummaryInv
    <3> QED
      BY <1>1, <2>2, <3>1
  <2> QED
    BY <2>1, <2>2
<1>5. zone' \in {0, 1}
  BY DEF SummaryInv, Onwards
<1> QED
  BY <1>2, <1>3, <1>4, <1>5 DEF SummaryInv

\* The same day, with rows and tasks of which one department's may change.
LEMMA SameDay ==
    ASSUME SummaryInv, UNCHANGED <<hour, zone, happened>>
    PROVE  /\ Onwards /\ hour' \in Days \X {"night", "day"}
           /\ happened' \in [Divisions \X Days -> Nat] /\ Today' = Today
BY DEF SummaryInv, Onwards, Today, Days

LEMMA StepOccur ==
    ASSUME SummaryInv, NEW d \in Divisions, Occur(d) PROVE SummaryInv'
<1>1. /\ happened' = [happened EXCEPT ![<<d, Today>>] = @ + 1]
      /\ UNCHANGED <<hour, zone, repeating, task, summary>>
  BY DEF Occur
<1>2. Today \in Days /\ Today' = Today
  BY <1>1 DEF SummaryInv, Today
<1>3. Today <= Today'
  BY <1>2 DEF Days
<1>4. /\ happened' \in [Divisions \X Days -> Nat]
      /\ \A k \in Divisions \X Days : k # <<d, Today>> => happened'[k] = happened[k]
  BY <1>1, <1>2 DEF SummaryInv
<1>5. Onwards
  BY <1>1, <1>2, <1>3, <1>4 DEF Onwards
<1> QED
  BY <1>1, <1>4, <1>5, SummaryKeeps DEF SummaryInv

LEMMA StepScheduleDailySummary ==
    ASSUME SummaryInv, NEW d \in Divisions, ScheduleDailySummary(d) PROVE SummaryInv'
<1>1. /\ repeating' = [repeating EXCEPT ![d] = Today] \/ UNCHANGED repeating
      /\ UNCHANGED <<hour, zone, happened, task, summary>>
  BY DEF ScheduleDailySummary
<1>2. /\ repeating' \in [Divisions -> {NoJob} \cup Days]
      /\ \A e \in Divisions : repeating'[e] \in {NoJob, repeating[e], Today}
  BY <1>1 DEF SummaryInv, Today
<1> QED
  BY <1>1, <1>2, SameDay, SummaryKeeps DEF SummaryInv

LEMMA StepNightAndDay ==
    ASSUME SummaryInv, NightAndDay PROVE SummaryInv'
<1>1. /\ hour' = IF hour[2] = "night" THEN <<Today, "day">> ELSE <<Today + 1, "night">>
      /\ hour'[1] \in Days
      /\ \A d \in Divisions :
            task'[d] = IF hour[2] = "night" /\ repeating[d] # NoJob /\ task[d].stage = "none"
                       THEN [NoTask EXCEPT !.stage = "due", !.day = repeating[d]]
                       ELSE task[d]
      /\ task' = [d \in Divisions |-> task'[d]]
      /\ UNCHANGED <<zone, happened, repeating, summary>>
  BY DEF NightAndDay
<1>2. Today \in Nat /\ Today' \in Nat /\ Today <= Today' /\ Today' \in Days /\ Days \subseteq Nat
  <2>1. Today \in Days /\ hour[1] = Today /\ Days \subseteq Nat
    BY DEF SummaryInv, Today, Days
  <2>2. Today' = Today \/ Today' = Today + 1
    BY <1>1 DEF Today
  <2>3. Today' \in Days
    BY <1>1 DEF Today
  <2>4. Today \in Nat /\ Today <= Today + 1 /\ Today <= Today
    BY <2>1
  <2> QED
    BY <2>1, <2>2, <2>3, <2>4
<1>3. hour' \in Days \X {"night", "day"}
  BY <1>1, <1>2 DEF Today
<1>4. Onwards
  BY <1>1, <1>2 DEF Onwards
<1>5. ASSUME NEW d \in Divisions
      PROVE  task'[d] \in TaskType /\ (task'[d] = task[d] \/ TaskOK(d, task[d])')
  <2>1. CASE task'[d] = task[d]
    BY <2>1 DEF SummaryInv
  <2>2. CASE task'[d] = [NoTask EXCEPT !.stage = "due", !.day = repeating[d]] /\ repeating[d] # NoJob
    <3>1. repeating[d] \in Days /\ repeating[d] \in Nat /\ repeating[d] <= Today
      BY <1>2, <2>2 DEF SummaryInv
    <3>2. repeating[d] <= Today'
      BY <1>2, <3>1
    <3>3. task'[d] \in TaskType /\ task'[d].stage = "due" /\ task'[d].day = repeating[d]
      BY <2>2, <3>1, NoTaskIs DEF TaskType
    <3> QED
      BY <3>1, <3>2, <3>3 DEF TaskOK
  <2> QED
    BY <1>1, <2>1, <2>2
<1>6. task' \in [Divisions -> TaskType]
  BY <1>1, <1>5
<1> QED
  BY <1>1, <1>3, <1>4, <1>5, <1>6, SummaryKeeps DEF SummaryInv

\* The task of one department is replaced, and nothing else.
LEMMA TaskReplaced ==
    ASSUME SummaryInv, NEW d \in Divisions, NEW t \in TaskType, TaskOK(d, t),
           task' = [task EXCEPT ![d] = t], UNCHANGED <<hour, zone, happened, repeating>>,
           DOMAIN summary' = 0..MaxDays,
           \A date \in 0..MaxDays : summary'[date] # NoSummary =>
                summary'[date] = summary[date] \/ RowOK(date, summary[date])'
    PROVE  SummaryInv'
<1>1. /\ Onwards /\ hour' \in Days \X {"night", "day"}
      /\ happened' \in [Divisions \X Days -> Nat] /\ Today' = Today
  BY SameDay
<1>2. TaskOK(d, t)'
  BY <1>1, TaskStays
<1>3. /\ task' \in [Divisions -> TaskType] /\ task'[d] = t
      /\ \A e \in Divisions \ {d} : task'[e] = task[e]
  BY DEF SummaryInv
<1>4. TaskOK(d, task[d])'
  BY <1>2, <1>3 DEF TaskOK
<1>5. /\ repeating' \in [Divisions -> {NoJob} \cup Days]
      /\ \A e \in Divisions : repeating'[e] \in {NoJob, repeating[e], Today}
  BY DEF SummaryInv
<1> QED
  BY <1>1, <1>3, <1>4, <1>5, SummaryKeeps

LEMMA StepEnded ==
    ASSUME SummaryInv, NEW d \in Divisions, Ended(d),
           UNCHANGED <<hour, zone, happened, repeating, summary>>
    PROVE  SummaryInv'
BY NoTaskIs, TaskReplaced DEF Ended, SummaryInv

LEMMA StepReadIncidents ==
    ASSUME SummaryInv, NEW d \in Divisions, ReadIncidents(d) PROVE SummaryInv'
<1> DEFINE listed == happened[<<d, task[d].day>>]
           asking == [task[d] EXCEPT !.stage = "asking", !.listed = listed, !.read = Today]
<1>1. /\ task[d].stage = "due"
      /\ Ended(d) \/ task' = [task EXCEPT ![d] = asking]
      /\ UNCHANGED <<hour, zone, happened, repeating, summary>>
  BY DEF ReadIncidents
<1>2. /\ task[d] \in TaskType /\ task[d].day \in Days /\ task[d].day <= Today
      /\ Today \in Nat
  BY <1>1 DEF SummaryInv, TaskOK, Days, Today
<1>3. listed \in Nat
  BY <1>2 DEF SummaryInv
<1> HIDE DEF listed
<1>4. /\ asking \in TaskType /\ asking.stage = "asking" /\ asking.day = task[d].day
      /\ asking.listed = listed /\ asking.read = Today
  BY <1>2, <1>3 DEF TaskType
<1>5. listed = happened[<<d, task[d].day>>]
  BY DEF listed
<1> HIDE DEF asking
<1>6. TaskOK(d, asking)
  BY <1>2, <1>3, <1>4, <1>5 DEF TaskOK, Complete
<1>7. CASE task' = [task EXCEPT ![d] = asking]
  BY <1>1, <1>4, <1>6, <1>7, TaskReplaced DEF SummaryInv
<1> QED
  BY <1>1, <1>7, StepEnded

LEMMA StepTaskStalls ==
    ASSUME SummaryInv, NEW d \in Divisions, TaskStalls(d) PROVE SummaryInv'
<1> DEFINE due == [task[d] EXCEPT !.stage = "due"]
<1>1. /\ task[d].stage = "asking" /\ task' = [task EXCEPT ![d] = due]
      /\ UNCHANGED <<hour, zone, happened, repeating, summary>>
  BY DEF TaskStalls
<1>2. task[d] \in TaskType /\ TaskOK(d, task[d])
  BY DEF SummaryInv
<1>3. due \in TaskType /\ due.stage = "due" /\ due.day = task[d].day
  BY <1>2 DEF TaskType
<1> HIDE DEF due
<1>4. TaskOK(d, due)
  BY <1>1, <1>2, <1>3 DEF TaskOK
<1> QED
  BY <1>1, <1>3, <1>4, TaskReplaced DEF SummaryInv

LEMMA StepStoreSummary ==
    ASSUME SummaryInv, NEW d \in Divisions, StoreSummary(d) PROVE SummaryInv'
<1> DEFINE day == task[d].day
           row == Written(d)
<1>1. /\ task[d].stage = "asking"
      /\ summary' = [summary EXCEPT ![RowDate(day)] = row]
      /\ task' = [task EXCEPT ![d] = NoTask]
      /\ UNCHANGED <<hour, zone, happened, repeating>>
  BY DEF StoreSummary, Ended
<1>2. /\ task[d] \in TaskType
      /\ Complete(d, task[d].day, task[d].listed, task[d].read)
  BY <1>1 DEF SummaryInv, TaskOK
<1>3. /\ row.totalNew = row.text.listed /\ row.text.day = task[d].day /\ row.text.department = d
      /\ row.text.listed = task[d].listed /\ row.text.read = task[d].read
  BY DEF Written
<1>4. RowOK(RowDate(day), row)
  BY <1>2, <1>3 DEF RowOK, TaskType
<1>5. /\ Onwards /\ Today' = Today
  BY <1>1, SameDay
<1> HIDE DEF row, day
<1>6. ASSUME NEW date \in 0..MaxDays
      PROVE  summary'[date] = summary[date] \/ RowOK(date, summary[date])'
  <2>1. CASE date # RowDate(day)
    BY <1>1, <2>1 DEF SummaryInv
  <2>2. CASE date = RowDate(day)
    <3>1. PICK r : r = row /\ RowOK(date, r)
      BY <1>4, <2>2, Zenon
    <3>2. RowOK(date, r)'
      BY <1>5, <3>1, RowStays
    <3>3. summary'[date] = r
      BY <1>1, <2>2, <3>1 DEF SummaryInv
    <3> QED
      BY <3>2, <3>3 DEF RowOK
  <2> QED
    BY <2>1, <2>2
<1>7. DOMAIN summary' = 0..MaxDays
  BY <1>1 DEF SummaryInv
<1> QED
  BY <1>1, <1>6, <1>7, NoTaskIs, TaskReplaced

LEMMA SummaryStep == SummaryInv /\ [SummaryNext]_summaryVars => SummaryInv'
<1> SUFFICES ASSUME SummaryInv, [SummaryNext]_summaryVars PROVE SummaryInv'
  OBVIOUS
<1>1. CASE NightAndDay
  BY <1>1, StepNightAndDay
<1>2. ASSUME NEW d \in Divisions,
             Occur(d) \/ ScheduleDailySummary(d) \/ ReadIncidents(d) \/ TaskFails(d)
                 \/ TaskStalls(d) \/ StoreSummary(d)
      PROVE  SummaryInv'
  BY <1>2, StepOccur, StepScheduleDailySummary, StepReadIncidents, StepTaskStalls,
     StepStoreSummary, StepEnded DEF TaskFails
<1>3. CASE UNCHANGED summaryVars
  BY <1>3, SameDay, SummaryKeeps DEF summaryVars, SummaryInv
<1> QED
  BY <1>1, <1>2, <1>3 DEF SummaryNext

(* A row is about one department and one day, and lists all of it unless   *)
(* it was read before that day was over (ai.worker.js:59-113).             *)
THEOREM RowsAreWhole == SummarySpec => []SummariesAreWhole
<1>1. SummaryInit => SummaryInv
  BY SummaryInitInv
<1>2. SummaryInv /\ [SummaryNext]_summaryVars => SummaryInv'
  BY SummaryStep
<1>3. SummaryInv => SummariesAreWhole
  BY DEF SummaryInv, RowOK, Complete, SummariesAreWhole
<1> QED
  BY <1>1, <1>2, <1>3, PTL DEF SummarySpec

-----------------------------------------------------------------------------
\* Observers.

ObserversInv ==
    /\ publishing \in [event : Events \cup {"none"}, returned : BOOLEAN]
    /\ DOMAIN observer = Observers
    /\ publishing.event # "none" =>
        /\ publishing.returned => \A o \in Observers : observer[o] # "handling"
        /\ \A o \in Subscribed(publishing.event) :
            /\ observer[o] \in {"handling", "done", "failed"}
            /\ TellsFirst(o, publishing.event) \subseteq told
            /\ observer[o] = "done" => TellsLast(o, publishing.event) \subseteq told

LEMMA ObserversInitInv == NotificationInit => ObserversInv
BY DEF NotificationInit, NothingPublished, ObserversInv

LEMMA StepPublish ==
    ASSUME ObserversInv, NEW event \in Events, Publish(event) PROVE ObserversInv'
<1>1. /\ publishing' = [event |-> event, returned |-> FALSE]
      /\ observer' = [o \in Observers |-> IF o \in Subscribed(event) THEN "handling" ELSE "idle"]
      /\ told' = UNION {TellsFirst(o, event) : o \in Subscribed(event)}
  BY DEF Publish
<1>2. /\ publishing' \in [event : Events \cup {"none"}, returned : BOOLEAN]
      /\ publishing'.event = event /\ ~publishing'.returned
  BY <1>1
<1>3. \A o \in Subscribed(event) : observer'[o] = "handling" /\ TellsFirst(o, event) \subseteq told'
  BY <1>1, EventsAssumption
<1> QED
  BY <1>1, <1>2, <1>3 DEF ObserversInv

LEMMA StepObserverEnds ==
    ASSUME ObserversInv, NEW o \in Observers, NEW failed \in BOOLEAN, ObserverEnds(o, failed)
    PROVE  ObserversInv'
<1>1. /\ observer[o] = "handling"
      /\ observer' = [observer EXCEPT ![o] = IF failed THEN "failed" ELSE "done"]
      /\ told' = IF failed THEN told ELSE told \cup TellsLast(o, publishing.event)
      /\ publishing' = publishing
  BY DEF ObserverEnds
<1>2. /\ DOMAIN observer' = Observers /\ told \subseteq told'
      /\ \A p \in Observers \ {o} : observer'[p] = observer[p]
      /\ observer'[o] \in {"done", "failed"}
      /\ observer'[o] = "done" => TellsLast(o, publishing.event) \subseteq told'
  BY <1>1 DEF ObserversInv
<1>3. publishing.event # "none" => Subscribed(publishing.event) \subseteq Observers
  BY EventsAssumption DEF ObserversInv
<1> QED
  BY <1>1, <1>2, <1>3 DEF ObserversInv

LEMMA StepAllSettled ==
    ASSUME ObserversInv, AllSettled PROVE ObserversInv'
<1>1. /\ \A o \in Observers : observer[o] # "handling"
      /\ publishing' = [publishing EXCEPT !.returned = TRUE]
      /\ UNCHANGED <<observer, told>>
  BY DEF AllSettled, PublishReturns
<1>2. /\ publishing' \in [event : Events \cup {"none"}, returned : BOOLEAN]
      /\ publishing'.event = publishing.event
  BY <1>1 DEF ObserversInv
<1> QED
  BY <1>1, <1>2 DEF ObserversInv

LEMMA StepNotice ==
    ASSUME ObserversInv, UNCHANGED <<publishing, observer, told>> PROVE ObserversInv'
BY DEF ObserversInv

LEMMA ObserversStep == ObserversInv /\ [NotificationNext]_notificationVars => ObserversInv'
<1> SUFFICES ASSUME ObserversInv, [NotificationNext]_notificationVars PROVE ObserversInv'
  OBVIOUS
<1>1. CASE \E event \in Events : Publish(event)
  BY <1>1, StepPublish
<1>2. CASE \E o \in Observers, failed \in BOOLEAN : ObserverEnds(o, failed)
  BY <1>2, StepObserverEnds
<1>3. CASE AllSettled
  BY <1>3, StepAllSettled
<1>4. CASE \E event \in Events, prefs \in SUBSET {"sms", "email", "realtime"}, critical \in BOOLEAN :
             Notify(event, prefs, critical)
  BY <1>4, StepNotice DEF Notify
<1>5. CASE (\E failed \in BOOLEAN : SendSMS(failed) \/ SendEmail(failed)) \/ SendRealTime
  BY <1>5, StepNotice DEF SendSMS, SendEmail, SendRealTime, Send
<1>6. CASE UNCHANGED notificationVars
  BY <1>6, StepNotice DEF notificationVars
<1> QED
  BY <1>1, <1>2, <1>3, <1>4, <1>5, <1>6 DEF NotificationNext

(* When publish returns every observer has ended, and those that did not   *)
(* fail have told whom they tell, whichever of the others failed           *)
(* (IncidentEventPublisher.js:47).                                         *)
THEOREM FailuresStayLocal == NotificationSpec => []ObserversAreIndependent
<1>1. NotificationInit => ObserversInv
  BY ObserversInitInv
<1>2. ObserversInv /\ [NotificationNext]_notificationVars => ObserversInv'
  BY ObserversStep
<1>3. ObserversInv => ObserversAreIndependent
  <2> SUFFICES ASSUME ObserversInv, publishing.returned, publishing.event # "none",
                      NEW o \in Subscribed(publishing.event)
               PROVE  /\ observer[o] \in {"done", "failed"}
                      /\ TellsFirst(o, publishing.event) \subseteq told
                      /\ observer[o] = "done" => TellsLast(o, publishing.event) \subseteq told
    BY DEF ObserversAreIndependent
  <2>1. o \in Observers
    BY EventsAssumption DEF ObserversInv
  <2> QED
    BY <2>1 DEF ObserversInv
<1> QED
  BY <1>1, <1>2, <1>3, PTL DEF NotificationSpec

-----------------------------------------------------------------------------
\* The channels of one notification.

LEMMA ChainAround ==
    ASSUME NEW S, NEW s \in Seq(S), NEW x \in S
    PROVE  /\ <<x>> \o s \in Seq(S) /\ <<x>> \o s # <<>>
           /\ Head(<<x>> \o s) = x /\ Tail(<<x>> \o s) = s
<1> DEFINE t == <<x>> \o s
<1>1. t \in Seq(S) /\ Len(t) = 1 + Len(s) /\ t[1] = x
  OBVIOUS
<1>2. \A i \in 1..Len(s) : t[i + 1] = s[i]
  OBVIOUS
<1>3. Len(s) \in Nat
  OBVIOUS
<1>4. t # <<>> /\ Head(t) = x
  BY <1>1, <1>3
<1>5. Tail(t) \in Seq(S) /\ Len(Tail(t)) = Len(s) /\ \A i \in 1..Len(s) : Tail(t)[i] = s[i]
  <2> HIDE DEF t
  <2> QED
    BY <1>1, <1>2, <1>3, <1>4
<1>6. Tail(t) = s
  <2> HIDE DEF t
  <2> QED
    BY <1>5
<1> QED
  BY <1>1, <1>4, <1>6

Channels == {"sms", "email", "realtime"}

NoticeType ==
    [event : Events \cup {"none"}, critical : BOOLEAN, prefs : SUBSET Channels,
     stack : Seq(Channels), failed : BOOLEAN]

\* What is left of the chain when the outermost channels have been passed.
Rest(passed, prefs, critical) ==
    LET realtime == Around(<<>>, "realtime", prefs, critical)
        email == Around(realtime, "email", prefs, critical)
    IN  CASE passed = {} -> Around(email, "sms", prefs, critical)
          [] passed = {"sms"} -> email
          [] passed = {"sms", "email"} -> realtime
          [] OTHER -> <<>>

Wanted(n) == {channel \in Channels :
                /\ Wants(n.prefs, n.critical, channel)
                /\ CASE channel = "sms" -> n.critical
                     [] channel = "email" -> n.event \in EmailWorthy
                     [] OTHER -> TRUE}

PassedSets == {{}, {"sms"}, {"sms", "email"}, Channels}

\* The channels passed have reached whom they should; a chain that failed
\* stopped before it passed the last one.
PassedInv(passed) ==
    /\ reached = Wanted(notice) \cap passed
    /\ IF notice.failed THEN notice.stack = <<>> /\ passed # Channels
                        ELSE notice.stack = Rest(passed, notice.prefs, notice.critical)

NoticeInv == notice \in NoticeType /\ \E passed \in PassedSets : PassedInv(passed)

LEMMA AroundIs ==
    ASSUME NEW prefs, NEW critical, NEW channel \in Channels, NEW inner \in Seq(Channels)
    PROVE  /\ Around(inner, channel, prefs, critical) \in Seq(Channels)
           /\ Wants(prefs, critical, channel) =>
                /\ Around(inner, channel, prefs, critical) # <<>>
                /\ Head(Around(inner, channel, prefs, critical)) = channel
                /\ Tail(Around(inner, channel, prefs, critical)) = inner
           /\ ~Wants(prefs, critical, channel) =>
                Around(inner, channel, prefs, critical) = inner
BY ChainAround DEF Around

LEMMA NothingIsASequence == <<>> \in Seq(Channels)
OBVIOUS

\* Of the channels between two points of the chain only one is wanted.
Only(channel, passed, further, prefs, critical) ==
    /\ passed # Channels /\ passed \subseteq further /\ channel \in further \ passed
    /\ Wants(prefs, critical, channel)
    /\ \A other \in further \ (passed \cup {channel}) : ~Wants(prefs, critical, other)

\* Three links, each there or not: which comes first, and what follows it.
LEMMA RestIs ==
    ASSUME NEW prefs, NEW critical, NEW passed \in PassedSets
    PROVE  /\ Rest(passed, prefs, critical) \in Seq(Channels)
           /\ Rest(Channels, prefs, critical) = <<>>
           /\ Rest({}, prefs, critical) = BuildNotifier(prefs, critical)
           /\ Rest(passed, prefs, critical) = <<>> =>
                \A channel \in Channels \ passed : ~Wants(prefs, critical, channel)
           /\ Rest(passed, prefs, critical) # <<>> =>
                \E further \in PassedSets :
                    /\ Only(Head(Rest(passed, prefs, critical)), passed, further, prefs, critical)
                    /\ Tail(Rest(passed, prefs, critical)) = Rest(further, prefs, critical)
<1> DEFINE realtime == Around(<<>>, "realtime", prefs, critical)
           email == Around(realtime, "email", prefs, critical)
           sms == Around(email, "sms", prefs, critical)
           W(channel) == Wants(prefs, critical, channel)
<1>1. /\ Rest({}, prefs, critical) = sms
      /\ Rest({"sms"}, prefs, critical) = email
      /\ Rest({"sms", "email"}, prefs, critical) = realtime
      /\ Rest(Channels, prefs, critical) = <<>>
  <2>1. {"sms"} # {} /\ {"sms", "email"} # {} /\ {"sms", "email"} # {"sms"}
        /\ Channels # {} /\ Channels # {"sms"} /\ Channels # {"sms", "email"}
    BY DEF Channels
  <2> QED
    BY <2>1 DEF Rest
<1>2. "sms" \in Channels /\ "email" \in Channels /\ "realtime" \in Channels
  BY DEF Channels
<1>3. /\ realtime \in Seq(Channels)
      /\ W("realtime") => realtime # <<>> /\ Head(realtime) = "realtime" /\ Tail(realtime) = <<>>
      /\ ~W("realtime") => realtime = <<>>
  <2>1. PICK nothing \in Seq(Channels) : nothing = <<>>
    BY NothingIsASequence
  <2>2. realtime = Around(nothing, "realtime", prefs, critical)
    BY <2>1
  <2> HIDE DEF realtime
  <2>3. /\ realtime \in Seq(Channels)
        /\ W("realtime") => realtime # <<>> /\ Head(realtime) = "realtime" /\ Tail(realtime) = nothing
        /\ ~W("realtime") => realtime = nothing
    BY <1>2, <2>2, AroundIs
  <2> QED
    BY <2>1, <2>3
<1>4. /\ email \in Seq(Channels)
      /\ W("email") => email # <<>> /\ Head(email) = "email" /\ Tail(email) = realtime
      /\ ~W("email") => email = realtime
  BY <1>2, <1>3, AroundIs
<1>5. /\ sms \in Seq(Channels)
      /\ W("sms") => sms # <<>> /\ Head(sms) = "sms" /\ Tail(sms) = email
      /\ ~W("sms") => sms = email
  BY <1>2, <1>4, AroundIs
<1>6. BuildNotifier(prefs, critical) = sms
  BY DEF BuildNotifier
<1>7. PassedSets = {{}, {"sms"}, {"sms", "email"}, Channels}
  BY DEF PassedSets
<1> HIDE DEF realtime, email, sms
<1>8. CASE passed = {}
  <2>1. CASE W("sms")
    <3>1. Only("sms", {}, {"sms"}, prefs, critical)
      BY <2>1 DEF Only, Channels
    <3> QED
      BY <1>1, <1>5, <1>6, <1>7, <1>8, <2>1, <3>1
  <2>2. CASE ~W("sms") /\ W("email")
    <3>1. Only("email", {}, {"sms", "email"}, prefs, critical)
      BY <2>2 DEF Only, Channels
    <3> QED
      BY <1>1, <1>4, <1>5, <1>6, <1>7, <1>8, <2>2, <3>1
  <2>3. CASE ~W("sms") /\ ~W("email") /\ W("realtime")
    <3>1. Only("realtime", {}, Channels, prefs, critical)
      BY <2>3 DEF Only, Channels
    <3> QED
      BY <1>1, <1>3, <1>4, <1>5, <1>6, <1>7, <1>8, <2>3, <3>1
  <2>4. CASE ~W("sms") /\ ~W("email") /\ ~W("realtime")
    BY <1>1, <1>3, <1>4, <1>5, <1>6, <1>8, <2>4 DEF Channels
  <2> QED
    BY <2>1, <2>2, <2>3, <2>4
<1>9. CASE passed = {"sms"}
  <2>1. CASE W("email")
    <3>1. Only("email", {"sms"}, {"sms", "email"}, prefs, critical)
      BY <2>1 DEF Only, Channels
    <3> QED
      BY <1>1, <1>4, <1>5, <1>6, <1>7, <1>9, <2>1, <3>1
  <2>2. CASE ~W("email") /\ W("realtime")
    <3>1. Only("realtime", {"sms"}, Channels, prefs, critical)
      BY <2>2 DEF Only, Channels
    <3> QED
      BY <1>1, <1>3, <1>4, <1>5, <1>6, <1>7, <1>9, <2>2, <3>1
  <2>3. CASE ~W("email") /\ ~W("realtime")
    BY <1>1, <1>3, <1>4, <1>5, <1>6, <1>9, <2>3 DEF Channels
  <2> QED
    BY <2>1, <2>2, <2>3
<1>10. CASE passed = {"sms", "email"}
  <2>1. CASE W("realtime")
    <3>1. Only("realtime", {"sms", "email"}, Channels, prefs, critical)
      BY <2>1 DEF Only, Channels
    <3> QED
      BY <1>1, <1>3, <1>4, <1>5, <1>6, <1>7, <1>10, <2>1, <3>1
  <2>2. CASE ~W("realtime")
    BY <1>1, <1>3, <1>4, <1>5, <1>6, <1>10, <2>2 DEF Channels
  <2> QED
    BY <2>1, <2>2
<1>11. CASE passed = Channels
  BY <1>1, <1>6, <1>11, NothingIsASequence
<1> QED
  BY <1>7, <1>8, <1>9, <1>10, <1>11

LEMMA NoticeInitInv == NotificationInit => NoticeInv
<1> SUFFICES ASSUME NotificationInit PROVE NoticeInv
  OBVIOUS
<1>1. notice = NoNotice /\ reached = {}
  BY DEF NotificationInit
<1>2. notice \in NoticeType /\ notice.stack = <<>> /\ notice.prefs = {}
      /\ notice.critical = FALSE /\ notice.failed = FALSE
  BY <1>1, NothingIsASequence DEF NoNotice, NoticeType
<1>3. Wanted(notice) = {}
  BY <1>2 DEF Wanted, Wants, Channels
<1>4. Channels \in PassedSets
  BY DEF PassedSets
<1>5. PassedInv(Channels)
  BY <1>1, <1>2, <1>3, <1>4, RestIs DEF PassedInv
<1> QED
  BY <1>2, <1>4, <1>5 DEF NoticeInv

LEMMA StepNotify ==
    ASSUME NoticeInv, NEW event \in Events, NEW prefs \in SUBSET Channels,
           NEW critical \in BOOLEAN, Notify(event, prefs, critical)
    PROVE  NoticeInv'
<1>1. {} \in PassedSets /\ {} # Channels
  BY DEF PassedSets, Channels
<1>2. /\ Rest({}, prefs, critical) \in Seq(Channels)
      /\ Rest({}, prefs, critical) = BuildNotifier(prefs, critical)
  BY <1>1, RestIs
<1>3. PICK n \in NoticeType : n = [event |-> event, critical |-> critical, prefs |-> prefs,
                                  stack |-> BuildNotifier(prefs, critical), failed |-> FALSE]
  BY <1>2 DEF NoticeType
<1>4. notice' = n /\ n.stack = BuildNotifier(prefs, critical) /\ n.failed = FALSE
      /\ n.prefs = prefs /\ n.critical = critical
  BY <1>3 DEF Notify
<1>5. reached' = {}
  BY DEF Notify
<1>6. PassedInv({})'
  BY <1>2, <1>4, <1>5 DEF PassedInv
<1> QED
  BY <1>1, <1>4, <1>6 DEF NoticeInv

\* A notice whose chain has moved on.
LEMMA NoticeBecomes ==
    ASSUME NoticeInv, NEW failed \in BOOLEAN, NEW stack \in Seq(Channels),
           notice' = [notice EXCEPT !.failed = failed, !.stack = stack]
    PROVE  /\ notice' \in NoticeType /\ notice'.stack = stack /\ notice'.failed = failed
           /\ notice'.prefs = notice.prefs /\ notice'.critical = notice.critical
           /\ notice'.event = notice.event /\ Wanted(notice') = Wanted(notice)
<1>1. notice \in NoticeType
  BY DEF NoticeInv
<1>2. /\ notice' \in NoticeType /\ notice'.stack = stack /\ notice'.failed = failed
      /\ notice'.prefs = notice.prefs /\ notice'.critical = notice.critical
      /\ notice'.event = notice.event
  BY <1>1 DEF NoticeType
<1> QED
  BY <1>2 DEF Wanted

LEMMA StepSend ==
    ASSUME NoticeInv, NEW channel \in Channels, NEW failed \in BOOLEAN, Send(channel, failed)
    PROVE  NoticeInv'
<1>1. PICK passed \in PassedSets : PassedInv(passed)
  BY DEF NoticeInv
<1>2. notice.stack # <<>> /\ Head(notice.stack) = channel /\ (failed => Worthy(channel))
  BY DEF Send
<1>3. ~notice.failed /\ notice.stack = Rest(passed, notice.prefs, notice.critical)
  BY <1>1, <1>2 DEF PassedInv
<1>4. PICK further \in PassedSets :
        /\ Only(channel, passed, further, notice.prefs, notice.critical)
        /\ Tail(notice.stack) = Rest(further, notice.prefs, notice.critical)
  <2> DEFINE rest == Rest(passed, notice.prefs, notice.critical)
  <2>1. rest # <<>> => \E further \in PassedSets :
          /\ Only(Head(rest), passed, further, notice.prefs, notice.critical)
          /\ Tail(rest) = Rest(further, notice.prefs, notice.critical)
    BY RestIs
  <2> HIDE DEF rest
  <2>2. notice.stack = rest
    BY <1>3 DEF rest
  <2> QED
    BY <1>2, <2>1, <2>2
<1>5. Rest(further, notice.prefs, notice.critical) \in Seq(Channels)
  BY RestIs
<1>6. Worthy(channel) <=> channel \in Wanted(notice)
  BY <1>4 DEF Worthy, Wanted, Only
<1>7. \A other \in further \ (passed \cup {channel}) : other \notin Wanted(notice)
  BY <1>4 DEF Only, Wanted
<1>8. reached = Wanted(notice) \cap passed
  BY <1>1 DEF PassedInv
<1>9. CASE failed
  <2>1. notice' = [notice EXCEPT !.failed = TRUE, !.stack = <<>>] /\ reached' = reached
    BY <1>9 DEF Send
  <2>2. /\ notice' \in NoticeType /\ notice'.stack = <<>> /\ notice'.failed = TRUE
        /\ Wanted(notice') = Wanted(notice)
    BY <2>1, NothingIsASequence, NoticeBecomes
  <2>3. passed # Channels
    BY <1>4 DEF Only
  <2>4. PassedInv(passed)'
    BY <1>8, <2>1, <2>2, <2>3 DEF PassedInv
  <2> QED
    BY <2>2, <2>4 DEF NoticeInv
<1>10. CASE ~failed
  <2>1. notice' = [notice EXCEPT !.failed = FALSE, !.stack = Tail(notice.stack)]
    BY <1>10 DEF Send
  <2>2. /\ notice' \in NoticeType /\ notice'.stack = Tail(notice.stack)
        /\ notice'.failed = FALSE /\ Wanted(notice') = Wanted(notice)
        /\ notice'.prefs = notice.prefs /\ notice'.critical = notice.critical
    BY <2>1, <1>4, <1>5, NoticeBecomes
  <2>3. reached' = IF channel \in Wanted(notice) THEN reached \cup {channel} ELSE reached
    BY <1>6, <1>10 DEF Send
  <2>4. reached' = Wanted(notice) \cap further
    <3>1. passed \subseteq further /\ channel \in further
      BY <1>4 DEF Only
    <3> QED
      BY <1>7, <1>8, <2>3, <3>1
  <2>5. PassedInv(further)'
    BY <1>4, <2>2, <2>4 DEF PassedInv
  <2> QED
    BY <2>2, <2>5 DEF NoticeInv
<1> QED
  BY <1>9, <1>10

LEMMA NoticeStays ==
    ASSUME NoticeInv, UNCHANGED <<notice, reached>>
    PROVE  NoticeInv'
BY DEF NoticeInv, PassedInv

LEMMA NoticeStep == NoticeInv /\ [NotificationNext]_notificationVars => NoticeInv'
<1> SUFFICES ASSUME NoticeInv, [NotificationNext]_notificationVars PROVE NoticeInv'
  OBVIOUS
<1>1. CASE UNCHANGED notificationVars
  BY <1>1, NoticeStays DEF notificationVars
<1>2. ASSUME NEW event \in Events, Publish(event) PROVE NoticeInv'
  BY <1>2, NoticeStays DEF Publish
<1>3. ASSUME NEW o \in Observers, NEW failed \in BOOLEAN, ObserverEnds(o, failed) PROVE NoticeInv'
  BY <1>3, NoticeStays DEF ObserverEnds
<1>4. CASE AllSettled
  BY <1>4, NoticeStays DEF AllSettled, PublishReturns
<1>5. ASSUME NEW event \in Events, NEW prefs \in SUBSET Channels, NEW critical \in BOOLEAN,
             Notify(event, prefs, critical)
      PROVE  NoticeInv'
  BY <1>5, StepNotify
<1>6. ASSUME NEW failed \in BOOLEAN, SendSMS(failed) \/ SendEmail(failed) PROVE NoticeInv'
  BY <1>6, StepSend DEF SendSMS, SendEmail, Channels
<1>7. CASE SendRealTime
  BY <1>7, StepSend DEF SendRealTime, Channels
<1> QED
  BY <1>1, <1>2, <1>3, <1>4, <1>5, <1>6, <1>7 DEF NotificationNext, Channels

LEMMA NoticeInvExplains == NoticeInv => SilenceIsExplained
<1> SUFFICES ASSUME NoticeInv, notice.stack = <<>>
             PROVE  /\ ~notice.failed => reached = Wanted(notice)
                    /\ "email" \in reached /\ "sms" \in Wanted(notice) => "sms" \in reached
                    /\ "realtime" \in reached => reached = Wanted(notice)
  BY DEF SilenceIsExplained, Wanted, Channels, Worthy
<1>1. PICK passed \in PassedSets : PassedInv(passed)
  BY DEF NoticeInv
<1>2. reached = Wanted(notice) \cap passed /\ Wanted(notice) \subseteq Channels
  BY <1>1 DEF PassedInv, Wanted
<1>3. ASSUME ~notice.failed PROVE reached = Wanted(notice)
  <2>1. Rest(passed, notice.prefs, notice.critical) = <<>>
    BY <1>1, <1>3 DEF PassedInv
  <2>2. \A channel \in Channels \ passed : channel \notin Wanted(notice)
    BY <2>1, RestIs DEF Wanted
  <2> QED
    BY <1>2, <2>2
<1>4. "email" \in passed => "sms" \in passed
  BY DEF PassedSets, Channels
<1>5. "realtime" \in passed => passed = Channels
  BY DEF PassedSets, Channels
<1> QED
  BY <1>2, <1>3, <1>4, <1>5

\* A channel that was to reach the user and did not was silenced by the failure
\* of one further out, never of one it is wrapped around
\* (NotificationService.js:50-70).
THEOREM SilenceHasACause == NotificationSpec => []SilenceIsExplained
<1>1. NotificationSpec => []NoticeInv
  BY NoticeInitInv, NoticeStep, PTL DEF NotificationSpec
<1> QED
  BY <1>1, NoticeInvExplains, PTL

-----------------------------------------------------------------------------
\* Commands and their audit.

Person == Workers \cup {Nobody}

Saving == {"save", "saveUndo"}

CommandType ==
    [stage : Resting \cup Saving \cup Auditing, to : Person, previous : Person, saving : Person,
     alertId : Nat]

CommandTypes ==
    /\ origin \in Person /\ assignedTo \in Person /\ storedTo \in Person
    /\ tasks \in [Workers -> Int]
    /\ alerts \in Seq({"active", "retracted"})
    /\ command \in [AllCommands -> CommandType]
    /\ done \in Seq(AllCommands)
    /\ orderly \in BOOLEAN

(* The invoker audits what was done. *)
AuditInv ==
    /\ \A c \in AlertCommands :
        /\ command[c].stage \notin Saving
        /\ command[c].alertId \in 0..Len(alerts)
        /\ command[c].stage \in Auditing => command[c].alertId # 0
        /\ command[c].stage = "auditUndo" => alerts[command[c].alertId] = "retracted"
    /\ AuditIsTrue

(* One command at a time, and what it has still to save is what the object *)
(* says.                                                                   *)
AloneInv ==
    /\ \A c, d \in AllCommands : command[c].stage \notin Resting /\ command[d].stage \notin Resting => c = d
    /\ \A c \in AllCommands : command[c].stage \in Saving => command[c].saving = assignedTo
    /\ (\A c \in AllCommands : command[c].stage \notin Saving) => storedTo = assignedTo

(* Each command of the session found the incident where the ones before it *)
(* left it.                                                                *)
ChainInv ==
    /\ \A i \in DOMAIN done : command[done[i]].stage # "none"
    /\ \A i, j \in DOMAIN done : done[i] = done[j] => i = j
    /\ \A i \in DOMAIN done : done[i] \in AssignCommands => Assigned(i - 1, command[done[i]].previous)
    /\ Assigned(Len(done), assignedTo)

TasksInv == \A w \in Workers : tasks[w] = IF w = assignedTo THEN 1 ELSE 0

CommandsInv == CommandTypes /\ AuditInv /\ (orderly => AloneInv /\ ChainInv /\ TasksInv)

-----------------------------------------------------------------------------

\* Whom the incident is with depends on the targets only.
LEMMA AssignedDepends ==
    ASSUME CommandTypes, NEW n \in Nat, origin' = origin, n <= Len(done), n <= Len(done'),
           done' \in Seq(AllCommands),
           \A i \in 1..n : done'[i] = done[i] /\ command'[done[i]].to = command[done[i]].to,
           NEW w \in Person
    PROVE  Assigned(n, w)' <=> Assigned(n, w)
<1>1. Len(done) \in Nat /\ Len(done') \in Nat /\ DOMAIN done = 1..Len(done)
  BY DEF CommandTypes
<1>2. \A i \in 1..n : \A j \in (i + 1)..n : j \in 1..n
  OBVIOUS
<1> QED
  BY <1>2 DEF Assigned

LEMMA AssignedOne ==
    ASSUME CommandTypes, done # <<>>, NEW w \in Person, Assigned(Len(done), w)
    PROVE  /\ done[Len(done)] \in AssignCommands => w = command[done[Len(done)]].to
           /\ done[Len(done)] \notin AssignCommands => Assigned(Len(done) - 1, w)
<1> DEFINE n == Len(done)
<1>1. n \in Nat \ {0}
  BY DEF CommandTypes
<1> HIDE DEF n
<1>2. CASE w = origin /\ \A i \in 1..n : done[i] \notin AssignCommands
  BY <1>1, <1>2 DEF Assigned, n
<1>3. ASSUME NEW i \in 1..n, done[i] \in AssignCommands, w = command[done[i]].to,
             \A j \in (i + 1)..n : done[j] \notin AssignCommands
      PROVE  /\ done[n] \in AssignCommands => w = command[done[n]].to
             /\ done[n] \notin AssignCommands => Assigned(n - 1, w)
  <2>1. CASE i = n
    BY <1>1, <1>3, <2>1
  <2>2. CASE i # n
    <3>1. n \in (i + 1)..n /\ i \in 1..(n - 1)
      BY <1>1, <2>2
    <3>2. \A j \in (i + 1)..(n - 1) : j \in (i + 1)..n
      BY <1>1
    <3> QED
      BY <1>3, <3>1, <3>2 DEF Assigned
  <2> QED
    BY <2>1, <2>2
<1> QED
  BY <1>2, <1>3 DEF Assigned, n

LEMMA InitCommandsInv == CommandsInit => CommandsInv
<1> SUFFICES ASSUME CommandsInit PROVE CommandsInv
  OBVIOUS
<1>1. /\ origin \in Person /\ assignedTo = origin /\ storedTo = assignedTo
      /\ alerts = <<>> /\ audit = {} /\ done = <<>> /\ orderly = TRUE
  BY DEF CommandsInit, Person
<1>2. done \in Seq(AllCommands) /\ DOMAIN done = {} /\ Len(done) = 0
  BY <1>1
<1>3. /\ command \in [AllCommands -> CommandType]
      /\ \A c \in AllCommands : command[c].stage = "none" /\ command[c].alertId = 0
  BY DEF CommandsInit, NewCommand, CommandType, Person, Resting
<1>4. tasks \in [Workers -> Int] /\ \A w \in Workers : tasks[w] = IF w = assignedTo THEN 1 ELSE 0
  BY DEF CommandsInit
<1>5. CommandTypes
  BY <1>1, <1>2, <1>3, <1>4 DEF CommandTypes
<1>6. AuditInv
  <2>1. Len(alerts) = 0 /\ DOMAIN alerts = {}
    BY <1>1
  <2> QED
    BY <1>1, <1>3, <2>1 DEF AuditInv, AuditIsTrue, AllCommands, Saving, Auditing
<1>7. AloneInv
  BY <1>1, <1>3 DEF AloneInv, Resting, Saving
<1>8. ChainInv /\ TasksInv
  BY <1>1, <1>2, <1>4 DEF ChainInv, TasksInv, Assigned
<1> QED
  BY <1>5, <1>6, <1>7, <1>8 DEF CommandsInv

\* A step of a command that leaves the session as it is.
LEMMA ChainStays ==
    ASSUME CommandsInv, orderly, CommandTypes', UNCHANGED <<origin, assignedTo, tasks, done>>,
           \A d \in AllCommands : command[d].stage # "none" =>
                /\ command'[d].stage # "none"
                /\ command'[d].to = command[d].to /\ command'[d].previous = command[d].previous
    PROVE  ChainInv' /\ TasksInv'
<1>1. /\ done \in Seq(AllCommands) /\ DOMAIN done = 1..Len(done) /\ Len(done) \in Nat
      /\ \A i \in DOMAIN done : done[i] \in AllCommands /\ command[done[i]].stage # "none"
  BY DEF CommandsInv, CommandTypes, ChainInv
<1>2. \A n \in 0..Len(done) : \A x \in Person : Assigned(n, x)' <=> Assigned(n, x)
  BY <1>1, AssignedDepends DEF CommandsInv
<1>3. \A i \in DOMAIN done : i - 1 \in 0..Len(done) /\ command[done[i]].previous \in Person
  BY <1>1 DEF CommandsInv, CommandTypes, CommandType
<1>4. assignedTo \in Person
  BY DEF CommandsInv, CommandTypes
<1> QED
  BY <1>1, <1>2, <1>3, <1>4 DEF CommandsInv, ChainInv, TasksInv

\* A step of a command that is not being audited leaves the audit true.
LEMMA AuditStays ==
    ASSUME CommandsInv, NEW c \in AllCommands, command[c].stage \notin Auditing,
           UNCHANGED <<alerts, audit, unwritten>>,
           \A d \in AllCommands \ {c} : command'[d] = command[d]
    PROVE  AuditIsTrue'
<1>1. ASSUME NEW type, NEW d \in AlertCommands, NEW a, Reported(<<type, d, a>>)
      PROVE  Reported(<<type, d, a>>)'
  BY <1>1 DEF Reported, AuditEntry, AllCommands
<1>2. AuditIsTrue
  BY DEF CommandsInv, AuditInv
<1> QED
  BY <1>1, <1>2 DEF AuditIsTrue

LEMMA StepConstruct ==
    ASSUME CommandsInv, NEW c \in AllCommands, NEW w \in Workers, Construct(c, w) PROVE CommandsInv'
<1> DEFINE r == NewCommand("made", w, assignedTo)
<1>1. /\ command[c].stage = "none" /\ command' = [command EXCEPT ![c] = r]
      /\ UNCHANGED <<origin, assignedTo, tasks, storedTo, alerts, audit, unwritten, done, orderly>>
  BY DEF Construct
<1>2. r \in CommandType /\ r.stage = "made" /\ r.alertId = 0
  BY DEF NewCommand, CommandType, Person, Resting, CommandsInv, CommandTypes
<1> HIDE DEF r
<1>3. /\ command' \in [AllCommands -> CommandType] /\ command'[c] = r
      /\ \A d \in AllCommands \ {c} : command'[d] = command[d]
  BY <1>1, <1>2 DEF CommandsInv, CommandTypes
<1>4. CommandTypes'
  BY <1>1, <1>3 DEF CommandsInv, CommandTypes
<1>5. AuditInv'
  <2>1. command[c].stage \notin Auditing /\ command'[c].stage \notin Auditing \cup Saving
    BY <1>1, <1>2, <1>3 DEF Auditing, Saving
  <2>2. \A a \in AlertCommands : command'[a].alertId \in 0..Len(alerts)
    BY <1>2, <1>3 DEF CommandsInv, CommandTypes, AuditInv, AllCommands
  <2> QED
    BY <1>1, <1>2, <1>3, <2>1, <2>2, AuditStays DEF CommandsInv, AuditInv, AllCommands, Auditing
<1>6. orderly => AloneInv'
  BY <1>1, <1>2, <1>3 DEF CommandsInv, AloneInv, Resting, Saving
<1>7. orderly => ChainInv' /\ TasksInv'
  BY <1>1, <1>3, <1>4, ChainStays
<1> QED
  BY <1>1, <1>4, <1>5, <1>6, <1>7 DEF CommandsInv

\* A command is added to the session, on the assignment it captured.
LEMMA ChainGrows ==
    ASSUME CommandsInv, orderly, NEW c \in AllCommands, command[c].stage # "none",
           c \notin {done[i] : i \in DOMAIN done}, done' = Append(done, c), CommandTypes',
           origin' = origin,
           c \in AssignCommands => command[c].previous = assignedTo /\ assignedTo' = command[c].to,
           c \notin AssignCommands => assignedTo' = assignedTo,
           \A d \in AllCommands : command[d].stage # "none" =>
                /\ command'[d].stage # "none"
                /\ command'[d].to = command[d].to /\ command'[d].previous = command[d].previous
    PROVE  ChainInv'
<1>1. PICK n \in Nat : n = Len(done)
  BY DEF CommandsInv, CommandTypes
<1>2. /\ done \in Seq(AllCommands) /\ DOMAIN done = 1..n /\ n \in Nat
      /\ \A i \in 1..n : done[i] \in AllCommands /\ command[done[i]].stage # "none"
      /\ assignedTo \in Person /\ ChainInv
  <2>1. done \in Seq(AllCommands) /\ assignedTo \in Person /\ ChainInv
    BY DEF CommandsInv, CommandTypes
  <2>2. DOMAIN done = 1..n /\ \A i \in 1..n : done[i] \in AllCommands
    BY <1>1, <2>1
  <2> QED
    BY <2>1, <2>2 DEF ChainInv
<1>3. /\ DOMAIN done' = 1..(n + 1) /\ Len(done') = n + 1 /\ done'[n + 1] = c
      /\ \A i \in 1..n : done'[i] = done[i]
  BY <1>1, <1>2
<1>4. ASSUME NEW i \in 0..n, NEW x \in Person PROVE Assigned(i, x)' <=> Assigned(i, x)
  <2>1. i \in Nat /\ i <= Len(done) /\ i <= Len(done')
    BY <1>1, <1>2, <1>3
  <2>2. done' \in Seq(AllCommands)
    BY DEF CommandTypes
  <2>3. \A k \in 1..i : done'[k] = done[k] /\ command'[done[k]].to = command[done[k]].to
    BY <1>2, <1>3
  <2> QED
    BY <2>1, <2>2, <2>3, AssignedDepends DEF CommandsInv
<1>5. ASSUME NEW i \in DOMAIN done', done'[i] \in AssignCommands
      PROVE  Assigned(i - 1, command[done[i]].previous)'
  <2>1. CASE i \in 1..n
    <3>1. i - 1 \in 0..n /\ command'[done'[i]].previous = command[done[i]].previous
      BY <1>2, <1>3, <2>1
    <3>2. command[done[i]].previous \in Person
      BY <1>2, <2>1 DEF CommandsInv, CommandTypes, CommandType
    <3>3. Assigned(i - 1, command[done[i]].previous)
      BY <1>2, <1>3, <1>5, <2>1 DEF ChainInv
    <3> QED
      BY <1>4, <3>1, <3>2, <3>3
  <2>2. CASE i = n + 1
    <3>1. command'[done'[i]].previous = assignedTo /\ i - 1 = n /\ n \in 0..n
      BY <1>2, <1>3, <1>5, <2>2
    <3>2. Assigned(n, assignedTo)
      BY <1>1, <1>2 DEF ChainInv
    <3> QED
      BY <1>2, <1>4, <3>1, <3>2
  <2> QED
    BY <1>2, <1>3, <2>1, <2>2
<1>6. Assigned(n + 1, assignedTo)'
  <2>1. CASE c \in AssignCommands
    <3>1. /\ n + 1 \in 1..(n + 1) /\ done'[n + 1] = c /\ assignedTo' = command'[c].to
          /\ \A j \in ((n + 1) + 1)..(n + 1) : done'[j] \notin AssignCommands
      BY <1>2, <1>3, <2>1
    <3> QED
      BY <2>1, <3>1 DEF Assigned
  <2>2. CASE c \notin AssignCommands
    <3>1. Assigned(n, assignedTo)'
      BY <1>1, <1>2, <1>4, <2>2 DEF ChainInv
    <3>2. \A i \in 1..(n + 1) : i \in 1..n \/ done'[i] = c
      BY <1>2, <1>3
    <3>3. \A i \in 1..n : i \in 1..(n + 1)
      BY <1>2
    <3>4. \A i \in 1..n : \A j \in (i + 1)..(n + 1) : j \in (i + 1)..n \/ done'[j] = c
      BY <1>2, <1>3
    <3>5. CASE assignedTo' = origin' /\ \A i \in 1..n : done'[i] \notin AssignCommands
      BY <2>2, <3>2, <3>5 DEF Assigned
    <3>6. ASSUME NEW i \in 1..n, done'[i] \in AssignCommands, assignedTo' = command'[done'[i]].to,
                 \A j \in (i + 1)..n : done'[j] \notin AssignCommands
          PROVE  Assigned(n + 1, assignedTo)'
      <4>1. i \in 1..(n + 1) /\ \A j \in (i + 1)..(n + 1) : done'[j] \notin AssignCommands
        BY <2>2, <3>3, <3>4, <3>6
      <4> QED
        BY <3>6, <4>1 DEF Assigned
    <3> QED
      BY <3>1, <3>5, <3>6 DEF Assigned
  <2> QED
    BY <2>1, <2>2
<1>7. \A i \in DOMAIN done' : command'[done'[i]].stage # "none"
  BY <1>2, <1>3
<1>8. \A i, j \in DOMAIN done' : done'[i] = done'[j] => i = j
  <2>1. \A i \in 1..n : done'[i] # c
    BY <1>2, <1>3
  <2> QED
    BY <1>2, <1>3, <2>1 DEF ChainInv
<1> QED
  BY <1>3, <1>5, <1>6, <1>7, <1>8 DEF ChainInv

\* The last command of the session is taken back.
LEMMA ChainShrinks ==
    ASSUME CommandsInv, orderly, NEW c \in AllCommands, Last(c),
           done' = SubSeq(done, 1, Len(done) - 1), CommandTypes', origin' = origin,
           c \in AssignCommands => assignedTo' = command[c].previous,
           c \notin AssignCommands => assignedTo' = assignedTo,
           \A d \in AllCommands : command[d].stage # "none" =>
                /\ command'[d].stage # "none"
                /\ command'[d].to = command[d].to /\ command'[d].previous = command[d].previous
    PROVE  ChainInv' /\ (c \in AssignCommands => assignedTo = command[c].to)
<1>1. PICK n \in Nat : Len(done) = n + 1 /\ done # <<>>
  <2>1. done # <<>> /\ done \in Seq(AllCommands)
    BY DEF Last, CommandsInv, CommandTypes
  <2>2. Len(done) - 1 \in Nat /\ Len(done) = (Len(done) - 1) + 1
    BY <2>1
  <2> QED
    BY <2>1, <2>2
<1>2. /\ done \in Seq(AllCommands) /\ DOMAIN done = 1..(n + 1) /\ n \in Nat /\ done[n + 1] = c
      /\ done # <<>> /\ Len(done) = n + 1
      /\ \A i \in 1..(n + 1) : done[i] \in AllCommands /\ command[done[i]].stage # "none"
      /\ assignedTo \in Person /\ ChainInv
  <2>1. done \in Seq(AllCommands) /\ done # <<>> /\ assignedTo \in Person /\ ChainInv
    BY <1>1 DEF CommandsInv, CommandTypes
  <2>2. n \in Nat /\ Len(done) = n + 1 /\ done[n + 1] = c
    BY <1>1 DEF Last
  <2>3. DOMAIN done = 1..(n + 1) /\ \A i \in 1..(n + 1) : done[i] \in AllCommands
    BY <2>1, <2>2
  <2> QED
    BY <2>1, <2>2, <2>3 DEF ChainInv
<1>3. /\ DOMAIN done' = 1..n /\ Len(done') = n
      /\ \A i \in 1..n : done'[i] = done[i]
  BY <1>2
<1>4. /\ c \in AssignCommands => assignedTo = command[c].to
      /\ c \notin AssignCommands => Assigned(n, assignedTo)
  <2>1. Assigned(Len(done), assignedTo) /\ Len(done) - 1 = n
    BY <1>2 DEF ChainInv
  <2> QED
    BY <1>2, <2>1, AssignedOne DEF CommandsInv
<1>5. ASSUME NEW i \in 0..n, NEW x \in Person PROVE Assigned(i, x)' <=> Assigned(i, x)
  <2>1. /\ i \in Nat /\ i <= Len(done) /\ i <= Len(done') /\ done' \in Seq(AllCommands)
        /\ \A k \in 1..i : done'[k] = done[k] /\ command'[done[k]].to = command[done[k]].to
    <3>1. \A k \in 1..i : k \in 1..n /\ k \in 1..(n + 1)
      BY <1>2
    <3>2. \A k \in 1..i : done'[k] = done[k] /\ command'[done[k]].to = command[done[k]].to
      BY <1>2, <1>3, <3>1
    <3>3. i \in Nat /\ i <= n /\ i <= n + 1
      BY <1>2
    <3> QED
      BY <1>2, <1>3, <3>2, <3>3 DEF CommandTypes
  <2> QED
    BY <2>1, AssignedDepends DEF CommandsInv
<1>6. \A i \in 1..(n + 1) : command[done[i]].previous \in Person
  BY <1>2 DEF CommandsInv, CommandTypes, CommandType
<1>7. ASSUME NEW i \in DOMAIN done', done'[i] \in AssignCommands
      PROVE  Assigned(i - 1, command[done[i]].previous)'
  <2>1. /\ i \in 1..(n + 1) /\ i - 1 \in 0..n /\ done[i] \in AssignCommands
        /\ command'[done'[i]].previous = command[done[i]].previous
    BY <1>2, <1>3, <1>7
  <2> QED
    BY <1>2, <1>5, <1>6, <2>1 DEF ChainInv
<1>8. Assigned(n, assignedTo)'
  <2>1. n \in 0..n /\ n + 1 \in 1..(n + 1) /\ (n + 1) - 1 = n
    BY <1>2
  <2>2. CASE c \in AssignCommands
    <3>1. Assigned(n, command[c].previous)
      BY <1>2, <2>1, <2>2 DEF ChainInv
    <3>2. command[c].previous \in Person
      BY <1>2, <1>6, <2>1
    <3> QED
      BY <1>5, <2>1, <2>2, <3>1, <3>2
  <2>3. CASE c \notin AssignCommands
    BY <1>2, <1>4, <1>5, <2>1, <2>3
  <2> QED
    BY <2>2, <2>3
<1>9. \A i \in DOMAIN done' : command'[done'[i]].stage # "none" /\ i \in DOMAIN done
  BY <1>2, <1>3
<1>10. \A i, j \in DOMAIN done' : done'[i] = done'[j] => i = j
  BY <1>2, <1>3, <1>9 DEF ChainInv
<1> QED
  BY <1>3, <1>4, <1>7, <1>8, <1>9, <1>10 DEF ChainInv

-----------------------------------------------------------------------------

\* A command's record after its stage, and what it has to save, changed.
LEMMA CommandBecomes ==
    ASSUME CommandsInv, NEW c \in AllCommands,
           NEW stage \in Resting \cup Saving \cup Auditing, NEW saving \in Person,
           command' = [command EXCEPT ![c].stage = stage, ![c].saving = saving],
           command[c].stage # "none", stage # "none"
    PROVE  /\ command' \in [AllCommands -> CommandType]
           /\ command'[c].stage = stage /\ command'[c].saving = saving
           /\ \A d \in AllCommands \ {c} : command'[d] = command[d]
           /\ \A d \in AllCommands : command[d].stage # "none" =>
                /\ command'[d].stage # "none"
                /\ command'[d].to = command[d].to /\ command'[d].previous = command[d].previous
<1>1. command \in [AllCommands -> CommandType] /\ command[c] \in CommandType
  BY DEF CommandsInv, CommandTypes
<1>2. /\ [command[c] EXCEPT !.stage = stage, !.saving = saving] \in CommandType
      /\ [command[c] EXCEPT !.stage = stage, !.saving = saving].stage = stage
      /\ [command[c] EXCEPT !.stage = stage, !.saving = saving].saving = saving
      /\ [command[c] EXCEPT !.stage = stage, !.saving = saving].to = command[c].to
      /\ [command[c] EXCEPT !.stage = stage, !.saving = saving].previous = command[c].previous
  BY <1>1 DEF CommandType
<1>3. command' = [command EXCEPT ![c] = [command[c] EXCEPT !.stage = stage, !.saving = saving]]
  BY <1>1
<1> QED
  BY <1>1, <1>2, <1>3

\* One that keeps what it has to save.
LEMMA StageBecomes ==
    ASSUME CommandsInv, NEW c \in AllCommands, NEW stage \in Resting \cup Saving \cup Auditing,
           command' = [command EXCEPT ![c].stage = stage],
           command[c].stage # "none", stage # "none"
    PROVE  /\ command' \in [AllCommands -> CommandType]
           /\ command'[c].stage = stage /\ command'[c].saving = command[c].saving
           /\ \A d \in AllCommands \ {c} : command'[d] = command[d]
           /\ \A d \in AllCommands : command[d].stage # "none" =>
                /\ command'[d].stage # "none"
                /\ command'[d].to = command[d].to /\ command'[d].previous = command[d].previous
<1>1. command \in [AllCommands -> CommandType] /\ command[c] \in CommandType
  BY DEF CommandsInv, CommandTypes
<1>2. command[c].saving \in Person
  BY <1>1 DEF CommandType
<1>3. /\ [command[c] EXCEPT !.stage = stage] \in CommandType
      /\ [command[c] EXCEPT !.stage = stage].stage = stage
      /\ [command[c] EXCEPT !.stage = stage].saving = command[c].saving
      /\ [command[c] EXCEPT !.stage = stage].to = command[c].to
      /\ [command[c] EXCEPT !.stage = stage].previous = command[c].previous
  BY <1>1 DEF CommandType
<1>4. command' = [command EXCEPT ![c] = [command[c] EXCEPT !.stage = stage]]
  BY <1>1
<1> QED
  BY <1>1, <1>3, <1>4

LEMMA SessionTypes ==
    ASSUME CommandsInv, NEW c \in AllCommands, Executes(c) \/ Undoes(c)
    PROVE  done' \in Seq(AllCommands) /\ orderly' \in BOOLEAN /\ (orderly' => orderly /\ Alone)
<1>1. done \in Seq(AllCommands) /\ orderly \in BOOLEAN
  BY DEF CommandsInv, CommandTypes
<1>2. <<>> \in Seq(AllCommands) /\ Append(done, c) \in Seq(AllCommands)
  BY <1>1
<1>3. done # <<>> => SubSeq(done, 1, Len(done) - 1) \in Seq(AllCommands)
  BY <1>1
<1>4. CASE Executes(c)
  <2>1. orderly' \in BOOLEAN /\ (orderly' => orderly /\ Alone)
    BY <1>1, <1>4, Zenon DEF Executes
  <2>2. done' = Append(done, c) \/ done' = <<>>
    BY <1>4, Zenon DEF Executes
  <2>3. done' \in Seq(AllCommands)
    BY <1>2, <2>2, Zenon
  <2> QED
    BY <2>1, <2>3, Zenon
<1>5. CASE Undoes(c)
  <2>1. orderly' \in BOOLEAN /\ (orderly' => orderly /\ Alone /\ Last(c))
    BY <1>1, <1>5, Zenon DEF Undoes
  <2>2. (done # <<>> /\ done' = SubSeq(done, 1, Len(done) - 1)) \/ done' = <<>>
    BY <1>5, <2>1, Zenon DEF Undoes, Last
  <2>3. done' \in Seq(AllCommands)
    BY <1>2, <1>3, <2>2, Zenon
  <2> QED
    BY <2>1, <2>3, Zenon
<1> QED
  BY <1>4, <1>5, Zenon

LEMMA MovedTasks ==
    ASSUME CommandsInv, NEW from \in Person, NEW to \in Person, tasks' = Moved(from, to)
    PROVE  /\ tasks' \in [Workers -> Int]
           /\ TasksInv /\ from = assignedTo /\ to = assignedTo' => TasksInv'
<1>1. tasks \in [Workers -> Int]
  BY DEF CommandsInv, CommandTypes
<1> QED
  BY <1>1 DEF Moved, TasksInv

\* execute and undo of an assignment: the objects are changed.
LEMMA StepAssigns ==
    ASSUME CommandsInv, NEW c \in AssignCommands, command[c].stage = "made",
           NEW stage \in Saving, NEW from \in Person, NEW to \in Person,
           command' = [command EXCEPT ![c].stage = stage, ![c].saving = to],
           assignedTo' = to, tasks' = Moved(from, to),
           UNCHANGED <<origin, storedTo, alerts, audit, unwritten>>,
           \/ Executes(c) /\ from = command[c].previous /\ to = command[c].to
           \/ Undoes(c) /\ from = command[c].to /\ to = command[c].previous
    PROVE  CommandsInv'
<1>1. c \in AllCommands /\ stage # "none" /\ stage \in Resting \cup Saving \cup Auditing
      /\ stage \notin Resting
  BY DEF AllCommands, Saving, Resting
<1>2. /\ command' \in [AllCommands -> CommandType]
      /\ command'[c].stage = stage /\ command'[c].saving = to
      /\ \A d \in AllCommands \ {c} : command'[d] = command[d]
      /\ \A d \in AllCommands : command[d].stage # "none" =>
            /\ command'[d].stage # "none"
            /\ command'[d].to = command[d].to /\ command'[d].previous = command[d].previous
  BY <1>1, CommandBecomes
<1>3. done' \in Seq(AllCommands) /\ orderly' \in BOOLEAN /\ (orderly' => orderly /\ Alone)
  BY <1>1, SessionTypes
<1>4. CommandTypes'
  BY <1>2, <1>3, MovedTasks DEF CommandsInv, CommandTypes, Person
<1>5. AuditInv'
  BY <1>1, <1>2, AuditStays, CommandsAssumption DEF CommandsInv, AuditInv, AllCommands, Auditing
<1>6. orderly' => AloneInv'
  BY <1>1, <1>2, <1>3 DEF Alone, AloneInv, Resting, Saving
<1>7. ASSUME orderly' PROVE ChainInv' /\ TasksInv'
  <2>1. CASE Executes(c) /\ from = command[c].previous /\ to = command[c].to
    <3>1. /\ c \notin {done[i] : i \in DOMAIN done} /\ command[c].previous = assignedTo
          /\ done' = Append(done, c)
      BY <1>7, <2>1 DEF Executes
    <3>2. ChainInv'
      BY <1>1, <1>2, <1>3, <1>4, <1>7, <2>1, <3>1, ChainGrows
    <3> QED
      BY <1>3, <1>7, <2>1, <3>1, <3>2, MovedTasks DEF CommandsInv
  <2>2. CASE Undoes(c) /\ from = command[c].to /\ to = command[c].previous
    <3>1. Last(c) /\ done' = SubSeq(done, 1, Len(done) - 1)
      BY <1>7, <2>2 DEF Undoes
    <3>2. ChainInv' /\ assignedTo = command[c].to
      BY <1>1, <1>2, <1>3, <1>4, <1>7, <2>2, <3>1, ChainShrinks
    <3> QED
      BY <1>3, <1>7, <2>2, <3>2, MovedTasks DEF CommandsInv
  <2> QED
    BY <2>1, <2>2
<1> QED
  BY <1>4, <1>5, <1>6, <1>7 DEF CommandsInv

LEMMA StepExecuteAssign ==
    ASSUME CommandsInv, NEW c \in AllCommands, ExecuteAssign(c) \/ UndoAssign(c) PROVE CommandsInv'
<1>1. command[c].to \in Person /\ command[c].previous \in Person
  BY DEF CommandsInv, CommandTypes, CommandType
<1>2. "save" \in Saving /\ "saveUndo" \in Saving
  BY DEF Saving
<1>3. CASE ExecuteAssign(c)
  BY <1>1, <1>2, <1>3, StepAssigns DEF ExecuteAssign, Invoke
<1>4. CASE UndoAssign(c)
  BY <1>1, <1>2, <1>4, StepAssigns DEF UndoAssign, Invoke
<1> QED
  BY <1>3, <1>4

\* A command's record after its stage, and the alert it is about, changed.
LEMMA AlertBecomes ==
    ASSUME CommandsInv, NEW c \in AllCommands, NEW stage \in Auditing, NEW id \in Nat,
           command' = [command EXCEPT ![c].stage = stage, ![c].alertId = id]
    PROVE  /\ command' \in [AllCommands -> CommandType]
           /\ command'[c].stage = stage /\ command'[c].alertId = id
           /\ command'[c].to = command[c].to /\ command'[c].previous = command[c].previous
           /\ \A d \in AllCommands \ {c} : command'[d] = command[d]
<1>1. command \in [AllCommands -> CommandType] /\ command[c] \in CommandType
  BY DEF CommandsInv, CommandTypes
<1> DEFINE r == [command[c] EXCEPT !.stage = stage, !.alertId = id]
<1>2. /\ r \in CommandType /\ r.stage = stage /\ r.alertId = id
      /\ r.to = command[c].to /\ r.previous = command[c].previous
  BY <1>1 DEF CommandType
<1>3. command' = [command EXCEPT ![c] = r]
  BY <1>1
<1> QED
  BY <1>1, <1>2, <1>3

\* The entry of a command, by its stage.
LEMMA Entry ==
    ASSUME NEW c \in AllCommands, command[c].stage \in Auditing
    PROVE  /\ command[c].stage = "audit" => AuditEntry(c) = <<"DO", c, command[c].alertId>>
           /\ command[c].stage # "audit" =>
                command[c].stage = "auditUndo" /\ AuditEntry(c) = <<"UNDO", c, command[c].alertId>>
BY DEF AuditEntry, Auditing

\* execute and undo of an alert: the row is stored, its entry is not.
LEMMA StepBroadcast ==
    ASSUME CommandsInv, NEW c \in AllCommands, ExecuteBroadcast(c) \/ UndoBroadcast(c)
    PROVE  CommandsInv'
<1>1. /\ c \in AlertCommands /\ command[c].stage = "made"
      /\ UNCHANGED <<origin, assignedTo, tasks, storedTo, audit, unwritten>>
      /\ Executes(c) \/ Undoes(c)
  BY DEF ExecuteBroadcast, UndoBroadcast, Invoke
<1>2. /\ alerts \in Seq({"active", "retracted"}) /\ Len(alerts) \in Nat
      /\ DOMAIN alerts = 1..Len(alerts)
      /\ command[c].alertId \in 0..Len(alerts)
  BY <1>1 DEF CommandsInv, CommandTypes, AuditInv
<1> DEFINE Broadcast(stage, id) ==
        /\ command' = [command EXCEPT ![c].stage = stage, ![c].alertId = id]
        /\ id # 0 /\ id \in DOMAIN alerts'
        /\ alerts' \in Seq({"active", "retracted"}) /\ DOMAIN alerts' = 1..Len(alerts')
        /\ Len(alerts') \in Nat /\ Len(alerts) <= Len(alerts')
        /\ \A a \in DOMAIN alerts' \ {id} : a \in DOMAIN alerts /\ alerts'[a] = alerts[a]
        /\ id \in DOMAIN alerts => stage = "auditUndo"
        /\ stage = "auditUndo" => id \in DOMAIN alerts /\ alerts'[id] = "retracted"
        /\ stage = "audit" => alerts'[id] = "active"
<1>3. PICK stage \in Auditing, id \in Nat : Broadcast(stage, id)
  <2>1. CASE ExecuteBroadcast(c)
    <3> DEFINE n == Len(alerts) + 1
    <3>1. /\ alerts' = Append(alerts, "active")
          /\ command' = [command EXCEPT ![c].stage = "audit", ![c].alertId = n]
      BY <2>1 DEF ExecuteBroadcast
    <3>2. /\ n \in Nat /\ n # 0 /\ alerts' \in Seq({"active", "retracted"}) /\ Len(alerts') = n
          /\ DOMAIN alerts' = 1..n /\ alerts'[n] = "active"
          /\ \A a \in 1..Len(alerts) : alerts'[a] = alerts[a]
      BY <1>2, <3>1
    <3>3. n \notin DOMAIN alerts /\ \A a \in (1..n) \ {n} : a \in 1..Len(alerts)
      BY <1>2
    <3>4. Broadcast("audit", n)
      BY <1>2, <3>1, <3>2, <3>3
    <3> QED
      BY <3>2, <3>4, Zenon DEF Auditing
  <2>2. CASE UndoBroadcast(c)
    <3> DEFINE n == command[c].alertId
    <3>1. /\ n # 0 /\ alerts' = [alerts EXCEPT ![n] = "retracted"]
          /\ command' = [command EXCEPT ![c].stage = "auditUndo"]
      BY <2>2 DEF UndoBroadcast
    <3>2. n \in 1..Len(alerts) /\ n \in Nat
      BY <1>2, <3>1
    <3>3. /\ alerts' \in Seq({"active", "retracted"}) /\ Len(alerts') = Len(alerts)
          /\ DOMAIN alerts' = DOMAIN alerts
          /\ alerts'[n] = "retracted" /\ \A a \in DOMAIN alerts \ {n} : alerts'[a] = alerts[a]
      BY <1>2, <3>1, <3>2
    <3>4. command' = [command EXCEPT ![c].stage = "auditUndo", ![c].alertId = n]
      BY <3>1 DEF CommandsInv, CommandTypes, CommandType
    <3>5. Broadcast("auditUndo", n)
      <4> HIDE DEF n
      <4>1. n # 0 /\ n \in DOMAIN alerts'
        BY <1>2, <3>1, <3>2, <3>3
      <4> QED
        BY <1>2, <3>2, <3>3, <3>4, <4>1
    <3> QED
      BY <3>2, <3>5, Zenon DEF Auditing
  <2> QED
    BY <2>1, <2>2
<1>4. stage # "none" /\ stage \in Resting \cup Saving \cup Auditing /\ stage \notin Saving
      /\ c \notin AssignCommands /\ "made" \notin Auditing
  BY <1>1, CommandsAssumption DEF Auditing, Saving
<1>5. /\ command' \in [AllCommands -> CommandType]
      /\ command'[c].stage = stage /\ command'[c].alertId = id
      /\ \A d \in AllCommands \ {c} : command'[d] = command[d]
      /\ \A d \in AllCommands : command[d].stage # "none" =>
            /\ command'[d].stage # "none"
            /\ command'[d].to = command[d].to /\ command'[d].previous = command[d].previous
  <2>1. /\ command' \in [AllCommands -> CommandType]
        /\ command'[c].stage = stage /\ command'[c].alertId = id
        /\ command'[c].to = command[c].to /\ command'[c].previous = command[c].previous
        /\ \A d \in AllCommands \ {c} : command'[d] = command[d]
    BY <1>3, AlertBecomes
  <2> QED
    BY <1>4, <2>1
<1>6. done' \in Seq(AllCommands) /\ orderly' \in BOOLEAN /\ (orderly' => orderly /\ Alone)
  BY <1>1, SessionTypes
<1>7. CommandTypes'
  BY <1>1, <1>3, <1>5, <1>6 DEF CommandsInv, CommandTypes, Person
<1>8. AuditInv'
  <2>1. ASSUME NEW type, NEW d \in AlertCommands, NEW a, Reported(<<type, d, a>>)
        PROVE  Reported(<<type, d, a>>)'
    BY <1>1, <1>4, <1>5, <2>1 DEF Reported, AuditEntry, AllCommands
  <2>2. AuditIsTrue
    BY DEF CommandsInv, AuditInv
  <2>3. /\ stage = "audit" => Reported(<<"DO", c, id>>)'
        /\ stage = "auditUndo" => Reported(<<"UNDO", c, id>>)'
    BY <1>3, <1>5 DEF Reported, AuditEntry, Auditing
  <2>4. ASSUME NEW e \in audit', e[2] \in AlertCommands
        PROVE  e[3] \in DOMAIN alerts' /\ (e[1] = "UNDO" => alerts'[e[3]] = "retracted")
    <3>1. e[3] \in DOMAIN alerts /\ (e[1] = "UNDO" => alerts[e[3]] = "retracted")
      BY <1>1, <2>2, <2>4 DEF AuditIsTrue
    <3>2. e[3] \in DOMAIN alerts'
      BY <1>2, <1>3, <3>1
    <3> QED
      BY <1>3, <3>1, <3>2
  <2>5. ASSUME NEW a \in DOMAIN alerts'
        PROVE  /\ \E d \in AlertCommands : Reported(<<"DO", d, a>>)'
               /\ alerts'[a] = "retracted" => \E d \in AlertCommands : Reported(<<"UNDO", d, a>>)'
    <3>1. CASE a # id
      <4>1. a \in DOMAIN alerts /\ alerts'[a] = alerts[a]
        BY <1>3, <2>5, <3>1
      <4> QED
        BY <2>1, <2>2, <4>1 DEF AuditIsTrue
    <3>2. CASE a = id /\ stage = "auditUndo"
      <4>1. a \in DOMAIN alerts
        BY <1>3, <3>2
      <4> QED
        BY <1>1, <2>1, <2>2, <2>3, <3>2, <4>1 DEF AuditIsTrue
    <3>3. CASE a = id /\ stage = "audit"
      BY <1>1, <1>3, <2>3, <3>3
    <3> QED
      BY <1>3, <3>1, <3>2, <3>3 DEF Auditing
  <2>6. AuditIsTrue'
    BY <2>4, <2>5 DEF AuditIsTrue
  <2>7. ASSUME NEW d \in AlertCommands
        PROVE  /\ command'[d].stage \notin Saving
               /\ command'[d].alertId \in 0..Len(alerts')
               /\ command'[d].stage \in Auditing => command'[d].alertId # 0
               /\ command'[d].stage = "auditUndo" => alerts'[command'[d].alertId] = "retracted"
    <3>1. CASE d = c
      BY <1>3, <1>4, <1>5, <3>1
    <3>2. CASE d # c
      <4> DEFINE k == command[d].alertId
      <4>1. /\ command'[d] = command[d] /\ k \in 0..Len(alerts) /\ command[d].stage \notin Saving
            /\ command[d].stage \in Auditing => k # 0
            /\ command[d].stage = "auditUndo" => alerts[k] = "retracted"
        BY <1>5, <3>2 DEF CommandsInv, AuditInv, AllCommands
      <4>2. k \in 0..Len(alerts')
        BY <1>2, <1>3, <4>1
      <4>3. ASSUME command[d].stage = "auditUndo" PROVE alerts'[k] = "retracted"
        <5>1. k \in DOMAIN alerts /\ k \in DOMAIN alerts' /\ alerts[k] = "retracted"
          BY <1>2, <1>3, <4>1, <4>3 DEF Auditing
        <5> QED
          BY <1>3, <5>1
      <4> QED
        BY <4>1, <4>2, <4>3
    <3> QED
      BY <3>1, <3>2
  <2> QED
    BY <2>6, <2>7 DEF AuditInv
<1>9. orderly' => AloneInv'
  BY <1>1, <1>4, <1>5, <1>6 DEF CommandsInv, Alone, AloneInv, Resting, Saving
<1>10. ASSUME orderly' PROVE ChainInv'
  <2>1. CASE Executes(c)
    <3>1. c \notin {done[i] : i \in DOMAIN done} /\ done' = Append(done, c)
      BY <1>10, <2>1 DEF Executes
    <3> QED
      BY <1>1, <1>4, <1>5, <1>6, <1>7, <1>10, <3>1, ChainGrows
  <2>2. CASE Undoes(c)
    <3>1. Last(c) /\ done' = SubSeq(done, 1, Len(done) - 1)
      BY <1>10, <2>2 DEF Undoes
    <3> QED
      BY <1>1, <1>4, <1>5, <1>6, <1>7, <1>10, <3>1, ChainShrinks
  <2> QED
    BY <1>1, <2>1, <2>2
<1>11. orderly' => TasksInv'
  BY <1>1, <1>6 DEF CommandsInv, TasksInv
<1> QED
  BY <1>7, <1>8, <1>9, <1>10, <1>11 DEF CommandsInv

LEMMA StepSaved ==
    ASSUME CommandsInv, NEW c \in AllCommands, Saved(c) PROVE CommandsInv'
<1>1. /\ command[c].stage \in Saving /\ storedTo' = command[c].saving
      /\ UNCHANGED <<origin, assignedTo, tasks, alerts, audit, unwritten, done, orderly>>
  BY DEF Saved, Saving
<1>2. PICK stage \in Auditing : command' = [command EXCEPT ![c].stage = stage]
  BY DEF Saved, Auditing
<1>3. /\ stage # "none" /\ stage \in Resting \cup Saving \cup Auditing /\ stage \notin Saving
      /\ command[c].stage # "none" /\ command[c].stage \notin Resting \cup Auditing
  BY <1>1 DEF Auditing, Saving, Resting
<1>4. /\ command' \in [AllCommands -> CommandType]
      /\ command'[c].stage = stage
      /\ \A d \in AllCommands \ {c} : command'[d] = command[d]
      /\ \A d \in AllCommands : command[d].stage # "none" =>
            /\ command'[d].stage # "none"
            /\ command'[d].to = command[d].to /\ command'[d].previous = command[d].previous
  BY <1>2, <1>3, StageBecomes
<1>5. command[c].saving \in Person
  BY DEF CommandsInv, CommandTypes, CommandType
<1>6. CommandTypes'
  BY <1>1, <1>4, <1>5 DEF CommandsInv, CommandTypes, Person
<1>7. AuditInv'
  <2>1. c \notin AlertCommands
    BY <1>1 DEF CommandsInv, AuditInv
  <2> QED
    BY <1>1, <1>3, <1>4, <2>1, AuditStays DEF CommandsInv, AuditInv, AllCommands
<1>8. orderly => AloneInv'
  BY <1>1, <1>3, <1>4 DEF CommandsInv, AloneInv
<1>9. orderly => ChainInv' /\ TasksInv'
  BY <1>1, <1>4, <1>6, ChainStays
<1> QED
  BY <1>1, <1>6, <1>7, <1>8, <1>9 DEF CommandsInv

\* The invoker writes the entry of a command, or fails to.
LEMMA StepAudited ==
    ASSUME CommandsInv, CommandTypes', NEW c \in AllCommands, UNCHANGED alerts,
           command' = [command EXCEPT ![c].stage = "made"], command[c].stage \notin Resting,
           command[c].stage \in Auditing => AuditEntry(c) \in audit' \cup unwritten',
           audit \subseteq audit', unwritten \subseteq unwritten',
           audit' \subseteq audit \cup (IF command[c].stage \in Auditing THEN {AuditEntry(c)} ELSE {})
    PROVE  AuditInv'
<1>1. /\ command'[c].stage = "made" /\ command'[c].alertId = command[c].alertId
      /\ \A d \in AllCommands \ {c} : command'[d] = command[d]
      /\ "made" \notin Saving \cup Auditing
  BY DEF CommandsInv, CommandTypes, CommandType, Saving, Auditing
<1>2. AuditIsTrue
  BY DEF CommandsInv, AuditInv
<1>3. ASSUME NEW type, NEW d \in AlertCommands, NEW a, Reported(<<type, d, a>>)
      PROVE  Reported(<<type, d, a>>)'
  <2>1. CASE <<type, d, a>> \in audit \cup unwritten
    BY <2>1 DEF Reported
  <2>2. CASE command[d].stage \in Auditing /\ AuditEntry(d) = <<type, d, a>>
    <3>1. CASE d = c
      BY <2>2, <3>1 DEF Reported
    <3>2. CASE d # c
      BY <1>1, <2>2, <3>2 DEF Reported, AuditEntry, AllCommands
    <3> QED
      BY <3>1, <3>2
  <2> QED
    BY <1>3, <2>1, <2>2 DEF Reported
<1>4. ASSUME NEW e \in audit', e[2] \in AlertCommands
      PROVE  e[3] \in DOMAIN alerts /\ (e[1] = "UNDO" => alerts[e[3]] = "retracted")
  <2>1. CASE e \in audit
    BY <1>2, <1>4, <2>1 DEF AuditIsTrue
  <2>2. CASE command[c].stage \in Auditing /\ e = AuditEntry(c)
    <3>1. e[2] = c /\ e[3] = command[c].alertId /\ (e[1] = "UNDO" => command[c].stage = "auditUndo")
      BY <2>2, Entry
    <3>2. /\ command[c].alertId \in 0..Len(alerts) /\ command[c].alertId # 0
          /\ command[c].stage = "auditUndo" => alerts[command[c].alertId] = "retracted"
      BY <1>4, <2>2, <3>1 DEF CommandsInv, AuditInv
    <3>3. DOMAIN alerts = 1..Len(alerts) /\ Len(alerts) \in Nat
      BY DEF CommandsInv, CommandTypes
    <3> QED
      BY <3>1, <3>2, <3>3
  <2> QED
    BY <2>1, <2>2
<1>5. AuditIsTrue'
  BY <1>2, <1>3, <1>4 DEF AuditIsTrue
<1> QED
  BY <1>1, <1>5 DEF CommandsInv, AuditInv, AllCommands

LEMMA StepWriteAudit ==
    ASSUME CommandsInv, NEW c \in AllCommands, WriteAudit(c) PROVE CommandsInv'
<1>1. /\ command[c].stage \in Auditing /\ command' = [command EXCEPT ![c].stage = "made"]
      /\ audit' = audit \cup {AuditEntry(c)}
      /\ UNCHANGED <<origin, assignedTo, tasks, storedTo, alerts, unwritten, done, orderly>>
  BY DEF WriteAudit
<1>2. command[c].stage # "none" /\ command[c].stage \notin Saving /\ "made" \in Resting
      /\ "made" \notin Saving /\ "made" \notin Auditing /\ command[c].stage \notin Resting
  BY <1>1 DEF Auditing, Saving, Resting
<1>3. /\ command' \in [AllCommands -> CommandType]
      /\ command'[c].stage = "made"
      /\ \A d \in AllCommands \ {c} : command'[d] = command[d]
      /\ \A d \in AllCommands : command[d].stage # "none" =>
            /\ command'[d].stage # "none"
            /\ command'[d].to = command[d].to /\ command'[d].previous = command[d].previous
  BY <1>1, <1>2, StageBecomes
<1>4. CommandTypes'
  BY <1>1, <1>3 DEF CommandsInv, CommandTypes, Person
<1>5. AuditInv'
  BY <1>1, <1>2, <1>4, StepAudited
<1>6. orderly => AloneInv'
  BY <1>1, <1>2, <1>3 DEF CommandsInv, AloneInv
<1>7. orderly => ChainInv' /\ TasksInv'
  BY <1>1, <1>3, <1>4, ChainStays
<1> QED
  BY <1>1, <1>4, <1>5, <1>6, <1>7 DEF CommandsInv

LEMMA StepWriteFails ==
    ASSUME CommandsInv, NEW c \in AllCommands, WriteFails(c) PROVE CommandsInv'
<1>1. /\ command[c].stage \notin Resting /\ command' = [command EXCEPT ![c].stage = "made"]
      /\ orderly' = FALSE /\ done' = <<>>
      /\ unwritten' = unwritten \cup (IF command[c].stage \in Auditing THEN {AuditEntry(c)} ELSE {})
      /\ UNCHANGED <<origin, assignedTo, tasks, storedTo, alerts, audit>>
  BY DEF WriteFails
<1>2. command[c].stage # "none" /\ "made" \in Resting
      /\ "made" \notin Saving /\ "made" \notin Auditing
  BY <1>1 DEF Auditing, Saving, Resting
<1>3. /\ command' \in [AllCommands -> CommandType]
      /\ command'[c].stage = "made"
      /\ \A d \in AllCommands \ {c} : command'[d] = command[d]
  BY <1>1, <1>2, StageBecomes
<1>4. done' \in Seq(AllCommands)
  BY <1>1
<1>5. CommandTypes'
  BY <1>1, <1>3, <1>4 DEF CommandsInv, CommandTypes, Person
<1>6. AuditInv'
  BY <1>1, <1>5, StepAudited
<1> QED
  BY <1>1, <1>5, <1>6 DEF CommandsInv

LEMMA NextCommandsInv == CommandsInv /\ [CommandsNext]_commandVars => CommandsInv'
<1> SUFFICES ASSUME CommandsInv, [CommandsNext]_commandVars PROVE CommandsInv'
  OBVIOUS
<1>1. CASE UNCHANGED commandVars
  <2>1. CommandTypes'
    BY <1>1 DEF CommandsInv, CommandTypes, Person, commandVars
  <2>2. AuditInv'
    BY <1>1 DEF CommandsInv, AuditInv, AuditIsTrue, Reported, AuditEntry, commandVars
  <2>3. orderly => AloneInv' /\ ChainInv' /\ TasksInv'
    BY <1>1 DEF CommandsInv, AloneInv, ChainInv, TasksInv, Assigned, commandVars
  <2> QED
    BY <1>1, <2>1, <2>2, <2>3 DEF CommandsInv, commandVars
<1>2. CASE CommandsNext
  BY <1>2, StepConstruct, StepExecuteAssign, StepSaved, StepBroadcast, StepWriteAudit, StepWriteFails
     DEF CommandsNext
<1> QED
  BY <1>1, <1>2

(* In an orderly session undo restores what the command found: the task    *)
(* counts, the row and the assignee (AssignIncidentCommand, CommandInvoker). *)
THEOREM UndoRestoresWhatWas == CommandsSpec => []UndoRestores
<1>1. CommandsInv => UndoRestores
  <2> SUFFICES ASSUME CommandsInv, orderly
               PROVE  /\ \A w \in Workers : tasks[w] = IF w = assignedTo THEN 1 ELSE 0
                      /\ Alone => storedTo = assignedTo
                      /\ Assigned(Len(done), assignedTo)
    BY DEF UndoRestores
  <2>1. Alone => storedTo = assignedTo
    BY DEF CommandsInv, AloneInv, Alone, Resting, Saving
  <2> QED
    BY <2>1 DEF CommandsInv, ChainInv, TasksInv
<1> QED
  BY <1>1, InitCommandsInv, NextCommandsInv, PTL DEF CommandsSpec

(* The audit and the alerts tell the same story, in any session: entries   *)
(* are true, and only a refused write of an entry is missing               *)
(* (CommandInvoker, BroadcastAlertCommand).                                *)
THEOREM AuditTellsTheTruth == CommandsSpec => []AuditIsTrue
<1>1. CommandsInv => AuditIsTrue
  BY DEF CommandsInv, AuditInv
<1> QED
  BY <1>1, InitCommandsInv, NextCommandsInv, PTL DEF CommandsSpec

-----------------------------------------------------------------------------
\* Hotspots.

ReportType ==
    [at : Nat, count : Nat, stage : {"counted", "renewed", "told", "quiet", "lost"}]

\* The reports less than a window old at a tick.
Recent(now) == {m \in DOMAIN report : now - report[m].at < HotspotTTL}

\* A report stays counted for its window: the counter is to go no sooner.
Kept(m) ==
    \/ report[m].stage = "counted" /\ report[m].at = hotspotTime
    \/ expires \in Nat /\ report[m].at + HotspotTTL <= expires
    \/ report[m].at + HotspotTTL <= hotspotTime

HotspotTypes ==
    /\ counter \in Nat /\ expires \in Nat \cup {Never} /\ hotspotTime \in Nat
    /\ report \in Seq(ReportType) /\ heldUp \in BOOLEAN

CountsInv ==
    /\ Cardinality(Recent(hotspotTime)) <= counter
    /\ \A n \in DOMAIN report :
        /\ report[n].at <= hotspotTime /\ Kept(n)
        /\ Cardinality(WithinWindow(n)) <= report[n].count
        /\ report[n].stage = "quiet" => report[n].count < HotspotThreshold

HotspotInv == HotspotTypes /\ (~heldUp => CountsInv)

LEMMA ReportTypes ==
    ASSUME HotspotTypes, NEW n \in DOMAIN report
    PROVE  report[n] \in ReportType /\ report[n].at \in Nat /\ report[n].count \in Nat
<1>1. report[n] \in ReportType
  BY DEF HotspotTypes
<1> QED
  BY <1>1 DEF ReportType

LEMMA RecentIsFinite ==
    ASSUME HotspotTypes, NEW t \in Nat
    PROVE  IsFiniteSet(Recent(t)) /\ Cardinality(Recent(t)) \in Nat
<1>1. DOMAIN report = 1..Len(report) /\ Len(report) \in Nat
  BY DEF HotspotTypes
<1>2. IsFiniteSet(1..Len(report))
  BY <1>1, FS_Interval
<1>3. Recent(t) \subseteq 1..Len(report)
  BY <1>1 DEF Recent
<1> QED
  BY <1>2, <1>3, FS_Subset, FS_CardinalityType

LEMMA HotspotInitInv == HotspotInit => HotspotInv
<1> SUFFICES ASSUME HotspotInit PROVE HotspotInv
  OBVIOUS
<1>1. /\ report = <<>> /\ counter = 0 /\ expires = Never /\ hotspotTime = 0 /\ heldUp = FALSE
  BY DEF HotspotInit
<1>2. HotspotTypes
  <2>1. <<>> \in Seq(ReportType)
    OBVIOUS
  <2> QED
    BY <1>1, <2>1 DEF HotspotTypes
<1>3. DOMAIN report = {}
  BY <1>1
<1>4. Recent(hotspotTime) = {}
  BY <1>3 DEF Recent
<1>5. Cardinality(Recent(hotspotTime)) = 0
  BY <1>4, FS_EmptySet
<1> QED
  BY <1>1, <1>2, <1>3, <1>5 DEF HotspotInv, CountsInv

LEMMA StepCountReport ==
    ASSUME HotspotInv, CountReport
    PROVE  HotspotInv'
<1>1. /\ HotspotTypes /\ counter' = counter + 1
      /\ expires' = expires /\ hotspotTime' = hotspotTime /\ heldUp' = heldUp
      /\ report \in Seq(ReportType)
  BY DEF HotspotInv, HotspotTypes, CountReport
<1>2. PICK r \in ReportType :
        /\ r = [at |-> hotspotTime, count |-> counter', stage |-> "counted"]
        /\ r.at = hotspotTime /\ r.count = counter' /\ r.stage = "counted"
  <2>1. hotspotTime \in Nat /\ counter' \in Nat
    BY <1>1 DEF HotspotTypes
  <2>2. [at |-> hotspotTime, count |-> counter', stage |-> "counted"] \in ReportType
    BY <2>1 DEF ReportType
  <2> QED
    BY <2>2
<1>3. PICK k \in Nat : k = Len(report)
  BY <1>1
<1>4. /\ report' \in Seq(ReportType) /\ DOMAIN report' = 1..(k + 1) /\ DOMAIN report = 1..k
      /\ report'[k + 1] = r /\ \A m \in 1..k : report'[m] = report[m]
  <2>1. report' = Append(report, r)
    BY <1>2 DEF CountReport
  <2> QED
    BY <1>1, <1>3, <2>1
<1>5. HotspotTypes'
  BY <1>1, <1>4 DEF HotspotTypes
<1>6. ASSUME ~heldUp PROVE CountsInv'
  <2>1. CountsInv
    BY <1>6 DEF HotspotInv
  <2>2. Recent(hotspotTime)' = Recent(hotspotTime) \cup {k + 1} /\ k + 1 \notin Recent(hotspotTime)
    BY <1>1, <1>2, <1>3, <1>4, HotspotAssumption DEF Recent, HotspotTypes
  <2>3. Cardinality(Recent(hotspotTime)') = Cardinality(Recent(hotspotTime)) + 1
    BY <1>1, <2>2, RecentIsFinite, FS_AddElement DEF HotspotTypes
  <2>4. WithinWindow(k + 1)' = Recent(hotspotTime)'
    BY <1>1, <1>2, <1>4 DEF WithinWindow, Recent
  <2>5. \A n \in 1..k : WithinWindow(n)' = WithinWindow(n)
    BY <1>3, <1>4 DEF WithinWindow
  <2>6. Cardinality(Recent(hotspotTime)') <= counter'
    BY <1>1, <2>1, <2>3, RecentIsFinite DEF CountsInv, HotspotTypes
  <2>7. ASSUME NEW n \in 1..k
        PROVE  /\ report'[n].at <= hotspotTime' /\ Kept(n)'
               /\ Cardinality(WithinWindow(n)') <= report'[n].count
               /\ report'[n].stage = "quiet" => report'[n].count < HotspotThreshold
    BY <1>1, <1>4, <2>1, <2>5 DEF CountsInv, Kept
  <2>8. /\ report'[k + 1].at <= hotspotTime' /\ Kept(k + 1)'
        /\ Cardinality(WithinWindow(k + 1)') <= report'[k + 1].count
        /\ report'[k + 1].stage = "quiet" => report'[k + 1].count < HotspotThreshold
    BY <1>1, <1>2, <1>4, <2>4, <2>6 DEF Kept, HotspotTypes
  <2>9. \A n \in DOMAIN report' : n \in 1..k \/ n = k + 1
    BY <1>3, <1>4
  <2> QED
    BY <2>6, <2>7, <2>8, <2>9 DEF CountsInv
<1> QED
  BY <1>1, <1>5, <1>6 DEF HotspotInv

\* A report that moves on keeps when it was made and what it counted.
LEMMA ReportBecomes ==
    ASSUME HotspotTypes, NEW n \in DOMAIN report,
           NEW stage \in {"counted", "renewed", "told", "quiet", "lost"},
           report' = [report EXCEPT ![n].stage = stage]
    PROVE  /\ report' \in Seq(ReportType) /\ DOMAIN report' = DOMAIN report
           /\ report'[n].stage = stage
           /\ \A m \in DOMAIN report :
                report'[m].at = report[m].at /\ report'[m].count = report[m].count
           /\ \A m \in DOMAIN report \ {n} : report'[m] = report[m]
           /\ \A m \in DOMAIN report : WithinWindow(m)' = WithinWindow(m)
           /\ hotspotTime' = hotspotTime => Recent(hotspotTime)' = Recent(hotspotTime)
<1>1. report \in Seq(ReportType) /\ report[n] \in ReportType
  BY DEF HotspotTypes
<1>2. /\ [report[n] EXCEPT !.stage = stage] \in ReportType
      /\ [report[n] EXCEPT !.stage = stage].stage = stage
      /\ [report[n] EXCEPT !.stage = stage].at = report[n].at
      /\ [report[n] EXCEPT !.stage = stage].count = report[n].count
  BY <1>1 DEF ReportType
<1>3. report' = [report EXCEPT ![n] = [report[n] EXCEPT !.stage = stage]]
  BY <1>1
<1>4. /\ report' \in Seq(ReportType) /\ DOMAIN report' = DOMAIN report
      /\ report'[n].stage = stage
      /\ \A m \in DOMAIN report :
            report'[m].at = report[m].at /\ report'[m].count = report[m].count
      /\ \A m \in DOMAIN report \ {n} : report'[m] = report[m]
  <2>1. PICK r \in ReportType :
            /\ r.stage = stage /\ r.at = report[n].at /\ r.count = report[n].count
            /\ report' = [report EXCEPT ![n] = r]
    BY <1>2, <1>3
  <2>2. report' \in Seq(ReportType) /\ DOMAIN report' = DOMAIN report /\ report'[n] = r
        /\ \A m \in DOMAIN report \ {n} : report'[m] = report[m]
    BY <1>1, <2>1
  <2> QED
    BY <2>1, <2>2
<1>5. \A m \in DOMAIN report : 1..m \subseteq DOMAIN report
  BY <1>1
<1>6. \A m \in DOMAIN report : WithinWindow(m)' = WithinWindow(m)
  BY <1>4, <1>5 DEF WithinWindow
<1>7. hotspotTime' = hotspotTime => Recent(hotspotTime)' = Recent(hotspotTime)
  BY <1>4 DEF Recent
<1> QED
  BY <1>4, <1>6, <1>7

LEMMA StepRenew ==
    ASSUME HotspotInv, NEW n, Renew(n)
    PROVE  HotspotInv'
<1>1. /\ HotspotTypes /\ n \in DOMAIN report /\ report[n].stage = "counted"
      /\ counter' = counter /\ hotspotTime' = hotspotTime /\ heldUp' = heldUp
      /\ expires' = IF counter > 0 THEN hotspotTime + HotspotTTL ELSE expires
      /\ report' = [report EXCEPT ![n].stage = "renewed"]
  BY DEF HotspotInv, Renew, Renewing
<1>2. /\ report' \in Seq(ReportType) /\ DOMAIN report' = DOMAIN report
      /\ report'[n].stage = "renewed"
      /\ \A m \in DOMAIN report :
            report'[m].at = report[m].at /\ report'[m].count = report[m].count
      /\ \A m \in DOMAIN report \ {n} : report'[m] = report[m]
      /\ \A m \in DOMAIN report : WithinWindow(m)' = WithinWindow(m)
      /\ Recent(hotspotTime)' = Recent(hotspotTime)
  BY <1>1, ReportBecomes
<1>3. HotspotTypes'
  BY <1>1, <1>2, HotspotAssumption DEF HotspotTypes
<1>4. ASSUME ~heldUp PROVE CountsInv'
  <2>1. CountsInv
    BY <1>4 DEF HotspotInv
  <2>2. \A m \in DOMAIN report : report[m] \in ReportType
    BY <1>1 DEF HotspotTypes
  <2>3. n \in Recent(hotspotTime) \/ report[n].at + HotspotTTL <= hotspotTime
    BY <1>1, <2>1, <2>2, HotspotAssumption DEF Recent, HotspotTypes, ReportType
  <2>4. n \in Recent(hotspotTime) => counter > 0
    <3>1. ASSUME n \in Recent(hotspotTime) PROVE Cardinality(Recent(hotspotTime)) # 0
      BY <1>1, <3>1, RecentIsFinite, FS_EmptySet DEF HotspotTypes
    <3> QED
      BY <1>1, <2>1, <3>1, RecentIsFinite DEF CountsInv, HotspotTypes
  <2>5. ASSUME NEW m \in DOMAIN report PROVE Kept(m)'
    <3>1. report[m].at <= hotspotTime /\ report'[m].at = report[m].at /\ Kept(m)
      BY <1>2, <2>1 DEF CountsInv
    <3>2. report[m].at \in Nat /\ HotspotTTL \in Nat /\ hotspotTime \in Nat
      BY <1>1, <2>2, HotspotAssumption DEF ReportType, HotspotTypes
    <3>3. CASE counter > 0
      <4>1. expires' = hotspotTime + HotspotTTL
        BY <1>1, <3>3
      <4> QED
        BY <3>1, <3>2, <4>1 DEF Kept
    <3>4. CASE ~(counter > 0)
      <4>1. expires' = expires
        BY <1>1, <3>4
      <4>2. m = n => report[m].at + HotspotTTL <= hotspotTime
        BY <2>3, <2>4, <3>4
      <4>3. m # n => report'[m] = report[m]
        BY <1>2
      <4> QED
        BY <1>1, <3>1, <3>2, <4>1, <4>2, <4>3 DEF Kept
    <3> QED
      BY <3>3, <3>4
  <2>6. \A m \in DOMAIN report : report'[m].stage = "quiet" => report[m].stage = "quiet"
    BY <1>2
  <2> QED
    BY <1>1, <1>2, <2>1, <2>5, <2>6 DEF CountsInv
<1> QED
  BY <1>1, <1>3, <1>4 DEF HotspotInv

LEMMA StepTellAdmins ==
    ASSUME HotspotInv, NEW n, TellAdmins(n)
    PROVE  HotspotInv'
<1> DEFINE stage == IF report[n].count >= HotspotThreshold THEN "told" ELSE "quiet"
<1>1. /\ HotspotTypes /\ n \in DOMAIN report /\ report[n].stage = "renewed"
      /\ UNCHANGED <<counter, expires, hotspotTime, heldUp>>
      /\ stage \in {"counted", "renewed", "told", "quiet", "lost"}
      /\ report' = [report EXCEPT ![n].stage = stage]
  BY DEF HotspotInv, TellAdmins
<1>2. stage = "quiet" => report[n].count < HotspotThreshold
  <2>1. report[n].count \in Nat /\ HotspotThreshold \in Nat
    BY <1>1, ReportTypes, HotspotAssumption
  <2> QED
    BY <2>1
<1> HIDE DEF stage
<1>3. /\ report' \in Seq(ReportType) /\ DOMAIN report' = DOMAIN report
      /\ report'[n].stage = stage
      /\ \A m \in DOMAIN report :
            report'[m].at = report[m].at /\ report'[m].count = report[m].count
      /\ \A m \in DOMAIN report \ {n} : report'[m] = report[m]
      /\ \A m \in DOMAIN report : WithinWindow(m)' = WithinWindow(m)
      /\ Recent(hotspotTime)' = Recent(hotspotTime)
  BY <1>1, ReportBecomes
<1>4. HotspotTypes'
  BY <1>1, <1>3 DEF HotspotTypes
<1>5. ASSUME ~heldUp PROVE CountsInv'
  <2>1. CountsInv
    BY <1>5 DEF HotspotInv
  <2>2. \A m \in DOMAIN report : Kept(m)'
    BY <1>1, <1>3, <2>1 DEF CountsInv, Kept
  <2>3. \A m \in DOMAIN report : report'[m].stage = "quiet" => report'[m].count < HotspotThreshold
    BY <1>2, <1>3, <2>1 DEF CountsInv
  <2> QED
    BY <1>1, <1>3, <2>1, <2>2, <2>3 DEF CountsInv
<1> QED
  BY <1>1, <1>4, <1>5 DEF HotspotInv

LEMMA StepHandlerDies ==
    ASSUME HotspotInv, NEW n, HandlerDies(n)
    PROVE  HotspotInv'
<1>1. /\ HotspotTypes /\ n \in DOMAIN report /\ heldUp' = TRUE
      /\ UNCHANGED <<counter, expires, hotspotTime>>
      /\ report' = [report EXCEPT ![n].stage = "lost"]
  BY DEF HotspotInv, HandlerDies, Renewing
<1>2. report' \in Seq(ReportType)
  BY <1>1, ReportBecomes
<1> QED
  BY <1>1, <1>2 DEF HotspotInv, HotspotTypes

LEMMA StepHotspotTick ==
    ASSUME HotspotInv, HotspotTick
    PROVE  HotspotInv'
<1>1. /\ HotspotTypes /\ hotspotTime' = hotspotTime + 1 /\ report' = report
      /\ heldUp' = (heldUp \/ Renewing # {})
      /\ \/ expires = hotspotTime' /\ counter' = 0 /\ expires' = Never
         \/ counter' = counter /\ expires' = expires
  BY DEF HotspotInv, HotspotTick
<1>2. HotspotTypes'
  <2>1. heldUp' \in BOOLEAN
    BY <1>1, Zenon
  <2> QED
    BY <1>1, <2>1 DEF HotspotTypes
<1>3. ASSUME ~heldUp' PROVE CountsInv'
  <2>1. ~heldUp /\ \A m \in DOMAIN report : report[m].stage # "counted"
    BY <1>1, <1>3, Zenon DEF Renewing
  <2>2. CountsInv
    BY <2>1 DEF HotspotInv
  <2>3. /\ hotspotTime \in Nat /\ HotspotTTL \in Nat \ {0} /\ Never \notin Nat
        /\ \A m \in DOMAIN report : report[m].at \in Nat
    BY <1>1, ReportTypes, HotspotAssumption DEF HotspotTypes
  <2>4. \A m \in DOMAIN report :
          /\ report[m].at <= hotspotTime
          /\ \/ expires \in Nat /\ report[m].at + HotspotTTL <= expires
             \/ report[m].at + HotspotTTL <= hotspotTime
    BY <2>1, <2>2 DEF CountsInv, Kept
  <2>5. \A m \in DOMAIN report : Kept(m)'
    <3>1. CASE expires = hotspotTime'
      <4>1. \A m \in DOMAIN report : report[m].at + HotspotTTL <= hotspotTime'
        BY <1>1, <2>3, <2>4, <3>1
      <4> QED
        BY <1>1, <4>1 DEF Kept
    <3>2. CASE expires # hotspotTime'
      <4>1. expires' = expires
        BY <1>1, <3>2
      <4> QED
        BY <1>1, <2>3, <2>4, <4>1 DEF Kept
    <3> QED
      BY <3>1, <3>2
  <2>6. Cardinality(Recent(hotspotTime)') <= counter'
    <3>1. CASE expires = hotspotTime' /\ counter' = 0
      <4>1. Recent(hotspotTime)' = {}
        BY <1>1, <2>3, <2>4, <3>1 DEF Recent
      <4> QED
        BY <3>1, <4>1, FS_EmptySet
    <3>2. CASE counter' = counter
      <4>1. Recent(hotspotTime)' \subseteq Recent(hotspotTime)
        BY <1>1, <2>3 DEF Recent
      <4>2. IsFiniteSet(Recent(hotspotTime)) /\ Cardinality(Recent(hotspotTime)) \in Nat
        BY <1>1, <2>3, RecentIsFinite
      <4>3. Cardinality(Recent(hotspotTime)') <= Cardinality(Recent(hotspotTime))
            /\ Cardinality(Recent(hotspotTime)') \in Nat
        BY <4>1, <4>2, FS_Subset, FS_CardinalityType
      <4>4. Cardinality(Recent(hotspotTime)) <= counter /\ counter \in Nat
        BY <1>1, <2>2 DEF CountsInv, HotspotTypes
      <4> QED
        BY <3>2, <4>2, <4>3, <4>4
    <3> QED
      BY <1>1, <3>1, <3>2
  <2>7. \A m \in DOMAIN report : WithinWindow(m)' = WithinWindow(m)
    BY <1>1 DEF WithinWindow
  <2>8. \A m \in DOMAIN report : report[m].at <= hotspotTime'
    BY <1>1, <2>3, <2>4
  <2> QED
    BY <1>1, <2>2, <2>5, <2>6, <2>7, <2>8 DEF CountsInv
<1> QED
  BY <1>2, <1>3 DEF HotspotInv

LEMMA HotspotStays ==
    ASSUME HotspotInv, UNCHANGED hotspotVars
    PROVE  HotspotInv'
BY DEF hotspotVars, HotspotInv, HotspotTypes, CountsInv, Recent, WithinWindow, Kept

LEMMA HotspotStep == HotspotInv /\ [HotspotNext]_hotspotVars => HotspotInv'
<1> SUFFICES ASSUME HotspotInv, [HotspotNext]_hotspotVars PROVE HotspotInv'
  OBVIOUS
<1>1. CASE UNCHANGED hotspotVars
  BY <1>1, HotspotStays
<1>2. CASE CountReport
  BY <1>2, StepCountReport
<1>3. CASE HotspotTick
  BY <1>3, StepHotspotTick
<1>4. ASSUME NEW n \in 1..MaxReports, Renew(n) PROVE HotspotInv'
  BY <1>4, StepRenew
<1>5. ASSUME NEW n \in 1..MaxReports, TellAdmins(n) PROVE HotspotInv'
  BY <1>5, StepTellAdmins
<1>6. ASSUME NEW n \in 1..MaxReports, HandlerDies(n) PROVE HotspotInv'
  BY <1>6, StepHandlerDies
<1> QED
  BY <1>1, <1>2, <1>3, <1>4, <1>5, <1>6 DEF HotspotNext

LEMMA HotspotInvIsEnough == HotspotInv => HotspotNotMissed
<1> SUFFICES ASSUME HotspotInv, ~heldUp, NEW n \in DOMAIN report, report[n].stage = "quiet"
             PROVE  Cardinality(WithinWindow(n)) < HotspotThreshold
  BY DEF HotspotNotMissed
<1>1. /\ Cardinality(WithinWindow(n)) <= report[n].count
      /\ report[n].count < HotspotThreshold
  BY DEF HotspotInv, CountsInv
<1>2. report[n].count \in Nat /\ HotspotThreshold \in Nat
  BY ReportTypes, HotspotAssumption DEF HotspotInv
<1>3. Cardinality(WithinWindow(n)) \in Nat
  <2>1. n \in Nat
    BY DEF HotspotInv, HotspotTypes
  <2>2. IsFiniteSet(1..n) /\ WithinWindow(n) \subseteq 1..n
    BY <2>1, FS_Interval DEF WithinWindow
  <2> QED
    BY <2>2, FS_Subset, FS_CardinalityType
<1> QED
  BY <1>1, <1>2, <1>3

\* A report that ends quietly is not the one that fills its window, whatever
\* the order of the handlers, unless one of them was held up
\* (HotspotDetector.js:38-41).
THEOREM NoHotspotMissed == HotspotSpec => []HotspotNotMissed
<1>1. HotspotSpec => []HotspotInv
  BY HotspotInitInv, HotspotStep, PTL DEF HotspotSpec
<1> QED
  BY <1>1, HotspotInvIsEnough, PTL
=============================================================================
