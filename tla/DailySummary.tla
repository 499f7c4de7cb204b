---------------------------- MODULE DailySummary ----------------------------
(***************************************************************************)
(* The summary of a day's incidents.  At startup the scheduler registers,  *)
(* for each department, a job that repeats at seven in the morning, with   *)
(* the date of that startup in its data; the worker reads the department's *)
(* incidents of that date, has a model put them into words and stores the  *)
(* result, for all departments alike, in the one row of the date.          *)
(***************************************************************************)
EXTENDS Naturals, FiniteSets

CONSTANTS
    Divisions,      \* departments
    MaxDays,        \* bound on days
    MaxOccurrences, \* bound on a department's incidents of a day
    MaxRestarts,    \* bound on startups and stalled jobs
    Concurrency,    \* of the worker
    NoJob,
    NoSummary

ASSUME SummaryAssumption ==
    /\ MaxDays \in Nat \ {0}
    /\ MaxOccurrences \in Nat
    /\ MaxRestarts \in Nat
    /\ NoJob \notin Nat

VARIABLES
    hour,       \* <<day, "night" or "day">>: seven o'clock lies in between
    zone,       \* 1 where local midnight falls on the day before in UTC
    happened,   \* <<department, day>> -> incidents created
    repeating,  \* department -> NoJob, or the date in its repeating job
    task,       \* department -> the instance of that job that is due
    summary,    \* date -> NoSummary, or its row
    restarts

summaryVars == <<hour, zone, happened, repeating, task, summary, restarts>>

Days == 1..MaxDays

(* startOfDay.toISOString().split('T')[0] *)
RowDate(day) == day - zone

NoTask == [stage |-> "none", day |-> 0, listed |-> 0, read |-> 0]

SummaryInit ==
    /\ hour = <<1, "night">>
    /\ zone \in {0, 1}
    /\ happened = [k \in Divisions \X Days |-> 0]
    /\ repeating = [d \in Divisions |-> NoJob]
    /\ task = [d \in Divisions |-> NoTask]
    /\ summary = [date \in 0..MaxDays |-> NoSummary]
    /\ restarts = 0

Today == hour[1]

(* A report of department d. *)
Occur(d) ==
    /\ happened[<<d, Today>>] < MaxOccurrences
    /\ happened' = [happened EXCEPT ![<<d, Today>>] = @ + 1]
    /\ UNCHANGED <<hour, zone, repeating, task, summary, restarts>>

(* At startup.  A registration that exists under the job's id may keep the *)
(* data it was made with.                                                  *)
ScheduleDailySummary(d) ==
    /\ restarts < MaxRestarts
    /\ restarts' = restarts + 1
    /\ \/ repeating' = [repeating EXCEPT ![d] = Today]
       \/ repeating[d] # NoJob /\ UNCHANGED repeating
    /\ UNCHANGED <<hour, zone, happened, task, summary>>

(* Night follows day; at seven the jobs are due that are not already.      *)
NightAndDay ==
    /\ hour' = IF hour[2] = "night" THEN <<Today, "day">> ELSE <<Today + 1, "night">>
    /\ hour'[1] \in Days
    /\ task' = [d \in Divisions |->
                    IF hour[2] = "night" /\ repeating[d] # NoJob /\ task[d].stage = "none"
                    THEN [NoTask EXCEPT !.stage = "due", !.day = repeating[d]]
                    ELSE task[d]]
    /\ UNCHANGED <<zone, happened, repeating, summary, restarts>>

Running == {d \in Divisions : task[d].stage = "asking"}

Ended(d) == task' = [task EXCEPT ![d] = NoTask]

(* Read the department's incidents of the date; without any that is all.   *)
ReadIncidents(d) ==
    LET listed == happened[<<d, task[d].day>>] IN
    /\ task[d].stage = "due"
    /\ Cardinality(Running) < Concurrency
    /\ IF listed = 0
       THEN Ended(d)
       ELSE task' = [task EXCEPT ![d] = [@ EXCEPT !.stage = "asking", !.listed = listed,
                                                  !.read = Today]]
    /\ UNCHANGED <<hour, zone, happened, repeating, summary, restarts>>

(* The model refuses, or the upsert does: nothing is stored, and nothing   *)
(* asks again before the next morning.                                     *)
TaskFails(d) ==
    /\ task[d].stage = "asking"
    /\ Ended(d)
    /\ UNCHANGED <<hour, zone, happened, repeating, summary, restarts>>

(* The process dies: BullMQ delivers the stalled job again. *)
TaskStalls(d) ==
    /\ task[d].stage = "asking"
    /\ restarts < MaxRestarts
    /\ restarts' = restarts + 1
    /\ task' = [task EXCEPT ![d].stage = "due"]
    /\ UNCHANGED <<hour, zone, happened, repeating, summary>>

Written(d) ==
    [text |-> [department |-> d, day |-> task[d].day, listed |-> task[d].listed,
               read |-> task[d].read],
     totalNew |-> task[d].listed]

(* (mutant) the update leaves the numbers of the create. *)
StoreTextOnly(d) ==
    LET date == RowDate(task[d].day) IN
    /\ task[d].stage = "asking"
    /\ summary' = [summary EXCEPT ![date] =
                    IF @ = NoSummary THEN Written(d) ELSE [@ EXCEPT !.text = Written(d).text]]
    /\ Ended(d)
    /\ UNCHANGED <<hour, zone, happened, repeating, restarts>>

(* The upsert of the date's row, whichever department's it was. *)
StoreSummary(d) ==
    /\ task[d].stage = "asking"
    /\ summary' = [summary EXCEPT ![RowDate(task[d].day)] = Written(d)]
    /\ Ended(d)
    /\ UNCHANGED <<hour, zone, happened, repeating, restarts>>

SummaryNext ==
    \/ NightAndDay
    \/ \E d \in Divisions :
        \/ Occur(d) \/ ScheduleDailySummary(d)
        \/ ReadIncidents(d) \/ TaskFails(d) \/ TaskStalls(d) \/ StoreSummary(d)

SummarySpec == SummaryInit /\ [][SummaryNext]_summaryVars

-----------------------------------------------------------------------------

(* Whatever departments, retries and mornings overwrite it with, a row is  *)
(* about one department and one day: its numbers are those of its text,    *)
(* that day is the row's date as the server's zone writes it, and the text *)
(* lists every incident of the department on that day unless it was read   *)
(* before the day was over (ai.worker.js:59-113).  The day need not be the *)
(* one before the morning, nor the department the reader's.                *)
SummariesAreWhole ==
    \A date \in DOMAIN summary : summary[date] # NoSummary =>
        LET text == summary[date].text IN
        /\ summary[date].totalNew = text.listed
        /\ date = RowDate(text.day)
        /\ text.listed = happened[<<text.department, text.day>>] \/ text.read = text.day
=============================================================================
