------------------------------ MODULE MCPeople ------------------------------
(***************************************************************************)
(* Accounts, the rate limiter, rosters, the pick of staff, commands,       *)
(* hotspots, notifications and summaries share no variable, so a run of    *)
(* the whole is a run of each: "part" names the one that moves, and the    *)
(* others stay at one state of theirs, in which no fairness asks anything  *)
(* of them.                                                                *)
(***************************************************************************)
EXTENDS Accounts, RateLimiter, Staffing, Commands, Hotspots, Notifications, DailySummary, TLC

CONSTANTS d1, m1, m2, o1

VARIABLE part

Worker(days, from, to, load) ==
    [role |-> "MAINTENANCE", department |-> d1, state |-> "ACTIVE",
     days |-> days, start |-> from, end |-> to, load |-> load]

Officer(load) ==
    [role |-> "SECURITY", department |-> d1, state |-> "ACTIVE",
     days |-> {}, start |-> NoTime, end |-> NoTime, load |-> load]

(* Every roster of one worker. *)
AllShifts ==
    {(m1 :> Worker(days, from, to, 0)) @@ (m2 :> Worker({0}, NoTime, 0, 0)) @@ (o1 :> Officer(0)) :
        days \in SUBSET (0..(WeekLength - 1)),
        from \in 0..(DayLength - 1),
        to \in 0..(DayLength - 1)}

(* A day worker and one who works long or overnight, with an officer who   *)
(* has one task.                                                           *)
MixedTeams ==
    {(m1 :> Worker({0}, 1, 6, 1)) @@ (m2 :> Worker({0, 1}, from, to, 2)) @@ (o1 :> Officer(0)) :
        from \in {0, 6},
        to \in {4, 5}}

AllRosters == AllShifts \cup MixedTeams

Init ==
    /\ part \in {"accounts", "limiter", "rosters", "staffing", "reassigning", "alerting",
                "hotspots", "publishing", "notifying", "summaries"}
    /\ AccountsInit
    /\ LimiterInit
    /\ StaffingInit
    /\ CommandsInit
    /\ HotspotInit
    /\ NotificationInit
    /\ SummaryInit
    /\ part # "summaries" => zone = 0
    /\ part = "rosters" => user \in AllShifts
    /\ part # "rosters" => user \in MixedTeams
    /\ part \notin {"rosters", "staffing"} => user = CHOOSE u \in MixedTeams : TRUE
    /\ part # "staffing" => clock = 0 /\ department[d1].strategy = "MANUAL"
    /\ origin = Nobody

Move(p, next, others) == part = p /\ next /\ UNCHANGED <<part, others>>

(* Commands on the incident and on alerts have no object in common. *)
Unused(commands) == \A c \in commands : command'[c].stage = "none"

Next ==
    \/ Move("accounts", AccountsNext,
            <<limiterVars, staffingVars, commandVars, hotspotVars, notificationVars, summaryVars>>)
    \/ Move("limiter", LimiterNext,
            <<accountVars, staffingVars, commandVars, hotspotVars, notificationVars, summaryVars>>)
    \/ Move("staffing", StaffingNext,
            <<accountVars, limiterVars, commandVars, hotspotVars, notificationVars, summaryVars>>)
    \/ Move("reassigning", CommandsNext /\ Unused(AlertCommands),
            <<accountVars, limiterVars, staffingVars, hotspotVars, notificationVars, summaryVars>>)
    \/ Move("alerting", CommandsNext /\ Unused(AssignCommands),
            <<accountVars, limiterVars, staffingVars, hotspotVars, notificationVars, summaryVars>>)
    \/ Move("hotspots", HotspotNext,
            <<accountVars, limiterVars, staffingVars, commandVars, notificationVars, summaryVars>>)
    \/ Move("publishing", NotificationNext /\ UNCHANGED notice,
            <<accountVars, limiterVars, staffingVars, commandVars, hotspotVars, summaryVars>>)
    \/ Move("notifying", NotificationNext /\ UNCHANGED publishing /\ UNCHANGED observer,
            <<accountVars, limiterVars, staffingVars, commandVars, hotspotVars, summaryVars>>)
    \/ Move("summaries", SummaryNext,
            <<accountVars, limiterVars, staffingVars, commandVars, hotspotVars, notificationVars>>)

Spec ==
    /\ Init
    /\ [][Next]_<<part, accountVars, limiterVars, staffingVars, commandVars, hotspotVars, notificationVars,
             summaryVars>>
    /\ AccountsFairness
=============================================================================
