------------------------------ MODULE MCScreens ------------------------------
(***************************************************************************)
(* What people see: dashboard statistics, the pages' loads, the panic      *)
(* takeover, a chat, alerts, and who a window is signed in as.  The parts  *)
(* share no variable but the connections, which panic, chat and alerts use *)
(* in turn; "part" names the one that moves, and the others stay at one    *)
(* state of theirs, in which no fairness asks anything of them.            *)
(***************************************************************************)
EXTENDS DashboardStats, PageFetch, Panic, Chat, Alerts, Session, TLC

CONSTANTS reporter, officer, admin, p1, k1

VARIABLE part

TabRoles == (reporter :> "STUDENT") @@ (officer :> "SECURITY") @@ (admin :> "ADMIN")

(* Officer and reporter talk; the administrator does not open the chat. *)
ChatMessages == <<officer, reporter>>

ToCampusAndRole == <<<<"campus">>, <<"role", "ADMIN">>>>

Parts == {"stats", "pages", "panic", "chat", "alerts", "session"}

(* A page at rest: its load has failed. *)
PageRests ==
    /\ page = [Mounted(IncidentDetail) EXCEPT !.due = FALSE, !.failed = TRUE]
    /\ request = [r \in Slots |-> NoRequest]
    /\ edition = 0 /\ notices = 0 /\ told = 0 /\ moves = 0 /\ failures = 0

Init ==
    /\ part \in Parts
    /\ StatsInit
    /\ IF part = "pages" THEN PageInit ELSE PageRests
    /\ SocketsInit
    /\ PanicInit
    /\ ChatInit
    /\ AlertsInit
    /\ SessionInit

(* People and request slots are interchangeable: nothing is lost when p1   *)
(* is the first to sign in, and k1 is used whenever it is free.            *)
FirstOfAll ==
    /\ holder' # <<>> => holder'[1] = p1
    /\ sent[k1].kind = "none" =>
        \A c \in SessionCalls \ {k1} : sent[c].kind = "none" => sent'[c].kind = "none"

Move(p, next, others) == part = p /\ next /\ UNCHANGED <<part, others>>

Step ==
    \/ Move("stats", Next,
            <<pageVars, socketVars, panicVars, chatVars, alertVars, sessionVars>>)
    \/ Move("pages", PageNext,
            <<statsVars, socketVars, panicVars, chatVars, alertVars, sessionVars>>)
    \/ Move("panic", PanicNext, <<statsVars, pageVars, chatVars, alertVars, sessionVars>>)
    \/ Move("chat", ChatNext /\ ~chat'[admin].open,
            <<statsVars, pageVars, panicVars, alertVars, sessionVars>>)
    \/ Move("alerts", AlertsNext, <<statsVars, pageVars, panicVars, chatVars, sessionVars>>)
    \/ Move("session", SessionNext /\ FirstOfAll,
            <<statsVars, pageVars, socketVars, panicVars, chatVars, alertVars>>)

ScreensSpec ==
    /\ Init
    /\ [][Step]_<<part, statsVars, pageVars, socketVars, panicVars, chatVars, alertVars, sessionVars>>
    /\ PageFairness
=============================================================================
