----------------------------- MODULE PageFetch -----------------------------
(***************************************************************************)
(* How the client's pages load what they show.  Every page runs an effect  *)
(* when what it selected or its refresh key changes: the effect issues a   *)
(* request and keeps what the response brings.  Pages differ in five ways: *)
(*   guarded   the effect's cleanup marks it cancelled, and the response   *)
(*             to a cancelled effect is ignored                            *)
(*   keeps     a failed load leaves the data shown before in place         *)
(*   live      a socket event makes the page load again                    *)
(*   filters   the user can select something else while the page is open   *)
(*   acts      a button changes data on the server, then loads again       *)
(* The server's data is an edition, counted up by every change to it.      *)
(***************************************************************************)
EXTENDS Naturals

CONSTANTS
    Selections,     \* filters, departments, texts a page may ask about
    Slots,          \* requests that may be in flight together
    MaxEditions,    \* bound on changes
    MaxMoves,       \* bound on what the user selects and opens
    MaxFailures     \* bound on failing requests

ASSUME PageAssumption ==
    /\ MaxEditions \in Nat /\ MaxMoves \in Nat /\ MaxFailures \in Nat
    /\ Selections # {}

VARIABLES
    edition,    \* of the data the server would answer with
    page,       \* the page that is open, what it selected and shows
    request,    \* slot -> request in flight
    notices,    \* socket events under way to this tab
    told,       \* the last edition such an event was sent about
    moves, failures

pageVars == <<edition, page, request, notices, told, moves, failures>>

Kind(guarded, keeps, live, filters, acts) ==
    [guarded |-> guarded, keeps |-> keeps, live |-> live, filters |-> filters, acts |-> acts]

DashboardCounts == Kind(TRUE, TRUE, TRUE, FALSE, FALSE)
RecentIncidents == Kind(TRUE, FALSE, TRUE, FALSE, FALSE)
StaffQueue == Kind(FALSE, FALSE, TRUE, FALSE, FALSE)
IncidentList == Kind(TRUE, FALSE, TRUE, TRUE, FALSE)
(* Its buttons wait for a status the answers do not carry: see DetailPage. *)
IncidentDetail == Kind(FALSE, TRUE, FALSE, FALSE, FALSE)
IncidentPanel == Kind(TRUE, TRUE, FALSE, FALSE, FALSE)
AdminAnalytics == Kind(FALSE, TRUE, FALSE, TRUE, FALSE)
PerformanceModal == Kind(TRUE, TRUE, FALSE, FALSE, FALSE)
Heatmap == Kind(FALSE, FALSE, FALSE, TRUE, FALSE)
StaffManagement == Kind(FALSE, TRUE, FALSE, FALSE, TRUE)
BroadcastAlerts == Kind(FALSE, FALSE, FALSE, FALSE, TRUE)
ReportSuggestion == Kind(FALSE, FALSE, FALSE, TRUE, FALSE)

Kinds ==
    {DashboardCounts, RecentIncidents, StaffQueue, IncidentList, IncidentDetail,
     IncidentPanel, AdminAnalytics, PerformanceModal, Heatmap, StaffManagement,
     BroadcastAlerts, ReportSuggestion}

First == CHOOSE s \in Selections : TRUE

NothingShown == [about |-> First, edition |-> 0, any |-> FALSE]

NoRequest == [stage |-> "none", act |-> FALSE, about |-> First, edition |-> 0]

(* A page that opens: its effect is due, and the responses to the page     *)
(* before it fall on a component that is gone.                             *)
Mounted(kind) ==
    [kind |-> kind, selected |-> First, shown |-> NothingShown, due |-> TRUE,
     mine |-> {}, raced |-> FALSE, failed |-> FALSE, acting |-> FALSE, own |-> 0]

PageInit ==
    /\ edition = 0
    /\ \E kind \in Kinds : page = Mounted(kind)
    /\ request = [r \in Slots |-> NoRequest]
    /\ notices = 0
    /\ told = 0
    /\ moves = 0
    /\ failures = 0

Moved == moves < MaxMoves /\ moves' = moves + 1

Navigate(kind) ==
    /\ Moved
    /\ kind # page.kind
    /\ page' = Mounted(kind)
    /\ UNCHANGED <<edition, request, notices, told, failures>>

Select(s) ==
    /\ Moved
    /\ page.kind.filters /\ page.selected # s
    /\ page' = [page EXCEPT !.selected = s, !.due = TRUE]
    /\ UNCHANGED <<edition, request, notices, told, failures>>

Sent(r, act, about) ==
    /\ request[r].stage = "none"
    /\ request' = [request EXCEPT ![r] =
                    [stage |-> "sent", act |-> act, about |-> about, edition |-> 0]]

(* The loads of this page whose answer it would take. *)
Loading == {r \in page.mine : ~request[r].act}

LoadWith(r, mine) ==
    /\ page.due
    /\ Sent(r, FALSE, page.selected)
    /\ page' = [page EXCEPT !.due = FALSE, !.raced = Loading # {}, !.mine = mine]
    /\ UNCHANGED <<edition, notices, told, moves, failures>>

(* (mutant) no page cancels. *)
LoadUncancelled(r) == LoadWith(r, page.mine \cup {r})

(* The effect runs: where the page does, the one before is cancelled. *)
Load(r) == LoadWith(r, IF page.kind.guarded THEN {r} ELSE page.mine \cup {r})

(* A button: add staff, broadcast or retract an alert.  It is disabled     *)
(* until the answer is there.                                              *)
Act(r) ==
    /\ page.kind.acts /\ ~page.acting
    /\ edition < MaxEditions
    /\ Sent(r, TRUE, page.selected)
    /\ page' = [page EXCEPT !.acting = TRUE, !.mine = @ \cup {r}]
    /\ UNCHANGED <<edition, notices, told, moves, failures>>

(* The server answers a load from its data, and does what it is asked.     *)
Serve(r) ==
    /\ request[r].stage = "sent"
    /\ edition' = IF request[r].act THEN edition + 1 ELSE edition
    /\ edition' <= MaxEditions
    /\ request' = [request EXCEPT ![r].stage = "answered", ![r].edition = edition']
    /\ UNCHANGED <<page, notices, told, moves, failures>>

RequestFails(r) ==
    /\ request[r].stage = "sent"
    /\ failures < MaxFailures
    /\ failures' = failures + 1
    /\ request' = [request EXCEPT ![r].stage = "failed"]
    /\ UNCHANGED <<edition, page, notices, told, moves>>

Acted(r) ==
    [page EXCEPT
        !.mine = @ \ {r},
        !.acting = FALSE,
        !.due = @ \/ request[r].stage = "answered",
        !.own = IF request[r].stage = "answered" THEN request[r].edition ELSE @]

Loaded(r) ==
    [page EXCEPT
        !.mine = @ \ {r},
        !.failed = request[r].stage = "failed",
        !.shown =
            IF request[r].stage = "answered"
            THEN [about |-> request[r].about, edition |-> request[r].edition, any |-> TRUE]
            ELSE IF page.kind.keeps THEN @ ELSE NothingShown]

(* Responses arrive in any order; one to a cancelled effect or to a page   *)
(* that is gone changes nothing.                                           *)
Deliver(r) ==
    /\ request[r].stage \in {"answered", "failed"}
    /\ request' = [request EXCEPT ![r] = NoRequest]
    /\ page' = IF r \notin page.mine THEN page
               ELSE IF request[r].act THEN Acted(r) ELSE Loaded(r)
    /\ UNCHANGED <<edition, notices, told, moves, failures>>

(* Somebody else changes the data.  The event is sent to this tab or not:  *)
(* most go to other rooms, and a lost connection loses it.                 *)
Change(sent) ==
    /\ edition < MaxEditions
    /\ edition' = edition + 1
    /\ notices' = IF sent THEN notices + 1 ELSE notices
    /\ told' = IF sent THEN edition' ELSE told
    /\ UNCHANGED <<page, request, moves, failures>>

(* (mutant) the refresh key is not among the effect's dependencies. *)
HearWithoutBump ==
    /\ notices > 0
    /\ notices' = notices - 1
    /\ UNCHANGED <<edition, page, request, told, moves, failures>>

(* incident_created and incident_updated bump the refresh key. *)
Hear ==
    /\ notices > 0
    /\ notices' = notices - 1
    /\ page' = [page EXCEPT !.due = @ \/ page.kind.live]
    /\ UNCHANGED <<edition, request, told, moves, failures>>

PageNext ==
    \/ \E kind \in Kinds : Navigate(kind)
    \/ \E s \in Selections : Select(s)
    \/ \E r \in Slots : Load(r) \/ Act(r) \/ Serve(r) \/ RequestFails(r) \/ Deliver(r)
    \/ \E sent \in BOOLEAN : Change(sent)
    \/ Hear

PageSpec == PageInit /\ [][PageNext]_pageVars

(* React runs effects that are due, the event loop what has arrived. *)
PageFairness ==
    /\ WF_pageVars(Hear)
    /\ WF_pageVars(\E r \in Slots : Load(r))
    /\ \A r \in Slots : WF_pageVars(Serve(r)) /\ WF_pageVars(Deliver(r))

-----------------------------------------------------------------------------

(* Two loads of a page that cancels nothing may answer in the wrong order. *)
Unordered == page.raced /\ ~page.kind.guarded

Settled == ~page.due /\ Loading = {}

(* When a page has finished loading, it shows what the user selected last, *)
(* with the user's own change in it, unless its last load failed or two    *)
(* loads of a page without a cleanup overlapped: IncidentListPage's        *)
(* cancelled flag, and the reload after handleAddStaff and handleSubmit.   *)
ShowsWhatWasAsked ==
    Settled /\ ~page.failed /\ ~Unordered =>
        /\ page.shown.any
        /\ page.shown.about = page.selected
        /\ page.shown.edition >= page.own

(* A page that listens shows in the end every change an event told it of,  *)
(* the ones that arrived while it was loading included.                    *)
LivePageCatchesUp ==
    <>[](page.kind.live /\ ~page.failed /\ ~Unordered => page.shown.edition >= told)

=============================================================================
