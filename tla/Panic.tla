-------------------------------- MODULE Panic --------------------------------
(***************************************************************************)
(* The panic button, the controller that stores an emergency and tells     *)
(* security and administrators, and the full-screen takeover their tabs    *)
(* show until somebody acknowledges it.                                    *)
(***************************************************************************)
EXTENDS Sockets, FiniteSets

CONSTANTS
    Panics,         \* emergencies, 1..n in the order they are reported
    FullHold,       \* progress of the ring when the button fires
    NoPanic         \* a tab shows no takeover

ASSUME PanicAssumption ==
    /\ FullHold \in Nat \ {0}
    /\ NoPanic \notin Panics

VARIABLES
    button,     \* the reporter's button
    panic,      \* emergency -> how far the server got with it
    acks,       \* rows of PanicAcknowledgement: <<emergency, officer>>
    call,       \* officer's tab -> its acknowledgement under way
    screen,     \* tab -> what its GlobalSocketListener shows
    announced,  \* <<emergency, officer>> the controller told everybody of
    silent,     \* rows whose announcement a crash prevented
    missed      \* <<tab, emergency>>: told while the tab could not hear

panicVars == <<button, panic, acks, call, screen, announced, silent, missed>>

Officers == {t \in Tabs : Role[t] = "SECURITY"}

(* Roles the takeover is for. *)
Alerted(t) == Role[t] \in {"ADMIN", "MAINTENANCE", "SECURITY"}

Released ==
    [holding |-> FALSE, progress |-> 0, interval |-> FALSE,
     effectDue |-> FALSE, loading |-> FALSE, cooling |-> FALSE]

Blank(subscribed) == [takeover |-> NoPanic, acking |-> FALSE, subscribed |-> subscribed]

PanicInit ==
    /\ button = Released
    /\ panic = [p \in Panics |-> "none"]
    /\ acks = {}
    /\ call = [t \in Officers |-> [stage |-> "idle", on |-> NoPanic]]
    /\ screen = [t \in Tabs |-> Blank(TRUE)]
    /\ announced = {}
    /\ silent = {}
    /\ missed = {}

serverVars == <<panic, acks, call, announced, silent>>
reporterUnchanged == UNCHANGED <<serverVars, screen, missed, socketVars>>

-----------------------------------------------------------------------------
(* The button. *)

StartHold ==
    /\ ~button.loading /\ ~button.cooling /\ ~button.holding /\ ~button.effectDue
    /\ button' = [button EXCEPT
                    !.holding = TRUE, !.progress = 0, !.interval = TRUE]
    /\ reporterUnchanged

(* The interval measures how long the button has been down: the progress   *)
(* is whatever time has passed, more than one period when the page was     *)
(* busy.  A progress that differs makes the effect that depends on it run  *)
(* again after the render.                                                 *)
HoldTick ==
    /\ button.interval
    /\ \E progress \in (button.progress + 1)..FullHold :
        button' = IF progress < FullHold
                  THEN [button EXCEPT !.progress = progress, !.effectDue = TRUE]
                  ELSE [button EXCEPT !.interval = FALSE, !.loading = TRUE,
                                      !.holding = FALSE, !.progress = 0, !.effectDue = TRUE]
    /\ reporterUnchanged

(* The effect's cleanup clears the interval and the effect listens for the *)
(* release again.                                                          *)
HoldEffect ==
    /\ button.effectDue
    /\ button' = [button EXCEPT !.effectDue = FALSE, !.interval = FALSE]
    /\ reporterUnchanged

CancelHold ==
    /\ button.holding /\ ~button.loading
    /\ button' = [button EXCEPT !.holding = FALSE, !.interval = FALSE,
                                !.effectDue = @ \/ button.progress # 0, !.progress = 0]
    /\ reporterUnchanged

CooldownEnds ==
    /\ button.cooling
    /\ button' = [button EXCEPT !.cooling = FALSE]
    /\ reporterUnchanged

-----------------------------------------------------------------------------
(* POST /panic. *)

Reported(p) == p > 1 => panic[p - 1] # "none"

TriggerPanic(p) ==
    /\ button.loading
    /\ panic[p] = "none" /\ Reported(p)
    /\ \A q \in Panics : panic[q] # "stored"
    /\ panic' = [panic EXCEPT ![p] = "stored"]
    /\ UNCHANGED <<button, acks, call, announced, silent, screen, missed, socketVars>>

(* The limiter or the database refuses, or the process or its connection   *)
(* to the database dies: the row may be there by then, without an alert.   *)
TriggerFails ==
    /\ button.loading
    /\ button' = [button EXCEPT !.loading = FALSE, !.effectDue = TRUE]
    /\ panic' = [p \in Panics |-> IF panic[p] = "stored" THEN "lost" ELSE panic[p]]
    /\ UNCHANGED <<acks, call, announced, silent, screen, missed, socketVars>>

RaiseAlert(p) ==
    /\ panic[p] = "stored"
    /\ panic' = [panic EXCEPT ![p] = "raised"]
    /\ socket' = Emitted({<<"role", "SECURITY">>, <<"role", "ADMIN">>}, <<"panic_alert", p>>)
    /\ button' = [button EXCEPT !.loading = FALSE, !.cooling = TRUE, !.effectDue = TRUE]
    /\ UNCHANGED <<acks, call, announced, silent, screen, missed, drops>>

-----------------------------------------------------------------------------
(* POST /panic/:incidentId/acknowledge: the row, then the announcement. *)

Press(t) ==
    /\ screen[t].takeover # NoPanic
    /\ ~screen[t].acking
    /\ screen' = [screen EXCEPT ![t].acking = TRUE]
    /\ call' = [call EXCEPT ![t] = [stage |-> "sent", on |-> screen[t].takeover]]
    /\ UNCHANGED <<button, panic, acks, announced, silent, missed, socketVars>>

Answered(t, failed) ==
    /\ call' = [call EXCEPT ![t] = [stage |-> "idle", on |-> NoPanic]]
    /\ screen' = [screen EXCEPT ![t].acking = @ /\ ~failed]

(* (mutant) a failing insert is ignored, as the socket handler ignores it. *)
RecordAckSwallowing(t) ==
    /\ call[t].stage = "sent"
    /\ \E failed \in BOOLEAN : acks' = IF failed THEN acks ELSE acks \cup {<<call[t].on, t>>}
    /\ call' = [call EXCEPT ![t].stage = "recorded"]
    /\ UNCHANGED <<button, panic, announced, silent, screen, missed, socketVars>>

(* An officer has one row per emergency: a second one is a conflict.       *)
RecordAck(t) ==
    /\ call[t].stage = "sent"
    /\ IF <<call[t].on, t>> \in acks
       THEN Answered(t, TRUE) /\ UNCHANGED acks
       ELSE /\ acks' = acks \cup {<<call[t].on, t>>}
            /\ call' = [call EXCEPT ![t].stage = "recorded"]
            /\ UNCHANGED screen
    /\ UNCHANGED <<button, panic, announced, silent, missed, socketVars>>

(* The process dies, or the connection to the database does. *)
AckFails(t) ==
    /\ call[t].stage # "idle"
    /\ drops < MaxDrops
    /\ drops' = drops + 1
    /\ Answered(t, TRUE)
    /\ silent' = IF call[t].stage = "recorded" THEN silent \cup {<<call[t].on, t>>} ELSE silent
    /\ UNCHANGED <<button, panic, acks, announced, missed, socket>>

AnnounceTo(t, rooms) ==
    /\ call[t].stage = "recorded"
    /\ announced' = announced \cup {<<call[t].on, t>>}
    /\ socket' = Emitted(rooms, <<"panic_acknowledged_global", call[t].on>>)
    /\ missed' = missed \cup {<<u, call[t].on>> : u \in {v \in Tabs : ~socket[v].up}}
    /\ Answered(t, FALSE)
    /\ UNCHANGED <<button, panic, acks, silent, drops>>

(* (mutant) administrators are not told. *)
AnnounceToSecurity(t) == AnnounceTo(t, {<<"role", "SECURITY">>})

AnnounceAck(t) == AnnounceTo(t, {<<"role", "SECURITY">>, <<"role", "ADMIN">>})

(* An officer or an administrator over the socket: a failing insert is     *)
(* ignored, the reporter and security are told, takeovers stay.            *)
AcknowledgeOverSocket(t, p) ==
    /\ Role[t] \in {"SECURITY", "ADMIN"} /\ socket[t].up
    /\ panic[p] # "none"
    /\ \E failed \in BOOLEAN : acks' = IF failed THEN acks ELSE acks \cup {<<p, t>>}
    /\ silent' = silent \cup (acks' \ acks)
    /\ UNCHANGED <<button, panic, call, announced, screen, missed, socketVars>>

-----------------------------------------------------------------------------
(* GlobalSocketListener. *)

Subscribe(t) ==
    /\ ~screen[t].subscribed /\ socket[t].up
    /\ screen' = [screen EXCEPT ![t].subscribed = TRUE]
    /\ UNCHANGED <<button, serverVars, missed, socketVars>>

Told(t) == Head(socket[t].inbox)

HearAlert(t) ==
    /\ socket[t].inbox # <<>> /\ Told(t)[1] = "panic_alert"
    /\ socket' = Received(t)
    /\ screen' = [screen EXCEPT ![t].takeover =
                    IF screen[t].subscribed /\ Alerted(t) THEN Told(t)[2] ELSE @]
    /\ UNCHANGED <<button, serverVars, missed, drops>>

HearAck(t) ==
    /\ socket[t].inbox # <<>> /\ Told(t)[1] = "panic_acknowledged_global"
    /\ socket' = Received(t)
    /\ screen' = [screen EXCEPT ![t].takeover =
                    IF screen[t].subscribed /\ @ = Told(t)[2] THEN NoPanic ELSE @]
    /\ UNCHANGED <<button, serverVars, missed, drops>>

Underway(t) == {socket[t].inbox[n][2] : n \in DOMAIN socket[t].inbox}

TabDrops(t) ==
    /\ Drop(t)
    /\ missed' = missed \cup {<<t, p>> : p \in Underway(t)}
    /\ UNCHANGED <<button, serverVars, screen>>

TabConnects(t) ==
    /\ Connect(t)
    /\ UNCHANGED <<panicVars>>

(* A reloaded page restores its session after the listener's effect ran:   *)
(* there is no socket to subscribe to until the user goes to another page. *)
Reload(t) ==
    /\ t \in Officers => call[t].stage = "idle"
    /\ drops < MaxDrops
    /\ drops' = drops + 1
    /\ socket' = [socket EXCEPT ![t] = Down]
    /\ screen' = [screen EXCEPT ![t] = Blank(FALSE)]
    /\ missed' = missed \cup {<<t, p>> : p \in Underway(t)}
    /\ UNCHANGED <<button, serverVars>>

-----------------------------------------------------------------------------

Hold == StartHold \/ HoldTick \/ HoldEffect \/ CancelHold \/ CooldownEnds

PanicNext ==
    \/ Hold
    \/ TriggerFails
    \/ \E p \in Panics : TriggerPanic(p) \/ RaiseAlert(p)
    \/ \E t \in Officers : Press(t) \/ RecordAck(t) \/ AckFails(t) \/ AnnounceAck(t)
    \/ \E t \in Tabs, p \in Panics : AcknowledgeOverSocket(t, p)
    \/ \E t \in Tabs :
        Subscribe(t) \/ HearAlert(t) \/ HearAck(t) \/ TabDrops(t) \/ TabConnects(t) \/ Reload(t)

PanicSpec == SocketsInit /\ PanicInit /\ [][PanicNext]_<<panicVars, socketVars>>

-----------------------------------------------------------------------------

(* A takeover outlives the announcement that somebody is responding only   *)
(* on a tab that could not hear it: its connection was down, or was lost   *)
(* with the message under way (panicController.js:129, and                 *)
(* GlobalSocketListener's handlers, which compare incident ids).           *)
TakeoversEnd ==
    \A t \in Tabs, p \in Panics :
        screen[t].takeover = p /\ p \notin Underway(t) /\ (\E o \in Officers : <<p, o>> \in announced)
            => <<t, p>> \in missed

(* What the controller announces it has stored, and what is stored is      *)
(* announced, or about to be, unless the process died in between or the    *)
(* answer came over the socket (panicController.js:112,                    *)
(* panic.handler.js:18).  A retry does not help: the row is a conflict.    *)
AnnouncedIffRecorded ==
    /\ announced \subseteq acks
    /\ \A ack \in acks :
        \/ ack \in announced \cup silent
        \/ call[ack[2]] = [stage |-> "recorded", on |-> ack[1]]

(* (claim) PanicButton.jsx:215 "HOLD 2s": a button that is held, and not   *)
(* released, has raised the alert in the end.                              *)
HoldRaisesAlert == button.holding ~> ~button.holding

=============================================================================
