----------------------------- MODULE PanicProofs -----------------------------
(***************************************************************************)
(* What an acknowledgement of an emergency brings about, for any tabs,     *)
(* officers, emergencies and lost connections.                             *)
(***************************************************************************)
EXTENDS Panic, TLAPS

Message == {"panic_alert", "panic_acknowledged_global"} \X Panics

SocketOK ==
    /\ DOMAIN socket = Tabs
    /\ \A t \in Tabs :
        /\ socket[t] \in [up : BOOLEAN, rooms : {OwnRooms(t), {}}, inbox : Seq(Message)]
        /\ socket[t].up => socket[t].rooms = OwnRooms(t)
        /\ ~socket[t].up => socket[t].rooms = {} /\ socket[t].inbox = <<>>

ScreenOK ==
    screen \in [Tabs -> [takeover : Panics \cup {NoPanic}, acking : BOOLEAN, subscribed : BOOLEAN]]

CallOK ==
    /\ call \in [Officers -> [stage : {"idle", "sent", "recorded"}, on : Panics \cup {NoPanic}]]
    /\ \A t \in Officers : call[t].stage # "idle" => call[t].on \in Panics /\ screen[t].acking

(* The rows of acknowledgements: one that is still to be announced is an   *)
(* officer's, who made it over HTTP.                                       *)
RecordInv ==
    /\ acks \subseteq Panics \X Tabs
    /\ \A ack \in acks : ack \in announced \cup silent \/ ack[2] \in Officers
    /\ \A t \in Officers : call[t].stage = "recorded" => <<call[t].on, t>> \in acks
    /\ AnnouncedIffRecorded

Alert(p) == <<"panic_alert", p>>
Ack(p) == <<"panic_acknowledged_global", p>>

HasAck(inbox, p) == \E i \in DOMAIN inbox : inbox[i] = Ack(p)

AckFollows(inbox, p) ==
    \A i \in DOMAIN inbox : inbox[i] = Alert(p) => \E j \in DOMAIN inbox : j > i /\ inbox[j] = Ack(p)

IsAnnounced(p) == \E o \in Officers : <<p, o>> \in announced

Concerned(t) == Role[t] \in {"ADMIN", "SECURITY"}

Stages == {"none", "stored", "lost", "raised"}

(* Nobody knows of an emergency that was not raised, and only the roles    *)
(* that will hear of its end are alarmed.                                  *)
KnownInv ==
    /\ panic \in [Panics -> Stages]
    /\ \A p \in Panics :
        /\ IsAnnounced(p) => panic[p] = "raised"
        /\ \A t \in Officers : call[t].stage # "idle" /\ call[t].on = p => panic[p] = "raised"
        /\ \A t \in Tabs :
            /\ screen[t].takeover = p => panic[p] = "raised" /\ screen[t].subscribed /\ Concerned(t)
            /\ \A i \in DOMAIN socket[t].inbox :
                socket[t].inbox[i] = Alert(p) => panic[p] = "raised" /\ Concerned(t)

(* What ends a takeover is on its way, behind what starts it. *)
EndInv ==
    \A t \in Tabs, p \in Panics :
        IsAnnounced(p) /\ <<t, p>> \notin missed =>
            /\ screen[t].takeover = p => HasAck(socket[t].inbox, p)
            /\ AckFollows(socket[t].inbox, p)

PInv == SocketOK /\ ScreenOK /\ CallOK /\ RecordInv /\ KnownInv /\ EndInv

-----------------------------------------------------------------------------
\* Inboxes.

LEMMA Appending ==
    ASSUME NEW s \in Seq(Message), NEW m \in Message, NEW p \in Panics
    PROVE  /\ Append(s, m) \in Seq(Message)
           /\ HasAck(s, p) => HasAck(Append(s, m), p)
           /\ m # Alert(p) /\ AckFollows(s, p) => AckFollows(Append(s, m), p)
           /\ m = Ack(p) => HasAck(Append(s, m), p) /\ AckFollows(Append(s, m), p)
<1> DEFINE u == Append(s, m)
<1>1. /\ u \in Seq(Message) /\ DOMAIN u = 1..(Len(s) + 1) /\ DOMAIN s = 1..Len(s)
      /\ Len(s) \in Nat
      /\ u[Len(s) + 1] = m
      /\ \A i \in 1..Len(s) : u[i] = s[i]
  OBVIOUS
<1>2. Alert(p) # Ack(p)
  BY DEF Alert, Ack
<1> HIDE DEF u
<1>3. HasAck(s, p) => HasAck(u, p)
  BY <1>1 DEF HasAck
<1>4. ASSUME m # Alert(p), AckFollows(s, p) PROVE AckFollows(u, p)
  BY <1>1, <1>4 DEF AckFollows
<1>5. m = Ack(p) => HasAck(u, p) /\ AckFollows(u, p)
  BY <1>1, <1>2 DEF HasAck, AckFollows
<1> QED
  BY <1>1, <1>3, <1>4, <1>5 DEF u

LEMMA Taking ==
    ASSUME NEW s \in Seq(Message), s # <<>>, NEW p \in Panics
    PROVE  /\ Tail(s) \in Seq(Message) /\ Head(s) \in Message
           /\ \A i \in DOMAIN Tail(s) : \E j \in DOMAIN s : Tail(s)[i] = s[j]
           /\ HasAck(s, p) /\ Head(s) # Ack(p) => HasAck(Tail(s), p)
           /\ AckFollows(s, p) => AckFollows(Tail(s), p)
           /\ AckFollows(s, p) /\ Head(s) = Alert(p) => HasAck(Tail(s), p)
<1> DEFINE u == Tail(s)
<1>1. /\ u \in Seq(Message) /\ Head(s) \in Message /\ Head(s) = s[1]
      /\ Len(s) \in Nat \ {0} /\ DOMAIN s = 1..Len(s) /\ DOMAIN u = 1..(Len(s) - 1)
      /\ \A i \in 1..(Len(s) - 1) : u[i] = s[i + 1]
  OBVIOUS
<1> HIDE DEF u
<1>2. \A i \in DOMAIN u : \E j \in DOMAIN s : u[i] = s[j]
  BY <1>1
<1>3. \A j \in DOMAIN s : j > 1 => j - 1 \in DOMAIN u /\ u[j - 1] = s[j]
  BY <1>1
<1>4. ASSUME HasAck(s, p), Head(s) # Ack(p) PROVE HasAck(u, p)
  <2>1. PICK i \in DOMAIN s : s[i] = Ack(p)
    BY <1>4 DEF HasAck
  <2>2. i > 1
    BY <1>1, <1>4, <2>1
  <2> QED
    BY <1>3, <2>1, <2>2 DEF HasAck
<1>5. ASSUME AckFollows(s, p) PROVE AckFollows(u, p)
  <2> SUFFICES ASSUME NEW i \in DOMAIN u, u[i] = Alert(p)
               PROVE  \E j \in DOMAIN u : j > i /\ u[j] = Ack(p)
    BY DEF AckFollows
  <2>1. i + 1 \in DOMAIN s /\ s[i + 1] = Alert(p)
    BY <1>1
  <2>2. PICK j \in DOMAIN s : j > i + 1 /\ s[j] = Ack(p)
    BY <1>5, <2>1 DEF AckFollows
  <2>3. j - 1 \in DOMAIN u /\ u[j - 1] = Ack(p) /\ j - 1 > i
    BY <1>1, <1>3, <2>2
  <2> QED
    BY <2>3
<1>6. ASSUME AckFollows(s, p), Head(s) = Alert(p) PROVE HasAck(u, p)
  <2>1. 1 \in DOMAIN s /\ s[1] = Alert(p)
    BY <1>1, <1>6
  <2>2. PICK j \in DOMAIN s : j > 1 /\ s[j] = Ack(p)
    BY <1>6, <2>1 DEF AckFollows
  <2> QED
    BY <1>3, <2>2 DEF HasAck
<1> QED
  BY <1>1, <1>2, <1>4, <1>5, <1>6 DEF u

LEMMA EmptyInbox ==
    \A p \in Panics : ~HasAck(<<>>, p) /\ AckFollows(<<>>, p) /\ <<>> \in Seq(Message)
BY DEF HasAck, AckFollows

LEMMA EmptyDomain == \A inbox : inbox = <<>> => DOMAIN inbox = {}
OBVIOUS

\* Who is in the room of a role.
LEMMA RoleRooms ==
    ASSUME NEW t, NEW role
    PROVE  <<"role", role>> \in OwnRooms(t) <=> Role[t] = role
BY DEF OwnRooms

\* An emit to the rooms of security and administrators.
LEMMA EmittedToBoth ==
    ASSUME SocketOK, NEW m \in Message,
           socket' = Emitted({<<"role", "SECURITY">>, <<"role", "ADMIN">>}, m)
    PROVE  /\ SocketOK'
           /\ \A t \in Tabs :
                socket'[t].inbox = IF socket[t].up /\ Concerned(t)
                                   THEN Append(socket[t].inbox, m) ELSE socket[t].inbox
<1> DEFINE hears(t) == \E room \in {<<"role", "SECURITY">>, <<"role", "ADMIN">>} : t \in Members(room)
<1>1. ASSUME NEW t \in Tabs PROVE hears(t) <=> socket[t].up /\ Concerned(t)
  BY RoleRooms DEF Members, SocketOK, Concerned
<1>2. DOMAIN socket' = Tabs
  BY DEF Emitted
<1>3. ASSUME NEW t \in Tabs
      PROVE  socket'[t] = [socket[t] EXCEPT !.inbox = IF hears(t) THEN Append(@, m) ELSE @]
  BY DEF Emitted
<1> HIDE DEF hears
<1>4. ASSUME NEW t \in Tabs
      PROVE  /\ socket'[t].inbox = IF hears(t) THEN Append(socket[t].inbox, m) ELSE socket[t].inbox
             /\ socket'[t].up = socket[t].up /\ socket'[t].rooms = socket[t].rooms
             /\ socket'[t] \in [up : BOOLEAN, rooms : {OwnRooms(t), {}}, inbox : Seq(Message)]
  <2>1. socket[t] \in [up : BOOLEAN, rooms : {OwnRooms(t), {}}, inbox : Seq(Message)]
    BY DEF SocketOK
  <2>2. Append(socket[t].inbox, m) \in Seq(Message)
    BY <2>1
  <2> QED
    BY <1>3, <2>1, <2>2
<1> QED
  BY <1>1, <1>2, <1>4 DEF SocketOK

\* The two messages differ, and each tells its emergency.
LEMMA Messages ==
    ASSUME NEW p \in Panics, NEW q \in Panics
    PROVE  /\ Alert(p) \in Message /\ Ack(p) \in Message
           /\ Alert(p) # Ack(q)
           /\ p # q => Alert(p) # Alert(q) /\ Ack(p) # Ack(q)
           /\ Alert(p)[1] = "panic_alert" /\ Alert(p)[2] = p
           /\ Ack(p)[1] = "panic_acknowledged_global" /\ Ack(p)[2] = p
BY DEF Alert, Ack, Message

\* A message is one of the two.
LEMMA MessageIs ==
    ASSUME NEW m \in Message
    PROVE  /\ m[2] \in Panics
           /\ m[1] = "panic_alert" => m = Alert(m[2])
           /\ m[1] = "panic_acknowledged_global" => m = Ack(m[2])
BY DEF Alert, Ack, Message

-----------------------------------------------------------------------------
\* The steps.

\* The tabs, their sockets and the acknowledgements.
others == <<acks, call, announced, silent, screen, missed, socket>>

\* A connection, with the inbox it has.
LEMMA Connection ==
    ASSUME NEW t, NEW u \in BOOLEAN, NEW rooms \in {OwnRooms(t), {}}, NEW inbox \in Seq(Message),
           NEW c, c = [up |-> u, rooms |-> rooms, inbox |-> inbox]
    PROVE  /\ c \in [up : BOOLEAN, rooms : {OwnRooms(t), {}}, inbox : Seq(Message)]
           /\ c.up = u /\ c.rooms = rooms /\ c.inbox = inbox
OBVIOUS

LEMMA Opened ==
    ASSUME NEW t
    PROVE  /\ Connected(t) \in [up : BOOLEAN, rooms : {OwnRooms(t), {}}, inbox : Seq(Message)]
           /\ Connected(t).up /\ Connected(t).rooms = OwnRooms(t) /\ Connected(t).inbox = <<>>
<1>0. <<>> \in Seq(Message)
  OBVIOUS
<1>1. PICK inbox \in Seq(Message) : inbox = <<>>
  BY <1>0, Zenon
<1>2. Connected(t) = [up |-> TRUE, rooms |-> OwnRooms(t), inbox |-> inbox]
  BY <1>1 DEF Connected
<1> QED
  BY <1>1, <1>2, Connection

LEMMA Closed ==
    ASSUME NEW t
    PROVE  /\ Down \in [up : BOOLEAN, rooms : {OwnRooms(t), {}}, inbox : Seq(Message)]
           /\ ~Down.up /\ Down.rooms = {} /\ Down.inbox = <<>>
<1>0. <<>> \in Seq(Message)
  OBVIOUS
<1>1. PICK inbox \in Seq(Message) : inbox = <<>>
  BY <1>0, Zenon
<1>2. Down = [up |-> FALSE, rooms |-> {}, inbox |-> inbox]
  BY <1>1 DEF Down
<1> QED
  BY <1>1, <1>2, Connection

LEMMA InitPInv == SocketsInit /\ PanicInit => PInv
<1> SUFFICES ASSUME SocketsInit, PanicInit PROVE PInv
  OBVIOUS
<1>1. DOMAIN socket = Tabs /\ \A t \in Tabs : socket[t] = Connected(t)
  BY DEF SocketsInit
<1>2. SocketOK
  BY <1>1, Opened DEF SocketOK
<1>3. ScreenOK /\ \A t \in Tabs : screen[t].takeover = NoPanic
  BY DEF ScreenOK, PanicInit, Blank
<1>4. CallOK /\ \A t \in Officers : call[t].stage = "idle"
  BY DEF CallOK, PanicInit
<1>5. RecordInv
  BY <1>4 DEF RecordInv, AnnouncedIffRecorded, PanicInit
<1>6. KnownInv
  <2>1. \A p \in Panics : ~IsAnnounced(p) /\ panic[p] = "none" /\ p # NoPanic
    BY PanicAssumption DEF IsAnnounced, PanicInit
  <2>2. panic \in [Panics -> Stages]
    BY DEF PanicInit, Stages
  <2>3. \A t \in Tabs : DOMAIN socket[t].inbox = {}
    BY <1>1, Opened, EmptyDomain
  <2> QED
    BY <1>3, <1>4, <2>1, <2>2, <2>3 DEF KnownInv
<1>7. EndInv
  BY DEF EndInv, IsAnnounced, PanicInit
<1> QED
  BY <1>2, <1>3, <1>4, <1>5, <1>6, <1>7 DEF PInv

\* The reporter's button, and the row of an emergency before it is announced.
LEMMA StepQuiet ==
    ASSUME PInv, UNCHANGED others,
           panic' \in [Panics -> Stages],
           \A p \in Panics : panic[p] = "raised" => panic'[p] = "raised"
    PROVE  PInv'
<1> USE DEF others
<1>1. SocketOK' /\ ScreenOK' /\ CallOK' /\ RecordInv'
  BY DEF PInv, SocketOK, ScreenOK, CallOK, RecordInv, AnnouncedIffRecorded
<1>3. EndInv'
  BY DEF PInv, EndInv, IsAnnounced
<1>2. KnownInv'
  BY DEF PInv, KnownInv, IsAnnounced
<1> QED
  BY <1>1, <1>2, <1>3 DEF PInv

LEMMA StepButton ==
    ASSUME PInv, Hold PROVE PInv'
<1>1. UNCHANGED others /\ panic' = panic
  BY DEF Hold, StartHold, HoldTick, HoldEffect, CancelHold, CooldownEnds,
         reporterUnchanged, serverVars, socketVars, others
<1> QED
  BY <1>1, StepQuiet DEF PInv, KnownInv

LEMMA StepTriggerFails ==
    ASSUME PInv, TriggerFails PROVE PInv'
<1>1. UNCHANGED others
  BY DEF TriggerFails, socketVars, others
<1>2. panic' = [p \in Panics |-> IF panic[p] = "stored" THEN "lost" ELSE panic[p]]
  BY DEF TriggerFails
<1>3. panic \in [Panics -> Stages]
  BY DEF PInv, KnownInv
<1>4. panic' \in [Panics -> Stages] /\ \A p \in Panics : panic[p] = "raised" => panic'[p] = "raised"
  BY <1>2, <1>3 DEF Stages
<1> QED
  BY <1>1, <1>4, StepQuiet

LEMMA StepTriggerPanic ==
    ASSUME PInv, NEW p \in Panics, TriggerPanic(p) PROVE PInv'
<1>1. UNCHANGED others /\ panic' = [panic EXCEPT ![p] = "stored"] /\ panic[p] = "none"
  BY DEF TriggerPanic, socketVars, others
<1> QED
  BY <1>1, StepQuiet DEF PInv, KnownInv, Stages

LEMMA StepRaiseAlert ==
    ASSUME PInv, NEW p \in Panics, RaiseAlert(p) PROVE PInv'
<1>1. /\ panic[p] = "stored" /\ panic' = [panic EXCEPT ![p] = "raised"]
      /\ socket' = Emitted({<<"role", "SECURITY">>, <<"role", "ADMIN">>}, Alert(p))
      /\ UNCHANGED <<acks, call, announced, silent, screen, missed>>
  BY DEF RaiseAlert, Alert
<1>2. Alert(p) \in Message
  BY Messages
<1>3. /\ SocketOK'
      /\ \A t \in Tabs : socket'[t].inbox = IF socket[t].up /\ Concerned(t)
                                            THEN Append(socket[t].inbox, Alert(p)) ELSE socket[t].inbox
  BY <1>1, <1>2, EmittedToBoth DEF PInv
<1>4. ScreenOK' /\ CallOK' /\ RecordInv'
  BY <1>1 DEF PInv, ScreenOK, CallOK, RecordInv, AnnouncedIffRecorded
<1>5. \A t \in Tabs : socket[t].inbox \in Seq(Message)
  BY DEF PInv, SocketOK
<1>6. KnownInv'
  <2>1. panic' \in [Panics -> Stages]
        /\ panic'[p] = "raised" /\ \A q \in Panics : panic[q] = "raised" => panic'[q] = "raised"
    BY <1>1 DEF PInv, KnownInv, Stages
  <2>2. ASSUME NEW q \in Panics, NEW t \in Tabs, NEW i \in DOMAIN socket'[t].inbox,
               socket'[t].inbox[i] = Alert(q)
        PROVE  panic'[q] = "raised" /\ Concerned(t)
    <3>1. CASE socket'[t].inbox = socket[t].inbox
      BY <2>1, <2>2, <3>1 DEF PInv, KnownInv
    <3>2. CASE Concerned(t) /\ socket'[t].inbox = Append(socket[t].inbox, Alert(p))
      <4>1. (i \in DOMAIN socket[t].inbox /\ socket[t].inbox[i] = Alert(q)) \/ Alert(q) = Alert(p)
        BY <1>2, <1>5, <2>2, <3>2
      <4>2. Alert(q) = Alert(p) => q = p
        BY Messages
      <4> QED
        BY <2>1, <3>2, <4>1, <4>2 DEF PInv, KnownInv
    <3> QED
      BY <1>3, <3>1, <3>2
  <2> QED
    BY <1>1, <2>1, <2>2 DEF PInv, KnownInv, IsAnnounced, Concerned
<1>7. EndInv'
  <2> SUFFICES ASSUME NEW t \in Tabs, NEW q \in Panics, IsAnnounced(q), <<t, q>> \notin missed
               PROVE  /\ screen[t].takeover = q => HasAck(socket'[t].inbox, q)
                      /\ AckFollows(socket'[t].inbox, q)
    BY <1>1 DEF EndInv, IsAnnounced, HasAck, AckFollows
  <2>1. q # p
    BY <1>1 DEF PInv, KnownInv
  <2>2. Alert(p) # Alert(q)
    BY <2>1, Messages
  <2>3. (screen[t].takeover = q => HasAck(socket[t].inbox, q)) /\ AckFollows(socket[t].inbox, q)
    BY DEF PInv, EndInv
  <2> QED
    BY <1>2, <1>3, <1>5, <2>2, <2>3, Appending
<1> QED
  BY <1>3, <1>4, <1>6, <1>7 DEF PInv

\* A row nobody knows the fate of is one its officer's call is about to announce.
LEMMA CallFields ==
    ASSUME NEW c, NEW stage, NEW on, c = [stage |-> stage, on |-> on]
    PROVE  c.stage = stage /\ c.on = on
OBVIOUS

LEMMA Unannounced ==
    ASSUME RecordInv, NEW ack \in acks, ack \notin announced \cup silent
    PROVE  /\ ack[2] \in Officers /\ ack = <<ack[1], ack[2]>>
           /\ call[ack[2]].stage = "recorded" /\ call[ack[2]].on = ack[1]
<1>1. call[ack[2]] = [stage |-> "recorded", on |-> ack[1]]
  BY DEF RecordInv, AnnouncedIffRecorded
<1>2. ack \in Panics \X Tabs /\ ack[2] \in Officers
  BY DEF RecordInv
<1> QED
  BY <1>1, <1>2, CallFields

\* The officer's call: the screen, the sockets and the emergencies stay.
LEMMA StepPress ==
    ASSUME PInv, NEW t \in Officers, Press(t) PROVE PInv'
<1>1. /\ screen[t].takeover # NoPanic /\ ~screen[t].acking
      /\ screen' = [screen EXCEPT ![t].acking = TRUE]
      /\ call' = [call EXCEPT ![t] = [stage |-> "sent", on |-> screen[t].takeover]]
      /\ UNCHANGED <<panic, acks, announced, silent, missed, socket>>
  BY DEF Press, socketVars
<1>2. t \in Tabs
  BY DEF Officers
<1>3. screen[t].takeover \in Panics /\ call[t].stage = "idle"
  BY <1>1, <1>2 DEF PInv, ScreenOK, CallOK
<1>4. SocketOK'
  BY <1>1 DEF PInv, SocketOK
<1>5. /\ ScreenOK'
      /\ \A v \in Tabs : /\ screen'[v].takeover = screen[v].takeover
                         /\ screen'[v].subscribed = screen[v].subscribed
                         /\ screen'[v].acking = (v = t \/ screen[v].acking)
  BY <1>1, <1>2 DEF PInv, ScreenOK
<1>6. /\ call' \in [Officers -> [stage : {"idle", "sent", "recorded"}, on : Panics \cup {NoPanic}]]
      /\ call'[t].stage = "sent" /\ call'[t].on = screen[t].takeover
      /\ \A v \in Officers \ {t} : call'[v] = call[v]
  BY <1>1, <1>3 DEF PInv, CallOK
<1>7. CallOK'
  BY <1>3, <1>5, <1>6 DEF PInv, CallOK, Officers
<1>8. RecordInv'
  <2>1. \A ack \in acks : ack[2] = t => ack \in announced \cup silent
    BY <1>3, Unannounced DEF PInv
  <2>2. \A ack \in acks : ack \in announced \cup silent \/ ack[2] \in Officers
    BY DEF PInv, RecordInv
  <2> QED
    BY <1>1, <1>6, <2>1, <2>2 DEF PInv, RecordInv, AnnouncedIffRecorded
<1>9. KnownInv'
  <2>1. panic' = panic /\ panic \in [Panics -> Stages]
    BY <1>1 DEF PInv, KnownInv
  <2>2. \A v \in Officers, q \in Panics :
            call'[v].stage # "idle" /\ call'[v].on = q => panic[q] = "raised"
    BY <1>3, <1>6 DEF PInv, KnownInv, Officers
  <2>3. \A v \in Tabs, q \in Panics : screen'[v].takeover = q =>
            panic[q] = "raised" /\ screen'[v].subscribed /\ Concerned(v)
    BY <1>5 DEF PInv, KnownInv
  <2> QED
    BY <1>1, <2>1, <2>2, <2>3 DEF PInv, KnownInv, IsAnnounced, Concerned
<1>10. EndInv'
  BY <1>1, <1>5 DEF PInv, EndInv, IsAnnounced
<1> QED
  BY <1>4, <1>5, <1>7, <1>8, <1>9, <1>10 DEF PInv

\* What the end of a call leaves.
LEMMA AfterAnswer ==
    ASSUME PInv, NEW t \in Officers, NEW failed \in BOOLEAN, Answered(t, failed)
    PROVE  /\ ScreenOK' /\ CallOK'
           /\ call'[t].stage = "idle" /\ \A v \in Officers \ {t} : call'[v] = call[v]
           /\ \A v \in Tabs : /\ screen'[v].takeover = screen[v].takeover
                              /\ screen'[v].subscribed = screen[v].subscribed
<1>1. /\ screen' = [screen EXCEPT ![t].acking = @ /\ ~failed]
      /\ call' = [call EXCEPT ![t] = [stage |-> "idle", on |-> NoPanic]]
      /\ t \in Tabs
  BY DEF Answered, Officers
<1>2. /\ ScreenOK'
      /\ \A v \in Tabs : /\ screen'[v].takeover = screen[v].takeover
                         /\ screen'[v].subscribed = screen[v].subscribed
                         /\ v # t => screen'[v].acking = screen[v].acking
  BY <1>1 DEF PInv, ScreenOK
<1>3. /\ call' \in [Officers -> [stage : {"idle", "sent", "recorded"}, on : Panics \cup {NoPanic}]]
      /\ call'[t].stage = "idle" /\ \A v \in Officers \ {t} : call'[v] = call[v]
  BY <1>1 DEF PInv, CallOK
<1>4. CallOK'
  BY <1>2, <1>3 DEF PInv, CallOK, Officers
<1> QED
  BY <1>2, <1>3, <1>4

LEMMA StepRecordAck ==
    ASSUME PInv, NEW t \in Officers, RecordAck(t) PROVE PInv'
<1>1. /\ call[t].stage = "sent"
      /\ UNCHANGED <<panic, announced, silent, missed, socket>>
  BY DEF RecordAck, socketVars
<1>2. SocketOK'
  BY <1>1 DEF PInv, SocketOK
<1>3. t \in Tabs /\ call[t].on \in Panics
  BY <1>1 DEF Officers, PInv, CallOK
<1>4. CASE <<call[t].on, t>> \in acks
  <2>1. Answered(t, TRUE) /\ acks' = acks
    BY <1>4 DEF RecordAck
  <2>2. /\ ScreenOK' /\ CallOK'
        /\ call'[t].stage = "idle" /\ \A v \in Officers \ {t} : call'[v] = call[v]
        /\ \A v \in Tabs : /\ screen'[v].takeover = screen[v].takeover
                           /\ screen'[v].subscribed = screen[v].subscribed
    BY <2>1, AfterAnswer
  <2>3. RecordInv'
    <3>1. \A ack \in acks : ack[2] = t => ack \in announced \cup silent
      BY <1>1, Unannounced DEF PInv
    <3>2. \A ack \in acks : ack \in announced \cup silent \/ ack[2] \in Officers
      BY DEF PInv, RecordInv
    <3> QED
      BY <1>1, <2>1, <2>2, <3>1, <3>2 DEF PInv, RecordInv, AnnouncedIffRecorded
  <2>4. KnownInv'
    BY <1>1, <2>2 DEF PInv, KnownInv, IsAnnounced, Concerned
  <2>5. EndInv'
    BY <1>1, <2>2 DEF PInv, EndInv, IsAnnounced
  <2> QED
    BY <1>2, <2>2, <2>3, <2>4, <2>5 DEF PInv
<1>5. CASE <<call[t].on, t>> \notin acks
  <2>1. /\ acks' = acks \cup {<<call[t].on, t>>}
        /\ call' = [call EXCEPT ![t].stage = "recorded"]
        /\ screen' = screen
    BY <1>5 DEF RecordAck
  <2>2. /\ call' \in [Officers -> [stage : {"idle", "sent", "recorded"}, on : Panics \cup {NoPanic}]]
        /\ call'[t].stage = "recorded" /\ call'[t].on = call[t].on
        /\ call'[t] = [stage |-> "recorded", on |-> call[t].on]
        /\ \A v \in Officers \ {t} : call'[v] = call[v]
    BY <2>1 DEF PInv, CallOK
  <2>3. CallOK' /\ ScreenOK'
    BY <1>1, <2>1, <2>2 DEF PInv, CallOK, ScreenOK
  <2>4. RecordInv'
    <3>1. \A ack \in acks : ack[2] = t => ack \in announced \cup silent
      BY <1>1, Unannounced DEF PInv
    <3>2. acks' \subseteq Panics \X Tabs
      BY <1>3, <2>1 DEF PInv, RecordInv
    <3>3. ASSUME NEW ack \in acks'
          PROVE  \/ ack \in announced \cup silent
                 \/ call'[ack[2]] = [stage |-> "recorded", on |-> ack[1]]
      <4>1. CASE ack = <<call[t].on, t>>
        BY <2>2, <4>1
      <4>2. CASE ack # <<call[t].on, t>> /\ ack[2] # t
        BY <2>1, <2>2, <3>2, <4>2 DEF PInv, RecordInv, AnnouncedIffRecorded
      <4>3. CASE ack # <<call[t].on, t>> /\ ack[2] = t
        BY <2>1, <3>1, <4>3
      <4> QED
        BY <4>1, <4>2, <4>3
    <3> QED
      BY <1>1, <2>1, <2>2, <3>2, <3>3 DEF PInv, RecordInv, AnnouncedIffRecorded
  <2>5. KnownInv'
    <3>1. \A v \in Officers : call'[v].stage # "idle" => call[v].stage # "idle" /\ call'[v].on = call[v].on
      BY <1>1, <2>2
    <3> QED
      BY <1>1, <2>1, <3>1 DEF PInv, KnownInv, IsAnnounced, Concerned
  <2>6. EndInv'
    BY <1>1, <2>1 DEF PInv, EndInv, IsAnnounced
  <2> QED
    BY <1>2, <2>3, <2>4, <2>5, <2>6 DEF PInv
<1> QED
  BY <1>4, <1>5

LEMMA StepAckFails ==
    ASSUME PInv, NEW t \in Officers, AckFails(t) PROVE PInv'
<1>1. /\ call[t].stage # "idle" /\ Answered(t, TRUE)
      /\ silent' = IF call[t].stage = "recorded" THEN silent \cup {<<call[t].on, t>>} ELSE silent
      /\ UNCHANGED <<panic, acks, announced, missed, socket>>
  BY DEF AckFails
<1>2. /\ ScreenOK' /\ CallOK'
      /\ call'[t].stage = "idle" /\ \A v \in Officers \ {t} : call'[v] = call[v]
      /\ \A v \in Tabs : /\ screen'[v].takeover = screen[v].takeover
                         /\ screen'[v].subscribed = screen[v].subscribed
  BY <1>1, AfterAnswer
<1>3. SocketOK'
  BY <1>1 DEF PInv, SocketOK
<1>4. RecordInv'
  <2>1. \A ack \in acks : ack[2] = t => ack \in announced \cup silent'
    BY <1>1, Unannounced DEF PInv
  <2>2. \A ack \in acks : ack \in announced \cup silent \/ ack[2] \in Officers
    BY DEF PInv, RecordInv
  <2> QED
    BY <1>1, <1>2, <2>1, <2>2 DEF PInv, RecordInv, AnnouncedIffRecorded
<1>5. KnownInv'
  BY <1>1, <1>2 DEF PInv, KnownInv, IsAnnounced, Concerned
<1>6. EndInv'
  BY <1>1, <1>2 DEF PInv, EndInv, IsAnnounced
<1> QED
  BY <1>2, <1>3, <1>4, <1>5, <1>6 DEF PInv

LEMMA StepAnnounceAck ==
    ASSUME PInv, NEW t \in Officers, AnnounceAck(t) PROVE PInv'
<1> DEFINE p == call[t].on
<1>1. /\ call[t].stage = "recorded" /\ Answered(t, FALSE)
      /\ announced' = announced \cup {<<p, t>>}
      /\ socket' = Emitted({<<"role", "SECURITY">>, <<"role", "ADMIN">>}, Ack(p))
      /\ missed' = missed \cup {<<u, p>> : u \in {v \in Tabs : ~socket[v].up}}
      /\ UNCHANGED <<panic, acks, silent>>
  BY DEF AnnounceAck, AnnounceTo, Ack
<1>2. /\ ScreenOK' /\ CallOK'
      /\ call'[t].stage = "idle" /\ \A v \in Officers \ {t} : call'[v] = call[v]
      /\ \A v \in Tabs : /\ screen'[v].takeover = screen[v].takeover
                         /\ screen'[v].subscribed = screen[v].subscribed
  BY <1>1, AfterAnswer
<1>3. p \in Panics /\ panic[p] = "raised" /\ <<p, t>> \in acks
  BY <1>1 DEF PInv, CallOK, KnownInv, RecordInv
<1> HIDE DEF p
<1>4. Ack(p) \in Message
  BY <1>3, Messages
<1>5. /\ SocketOK'
      /\ \A v \in Tabs : socket'[v].inbox = IF socket[v].up /\ Concerned(v)
                                            THEN Append(socket[v].inbox, Ack(p)) ELSE socket[v].inbox
  BY <1>1, <1>4, EmittedToBoth DEF PInv
<1>6. \A v \in Tabs : socket[v].inbox \in Seq(Message)
  BY DEF PInv, SocketOK
<1>7. RecordInv'
  <2>1. \A ack \in acks : ack[2] = t => ack \in announced' \cup silent
    BY <1>1, Unannounced DEF PInv, p
  <2>2. \A ack \in acks : ack \in announced \cup silent \/ ack[2] \in Officers
    BY DEF PInv, RecordInv
  <2> QED
    BY <1>1, <1>2, <1>3, <2>1, <2>2 DEF PInv, RecordInv, AnnouncedIffRecorded
<1>8. ASSUME NEW q \in Panics, NEW v \in Tabs, NEW i \in DOMAIN socket'[v].inbox,
             socket'[v].inbox[i] = Alert(q)
      PROVE  i \in DOMAIN socket[v].inbox /\ socket[v].inbox[i] = Alert(q)
  <2>1. CASE socket'[v].inbox = socket[v].inbox
    BY <1>8, <2>1
  <2>2. CASE socket'[v].inbox = Append(socket[v].inbox, Ack(p))
    <3>1. Ack(p) # Alert(q)
      BY <1>3, Messages
    <3>2. socket'[v].inbox[i] # Ack(p)
      BY <1>8, <3>1
    <3> QED
      BY <1>4, <1>6, <1>8, <2>2, <3>2
  <2> QED
    BY <1>5, <2>1, <2>2
<1>9. KnownInv'
  <2>1. ASSUME NEW q \in Panics, IsAnnounced(q)' PROVE panic[q] = "raised"
    BY <1>1, <1>3, <2>1 DEF PInv, KnownInv, IsAnnounced
  <2> QED
    BY <1>1, <1>2, <1>8, <2>1 DEF PInv, KnownInv, Concerned
<1>10. EndInv'
  <2> SUFFICES ASSUME NEW v \in Tabs, NEW q \in Panics, IsAnnounced(q)', <<v, q>> \notin missed'
               PROVE  /\ screen[v].takeover = q => HasAck(socket'[v].inbox, q)
                      /\ AckFollows(socket'[v].inbox, q)
    BY <1>2 DEF EndInv, IsAnnounced, HasAck, AckFollows
  <2>1. CASE q # p
    <3>1. IsAnnounced(q) /\ <<v, q>> \notin missed
      BY <1>1, <1>3, <2>1 DEF IsAnnounced
    <3>2. (screen[v].takeover = q => HasAck(socket[v].inbox, q)) /\ AckFollows(socket[v].inbox, q)
      BY <3>1 DEF PInv, EndInv
    <3>3. Ack(p) # Alert(q)
      BY <1>3, Messages
    <3> QED
      BY <1>4, <1>5, <1>6, <3>2, <3>3, Appending
  <2>2. CASE q = p
    <3>1. socket[v].up
      BY <1>1, <2>2
    <3>2. CASE Concerned(v)
      BY <1>3, <1>4, <1>5, <1>6, <2>2, <3>1, <3>2, Appending
    <3>3. CASE ~Concerned(v)
      BY <1>5, <3>3 DEF PInv, KnownInv, AckFollows
    <3> QED
      BY <3>2, <3>3
  <2> QED
    BY <2>1, <2>2
<1> QED
  BY <1>2, <1>5, <1>7, <1>9, <1>10 DEF PInv

LEMMA StepAcknowledgeOverSocket ==
    ASSUME PInv, NEW t \in Tabs, NEW p \in Panics, AcknowledgeOverSocket(t, p) PROVE PInv'
<1>1. /\ acks \subseteq acks' /\ acks' \subseteq acks \cup {<<p, t>>}
      /\ silent' = silent \cup (acks' \ acks)
      /\ UNCHANGED <<panic, call, announced, screen, missed, socket>>
  BY DEF AcknowledgeOverSocket, socketVars
<1>2. SocketOK' /\ ScreenOK' /\ CallOK'
  BY <1>1 DEF PInv, SocketOK, ScreenOK, CallOK
<1>3. RecordInv'
  BY <1>1 DEF PInv, RecordInv, AnnouncedIffRecorded
<1>4. KnownInv'
  BY <1>1 DEF PInv, KnownInv, IsAnnounced, Concerned
<1>5. EndInv'
  BY <1>1 DEF PInv, EndInv, IsAnnounced
<1> QED
  BY <1>2, <1>3, <1>4, <1>5 DEF PInv

-----------------------------------------------------------------------------
\* The listener of a tab, and its connection.

\* A step of tabs only: what they show and what is under way to them.
LEMMA OfficersKeep ==
    ASSUME PInv, UNCHANGED serverVars, ScreenOK',
           \A t \in Officers : call[t].stage # "idle" => screen'[t].acking = screen[t].acking
    PROVE  CallOK' /\ RecordInv'
<1> USE DEF serverVars
<1>1. CallOK'
  BY DEF PInv, CallOK
<1>2. RecordInv'
  BY DEF PInv, RecordInv, AnnouncedIffRecorded
<1> QED
  BY <1>1, <1>2

LEMMA StepSubscribe ==
    ASSUME PInv, NEW t \in Tabs, Subscribe(t) PROVE PInv'
<1>1. /\ screen' = [screen EXCEPT ![t].subscribed = TRUE]
      /\ UNCHANGED <<serverVars, missed, socket>>
  BY DEF Subscribe, socketVars
<1>2. /\ ScreenOK'
      /\ \A v \in Tabs : /\ screen'[v].takeover = screen[v].takeover
                         /\ screen'[v].acking = screen[v].acking
                         /\ screen[v].subscribed => screen'[v].subscribed
  BY <1>1 DEF PInv, ScreenOK
<1>3. CallOK' /\ RecordInv'
  BY <1>1, <1>2, OfficersKeep DEF Officers
<1>4. SocketOK'
  BY <1>1 DEF PInv, SocketOK
<1>5. KnownInv'
  BY <1>1, <1>2 DEF PInv, KnownInv, IsAnnounced, Concerned, serverVars
<1>6. EndInv'
  BY <1>1, <1>2 DEF PInv, EndInv, IsAnnounced, serverVars
<1> QED
  BY <1>2, <1>3, <1>4, <1>5, <1>6 DEF PInv

\* A tab takes the first message under way to it.
LEMMA Receiving ==
    ASSUME PInv, NEW t \in Tabs, socket[t].inbox # <<>>, socket' = Received(t)
    PROVE  /\ SocketOK'
           /\ socket'[t].inbox = Tail(socket[t].inbox)
           /\ \A v \in Tabs \ {t} : socket'[v] = socket[v]
           /\ socket[t].inbox \in Seq(Message) /\ Told(t) \in Message
<1>1. socket' = [socket EXCEPT ![t].inbox = Tail(@)] /\ DOMAIN socket = Tabs
  BY DEF Received, PInv, SocketOK
<1>2. socket[t] \in [up : BOOLEAN, rooms : {OwnRooms(t), {}}, inbox : Seq(Message)]
  BY DEF PInv, SocketOK
<1>3. /\ socket[t].inbox \in Seq(Message) /\ Tail(socket[t].inbox) \in Seq(Message)
      /\ Told(t) \in Message /\ socket[t].up
  BY <1>2 DEF Told, PInv, SocketOK
<1>4. /\ socket'[t] \in [up : BOOLEAN, rooms : {OwnRooms(t), {}}, inbox : Seq(Message)]
      /\ socket'[t].inbox = Tail(socket[t].inbox)
      /\ socket'[t].up = socket[t].up /\ socket'[t].rooms = socket[t].rooms
  BY <1>1, <1>2, <1>3
<1>5. DOMAIN socket' = Tabs /\ \A v \in Tabs \ {t} : socket'[v] = socket[v]
  BY <1>1
<1>6. SocketOK'
  BY <1>3, <1>4, <1>5 DEF PInv, SocketOK
<1> QED
  BY <1>3, <1>4, <1>5, <1>6

\* What is still under way was under way.
LEMMA StillKnown ==
    ASSUME PInv, UNCHANGED serverVars,
           \A v \in Tabs : \A i \in DOMAIN socket'[v].inbox :
               \E j \in DOMAIN socket[v].inbox : socket'[v].inbox[i] = socket[v].inbox[j],
           \A v \in Tabs, p \in Panics : screen'[v].takeover = p =>
               panic[p] = "raised" /\ screen'[v].subscribed /\ Concerned(v)
    PROVE  KnownInv'
BY DEF PInv, KnownInv, IsAnnounced, Concerned, serverVars

LEMMA StepHearAlert ==
    ASSUME PInv, NEW t \in Tabs, HearAlert(t) PROVE PInv'
<1> DEFINE p == Told(t)[2]
<1>1. /\ socket[t].inbox # <<>> /\ Told(t)[1] = "panic_alert" /\ socket' = Received(t)
      /\ screen' = [screen EXCEPT ![t].takeover =
                      IF screen[t].subscribed /\ Alerted(t) THEN p ELSE @]
      /\ UNCHANGED <<serverVars, missed>>
  BY DEF HearAlert
<1>2. /\ SocketOK'
      /\ socket'[t].inbox = Tail(socket[t].inbox)
      /\ \A v \in Tabs \ {t} : socket'[v] = socket[v]
      /\ socket[t].inbox \in Seq(Message) /\ Told(t) \in Message
  BY <1>1, Receiving
<1>3. p \in Panics /\ Told(t) = Alert(p) /\ Head(socket[t].inbox) = Alert(p)
  BY <1>1, <1>2, MessageIs DEF Told
<1> HIDE DEF p
<1>4. panic[p] = "raised" /\ Concerned(t)
  <2>1. 1 \in DOMAIN socket[t].inbox /\ socket[t].inbox[1] = Head(socket[t].inbox)
    BY <1>1, <1>2
  <2> QED
    BY <1>3, <2>1 DEF PInv, KnownInv
<1>5. /\ ScreenOK'
      /\ \A v \in Tabs : /\ screen'[v].acking = screen[v].acking
                         /\ screen'[v].subscribed = screen[v].subscribed
                         /\ \/ screen'[v].takeover = screen[v].takeover
                            \/ v = t /\ screen'[v].takeover = p /\ screen[v].subscribed
  BY <1>1, <1>3 DEF PInv, ScreenOK
<1>6. CallOK' /\ RecordInv'
  BY <1>1, <1>5, OfficersKeep DEF Officers
<1>7. KnownInv'
  <2>1. \A v \in Tabs, q \in Panics : screen'[v].takeover = q =>
            panic[q] = "raised" /\ screen'[v].subscribed /\ Concerned(v)
    BY <1>4, <1>5 DEF PInv, KnownInv
  <2>2. \A v \in Tabs : \A i \in DOMAIN socket'[v].inbox :
            \E j \in DOMAIN socket[v].inbox : socket'[v].inbox[i] = socket[v].inbox[j]
    <3>1. \A i \in DOMAIN Tail(socket[t].inbox) :
              \E j \in DOMAIN socket[t].inbox : Tail(socket[t].inbox)[i] = socket[t].inbox[j]
      BY <1>1, <1>2, <1>3, Taking
    <3>2. \A v \in Tabs \ {t} : \A i \in DOMAIN socket'[v].inbox : socket'[v].inbox[i] = socket[v].inbox[i]
      BY <1>2
    <3>3. \A v \in Tabs \ {t} : DOMAIN socket'[v].inbox = DOMAIN socket[v].inbox
      BY <1>2
    <3>4. ASSUME NEW v \in Tabs, NEW i \in DOMAIN socket'[v].inbox
          PROVE  \E j \in DOMAIN socket[v].inbox : socket'[v].inbox[i] = socket[v].inbox[j]
      <4>1. CASE v = t
        BY <1>2, <3>1, <4>1
      <4>2. CASE v # t
        BY <3>2, <3>3, <4>2
      <4> QED
        BY <4>1, <4>2
    <3> QED
      BY <3>4
  <2> QED
    BY <1>1, <2>1, <2>2, StillKnown
<1>8. EndInv'
  <2> SUFFICES ASSUME NEW v \in Tabs, NEW q \in Panics, IsAnnounced(q), <<v, q>> \notin missed
               PROVE  /\ screen'[v].takeover = q => HasAck(socket'[v].inbox, q)
                      /\ AckFollows(socket'[v].inbox, q)
    BY <1>1 DEF EndInv, IsAnnounced, HasAck, AckFollows, serverVars
  <2>1. (screen[v].takeover = q => HasAck(socket[v].inbox, q)) /\ AckFollows(socket[v].inbox, q)
    BY DEF PInv, EndInv
  <2>2. CASE v # t
    BY <1>2, <1>5, <2>1, <2>2
  <2>3. CASE v = t
    <3>1. Head(socket[t].inbox) # Ack(q)
      BY <1>3, Messages
    <3>2. AckFollows(socket'[t].inbox, q)
      BY <1>1, <1>2, <2>1, <2>3, Taking
    <3>3. CASE screen'[t].takeover = screen[t].takeover
      BY <1>1, <1>2, <2>1, <2>3, <3>1, <3>2, <3>3, Taking
    <3>4. CASE screen'[t].takeover = p
      BY <1>1, <1>2, <1>3, <2>1, <2>3, <3>2, <3>4, Taking
    <3> QED
      BY <1>5, <2>3, <3>3, <3>4
  <2> QED
    BY <2>2, <2>3
<1> QED
  BY <1>2, <1>5, <1>6, <1>7, <1>8 DEF PInv

LEMMA StepHearAck ==
    ASSUME PInv, NEW t \in Tabs, HearAck(t) PROVE PInv'
<1> DEFINE p == Told(t)[2]
<1>1. /\ socket[t].inbox # <<>> /\ Told(t)[1] = "panic_acknowledged_global" /\ socket' = Received(t)
      /\ screen' = [screen EXCEPT ![t].takeover =
                      IF screen[t].subscribed /\ @ = p THEN NoPanic ELSE @]
      /\ UNCHANGED <<serverVars, missed>>
  BY DEF HearAck
<1>2. /\ SocketOK'
      /\ socket'[t].inbox = Tail(socket[t].inbox)
      /\ \A v \in Tabs \ {t} : socket'[v] = socket[v]
      /\ socket[t].inbox \in Seq(Message) /\ Told(t) \in Message
  BY <1>1, Receiving
<1>3. p \in Panics /\ Told(t) = Ack(p) /\ Head(socket[t].inbox) = Ack(p)
  BY <1>1, <1>2, MessageIs DEF Told
<1> HIDE DEF p
<1>4. /\ ScreenOK'
      /\ \A v \in Tabs : /\ screen'[v].acking = screen[v].acking
                         /\ screen'[v].subscribed = screen[v].subscribed
                         /\ \/ screen'[v].takeover = screen[v].takeover
                            \/ screen'[v].takeover = NoPanic
      /\ screen[t].subscribed /\ screen[t].takeover = p => screen'[t].takeover = NoPanic
  BY <1>1 DEF PInv, ScreenOK
<1>5. CallOK' /\ RecordInv'
  BY <1>1, <1>4, OfficersKeep DEF Officers
<1>6. KnownInv'
  <2>1. \A v \in Tabs, q \in Panics : screen'[v].takeover = q =>
            panic[q] = "raised" /\ screen'[v].subscribed /\ Concerned(v)
    BY <1>4, PanicAssumption DEF PInv, KnownInv
  <2>2. \A v \in Tabs : \A i \in DOMAIN socket'[v].inbox :
            \E j \in DOMAIN socket[v].inbox : socket'[v].inbox[i] = socket[v].inbox[j]
    <3>1. \A i \in DOMAIN Tail(socket[t].inbox) :
              \E j \in DOMAIN socket[t].inbox : Tail(socket[t].inbox)[i] = socket[t].inbox[j]
      BY <1>1, <1>2, <1>3, Taking
    <3>2. \A v \in Tabs \ {t} : \A i \in DOMAIN socket'[v].inbox : socket'[v].inbox[i] = socket[v].inbox[i]
      BY <1>2
    <3>3. \A v \in Tabs \ {t} : DOMAIN socket'[v].inbox = DOMAIN socket[v].inbox
      BY <1>2
    <3>4. ASSUME NEW v \in Tabs, NEW i \in DOMAIN socket'[v].inbox
          PROVE  \E j \in DOMAIN socket[v].inbox : socket'[v].inbox[i] = socket[v].inbox[j]
      <4>1. CASE v = t
        BY <1>2, <3>1, <4>1
      <4>2. CASE v # t
        BY <3>2, <3>3, <4>2
      <4> QED
        BY <4>1, <4>2
    <3> QED
      BY <3>4
  <2> QED
    BY <1>1, <2>1, <2>2, StillKnown
<1>7. EndInv'
  <2> SUFFICES ASSUME NEW v \in Tabs, NEW q \in Panics, IsAnnounced(q), <<v, q>> \notin missed
               PROVE  /\ screen'[v].takeover = q => HasAck(socket'[v].inbox, q)
                      /\ AckFollows(socket'[v].inbox, q)
    BY <1>1 DEF EndInv, IsAnnounced, HasAck, AckFollows, serverVars
  <2>1. (screen[v].takeover = q => HasAck(socket[v].inbox, q)) /\ AckFollows(socket[v].inbox, q)
    BY DEF PInv, EndInv
  <2>2. screen'[v].takeover = q => screen[v].takeover = q
    BY <1>4, PanicAssumption
  <2>3. CASE v # t
    BY <1>2, <2>1, <2>2, <2>3
  <2>4. CASE v = t
    <3>1. AckFollows(socket'[t].inbox, q)
      BY <1>1, <1>2, <2>1, <2>4, Taking
    <3>2. ASSUME screen'[t].takeover = q PROVE HasAck(socket'[t].inbox, q)
      <4>1. screen[t].takeover = q /\ screen[t].subscribed
        BY <2>2, <2>4, <3>2 DEF PInv, KnownInv
      <4>2. q # p
        BY <1>4, <3>2, <4>1, PanicAssumption
      <4>3. Head(socket[t].inbox) # Ack(q)
        BY <1>3, <4>2, Messages
      <4> QED
        BY <1>1, <1>2, <2>1, <2>4, <4>1, <4>3, Taking
    <3> QED
      BY <2>4, <3>1, <3>2
  <2> QED
    BY <2>3, <2>4
<1> QED
  BY <1>2, <1>4, <1>5, <1>6, <1>7 DEF PInv

\* A connection ends: what was under way is lost, and noted.
LEMMA Losing ==
    ASSUME PInv, NEW t \in Tabs, socket' = [socket EXCEPT ![t] = Down]
    PROVE  /\ SocketOK'
           /\ socket'[t].inbox = <<>> /\ \A v \in Tabs \ {t} : socket'[v] = socket[v]
           /\ \A v \in Tabs : \A i \in DOMAIN socket'[v].inbox :
                  \E j \in DOMAIN socket[v].inbox : socket'[v].inbox[i] = socket[v].inbox[j]
<1>1. /\ DOMAIN socket' = Tabs /\ socket'[t] = Down
      /\ \A v \in Tabs \ {t} : socket'[v] = socket[v]
  BY DEF PInv, SocketOK
<1>2. SocketOK'
  BY <1>1, Closed DEF PInv, SocketOK
<1>3. socket'[t].inbox = <<>>
  BY <1>1, Closed
<1>4. DOMAIN socket'[t].inbox = {}
  BY <1>3, EmptyDomain
<1> QED
  BY <1>1, <1>2, <1>3, <1>4

LEMMA Noted ==
    ASSUME NEW t \in Tabs, NEW p \in Panics, PInv, IsAnnounced(p),
           <<t, p>> \notin missed \cup {<<t, q>> : q \in Underway(t)}, <<t, p>> \notin missed
    PROVE  screen[t].takeover # p
<1>1. ~HasAck(socket[t].inbox, p)
  BY Messages DEF HasAck, Underway
<1> QED
  BY <1>1 DEF PInv, EndInv

LEMMA StepTabDrops ==
    ASSUME PInv, NEW t \in Tabs, TabDrops(t) PROVE PInv'
<1>1. /\ socket' = [socket EXCEPT ![t] = Down]
      /\ missed' = missed \cup {<<t, p>> : p \in Underway(t)}
      /\ UNCHANGED <<serverVars, screen>>
  BY DEF TabDrops, Drop
<1>2. /\ SocketOK'
      /\ socket'[t].inbox = <<>> /\ \A v \in Tabs \ {t} : socket'[v] = socket[v]
      /\ \A v \in Tabs : \A i \in DOMAIN socket'[v].inbox :
             \E j \in DOMAIN socket[v].inbox : socket'[v].inbox[i] = socket[v].inbox[j]
  BY <1>1, Losing
<1>3. ScreenOK'
  BY <1>1 DEF PInv, ScreenOK
<1>4. CallOK' /\ RecordInv'
  BY <1>1, <1>3, OfficersKeep
<1>5. KnownInv'
  <2>1. \A v \in Tabs, q \in Panics : screen'[v].takeover = q =>
            panic[q] = "raised" /\ screen'[v].subscribed /\ Concerned(v)
    BY <1>1 DEF PInv, KnownInv
  <2> QED
    BY <1>1, <1>2, <2>1, StillKnown
<1>6. EndInv'
  <2> SUFFICES ASSUME NEW v \in Tabs, NEW q \in Panics, IsAnnounced(q), <<v, q>> \notin missed'
               PROVE  /\ screen[v].takeover = q => HasAck(socket'[v].inbox, q)
                      /\ AckFollows(socket'[v].inbox, q)
    BY <1>1 DEF EndInv, IsAnnounced, HasAck, AckFollows, serverVars
  <2>1. CASE v # t
    BY <1>1, <1>2, <2>1 DEF PInv, EndInv
  <2>2. CASE v = t
    BY <1>1, <1>2, <2>2, Noted, EmptyInbox
  <2> QED
    BY <2>1, <2>2
<1> QED
  BY <1>2, <1>3, <1>4, <1>5, <1>6 DEF PInv

LEMMA StepTabConnects ==
    ASSUME PInv, NEW t \in Tabs, TabConnects(t) PROVE PInv'
<1>1. /\ ~socket[t].up /\ socket' = [socket EXCEPT ![t] = Connected(t)]
      /\ UNCHANGED panicVars
  BY DEF TabConnects, Connect
<1>2. /\ DOMAIN socket' = Tabs /\ socket'[t] = Connected(t)
      /\ \A v \in Tabs \ {t} : socket'[v] = socket[v]
  BY <1>1 DEF PInv, SocketOK
<1>3. SocketOK'
  BY <1>2, Opened DEF PInv, SocketOK
<1>4. \A v \in Tabs : socket'[v].inbox = socket[v].inbox
  BY <1>1, <1>2, Opened DEF PInv, SocketOK
<1>5. ScreenOK'
  BY <1>1 DEF PInv, ScreenOK, panicVars
<1>6. CallOK' /\ RecordInv'
  BY <1>1, <1>5, OfficersKeep DEF panicVars, serverVars
<1>7. KnownInv'
  BY <1>1, <1>4 DEF PInv, KnownInv, IsAnnounced, Concerned, panicVars
<1>8. EndInv'
  BY <1>1, <1>4 DEF PInv, EndInv, IsAnnounced, panicVars
<1> QED
  BY <1>3, <1>5, <1>6, <1>7, <1>8 DEF PInv

LEMMA StepReload ==
    ASSUME PInv, NEW t \in Tabs, Reload(t) PROVE PInv'
<1>1. /\ t \in Officers => call[t].stage = "idle"
      /\ socket' = [socket EXCEPT ![t] = Down]
      /\ screen' = [screen EXCEPT ![t] = Blank(FALSE)]
      /\ missed' = missed \cup {<<t, p>> : p \in Underway(t)}
      /\ UNCHANGED serverVars
  BY DEF Reload
<1>2. /\ SocketOK'
      /\ socket'[t].inbox = <<>> /\ \A v \in Tabs \ {t} : socket'[v] = socket[v]
      /\ \A v \in Tabs : \A i \in DOMAIN socket'[v].inbox :
             \E j \in DOMAIN socket[v].inbox : socket'[v].inbox[i] = socket[v].inbox[j]
  BY <1>1, Losing
<1>3. /\ ScreenOK' /\ screen'[t].takeover = NoPanic
      /\ \A v \in Tabs \ {t} : screen'[v] = screen[v]
  BY <1>1 DEF PInv, ScreenOK, Blank
<1>4. CallOK' /\ RecordInv'
  BY <1>1, <1>3, OfficersKeep DEF Officers
<1>5. KnownInv'
  <2>1. \A v \in Tabs, q \in Panics : screen'[v].takeover = q =>
            panic[q] = "raised" /\ screen'[v].subscribed /\ Concerned(v)
    BY <1>3, PanicAssumption DEF PInv, KnownInv
  <2> QED
    BY <1>1, <1>2, <2>1, StillKnown
<1>6. EndInv'
  <2> SUFFICES ASSUME NEW v \in Tabs, NEW q \in Panics, IsAnnounced(q), <<v, q>> \notin missed'
               PROVE  /\ screen'[v].takeover = q => HasAck(socket'[v].inbox, q)
                      /\ AckFollows(socket'[v].inbox, q)
    BY <1>1 DEF EndInv, IsAnnounced, HasAck, AckFollows, serverVars
  <2>1. CASE v # t
    BY <1>1, <1>2, <1>3, <2>1 DEF PInv, EndInv
  <2>2. CASE v = t
    BY <1>2, <1>3, <2>2, EmptyInbox, PanicAssumption
  <2> QED
    BY <2>1, <2>2
<1> QED
  BY <1>2, <1>3, <1>4, <1>5, <1>6 DEF PInv

-----------------------------------------------------------------------------
\* Every step keeps the invariant.

LEMMA PanicStep == PInv /\ [PanicNext]_<<panicVars, socketVars>> => PInv'
<1> SUFFICES ASSUME PInv, [PanicNext]_<<panicVars, socketVars>> PROVE PInv'
  OBVIOUS
<1>1. CASE Hold \/ TriggerFails
  BY <1>1, StepButton, StepTriggerFails
<1>2. CASE \E p \in Panics : TriggerPanic(p) \/ RaiseAlert(p)
  BY <1>2, StepTriggerPanic, StepRaiseAlert
<1>3. CASE \E t \in Officers : Press(t) \/ RecordAck(t) \/ AckFails(t) \/ AnnounceAck(t)
  BY <1>3, StepPress, StepRecordAck, StepAckFails, StepAnnounceAck
<1>4. CASE \E t \in Tabs, p \in Panics : AcknowledgeOverSocket(t, p)
  BY <1>4, StepAcknowledgeOverSocket
<1>5. CASE \E t \in Tabs : Subscribe(t) \/ HearAlert(t) \/ HearAck(t)
                            \/ TabDrops(t) \/ TabConnects(t) \/ Reload(t)
  BY <1>5, StepSubscribe, StepHearAlert, StepHearAck, StepTabDrops, StepTabConnects, StepReload
<1>6. CASE UNCHANGED <<panicVars, socketVars>>
  BY <1>6, StepQuiet DEF panicVars, socketVars, others, PInv, KnownInv
<1> QED
  BY <1>1, <1>2, <1>3, <1>4, <1>5, <1>6 DEF PanicNext

(* The whole inductive invariant of an emergency's life: what ends every   *)
(* takeover is under way behind what starts it (panicController.js:97-129, *)
(* GlobalSocketListener.jsx).                                              *)
THEOREM PanicInvariance == PanicSpec => []PInv
<1>1. SocketsInit /\ PanicInit => PInv
  BY InitPInv
<1>2. PInv /\ [PanicNext]_<<panicVars, socketVars>> => PInv'
  BY PanicStep
<1> QED
  BY <1>1, <1>2, PTL DEF PanicSpec

(* What the controller announces is stored, and what is stored is          *)
(* announced unless the process died in between or the answer came over    *)
(* the socket (panicController.js:112, panic.handler.js:18).               *)
THEOREM AcknowledgementsAreAnnounced == PanicSpec => []AnnouncedIffRecorded
<1>1. PInv => AnnouncedIffRecorded
  BY DEF PInv, RecordInv
<1> QED
  BY <1>1, PanicInvariance, PTL

(* A takeover outlives the announcement that somebody is responding only   *)
(* on a tab that could not hear it (panicController.js:129).               *)
THEOREM TakeoversAreLifted == PanicSpec => []TakeoversEnd
<1>1. PInv => TakeoversEnd
  <2> SUFFICES ASSUME PInv, NEW t \in Tabs, NEW p \in Panics, screen[t].takeover = p,
                      p \notin Underway(t), IsAnnounced(p), <<t, p>> \notin missed
               PROVE  FALSE
    BY DEF TakeoversEnd, IsAnnounced
  <2>1. HasAck(socket[t].inbox, p)
    BY DEF PInv, EndInv
  <2> QED
    BY <2>1, Messages DEF HasAck, Underway
<1> QED
  BY <1>1, PanicInvariance, PTL
=============================================================================
