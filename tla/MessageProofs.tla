---------------------------- MODULE MessageProofs ----------------------------
(***************************************************************************)
(* What a tab hears of the alerts and of the chat, for any tabs, alerts,   *)
(* messages, and lost connections.                                         *)
(***************************************************************************)
EXTENDS Chat, Alerts, TLAPS

Word == {"campus_alert", "alert_retracted"} \X AlertIds

AlertSocketOK ==
    /\ DOMAIN socket = Tabs
    /\ \A t \in Tabs :
        /\ socket[t] \in [up : BOOLEAN, rooms : {OwnRooms(t), {}}, inbox : Seq(Word)]
        /\ t \notin apart => socket[t].up /\ socket[t].rooms = OwnRooms(t)

HeardOK == heard \in [Tabs -> [AlertIds -> {"nothing", "campus_alert", "alert_retracted"}]]

(* How far the handlers of an alert are. *)
RowOK ==
    /\ alert \in [AlertIds -> [row : {"none", "active", "retracted"}, emitted : BOOLEAN,
                               overtaken : BOOLEAN, retraction : {"none", "updated", "emitted"},
                               retractions : Nat]]
    /\ \A a \in AlertIds :
        alert[a].row = "none" => ~alert[a].emitted /\ alert[a].retraction = "none"

Last(inbox, w, a) ==
    \E i \in DOMAIN inbox :
        /\ inbox[i] = <<w, a>>
        /\ \A j \in DOMAIN inbox : j > i => inbox[j][2] # a

Unmentioned(inbox, a) == \A i \in DOMAIN inbox : inbox[i][2] # a

(* The last word of an alert, heard or under way, is that it is on. *)
AlarmedBy(inbox, word, a) ==
    Last(inbox, "campus_alert", a) \/ (Unmentioned(inbox, a) /\ word = "campus_alert")

Alarmed(t, a) == AlarmedBy(socket[t].inbox, heard[t][a], a)

AlarmInv ==
    \A t \in Tabs \ apart, a \in AlertIds :
        /\ AlertScopes[a] \notin OwnRooms(t) => ~Alarmed(t, a)
        /\ alert[a].retraction = "emitted" /\ ~alert[a].overtaken => ~Alarmed(t, a)

AlertInv == AlertSocketOK /\ HeardOK /\ RowOK /\ AlarmInv

-----------------------------------------------------------------------------
\* Inboxes.

LEMMA SayingMore ==
    ASSUME NEW s \in Seq(Word), NEW w \in {"campus_alert", "alert_retracted"},
           NEW b \in AlertIds, NEW a \in AlertIds, NEW word
    PROVE  /\ Append(s, <<w, b>>) \in Seq(Word)
           /\ a # b => (AlarmedBy(Append(s, <<w, b>>), word, a) <=> AlarmedBy(s, word, a))
           /\ a = b => (AlarmedBy(Append(s, <<w, b>>), word, a) <=> w = "campus_alert")
<1> DEFINE m == <<w, b>>
           u == Append(s, m)
<1>1. /\ m \in Word /\ m[2] = b
      /\ m = <<"campus_alert", a>> <=> w = "campus_alert" /\ a = b
  BY DEF Word
<1> HIDE DEF m
<1>2. /\ u \in Seq(Word) /\ DOMAIN u = 1..(Len(s) + 1) /\ DOMAIN s = 1..Len(s)
      /\ Len(s) \in Nat
      /\ u[Len(s) + 1] = m
      /\ \A i \in 1..Len(s) : u[i] = s[i]
  BY <1>1
<1> HIDE DEF u
<1>3. ASSUME a # b PROVE AlarmedBy(u, word, a) <=> AlarmedBy(s, word, a)
  <2>1. Unmentioned(u, a) <=> Unmentioned(s, a)
    BY <1>1, <1>2, <1>3 DEF Unmentioned
  <2>2. Last(s, "campus_alert", a) => Last(u, "campus_alert", a)
    BY <1>1, <1>2, <1>3 DEF Last
  <2>3. Last(u, "campus_alert", a) => Last(s, "campus_alert", a)
    BY <1>1, <1>2, <1>3 DEF Last
  <2> QED
    BY <2>1, <2>2, <2>3 DEF AlarmedBy
<1>4. ASSUME a = b PROVE AlarmedBy(u, word, a) <=> w = "campus_alert"
  <2>1. ~Unmentioned(u, a)
    BY <1>1, <1>2, <1>4 DEF Unmentioned
  <2>2. w = "campus_alert" => Last(u, "campus_alert", a)
    BY <1>1, <1>2, <1>4 DEF Last
  <2>3. Last(u, "campus_alert", a) => w = "campus_alert"
    <3>1. SUFFICES ASSUME NEW i \in DOMAIN u, u[i] = <<"campus_alert", a>>,
                          \A j \in DOMAIN u : j > i => u[j][2] # a
                   PROVE  w = "campus_alert"
      BY DEF Last
    <3>2. i = Len(s) + 1
      BY <1>1, <1>2, <1>4, <3>1
    <3> QED
      BY <1>1, <1>2, <3>1, <3>2
  <2> QED
    BY <2>1, <2>2, <2>3 DEF AlarmedBy
<1> QED
  BY <1>2, <1>3, <1>4 DEF u, m

LEMMA HearingOne ==
    ASSUME NEW s \in Seq(Word), s # <<>>, NEW a \in AlertIds, NEW word
    PROVE  /\ Tail(s) \in Seq(Word) /\ Head(s) \in Word
           /\ AlarmedBy(Tail(s), IF Head(s)[2] = a THEN Head(s)[1] ELSE word, a)
                <=> AlarmedBy(s, word, a)
<1> DEFINE u == Tail(s)
           h == Head(s)
           next == IF h[2] = a THEN h[1] ELSE word
<1>1. /\ u \in Seq(Word) /\ h \in Word /\ h = s[1]
      /\ Len(s) \in Nat \ {0} /\ DOMAIN s = 1..Len(s) /\ DOMAIN u = 1..(Len(s) - 1)
      /\ \A i \in 1..(Len(s) - 1) : u[i] = s[i + 1]
  OBVIOUS
<1>2. h[2] = a => (h[1] = "campus_alert" <=> h = <<"campus_alert", a>>)
  BY <1>1 DEF Word
<1> HIDE DEF u, h
<1>3. \A j \in DOMAIN s : j > 1 => j - 1 \in DOMAIN u /\ u[j - 1] = s[j]
  BY <1>1
<1>4. ASSUME Last(u, "campus_alert", a) PROVE Last(s, "campus_alert", a)
  <2>1. PICK i \in DOMAIN u : /\ u[i] = <<"campus_alert", a>>
                              /\ \A j \in DOMAIN u : j > i => u[j][2] # a
    BY <1>4 DEF Last
  <2>2. i + 1 \in DOMAIN s /\ s[i + 1] = <<"campus_alert", a>>
    BY <1>1, <2>1
  <2>3. \A j \in DOMAIN s : j > i + 1 => s[j][2] # a
    BY <1>1, <1>3, <2>1
  <2> QED
    BY <2>2, <2>3 DEF Last
<1>5. ASSUME Last(s, "campus_alert", a)
      PROVE  Last(u, "campus_alert", a) \/ (Unmentioned(u, a) /\ h = <<"campus_alert", a>>)
  <2>1. PICK i \in DOMAIN s : /\ s[i] = <<"campus_alert", a>>
                              /\ \A j \in DOMAIN s : j > i => s[j][2] # a
    BY <1>5 DEF Last
  <2>2. CASE i = 1
    <3>1. \A j \in DOMAIN u : u[j] = s[j + 1] /\ j + 1 \in DOMAIN s /\ j + 1 > i
      BY <1>1, <2>2
    <3>2. Unmentioned(u, a)
      BY <2>1, <3>1 DEF Unmentioned
    <3> QED
      BY <1>1, <2>1, <2>2, <3>2
  <2>3. CASE i > 1
    <3>1. i - 1 \in DOMAIN u /\ u[i - 1] = <<"campus_alert", a>>
      BY <1>3, <2>1, <2>3
    <3>2. \A j \in DOMAIN u : j > i - 1 => u[j][2] # a
      BY <1>1, <2>1
    <3> QED
      BY <3>1, <3>2 DEF Last
  <2> QED
    BY <1>1, <2>1, <2>2, <2>3
<1>6. h[2] = a => ~Unmentioned(s, a)
  BY <1>1 DEF Unmentioned
<1>7. h[2] # a => (Unmentioned(u, a) <=> Unmentioned(s, a))
  <2>1. \A j \in DOMAIN u : u[j] = s[j + 1] /\ j + 1 \in DOMAIN s
    BY <1>1
  <2>2. \A j \in DOMAIN s : s[j] = h \/ (j - 1 \in DOMAIN u /\ u[j - 1] = s[j])
    BY <1>1, <1>3
  <2>3. Unmentioned(s, a) => Unmentioned(u, a)
    BY <2>1 DEF Unmentioned
  <2>4. h[2] # a /\ Unmentioned(u, a) => Unmentioned(s, a)
    BY <2>2 DEF Unmentioned
  <2> QED
    BY <2>3, <2>4
<1>8. h = <<"campus_alert", a>> /\ Unmentioned(u, a) => Last(s, "campus_alert", a)
  <2> SUFFICES ASSUME h = <<"campus_alert", a>>, Unmentioned(u, a) PROVE Last(s, "campus_alert", a)
    OBVIOUS
  <2>1. 1 \in DOMAIN s /\ s[1] = <<"campus_alert", a>>
    BY <1>1
  <2>2. \A j \in DOMAIN s : j > 1 => s[j][2] # a
    BY <1>3 DEF Unmentioned
  <2> QED
    BY <2>1, <2>2 DEF Last
<1>9. h = <<"campus_alert", a>> => h[2] = a
  OBVIOUS
<1> HIDE DEF next
<1>10. h[2] = a => next = h[1]
  BY DEF next
<1>11. h[2] # a => next = word
  BY DEF next
<1>12. AlarmedBy(u, next, a) <=> AlarmedBy(s, word, a)
  BY <1>2, <1>4, <1>5, <1>6, <1>7, <1>8, <1>9, <1>10, <1>11 DEF AlarmedBy
<1> QED
  BY <1>1, <1>12 DEF u, h, next

LEMMA Silence ==
    \A a \in AlertIds : \A word : AlarmedBy(<<>>, word, a) <=> word = "campus_alert"
BY DEF AlarmedBy, Last, Unmentioned

LEMMA Linked ==
    ASSUME NEW t
    PROVE  /\ Connected(t) \in [up : BOOLEAN, rooms : {OwnRooms(t), {}}, inbox : Seq(Word)]
           /\ Connected(t).up /\ Connected(t).rooms = OwnRooms(t) /\ Connected(t).inbox = <<>>
           /\ Down \in [up : BOOLEAN, rooms : {OwnRooms(t), {}}, inbox : Seq(Word)]
<1>1. <<>> \in Seq(Word)
  OBVIOUS
<1>2. PICK inbox \in Seq(Word) : inbox = <<>>
  BY <1>1, Zenon
<1>3. /\ Connected(t) = [up |-> TRUE, rooms |-> OwnRooms(t), inbox |-> inbox]
      /\ Down = [up |-> FALSE, rooms |-> {}, inbox |-> inbox]
  BY <1>2 DEF Connected, Down
<1> QED
  BY <1>2, <1>3

-----------------------------------------------------------------------------
\* The steps.

LEMMA InitAlertInv == SocketsInit /\ AlertsInit => AlertInv
<1> SUFFICES ASSUME SocketsInit, AlertsInit PROVE AlertInv
  OBVIOUS
<1>1. DOMAIN socket = Tabs /\ \A t \in Tabs : socket[t] = Connected(t)
  BY DEF SocketsInit
<1>2. AlertSocketOK
  BY <1>1, Linked DEF AlertSocketOK
<1>3. HeardOK /\ \A t \in Tabs, a \in AlertIds : heard[t][a] = "nothing"
  BY DEF AlertsInit, HeardOK
<1>4. RowOK /\ \A a \in AlertIds : alert[a] = NoAlert
  BY DEF AlertsInit, NoAlert, RowOK
<1>5. \A t \in Tabs, a \in AlertIds : ~Alarmed(t, a)
  BY <1>1, <1>3, Linked, Silence DEF Alarmed
<1>6. AlarmInv
  BY <1>4, <1>5 DEF AlarmInv, NoAlert
<1> QED
  BY <1>2, <1>3, <1>4, <1>6 DEF AlertInv

\* A step that emits nothing and is heard by nobody.
LEMMA StepRowOnly ==
    ASSUME AlertInv, UNCHANGED <<heard, apart, socketVars>>, RowOK', NEW a \in AlertIds,
           \A b \in AlertIds \ {a} : alert'[b] = alert[b],
           alert'[a].emitted = alert[a].emitted, alert'[a].overtaken = alert[a].overtaken,
           alert'[a].retraction # "emitted"
    PROVE  AlertInv'
<1>1. AlertSocketOK' /\ HeardOK'
  BY DEF AlertInv, AlertSocketOK, HeardOK, socketVars
<1>2. \A t \in Tabs, b \in AlertIds : Alarmed(t, b)' <=> Alarmed(t, b)
  BY DEF Alarmed, AlarmedBy, Last, Unmentioned, socketVars
<1>3. AlarmInv'
  <2> SUFFICES ASSUME NEW t \in Tabs \ apart, NEW b \in AlertIds
               PROVE  /\ AlertScopes[b] \notin OwnRooms(t) => ~Alarmed(t, b)
                      /\ alert'[b].retraction = "emitted" /\ ~alert'[b].overtaken => ~Alarmed(t, b)
    BY <1>2 DEF AlarmInv, OwnRooms
  <2>1. CASE b = a
    BY <2>1 DEF AlertInv, AlarmInv
  <2>2. CASE b # a
    BY <2>2 DEF AlertInv, AlarmInv
  <2> QED
    BY <2>1, <2>2
<1> QED
  BY <1>1, <1>3 DEF AlertInv

LEMMA StepCreateAlert ==
    ASSUME AlertInv, NEW a \in AlertIds, CreateAlert(a) PROVE AlertInv'
<1>1. /\ alert[a].row = "none" /\ alert' = [alert EXCEPT ![a].row = "active"]
      /\ UNCHANGED <<heard, apart, socketVars>>
  BY DEF CreateAlert
<1>2. RowOK'
  BY <1>1 DEF AlertInv, RowOK
<1>3. /\ \A b \in AlertIds \ {a} : alert'[b] = alert[b]
      /\ alert'[a] = [alert[a] EXCEPT !.row = "active"]
      /\ alert[a].retraction = "none" /\ ~alert[a].emitted
  BY <1>1 DEF AlertInv, RowOK
<1> QED
  BY <1>1, <1>2, <1>3, StepRowOnly DEF AlertInv, RowOK

LEMMA StepUpdateAlert ==
    ASSUME AlertInv, NEW a \in AlertIds, UpdateAlert(a) PROVE AlertInv'
<1>1. /\ alert[a].row # "none"
      /\ alert' = [alert EXCEPT ![a].row = "retracted", ![a].retraction = "updated",
                                ![a].retractions = @ + 1]
      /\ UNCHANGED <<heard, apart, socketVars>>
  BY DEF UpdateAlert, ListAlerts
<1>2. /\ \A b \in AlertIds \ {a} : alert'[b] = alert[b]
      /\ alert'[a] = [alert[a] EXCEPT !.row = "retracted", !.retraction = "updated",
                                      !.retractions = @ + 1]
      /\ DOMAIN alert' = AlertIds
  BY <1>1 DEF AlertInv, RowOK
<1>3. RowOK'
  BY <1>1 DEF AlertInv, RowOK
<1> QED
  BY <1>1, <1>2, <1>3, StepRowOnly DEF AlertInv, RowOK

\* An emit about an alert to the room of its scope.
LEMMA StepEmitted ==
    ASSUME AlertInv, NEW a \in AlertIds, NEW w \in {"campus_alert", "alert_retracted"},
           socket' = Emitted({AlertScopes[a]}, <<w, a>>), UNCHANGED <<heard, apart>>, RowOK',
           \A b \in AlertIds \ {a} : alert'[b] = alert[b],
           w = "campus_alert" => alert'[a].retraction # "emitted" \/ alert'[a].overtaken
    PROVE  AlertInv'
<1> DEFINE m == <<w, a>>
           hears(t) == AlertScopes[a] \in socket[t].rooms
<1>1. m \in Word
  BY DEF Word
<1>2. /\ DOMAIN socket' = Tabs
      /\ \A t \in Tabs : socket'[t] = [socket[t] EXCEPT !.inbox = IF hears(t) THEN Append(@, m) ELSE @]
  BY DEF Emitted, Members
<1> HIDE DEF m
<1>3. ASSUME NEW t \in Tabs
      PROVE  /\ socket'[t].inbox = IF hears(t) THEN Append(socket[t].inbox, m) ELSE socket[t].inbox
             /\ socket'[t].up = socket[t].up /\ socket'[t].rooms = socket[t].rooms
             /\ socket'[t] \in [up : BOOLEAN, rooms : {OwnRooms(t), {}}, inbox : Seq(Word)]
             /\ socket[t].inbox \in Seq(Word)
  <2>1. socket[t] \in [up : BOOLEAN, rooms : {OwnRooms(t), {}}, inbox : Seq(Word)]
    BY DEF AlertInv, AlertSocketOK
  <2>2. Append(socket[t].inbox, m) \in Seq(Word)
    BY <1>1, <2>1
  <2> QED
    BY <1>2, <2>1, <2>2
<1>4. AlertSocketOK' /\ HeardOK'
  BY <1>2, <1>3 DEF AlertInv, AlertSocketOK, HeardOK, OwnRooms
<1>5. AlarmInv'
  <2> SUFFICES ASSUME NEW t \in Tabs \ apart, NEW b \in AlertIds
               PROVE  /\ AlertScopes[b] \notin OwnRooms(t) => ~Alarmed(t, b)'
                      /\ alert'[b].retraction = "emitted" /\ ~alert'[b].overtaken => ~Alarmed(t, b)'
    BY DEF AlarmInv, OwnRooms
  <2>1. socket[t].rooms = OwnRooms(t)
    BY DEF AlertInv, AlertSocketOK
  <2>2. /\ socket[t].inbox \in Seq(Word)
        /\ hears(t) => socket'[t].inbox = Append(socket[t].inbox, <<w, a>>)
        /\ ~hears(t) => socket'[t].inbox = socket[t].inbox
        /\ heard'[t] = heard[t]
    BY <1>3 DEF m
  <2> HIDE DEF hears
  <2>3. ~hears(t) => (Alarmed(t, b)' <=> Alarmed(t, b))
    BY <2>2 DEF Alarmed
  <2>4. /\ a # b => (AlarmedBy(Append(socket[t].inbox, <<w, a>>), heard[t][b], b)
                       <=> AlarmedBy(socket[t].inbox, heard[t][b], b))
        /\ AlarmedBy(Append(socket[t].inbox, <<w, a>>), heard[t][a], a) <=> w = "campus_alert"
    BY <2>2, SayingMore
  <2>5. b # a => (Alarmed(t, b)' <=> Alarmed(t, b))
    BY <2>2, <2>3, <2>4 DEF Alarmed
  <2>6. hears(t) => (Alarmed(t, a)' <=> w = "campus_alert")
    BY <2>2, <2>4 DEF Alarmed
  <2> USE DEF hears
  <2>7. CASE b # a
    BY <2>5, <2>7 DEF AlertInv, AlarmInv
  <2>8. CASE b = a
    <3>1. AlertScopes[a] \notin OwnRooms(t) => ~Alarmed(t, a)'
      BY <2>1, <2>3, <2>8 DEF AlertInv, AlarmInv
    <3> QED
      BY <2>1, <2>6, <2>8, <3>1
  <2> QED
    BY <2>7, <2>8
<1> QED
  BY <1>4, <1>5 DEF AlertInv

LEMMA StepEmitAlert ==
    ASSUME AlertInv, NEW a \in AlertIds, EmitAlert(a) PROVE AlertInv'
<1>1. /\ alert[a].row # "none"
      /\ alert' = [alert EXCEPT ![a].emitted = TRUE,
                                ![a].overtaken = alert[a].retraction = "emitted"]
      /\ socket' = Emitted({AlertScopes[a]}, <<"campus_alert", a>>)
      /\ UNCHANGED <<heard, apart>>
  BY DEF EmitAlert
<1>2. /\ \A b \in AlertIds \ {a} : alert'[b] = alert[b]
      /\ alert'[a] = [alert[a] EXCEPT !.emitted = TRUE,
                                      !.overtaken = (alert[a].retraction = "emitted")]
      /\ DOMAIN alert' = AlertIds
  BY <1>1 DEF AlertInv, RowOK
<1>3. RowOK'
  <2>1. PICK v \in BOOLEAN : v = (alert[a].retraction = "emitted")
    BY Zenon
  <2>2. alert'[a] = [alert[a] EXCEPT !.emitted = TRUE, !.overtaken = v]
    BY <1>2, <2>1, Zenon
  <2>3. alert[a] \in [row : {"none", "active", "retracted"}, emitted : BOOLEAN,
                      overtaken : BOOLEAN, retraction : {"none", "updated", "emitted"},
                      retractions : Nat]
    BY DEF AlertInv, RowOK
  <2>4. /\ alert'[a] \in [row : {"none", "active", "retracted"}, emitted : BOOLEAN,
                           overtaken : BOOLEAN, retraction : {"none", "updated", "emitted"},
                           retractions : Nat]
        /\ alert'[a].row = alert[a].row /\ alert'[a].retraction = alert[a].retraction
    BY <2>2, <2>3
  <2> QED
    BY <1>1, <1>2, <2>4 DEF AlertInv, RowOK
<1>4. alert'[a].retraction # "emitted" \/ alert'[a].overtaken
  BY <1>2 DEF AlertInv, RowOK
<1> QED
  BY <1>1, <1>2, <1>3, <1>4, StepEmitted

LEMMA StepEmitRetraction ==
    ASSUME AlertInv, NEW a \in AlertIds, EmitRetraction(a) PROVE AlertInv'
<1>1. /\ alert[a].retraction = "updated"
      /\ alert' = [alert EXCEPT ![a].retraction = "emitted"]
      /\ socket' = Emitted({AlertScopes[a]}, <<"alert_retracted", a>>)
      /\ UNCHANGED <<heard, apart>>
  BY DEF EmitRetraction
<1>2. /\ \A b \in AlertIds \ {a} : alert'[b] = alert[b]
      /\ alert'[a] = [alert[a] EXCEPT !.retraction = "emitted"]
  BY <1>1 DEF AlertInv, RowOK
<1>3. RowOK'
  BY <1>1 DEF AlertInv, RowOK
<1> QED
  BY <1>1, <1>2, <1>3, StepEmitted

LEMMA StepReceive ==
    ASSUME AlertInv, NEW t \in Tabs, Receive(t) PROVE AlertInv'
<1> DEFINE s == socket[t].inbox
           m == Head(s)
<1>1. /\ s # <<>> /\ socket' = [socket EXCEPT ![t].inbox = Tail(@)]
      /\ heard' = [heard EXCEPT ![t][m[2]] = m[1]]
      /\ UNCHANGED <<alert, apart>>
  BY DEF Receive, Received
<1>2. s \in Seq(Word) /\ Tail(s) \in Seq(Word) /\ m \in Word
  BY <1>1 DEF AlertInv, AlertSocketOK
<1>3. m[2] \in AlertIds /\ m[1] \in {"campus_alert", "alert_retracted"}
  BY <1>2 DEF Word
<1>4. /\ DOMAIN socket' = Tabs
      /\ \A x \in Tabs \ {t} : socket'[x] = socket[x] /\ heard'[x] = heard[x]
      /\ socket'[t] = [socket[t] EXCEPT !.inbox = Tail(s)]
  BY <1>1 DEF AlertInv, AlertSocketOK, HeardOK
<1>5. HeardOK' /\ \A b \in AlertIds : heard'[t][b] = IF m[2] = b THEN m[1] ELSE heard[t][b]
  <2> HIDE DEF m
  <2> QED
    BY <1>1, <1>3 DEF AlertInv, HeardOK
<1>6. /\ socket[t] \in [up : BOOLEAN, rooms : {OwnRooms(t), {}}, inbox : Seq(Word)]
      /\ socket'[t] \in [up : BOOLEAN, rooms : {OwnRooms(t), {}}, inbox : Seq(Word)]
      /\ socket'[t].inbox = Tail(s)
      /\ socket'[t].up = socket[t].up /\ socket'[t].rooms = socket[t].rooms
  <2>1. socket[t] \in [up : BOOLEAN, rooms : {OwnRooms(t), {}}, inbox : Seq(Word)]
    BY DEF AlertInv, AlertSocketOK
  <2> HIDE DEF s
  <2> QED
    BY <1>2, <1>4, <2>1
<1>7. AlertSocketOK'
  BY <1>1, <1>4, <1>6 DEF AlertInv, AlertSocketOK, OwnRooms
<1>8. \A x \in Tabs, b \in AlertIds : Alarmed(x, b)' <=> Alarmed(x, b)
  <2>1. \A b \in AlertIds : Alarmed(t, b)' <=> Alarmed(t, b)
    BY <1>1, <1>2, <1>5, <1>6, HearingOne DEF Alarmed
  <2> QED
    BY <1>4, <2>1 DEF Alarmed
<1>9. AlarmInv'
  BY <1>1, <1>8 DEF AlertInv, AlarmInv, OwnRooms
<1> QED
  BY <1>1, <1>5, <1>7, <1>9 DEF AlertInv, RowOK

\* The other tabs keep their connection and what they heard.
LEMMA StepLink ==
    ASSUME AlertInv, NEW t \in Tabs, NEW c \in {Connected(t), Down},
           socket' = [socket EXCEPT ![t] = c], UNCHANGED <<alert, heard>>,
           t \in apart', apart' = apart \cup {t}
    PROVE  AlertInv'
<1>1. /\ DOMAIN socket' = Tabs /\ socket'[t] = c
      /\ \A x \in Tabs \ {t} : socket'[x] = socket[x]
  BY DEF AlertInv, AlertSocketOK
<1>2. AlertSocketOK'
  <2>1. c \in [up : BOOLEAN, rooms : {OwnRooms(t), {}}, inbox : Seq(Word)]
    BY Linked
  <2> QED
    BY <1>1, <2>1 DEF AlertInv, AlertSocketOK, OwnRooms
<1>3. AlarmInv'
  BY <1>1 DEF AlertInv, AlarmInv, Alarmed, OwnRooms
<1> QED
  BY <1>2, <1>3 DEF AlertInv, HeardOK, RowOK

LEMMA StepTab ==
    ASSUME AlertInv, NEW t \in Tabs, TabLost(t) \/ TabBack(t) PROVE AlertInv'
<1>1. CASE TabLost(t)
  BY <1>1, StepLink DEF TabLost, Drop
<1>2. CASE TabBack(t)
  <2>1. /\ ~socket[t].up /\ socket' = [socket EXCEPT ![t] = Connected(t)]
        /\ UNCHANGED <<alert, heard, apart>>
    BY <1>2 DEF TabBack, Connect, alertVars
  <2>2. t \in apart
    BY <2>1 DEF AlertInv, AlertSocketOK
  <2> QED
    BY <2>1, <2>2, StepLink
<1> QED
  BY <1>1, <1>2

LEMMA NextAlertInv == AlertInv /\ [AlertsNext]_<<alertVars, socketVars>> => AlertInv'
<1> SUFFICES ASSUME AlertInv, [AlertsNext]_<<alertVars, socketVars>> PROVE AlertInv'
  OBVIOUS
<1>1. CASE UNCHANGED <<alertVars, socketVars>>
  BY <1>1 DEF AlertInv, AlertSocketOK, HeardOK, RowOK, AlarmInv, Alarmed, alertVars, socketVars, OwnRooms
<1>2. ASSUME NEW a \in AlertIds,
             CreateAlert(a) \/ EmitAlert(a) \/ UpdateAlert(a) \/ EmitRetraction(a)
      PROVE  AlertInv'
  BY <1>2, StepCreateAlert, StepEmitAlert, StepUpdateAlert, StepEmitRetraction
<1>3. ASSUME NEW t \in Tabs, Receive(t) \/ TabLost(t) \/ TabBack(t) PROVE AlertInv'
  BY <1>3, StepReceive, StepTab
<1> QED
  BY <1>1, <1>2, <1>3 DEF AlertsNext

(* A tab that stayed connected and heard everything heard of a retracted   *)
(* alert the retraction last (alertController's two emits).                *)
THEOREM RetractionIsHeardLast == AlertsSpec => []RetractionsFollow
<1>1. AlertInv => RetractionsFollow
  <2> SUFFICES ASSUME AlertInv, NEW t \in Tabs \ apart, NEW a \in AlertIds,
                      socket[t].inbox = <<>>, alert[a].retraction = "emitted", ~alert[a].overtaken
               PROVE  heard[t][a] # "campus_alert"
    BY DEF RetractionsFollow
  <2>1. Alarmed(t, a) <=> heard[t][a] = "campus_alert"
    BY Silence DEF Alarmed
  <2> QED
    BY <2>1 DEF AlertInv, AlarmInv
<1> QED
  BY <1>1, InitAlertInv, NextAlertInv, PTL DEF AlertsSpec

-----------------------------------------------------------------------------
(* The chat. *)

MessageIds == DOMAIN Messages

Copy == [message : MessageIds, copy : {"row", "push"}]
Row(m) == [message |-> m, copy |-> "row"]
Push(m) == [message |-> m, copy |-> "push"]

Rooms(t) == OwnRooms(t) \cup {ChatRoom}

ChatSocketOK ==
    /\ DOMAIN socket = Tabs
    /\ \A t \in Tabs :
        /\ socket[t] \in [up : BOOLEAN, rooms : SUBSET Rooms(t), inbox : Seq(MessageIds)]
        /\ ~socket[t].up => socket[t].rooms = {} /\ socket[t].inbox = <<>>

PageState ==
    [open : BOOLEAN, live : BOOLEAN, shown : Seq(Copy), sending : SUBSET MessageIds]

PageOK ==
    /\ chat \in [Tabs -> PageState]
    /\ \A t \in Tabs : ~chat[t].open => chat[t].shown = <<>> /\ chat[t].sending = {}

PostOK == post \in [MessageIds -> {"none", "sent", "stored", "pushed", "done"}]

Holds(s, x) == \E i \in DOMAIN s : s[i] = x
Distinct(s) == \A i, j \in DOMAIN s : s[i] = s[j] => i = j

(* A message is pushed once, and shown by the page that heard the push and *)
(* by the one that got the answer, each once; until one page shows it, it  *)
(* is under way or lost.                                                   *)
Tab(t, inbox, shown, posts, gone) ==
    /\ Distinct(inbox) /\ Distinct(shown)
    /\ \A m \in MessageIds :
        /\ posts[m] \in {"pushed", "done"} =>
            Holds(inbox, m) \/ Holds(shown, Row(m)) \/ Holds(shown, Push(m)) \/ <<t, m>> \in gone
        /\ posts[m] \notin {"pushed", "done"} => ~Holds(inbox, m) /\ ~Holds(shown, Push(m))
        /\ posts[m] # "done" => ~Holds(shown, Row(m))
        /\ Holds(inbox, m) => ~Holds(shown, Push(m))

ChatInv ==
    /\ ChatSocketOK /\ PageOK /\ PostOK
    /\ \A t \in Tabs : Tab(t, socket[t].inbox, chat[t].shown, post, lost)

\* Sequences that grow at the end and shrink at the front.
LEMMA Appended ==
    ASSUME NEW S, NEW s \in Seq(S), NEW x \in S
    PROVE  /\ Append(s, x) \in Seq(S)
           /\ \A y : Holds(Append(s, x), y) <=> Holds(s, y) \/ y = x
           /\ Distinct(s) /\ ~Holds(s, x) => Distinct(Append(s, x))
<1> DEFINE u == Append(s, x)
<1>1. /\ u \in Seq(S) /\ DOMAIN u = 1..(Len(s) + 1) /\ DOMAIN s = 1..Len(s)
      /\ Len(s) \in Nat
      /\ u[Len(s) + 1] = x
      /\ \A i \in 1..Len(s) : u[i] = s[i]
  OBVIOUS
<1> HIDE DEF u
<1>2. ASSUME NEW y PROVE Holds(u, y) <=> Holds(s, y) \/ y = x
  BY <1>1 DEF Holds
<1>3. ASSUME Distinct(s), ~Holds(s, x) PROVE Distinct(u)
  <2> SUFFICES ASSUME NEW i \in DOMAIN u, NEW j \in DOMAIN u, u[i] = u[j] PROVE i = j
    BY DEF Distinct
  <2>1. CASE i \in DOMAIN s /\ j \in DOMAIN s
    BY <1>1, <1>3, <2>1 DEF Distinct
  <2>2. CASE i \notin DOMAIN s \/ j \notin DOMAIN s
    BY <1>1, <1>3, <2>2 DEF Holds
  <2> QED
    BY <2>1, <2>2
<1> QED
  BY <1>1, <1>2, <1>3 DEF u

LEMMA Taken ==
    ASSUME NEW S, NEW s \in Seq(S), s # <<>>
    PROVE  /\ Tail(s) \in Seq(S) /\ Head(s) \in S
           /\ \A y : Holds(s, y) <=> Holds(Tail(s), y) \/ y = Head(s)
           /\ Distinct(s) => Distinct(Tail(s)) /\ ~Holds(Tail(s), Head(s))
<1> DEFINE u == Tail(s)
<1>1. /\ u \in Seq(S) /\ Head(s) \in S /\ Head(s) = s[1]
      /\ Len(s) \in Nat \ {0} /\ DOMAIN s = 1..Len(s) /\ DOMAIN u = 1..(Len(s) - 1)
      /\ \A i \in 1..(Len(s) - 1) : u[i] = s[i + 1]
  OBVIOUS
<1> HIDE DEF u
<1>2. \A i \in DOMAIN u : i + 1 \in DOMAIN s /\ s[i + 1] = u[i] /\ i + 1 # 1
  BY <1>1
<1>3. \A i \in DOMAIN s : s[i] = Head(s) \/ (i - 1 \in DOMAIN u /\ u[i - 1] = s[i])
  BY <1>1
<1>4. 1 \in DOMAIN s
  BY <1>1
<1>5. ASSUME NEW y PROVE Holds(s, y) <=> Holds(u, y) \/ y = Head(s)
  <2>1. Holds(u, y) \/ y = Head(s) => Holds(s, y)
    BY <1>1, <1>2, <1>4 DEF Holds
  <2>2. Holds(s, y) => Holds(u, y) \/ y = Head(s)
    BY <1>3 DEF Holds
  <2> QED
    BY <2>1, <2>2
<1>6. ASSUME Distinct(s) PROVE Distinct(u) /\ ~Holds(u, Head(s))
  <2>1. Distinct(u)
    <3> SUFFICES ASSUME NEW i \in DOMAIN u, NEW j \in DOMAIN u, u[i] = u[j] PROVE i = j
      BY DEF Distinct
    <3>1. i + 1 = j + 1
      BY <1>2, <1>6 DEF Distinct
    <3> QED
      BY <1>1, <3>1
  <2>2. ~Holds(u, Head(s))
    BY <1>1, <1>2, <1>4, <1>6 DEF Distinct, Holds
  <2> QED
    BY <2>1, <2>2
<1> QED
  BY <1>1, <1>5, <1>6 DEF u

LEMMA Nothing ==
    ASSUME NEW S
    PROVE  <<>> \in Seq(S) /\ Distinct(<<>>) /\ \A y : ~Holds(<<>>, y)
BY DEF Distinct, Holds

LEMMA Copying ==
    ASSUME NEW m \in MessageIds
    PROVE  /\ Row(m) \in Copy /\ Push(m) \in Copy
           /\ \A k \in MessageIds : Row(m) # Push(k) /\ (Row(m) = Row(k) => m = k) /\ (Push(m) = Push(k) => m = k)
BY DEF Row, Push, Copy

\* What a page shows, by copies.
LEMMA Showing ==
    ASSUME PageOK, NEW t \in Tabs, NEW m \in MessageIds
    PROVE  /\ Shows(t, m) <=> Holds(chat[t].shown, Row(m)) \/ Holds(chat[t].shown, Push(m))
           /\ ShowsRow(t, m) <=> Holds(chat[t].shown, Row(m))
<1> DEFINE s == chat[t].shown
<1>1. s \in Seq(Copy)
  BY DEF PageOK, PageState
<1> HIDE DEF s
<1>2. \A n \in DOMAIN s : s[n] \in Copy
  BY <1>1
<1>3. \A n \in DOMAIN s :
        /\ s[n].message = m => s[n] = Row(m) \/ s[n] = Push(m)
        /\ s[n] = Row(m) => s[n].message = m /\ s[n].copy = "row"
        /\ s[n] = Push(m) => s[n].message = m
        /\ s[n].message = m /\ s[n].copy = "row" => s[n] = Row(m)
  BY <1>2 DEF Copy, Row, Push
<1>4. ASSUME NEW n \in DOMAIN s, s[n].message = m PROVE Holds(s, Row(m)) \/ Holds(s, Push(m))
  BY <1>3, <1>4, Zenon DEF Holds
<1>5. ASSUME NEW n \in DOMAIN s, s[n].message = m, s[n].copy = "row" PROVE Holds(s, Row(m))
  BY <1>3, <1>5, Zenon DEF Holds
<1>6. Holds(s, Row(m)) => \E n \in DOMAIN s : s[n].message = m /\ s[n].copy = "row"
  BY <1>3, Zenon DEF Holds
<1>7. Holds(s, Push(m)) => \E n \in DOMAIN s : s[n].message = m
  BY <1>3, Zenon DEF Holds
<1> QED
  BY <1>4, <1>5, <1>6, <1>7 DEF Shows, ShowsRow, Copies, s

-----------------------------------------------------------------------------
\* The steps of the chat.

chatTyped == ChatSocketOK /\ PageOK /\ PostOK

\* A page whose state is replaced.
LEMMA PageBecomes ==
    ASSUME PageOK, NEW t \in Tabs, NEW r \in PageState, ~r.open => r.shown = <<>> /\ r.sending = {},
           chat' = [chat EXCEPT ![t] = r]
    PROVE  PageOK' /\ chat'[t] = r /\ \A x \in Tabs \ {t} : chat'[x] = chat[x]
BY DEF PageOK

LEMMA InitChatInv == SocketsInit /\ ChatInit => ChatInv
<1> SUFFICES ASSUME SocketsInit, ChatInit PROVE ChatInv
  OBVIOUS
<1>1. PICK inbox \in Seq(MessageIds) : inbox = <<>>
  BY Nothing, Zenon
<1>2. PICK shown \in Seq(Copy) : shown = <<>>
  BY Nothing, Zenon
<1>3. DOMAIN socket = Tabs /\ \A t \in Tabs : socket[t] = [up |-> TRUE, rooms |-> OwnRooms(t), inbox |-> inbox]
  BY <1>1 DEF SocketsInit, Connected
<1>4. ChatSocketOK
  <2> SUFFICES ASSUME NEW t \in Tabs
               PROVE  /\ socket[t] \in [up : BOOLEAN, rooms : SUBSET Rooms(t), inbox : Seq(MessageIds)]
                      /\ socket[t].up
    BY <1>3 DEF ChatSocketOK
  <2>1. PICK own \in SUBSET Rooms(t) : own = OwnRooms(t)
    BY Zenon DEF Rooms
  <2>2. socket[t] = [up |-> TRUE, rooms |-> own, inbox |-> inbox]
    BY <1>3, <2>1
  <2> QED
    BY <2>2
<1>5. chat = [t \in Tabs |-> [open |-> FALSE, live |-> FALSE, shown |-> shown, sending |-> {}]]
  BY <1>2 DEF ChatInit, Closed
<1>6. PageOK /\ \A t \in Tabs : chat[t].shown = <<>>
  BY <1>2, <1>5 DEF PageOK, PageState
<1>7. PostOK /\ \A m \in MessageIds : post[m] = "none"
  BY DEF PostOK, ChatInit, MessageIds
<1>8. ASSUME NEW t \in Tabs PROVE Tab(t, socket[t].inbox, chat[t].shown, post, lost)
  <2>1. socket[t].inbox = <<>> /\ chat[t].shown = <<>>
    BY <1>1, <1>3, <1>6
  <2> QED
    BY <1>7, <2>1, Nothing DEF Tab
<1> QED
  BY <1>4, <1>6, <1>7, <1>8 DEF ChatInv

\* A step of which neither the pages nor what is under way tells anything.
LEMMA StepUnheard ==
    ASSUME ChatInv, chatTyped', lost' = lost,
           \A t \in Tabs : socket'[t].inbox = socket[t].inbox /\ chat'[t].shown = chat[t].shown,
           \A m \in MessageIds : \/ post'[m] = post[m]
                                \/ {post[m], post'[m]} \subseteq {"none", "sent", "stored"}
    PROVE  ChatInv'
<1> SUFFICES ASSUME NEW t \in Tabs PROVE Tab(t, socket'[t].inbox, chat'[t].shown, post', lost')
  BY DEF ChatInv, chatTyped
<1>1. Tab(t, socket[t].inbox, chat[t].shown, post, lost)
  BY DEF ChatInv
<1>2. Tab(t, socket[t].inbox, chat[t].shown, post', lost)
  BY <1>1 DEF Tab
<1> QED
  BY <1>2

\* A page that shows nothing any more.
LEMMA StepCleared ==
    ASSUME ChatInv, chatTyped', NEW t \in Tabs, lost' = Lost(t), post' = post,
           \A x \in Tabs : socket'[x].inbox = socket[x].inbox,
           \A x \in Tabs \ {t} : chat'[x].shown = chat[x].shown,
           chat'[t].shown = <<>>
    PROVE  ChatInv'
<1> SUFFICES ASSUME NEW x \in Tabs PROVE Tab(x, socket'[x].inbox, chat'[x].shown, post', lost')
  BY DEF ChatInv, chatTyped
<1>1. Tab(x, socket[x].inbox, chat[x].shown, post, lost)
  BY DEF ChatInv
<1>2. lost \subseteq lost' /\ \A m \in MessageIds : Shows(t, m) => <<t, m>> \in lost'
  BY DEF Lost, MessageIds
<1>3. CASE x # t
  <2>1. Tab(x, socket[x].inbox, chat[x].shown, post, lost')
    BY <1>1, <1>2 DEF Tab
  <2> QED
    BY <1>3, <2>1
<1>4. CASE x = t
  <2>1. \A m \in MessageIds :
            Holds(chat[t].shown, Row(m)) \/ Holds(chat[t].shown, Push(m)) => <<t, m>> \in lost'
    BY <1>2, Showing DEF ChatInv
  <2>2. Tab(t, socket[t].inbox, <<>>, post, lost')
    BY <1>1, <1>2, <1>4, <2>1, Nothing DEF Tab
  <2> QED
    BY <1>4, <2>2
<1> QED
  BY <1>3, <1>4

LEMMA StepOpenChat ==
    ASSUME ChatInv, NEW t \in Tabs, OpenChat(t) PROVE ChatInv'
<1>1. PICK live \in BOOLEAN :
        chat' = [chat EXCEPT ![t] = [Closed EXCEPT !.open = TRUE, !.live = live]]
  BY DEF OpenChat
<1>2. ~chat[t].open /\ UNCHANGED <<post, lost, socket>>
  BY DEF OpenChat, rowsUnchanged, socketVars
<1>3. PICK shown \in Seq(Copy) : shown = <<>>
  BY Nothing, Zenon
<1> DEFINE r == [Closed EXCEPT !.open = TRUE, !.live = live]
<1>4. Closed = [open |-> FALSE, live |-> FALSE, shown |-> shown, sending |-> {}]
  BY <1>3 DEF Closed
<1>5. Closed \in PageState /\ Closed.shown = <<>>
  BY <1>3, <1>4 DEF PageState
<1>6. r \in PageState /\ r.shown = <<>> /\ r.open
  BY <1>5 DEF PageState
<1>7. PageOK' /\ chat'[t].shown = chat[t].shown /\ \A x \in Tabs \ {t} : chat'[x] = chat[x]
  BY <1>1, <1>2, <1>6, PageBecomes DEF ChatInv, PageOK
<1>8. \A x \in Tabs : chat'[x].shown = chat[x].shown
  BY <1>7
<1>9. chatTyped'
  BY <1>2, <1>7 DEF ChatInv, ChatSocketOK, PostOK, chatTyped, Rooms, OwnRooms
<1> QED
  BY <1>2, <1>8, <1>9, StepUnheard

\* The page's own steps that show nothing new: leaving and loading.
LEMMA StepLoad ==
    ASSUME ChatInv, NEW t \in Tabs, CloseChat(t) \/ HistoryArrives(t) \/ HistoryFails(t)
    PROVE  ChatInv'
<1>1. /\ UNCHANGED <<post, socket>> /\ lost' = Lost(t)
      /\ chat' = [chat EXCEPT ![t] = Closed] \/ chat' = [chat EXCEPT ![t].shown = <<>>]
  BY DEF CloseChat, HistoryArrives, HistoryFails, rowsUnchanged, socketVars
<1>2. PICK shown \in Seq(Copy) : shown = <<>>
  BY Nothing, Zenon
<1>3. chat[t] \in PageState /\ (~chat[t].open => chat[t].sending = {})
  BY DEF ChatInv, PageOK
<1>4. PICK r \in PageState : /\ chat' = [chat EXCEPT ![t] = r] /\ r.shown = <<>>
                             /\ ~r.open => r.sending = {}
  <2>1. CASE chat' = [chat EXCEPT ![t] = Closed]
    <3>1. Closed = [open |-> FALSE, live |-> FALSE, shown |-> shown, sending |-> {}]
      BY <1>2 DEF Closed
    <3>2. Closed \in PageState /\ Closed.shown = <<>> /\ Closed.sending = {}
      BY <1>2, <3>1 DEF PageState
    <3> QED
      BY <2>1, <3>2
  <2>2. CASE chat' = [chat EXCEPT ![t].shown = <<>>]
    <3>1. [chat[t] EXCEPT !.shown = shown] \in PageState
      BY <1>2, <1>3 DEF PageState
    <3>2. /\ [chat[t] EXCEPT !.shown = shown].shown = <<>>
          /\ ~[chat[t] EXCEPT !.shown = shown].open => [chat[t] EXCEPT !.shown = shown].sending = {}
      BY <1>2, <1>3 DEF PageState
    <3>3. chat' = [chat EXCEPT ![t] = [chat[t] EXCEPT !.shown = shown]]
      BY <1>2, <2>2
    <3> QED
      BY <3>1, <3>2, <3>3
  <2> QED
    BY <1>1, <2>1, <2>2
<1>5. PageOK' /\ chat'[t].shown = <<>> /\ \A x \in Tabs \ {t} : chat'[x].shown = chat[x].shown
  BY <1>4, PageBecomes DEF ChatInv
<1>6. chatTyped'
  BY <1>1, <1>5 DEF ChatInv, ChatSocketOK, PostOK, chatTyped, Rooms, OwnRooms
<1> QED
  BY <1>1, <1>5, <1>6, StepCleared

LEMMA StepHearMessage ==
    ASSUME ChatInv, NEW t \in Tabs, HearMessage(t) PROVE ChatInv'
<1> DEFINE s == socket[t].inbox
           m == Head(s)
           shown == chat[t].shown
<1>1. /\ s # <<>> /\ socket' = [socket EXCEPT ![t].inbox = Tail(@)]
      /\ chat' = IF Hears(t) THEN [chat EXCEPT ![t].shown = Append(shown, Push(m))] ELSE chat
      /\ lost' = IF Hears(t) THEN lost ELSE lost \cup {<<t, m>>}
      /\ post' = post
  BY DEF HearMessage, Heard, Received, Shown, Push, rowsUnchanged
<1>2. /\ s \in Seq(MessageIds) /\ shown \in Seq(Copy)
      /\ socket[t] \in [up : BOOLEAN, rooms : SUBSET Rooms(t), inbox : Seq(MessageIds)]
      /\ chat[t] \in PageState
      /\ DOMAIN socket = Tabs
  BY DEF ChatInv, ChatSocketOK, PageOK, PageState
<1>3. /\ Tail(s) \in Seq(MessageIds) /\ m \in MessageIds
      /\ \A k : Holds(s, k) <=> Holds(Tail(s), k) \/ k = m
      /\ Distinct(s) => Distinct(Tail(s)) /\ ~Holds(Tail(s), m)
  BY <1>1, <1>2, Taken
<1>4. Push(m) \in Copy
  BY <1>3, Copying
<1>5. /\ Append(shown, Push(m)) \in Seq(Copy)
      /\ \A k : Holds(Append(shown, Push(m)), k) <=> Holds(shown, k) \/ k = Push(m)
      /\ Distinct(shown) /\ ~Holds(shown, Push(m)) => Distinct(Append(shown, Push(m)))
  BY <1>2, <1>4, Appended
<1>6. Tab(t, s, shown, post, lost)
  BY DEF ChatInv
<1> DEFINE tail == Tail(s)
           more == Append(shown, Push(m))
<1> HIDE DEF m, tail, more
<1>7. CASE Hears(t)
  <2>1. /\ socket'[t] = [socket[t] EXCEPT !.inbox = tail]
        /\ \A x \in Tabs \ {t} : socket'[x] = socket[x]
        /\ chat' = [chat EXCEPT ![t] = [chat[t] EXCEPT !.shown = more]]
        /\ lost' = lost /\ DOMAIN socket' = Tabs
    BY <1>1, <1>2, <1>7 DEF tail, more
  <2>2. chat[t].open
    BY <1>7 DEF Hears
  <2>3. /\ socket'[t] \in [up : BOOLEAN, rooms : SUBSET Rooms(t), inbox : Seq(MessageIds)]
        /\ socket'[t].inbox = tail /\ socket'[t].up = socket[t].up
    BY <1>2, <1>3, <2>1 DEF tail
  <2>4. /\ [chat[t] EXCEPT !.shown = more] \in PageState
        /\ [chat[t] EXCEPT !.shown = more].shown = more
        /\ [chat[t] EXCEPT !.shown = more].open
    BY <1>2, <1>5, <2>2 DEF more, PageState
  <2>5. socket[t].up
    BY <1>1 DEF ChatInv, ChatSocketOK
  <2>6. PageOK' /\ chat'[t].shown = more /\ \A x \in Tabs \ {t} : chat'[x] = chat[x]
    BY <2>1, <2>4, PageBecomes DEF ChatInv
  <2>7. ChatSocketOK' /\ PostOK'
    BY <1>1, <2>1, <2>3, <2>5 DEF ChatInv, ChatSocketOK, PostOK, Rooms, OwnRooms
  <2>8. Tab(t, tail, more, post, lost)
    <3>1. Distinct(tail) /\ Distinct(more)
      BY <1>3, <1>5, <1>6 DEF Tab, tail, more
    <3> SUFFICES ASSUME NEW k \in MessageIds
                 PROVE  /\ post[k] \in {"pushed", "done"} =>
                            Holds(tail, k) \/ Holds(more, Row(k)) \/ Holds(more, Push(k)) \/ <<t, k>> \in lost
                        /\ post[k] \notin {"pushed", "done"} => ~Holds(tail, k) /\ ~Holds(more, Push(k))
                        /\ post[k] # "done" => ~Holds(more, Row(k))
                        /\ Holds(tail, k) => ~Holds(more, Push(k))
      BY <3>1 DEF Tab
    <3>2. /\ Holds(s, k) <=> Holds(tail, k) \/ k = m
          /\ Holds(more, Row(k)) <=> Holds(shown, Row(k))
          /\ Holds(more, Push(k)) <=> Holds(shown, Push(k)) \/ k = m
          /\ ~Holds(tail, m)
      BY <1>3, <1>5, <1>6, Copying DEF Tab, tail, more
    <3> QED
      BY <1>6, <3>2 DEF Tab
  <2>9. \A x \in Tabs \ {t} : Tab(x, socket'[x].inbox, chat'[x].shown, post, lost)
    BY <2>1, <2>6 DEF ChatInv
  <2>10. \A x \in Tabs : Tab(x, socket'[x].inbox, chat'[x].shown, post', lost')
    BY <1>1, <2>1, <2>3, <2>6, <2>8, <2>9
  <2> QED
    BY <2>6, <2>7, <2>10 DEF ChatInv
<1>8. CASE ~Hears(t)
  <2>1. /\ socket'[t] = [socket[t] EXCEPT !.inbox = tail]
        /\ \A x \in Tabs \ {t} : socket'[x] = socket[x]
        /\ chat' = chat /\ DOMAIN socket' = Tabs
        /\ lost' = lost \cup {<<t, m>>}
    BY <1>1, <1>2, <1>8 DEF tail
  <2>2. /\ socket'[t] \in [up : BOOLEAN, rooms : SUBSET Rooms(t), inbox : Seq(MessageIds)]
        /\ socket'[t].inbox = tail /\ socket'[t].up = socket[t].up
    BY <1>2, <1>3, <2>1 DEF tail
  <2>3. socket[t].up
    BY <1>1 DEF ChatInv, ChatSocketOK
  <2>4. ChatSocketOK' /\ PageOK' /\ PostOK'
    BY <1>1, <2>1, <2>2, <2>3 DEF ChatInv, ChatSocketOK, PageOK, PostOK, Rooms, OwnRooms
  <2>5. Tab(t, tail, shown, post, lost')
    BY <1>3, <1>6, <2>1 DEF Tab, tail
  <2>6. \A x \in Tabs \ {t} : Tab(x, socket[x].inbox, chat[x].shown, post, lost')
    BY <2>1 DEF ChatInv, Tab
  <2> QED
    BY <1>1, <2>1, <2>2, <2>4, <2>5, <2>6 DEF ChatInv
<1> QED
  BY <1>7, <1>8

LEMMA StepPushMessage ==
    ASSUME ChatInv, NEW m \in MessageIds, PushMessage(m) PROVE ChatInv'
<1> DEFINE hears(t) == ChatRoom \in socket[t].rooms
<1>1. /\ post[m] = "stored" /\ post' = [post EXCEPT ![m] = "pushed"]
      /\ lost' = lost \cup {<<t, m>> : t \in Tabs \ Members(ChatRoom)}
      /\ chat' = chat
  BY DEF PushMessage
<1>2. /\ DOMAIN socket' = Tabs
      /\ \A t \in Tabs : socket'[t] = [socket[t] EXCEPT !.inbox = IF hears(t) THEN Append(@, m) ELSE @]
  BY DEF PushMessage, Emitted, Members
<1>3. ASSUME NEW t \in Tabs
      PROVE  /\ socket[t].inbox \in Seq(MessageIds)
             /\ socket'[t].inbox = IF hears(t) THEN Append(socket[t].inbox, m) ELSE socket[t].inbox
             /\ socket'[t].up = socket[t].up
             /\ socket'[t] \in [up : BOOLEAN, rooms : SUBSET Rooms(t), inbox : Seq(MessageIds)]
  <2>1. socket[t] \in [up : BOOLEAN, rooms : SUBSET Rooms(t), inbox : Seq(MessageIds)]
    BY DEF ChatInv, ChatSocketOK
  <2>2. Append(socket[t].inbox, m) \in Seq(MessageIds)
    BY <2>1
  <2> QED
    BY <1>2, <2>1, <2>2
<1>4. \A t \in Tabs : hears(t) => socket[t].up
  BY DEF ChatInv, ChatSocketOK
<1>5. \A t \in Tabs : socket'[t].rooms = socket[t].rooms
  BY <1>2 DEF ChatInv, ChatSocketOK
<1>6. chatTyped'
  BY <1>1, <1>2, <1>3, <1>4, <1>5
     DEF chatTyped, ChatInv, ChatSocketOK, PageOK, PostOK, Rooms, OwnRooms
<1>7. ASSUME NEW t \in Tabs PROVE Tab(t, socket'[t].inbox, chat'[t].shown, post', lost')
  <2> DEFINE s == socket[t].inbox
             more == Append(s, m)
  <2>1. Tab(t, s, chat[t].shown, post, lost)
    BY DEF ChatInv
  <2>2. /\ \A k : Holds(more, k) <=> Holds(s, k) \/ k = m
        /\ Distinct(s) /\ ~Holds(s, m) => Distinct(more)
    BY <1>3, Appended
  <2>3. post'[m] = "pushed" /\ \A k \in MessageIds \ {m} : post'[k] = post[k]
    BY <1>1 DEF ChatInv, PostOK
  <2> HIDE DEF more, s
  <2>4. CASE hears(t)
    <3>1. Tab(t, more, chat[t].shown, post', lost)
      BY <1>1, <2>1, <2>2, <2>3 DEF Tab
    <3>2. Tab(t, more, chat[t].shown, post', lost')
      BY <1>1, <3>1 DEF Tab
    <3> QED
      BY <1>1, <1>3, <2>4, <3>2 DEF more, s
  <2>5. CASE ~hears(t)
    <3>1. <<t, m>> \in lost' /\ lost \subseteq lost'
      BY <1>1, <2>5 DEF Members
    <3>2. Tab(t, s, chat[t].shown, post', lost')
      BY <1>1, <2>1, <2>3, <3>1 DEF Tab
    <3> QED
      BY <1>1, <1>3, <2>5, <3>2 DEF s
  <2> QED
    BY <2>4, <2>5
<1> QED
  BY <1>6, <1>7 DEF ChatInv, chatTyped

LEMMA StepAnswerShown ==
    ASSUME ChatInv, NEW m \in MessageIds, AnswerShown(m) PROVE ChatInv'
<1> DEFINE t == Messages[m]
           shown == chat[t].shown
           more == Append(shown, Row(m))
           r == [chat[t] EXCEPT !.shown = more]
<1>1. /\ post[m] = "pushed" /\ post' = [post EXCEPT ![m] = "done"]
      /\ chat' = chat \/ (m \in chat[t].sending /\ chat' = [chat EXCEPT ![t] = r])
      /\ UNCHANGED <<lost, socket>>
  BY DEF AnswerShown, Shown, Row, ghostsUnchanged, socketVars
<1>2. t \in Tabs
  BY ChatAssumption DEF MessageIds
<1>3. chat[t] \in PageState /\ shown \in Seq(Copy) /\ (~chat[t].open => chat[t].sending = {})
  BY <1>2 DEF ChatInv, PageOK, PageState
<1>4. /\ PostOK' /\ post'[m] = "done"
      /\ \A k \in MessageIds \ {m} : post'[k] = post[k]
  BY <1>1 DEF ChatInv, PostOK
<1>5. ChatSocketOK'
  BY <1>1 DEF ChatInv, ChatSocketOK, Rooms, OwnRooms
<1>6. \A x \in Tabs : Tab(x, socket[x].inbox, chat[x].shown, post', lost)
  BY <1>1, <1>4 DEF ChatInv, Tab
<1>7. CASE chat' = chat
  BY <1>1, <1>4, <1>5, <1>6, <1>7 DEF ChatInv, PageOK
<1>8. CASE chat' = [chat EXCEPT ![t] = r] /\ chat[t].open
  <2>1. Row(m) \in Copy
    BY Copying
  <2>2. /\ more \in Seq(Copy)
        /\ \A k : Holds(more, k) <=> Holds(shown, k) \/ k = Row(m)
        /\ Distinct(shown) /\ ~Holds(shown, Row(m)) => Distinct(more)
    BY <1>3, <2>1, Appended
  <2>3. r \in PageState /\ r.shown = more /\ r.open
    <3> HIDE DEF more
    <3> QED
      BY <1>3, <1>8, <2>2 DEF PageState
  <2> HIDE DEF r
  <2>4. PageOK' /\ chat'[t] = r /\ \A x \in Tabs \ {t} : chat'[x] = chat[x]
    BY <1>2, <1>8, <2>3, PageBecomes DEF ChatInv
  <2> HIDE DEF more
  <2>5. Tab(t, socket[t].inbox, more, post', lost)
    <3>1. Tab(t, socket[t].inbox, shown, post, lost)
      BY <1>2 DEF ChatInv
    <3>2. ~Holds(shown, Row(m))
      BY <1>1, <3>1 DEF Tab
    <3>3. \A k \in MessageIds :
            /\ Holds(more, Row(k)) <=> Holds(shown, Row(k)) \/ k = m
            /\ Holds(more, Push(k)) <=> Holds(shown, Push(k))
      BY <2>2, Copying
    <3>4. Distinct(socket[t].inbox) /\ Distinct(more)
      BY <2>2, <3>1, <3>2 DEF Tab
    <3> QED
      BY <1>1, <1>4, <3>1, <3>3, <3>4 DEF Tab
  <2>6. \A x \in Tabs : Tab(x, socket'[x].inbox, chat'[x].shown, post', lost')
    BY <1>1, <1>6, <2>3, <2>4, <2>5
  <2> QED
    BY <1>4, <1>5, <2>4, <2>6 DEF ChatInv
<1> QED
  BY <1>1, <1>3, <1>7, <1>8

LEMMA StepSendMessage ==
    ASSUME ChatInv, NEW m \in MessageIds, SendMessage(m) PROVE ChatInv'
<1> DEFINE t == Messages[m]
           r == [chat[t] EXCEPT !.sending = @ \cup {m}]
<1>1. /\ chat[t].open /\ post[m] = "none"
      /\ post' = [post EXCEPT ![m] = "sent"] /\ chat' = [chat EXCEPT ![t] = r]
      /\ UNCHANGED <<lost, socket>>
  BY DEF SendMessage, ghostsUnchanged, socketVars
<1>2. t \in Tabs /\ chat[t] \in PageState
  BY ChatAssumption DEF MessageIds, ChatInv, PageOK
<1>3. r \in PageState /\ r.open /\ r.shown = chat[t].shown
  BY <1>1, <1>2 DEF PageState
<1> HIDE DEF r
<1>4. PageOK' /\ chat'[t] = r /\ \A x \in Tabs \ {t} : chat'[x] = chat[x]
  BY <1>1, <1>2, <1>3, PageBecomes DEF ChatInv
<1>5. PostOK' /\ post'[m] = "sent" /\ \A k \in MessageIds \ {m} : post'[k] = post[k]
  BY <1>1 DEF ChatInv, PostOK
<1>6. chatTyped'
  BY <1>1, <1>4, <1>5 DEF ChatInv, ChatSocketOK, chatTyped, Rooms, OwnRooms
<1>7. \A x \in Tabs : chat'[x].shown = chat[x].shown
  BY <1>3, <1>4
<1>8. \A k \in MessageIds : \/ post'[k] = post[k]
                           \/ {post[k], post'[k]} \subseteq {"none", "sent", "stored"}
  BY <1>1, <1>5
<1> QED
  BY <1>1, <1>6, <1>7, <1>8, StepUnheard

LEMMA StepStoreMessage ==
    ASSUME ChatInv, NEW m \in MessageIds, StoreMessage(m) PROVE ChatInv'
<1>1. /\ post[m] = "sent" /\ post' = [post EXCEPT ![m] = "stored"]
      /\ UNCHANGED <<lost, socket, chat>>
  BY DEF StoreMessage, ghostsUnchanged, socketVars
<1>2. PostOK' /\ post'[m] = "stored" /\ \A k \in MessageIds \ {m} : post'[k] = post[k]
  BY <1>1 DEF ChatInv, PostOK
<1>3. chatTyped'
  BY <1>1, <1>2 DEF ChatInv, ChatSocketOK, PageOK, chatTyped, Rooms, OwnRooms
<1>4. \A k \in MessageIds : \/ post'[k] = post[k]
                           \/ {post[k], post'[k]} \subseteq {"none", "sent", "stored"}
  BY <1>1, <1>2
<1> QED
  BY <1>1, <1>3, <1>4, StepUnheard

\* A connection that keeps its inbox.
LEMMA StepInRoom ==
    ASSUME ChatInv, NEW t \in Tabs, NEW c, socket' = [socket EXCEPT ![t] = c],
           c \in [up : BOOLEAN, rooms : SUBSET Rooms(t), inbox : Seq(MessageIds)],
           c.up, c.inbox = socket[t].inbox, UNCHANGED <<post, chat, lost>>
    PROVE  ChatInv'
<1>1. /\ DOMAIN socket' = Tabs /\ socket'[t] = c
      /\ \A x \in Tabs \ {t} : socket'[x] = socket[x]
  BY DEF ChatInv, ChatSocketOK
<1>2. ChatSocketOK'
  BY <1>1 DEF ChatInv, ChatSocketOK, Rooms, OwnRooms
<1>3. PageOK' /\ PostOK'
  BY DEF ChatInv, PageOK, PostOK
<1>4. \A x \in Tabs : socket'[x].inbox = socket[x].inbox
  BY <1>1
<1> QED
  BY <1>2, <1>3, <1>4, StepUnheard DEF chatTyped

LEMMA StepRoom ==
    ASSUME ChatInv, NEW t \in Tabs,
           EnsureRoom(t) \/ ChatConnects(t) \/ \E request \in {"join", "leave"} : LookedUp(t, request)
    PROVE  ChatInv'
<1>1. /\ socket[t] \in [up : BOOLEAN, rooms : SUBSET Rooms(t), inbox : Seq(MessageIds)]
      /\ ~socket[t].up => socket[t].inbox = <<>>
  BY DEF ChatInv, ChatSocketOK
<1>2. CASE EnsureRoom(t)
  <2>1. UNCHANGED <<post, chat, lost, socket>>
    BY <1>2 DEF EnsureRoom, ghostsUnchanged, socketVars
  <2>2. chatTyped'
    BY <2>1 DEF ChatInv, ChatSocketOK, PageOK, PostOK, chatTyped, Rooms, OwnRooms
  <2> QED
    BY <2>1, <2>2, StepUnheard
<1>3. CASE ChatConnects(t)
  <2>1. ~socket[t].up /\ socket' = [socket EXCEPT ![t] = Connected(t)] /\ UNCHANGED <<post, chat, lost>>
    BY <1>3 DEF ChatConnects, Connect, chatVars
  <2>2. PICK own \in SUBSET Rooms(t) : own = OwnRooms(t)
    BY Zenon DEF Rooms
  <2>3. Connected(t) = [up |-> TRUE, rooms |-> own, inbox |-> socket[t].inbox]
    BY <1>1, <2>1, <2>2 DEF Connected
  <2>4. /\ Connected(t) \in [up : BOOLEAN, rooms : SUBSET Rooms(t), inbox : Seq(MessageIds)]
        /\ Connected(t).up /\ Connected(t).inbox = socket[t].inbox
    BY <1>1, <2>3
  <2> QED
    BY <2>1, <2>4, StepInRoom
<1>4. ASSUME NEW request \in {"join", "leave"}, LookedUp(t, request) PROVE ChatInv'
  <2> DEFINE rooms == IF ~room THEN socket[t].rooms
                      ELSE IF request = "join" THEN socket[t].rooms \cup {ChatRoom}
                      ELSE socket[t].rooms \ {ChatRoom}
             c == [socket[t] EXCEPT !.rooms = rooms]
  <2>1. /\ socket[t].up /\ UNCHANGED <<post, chat, lost>>
        /\ socket' = [socket EXCEPT ![t] = c]
    BY <1>4 DEF LookedUp, rowsUnchanged, ghostsUnchanged
  <2>2. rooms \in SUBSET Rooms(t)
    BY <1>1 DEF Rooms
  <2> HIDE DEF rooms
  <2>3. /\ c \in [up : BOOLEAN, rooms : SUBSET Rooms(t), inbox : Seq(MessageIds)]
        /\ c.up /\ c.inbox = socket[t].inbox
    BY <1>1, <2>1, <2>2
  <2> HIDE DEF c
  <2> QED
    BY <2>1, <2>3, StepInRoom
<1> QED
  BY <1>2, <1>3, <1>4

LEMMA StepChatDrops ==
    ASSUME ChatInv, NEW t \in Tabs, ChatDrops(t) PROVE ChatInv'
<1>1. /\ socket' = [socket EXCEPT ![t] = Down] /\ UNCHANGED <<post, chat>>
      /\ lost' = lost \cup {<<t, socket[t].inbox[n]>> : n \in DOMAIN socket[t].inbox}
  BY DEF ChatDrops, Drop, rowsUnchanged
<1>2. PICK inbox \in Seq(MessageIds) : inbox = <<>>
  BY Nothing, Zenon
<1>3. /\ DOMAIN socket' = Tabs /\ \A x \in Tabs \ {t} : socket'[x] = socket[x]
      /\ socket'[t] = [up |-> FALSE, rooms |-> {}, inbox |-> inbox]
  BY <1>1, <1>2 DEF ChatInv, ChatSocketOK, Down
<1>4. ChatSocketOK'
  <2>1. /\ socket'[t] \in [up : BOOLEAN, rooms : SUBSET Rooms(t), inbox : Seq(MessageIds)]
        /\ socket'[t].rooms = {} /\ socket'[t].inbox = <<>>
    BY <1>2, <1>3
  <2> QED
    BY <1>3, <2>1 DEF ChatInv, ChatSocketOK, Rooms, OwnRooms
<1>5. \A m : Holds(socket[t].inbox, m) => <<t, m>> \in lost'
  BY <1>1 DEF Holds
<1>6. Tab(t, <<>>, chat[t].shown, post, lost')
  <2>1. Tab(t, socket[t].inbox, chat[t].shown, post, lost) /\ lost \subseteq lost'
    BY <1>1 DEF ChatInv
  <2> QED
    BY <1>5, <2>1, Nothing DEF Tab
<1>7. \A x \in Tabs \ {t} : Tab(x, socket[x].inbox, chat[x].shown, post, lost')
  <2>1. \A x \in Tabs : Tab(x, socket[x].inbox, chat[x].shown, post, lost)
    BY DEF ChatInv
  <2>2. lost \subseteq lost'
    BY <1>1
  <2> QED
    BY <2>1, <2>2 DEF Tab
<1>8. \A x \in Tabs : Tab(x, socket'[x].inbox, chat'[x].shown, post', lost')
  <2>1. socket'[t].inbox = <<>>
    BY <1>2, <1>3
  <2> QED
    BY <1>1, <1>3, <1>6, <1>7, <2>1
<1> QED
  BY <1>1, <1>4, <1>8 DEF ChatInv, PageOK, PostOK

LEMMA NextChatInv == ChatInv /\ [ChatNext]_<<chatVars, socketVars>> => ChatInv'
<1> SUFFICES ASSUME ChatInv, [ChatNext]_<<chatVars, socketVars>> PROVE ChatInv'
  OBVIOUS
<1>1. CASE UNCHANGED <<chatVars, socketVars>>
  BY <1>1 DEF ChatInv, ChatSocketOK, PageOK, PostOK, Rooms, OwnRooms, chatVars, socketVars
<1>2. ASSUME NEW t \in Tabs,
             \/ OpenChat(t) \/ CloseChat(t) \/ HearMessage(t)
             \/ HistoryArrives(t) \/ HistoryFails(t) \/ EnsureRoom(t)
             \/ ChatDrops(t) \/ ChatConnects(t)
             \/ \E request \in {"join", "leave"} : LookedUp(t, request)
      PROVE  ChatInv'
  BY <1>2, StepOpenChat, StepLoad, StepHearMessage, StepRoom, StepChatDrops
<1>3. ASSUME NEW m \in MessageIds,
             SendMessage(m) \/ StoreMessage(m) \/ PushMessage(m) \/ AnswerShown(m)
      PROVE  ChatInv'
  BY <1>3, StepSendMessage, StepStoreMessage, StepPushMessage, StepAnswerShown
<1> QED
  BY <1>1, <1>2, <1>3 DEF ChatNext, MessageIds

(* An open page that loaded and heard everything shows every message that  *)
(* was pushed, but for those lost in the ways NothingElseIsLost names.     *)
THEOREM MessagesArrive == MessagesSpec => []NothingElseIsLost
<1>1. ChatInv => NothingElseIsLost
  <2> SUFFICES ASSUME ChatInv, NEW t \in Tabs, NEW m \in MessageIds, post[m] \in {"pushed", "done"},
                      \A n \in DOMAIN socket[t].inbox : socket[t].inbox[n] # m
               PROVE  Shows(t, m) \/ <<t, m>> \in lost
    BY DEF NothingElseIsLost, MessageIds
  <2>1. ~Holds(socket[t].inbox, m)
    BY DEF Holds
  <2>2. Tab(t, socket[t].inbox, chat[t].shown, post, lost)
    BY DEF ChatInv
  <2> QED
    BY <2>1, <2>2, Showing DEF ChatInv, Tab
<1> QED
  BY <1>1, InitChatInv, NextChatInv, PTL DEF MessagesSpec

(* A page shows a message twice at most: as its own row and as the push,   *)
(* which carries no id (chatController.js:136, ChatPage.jsx:278).          *)
THEOREM MessagesShownTwiceAtMost == MessagesSpec => []AtMostRowAndPush
<1>1. ChatInv => AtMostRowAndPush
  <2> SUFFICES ASSUME ChatInv, NEW t \in Tabs, NEW m \in MessageIds,
                      NEW i \in Copies(t, m), NEW j \in Copies(t, m), i # j,
                      chat[t].shown[i].copy = chat[t].shown[j].copy
               PROVE  FALSE
    BY DEF AtMostRowAndPush, MessageIds
  <2>1. Distinct(chat[t].shown) /\ chat[t].shown \in Seq(Copy)
    BY DEF ChatInv, Tab, PageOK, PageState
  <2>2. /\ i \in DOMAIN chat[t].shown /\ j \in DOMAIN chat[t].shown
        /\ chat[t].shown[i].message = chat[t].shown[j].message
    BY DEF Copies
  <2>3. chat[t].shown[i] \in Copy /\ chat[t].shown[j] \in Copy
    BY <2>1, <2>2
  <2>4. chat[t].shown[i] = chat[t].shown[j]
    BY <2>2, <2>3 DEF Copy
  <2> QED
    BY <2>1, <2>2, <2>4 DEF Distinct
<1> QED
  BY <1>1, InitChatInv, NextChatInv, PTL DEF MessagesSpec
=============================================================================
