-------------------------------- MODULE Chat --------------------------------
(***************************************************************************)
(* The chat of one incident: its room, created by whoever asks for it      *)
(* first, messages stored over HTTP and pushed to the tabs in the room,    *)
(* and the page, which shows what it sent and what it heard.  It loads the *)
(* history too, but looks for the messages one level above the place the   *)
(* answer has them in, and shows none of them.                             *)
(*                                                                         *)
(* A message pushed carries messageId and no id, so the page cannot tell   *)
(* it from one it has: shown is a sequence of copies, "row" for those with *)
(* an id and "push" for those without.                                     *)
(***************************************************************************)
EXTENDS Sockets

CONSTANTS
    Messages,       \* message -> the tab that sends it
    MaxOpens        \* bound on opened pages

ASSUME ChatAssumption ==
    MaxOpens \in Nat /\ \A m \in DOMAIN Messages : Messages[m] \in Tabs

VARIABLES
    room,       \* the ChatRoom row exists
    post,       \* message -> its POST under way
    history,    \* tab -> its GET under way
    lookups,    \* tab -> join_chat and leave_chat waiting for their room
    chat,       \* tab -> the page: open, has a socket, shown, own posts
    opens,
    lost        \* <<tab, message>>: pushed while the tab or its page did not
                \* listen, or no longer shown since the page left or loaded

chatVars == <<room, post, history, lookups, chat, opens, lost>>

ChatRoom == <<"chat">>

Closed == [open |-> FALSE, live |-> FALSE, shown |-> <<>>, sending |-> {}]

ChatInit ==
    /\ room = FALSE
    /\ post = [m \in DOMAIN Messages |-> "none"]
    /\ history = [t \in Tabs |-> "idle"]
    /\ lookups = [t \in Tabs |-> {}]
    /\ chat = [t \in Tabs |-> Closed]
    /\ opens = 0
    /\ lost = {}

rowsUnchanged == UNCHANGED <<room, post>>
ghostsUnchanged == UNCHANGED <<opens, lost>>

Copies(t, m) == {n \in DOMAIN chat[t].shown : chat[t].shown[n].message = m}
Shows(t, m) == Copies(t, m) # {}
ShowsRow(t, m) == \E n \in Copies(t, m) : chat[t].shown[n].copy = "row"

(* What a page shows is gone. *)
Lost(t) == lost \cup {<<t, m>> : m \in {k \in DOMAIN Messages : Shows(t, k)}}

-----------------------------------------------------------------------------
(* The page. *)

(* What a page that has a socket asks for waits for the connection. *)
Asked(t, live, request) == [lookups EXCEPT ![t] = IF live THEN @ \cup {request} ELSE @]

(* The page opens: it asks for the history and, if the context had a       *)
(* socket when it rendered, to join the room.                              *)
OpenChat(t) ==
    /\ ~chat[t].open
    /\ opens < MaxOpens
    /\ opens' = opens + 1
    /\ \E live \in BOOLEAN :
        /\ chat' = [chat EXCEPT ![t] = [Closed EXCEPT !.open = TRUE, !.live = live]]
        /\ lookups' = Asked(t, live, "join")
    /\ history' = [history EXCEPT ![t] = "sent"]
    /\ rowsUnchanged
    /\ UNCHANGED <<lost, socketVars>>

(* Leaving cancels the load: its answer is ignored. *)
CloseChat(t) ==
    /\ chat[t].open
    /\ chat' = [chat EXCEPT ![t] = Closed]
    /\ lost' = Lost(t)
    /\ lookups' = Asked(t, chat[t].live, "leave")
    /\ history' = [history EXCEPT ![t] = "idle"]
    /\ rowsUnchanged
    /\ UNCHANGED <<opens, socketVars>>

(* What the page showed is replaced by nothing, whatever the rows are. *)
HistoryArrives(t) ==
    /\ history[t] = "room"
    /\ chat' = [chat EXCEPT ![t].shown = <<>>]
    /\ lost' = Lost(t)
    /\ history' = [history EXCEPT ![t] = "arrived"]
    /\ rowsUnchanged
    /\ UNCHANGED <<opens, lookups, socketVars>>

(* A load that fails does the same. *)
HistoryFails(t) ==
    /\ history[t] \in {"sent", "room"}
    /\ drops < MaxDrops
    /\ drops' = drops + 1
    /\ chat' = [chat EXCEPT ![t].shown = <<>>]
    /\ lost' = Lost(t)
    /\ history' = [history EXCEPT ![t] = "arrived"]
    /\ rowsUnchanged
    /\ UNCHANGED <<opens, lookups, socket>>

Shown(t, m, copy) == Append(chat[t].shown, [message |-> m, copy |-> copy])

Hears(t) == chat[t].open /\ chat[t].live

(* What arrives is appended, or lost when nothing listens. *)
Heard(t, heard, appended) ==
    /\ socket[t].inbox # <<>>
    /\ socket' = Received(t)
    /\ chat' = IF appended
               THEN [chat EXCEPT ![t].shown = Shown(t, Head(socket[t].inbox), "push")]
               ELSE chat
    /\ lost' = IF heard THEN lost ELSE lost \cup {<<t, Head(socket[t].inbox)>>}
    /\ rowsUnchanged
    /\ UNCHANGED <<opens, history, lookups, drops>>

(* (mutant) ids are compared although a pushed message has none. *)
HearMessageComparing(t) ==
    Heard(t, Hears(t),
          Hears(t) /\ ~\E n \in DOMAIN chat[t].shown : chat[t].shown[n].copy = "push")

(* Only messages with an id are looked for. *)
HearMessage(t) == Heard(t, Hears(t), Hears(t))

(* Enter sends again what is being sent. *)
SendMessage(m) ==
    LET t == Messages[m] IN
    /\ chat[t].open /\ post[m] = "none"
    /\ \A k \in DOMAIN Messages : k < m => post[k] # "none"
    /\ post' = [post EXCEPT ![m] = "sent"]
    /\ chat' = [chat EXCEPT ![t].sending = @ \cup {m}]
    /\ ghostsUnchanged
    /\ UNCHANGED <<room, history, lookups, socketVars>>

(* The answer is shown unless a copy with its id is, by the page that sent. *)
AnswerShown(m) ==
    LET t == Messages[m] IN
    /\ post[m] = "pushed"
    /\ post' = [post EXCEPT ![m] = "done"]
    /\ chat' = IF m \in chat[t].sending /\ ~ShowsRow(t, m)
               THEN [chat EXCEPT ![t].shown = Shown(t, m, "row")] ELSE chat
    /\ ghostsUnchanged
    /\ UNCHANGED <<room, history, lookups, socketVars>>

-----------------------------------------------------------------------------
(* The server. *)

(* Room and participant are created if missing, then the rows are read.    *)
EnsureRoom(t) ==
    /\ history[t] = "sent"
    /\ room' = TRUE
    /\ history' = [history EXCEPT ![t] = "room"]
    /\ ghostsUnchanged
    /\ UNCHANGED <<post, lookups, chat, socketVars>>

StoreMessage(m) ==
    /\ post[m] = "sent"
    /\ room' = TRUE
    /\ post' = [post EXCEPT ![m] = "stored"]
    /\ ghostsUnchanged
    /\ UNCHANGED <<history, lookups, chat, socketVars>>

(* (mutant) the sender is told once more, in case it is not in the room. *)
PushMessageToSenderToo(m) ==
    /\ post[m] = "stored"
    /\ post' = [post EXCEPT ![m] = "pushed"]
    /\ socket' = [Emitted({ChatRoom}, m) EXCEPT ![Messages[m]].inbox =
                    IF socket[Messages[m]].up THEN Append(@, m) ELSE @]
    /\ lost' = lost \cup {<<t, m>> : t \in Tabs \ Members(ChatRoom)}
    /\ UNCHANGED <<opens, room, history, lookups, chat, drops>>

PushMessage(m) ==
    /\ post[m] = "stored"
    /\ post' = [post EXCEPT ![m] = "pushed"]
    /\ socket' = Emitted({ChatRoom}, m)
    /\ lost' = lost \cup {<<t, m>> : t \in Tabs \ Members(ChatRoom)}
    /\ UNCHANGED <<opens, room, history, lookups, chat, drops>>

(* join_chat and leave_chat wait for the room's row, in any order.  While  *)
(* there is none, both do nothing.                                         *)
LookedUp(t, request) ==
    /\ socket[t].up /\ request \in lookups[t]
    /\ lookups' = [lookups EXCEPT ![t] = @ \ {request}]
    /\ socket' = [socket EXCEPT ![t].rooms =
                    IF ~room THEN @
                    ELSE IF request = "join" THEN @ \cup {ChatRoom} ELSE @ \ {ChatRoom}]
    /\ rowsUnchanged
    /\ ghostsUnchanged
    /\ UNCHANGED <<history, chat, drops>>

(* A connection is lost with its rooms, requests and messages under way.   *)
ChatDrops(t) ==
    /\ Drop(t)
    /\ lookups' = [lookups EXCEPT ![t] = {}]
    /\ lost' = lost \cup {<<t, socket[t].inbox[n]>> : n \in DOMAIN socket[t].inbox}
    /\ rowsUnchanged
    /\ UNCHANGED <<opens, history, chat>>

(* Nobody asks to join again. *)
ChatConnects(t) ==
    /\ Connect(t)
    /\ UNCHANGED chatVars

ChatNext ==
    \/ \E t \in Tabs :
        \/ OpenChat(t) \/ CloseChat(t) \/ HearMessage(t)
        \/ HistoryArrives(t) \/ HistoryFails(t) \/ EnsureRoom(t)
        \/ ChatDrops(t) \/ ChatConnects(t)
        \/ \E request \in {"join", "leave"} : LookedUp(t, request)
    \/ \E m \in DOMAIN Messages :
        SendMessage(m) \/ StoreMessage(m) \/ PushMessage(m) \/ AnswerShown(m)

MessagesSpec == SocketsInit /\ ChatInit /\ [][ChatNext]_<<chatVars, socketVars>>

-----------------------------------------------------------------------------

(* An open page whose load has ended, and which has heard everything that  *)
(* was pushed to it, shows every message except one pushed while its       *)
(* connection was not in the room or its page was closed, or shown before  *)
(* it loaded or left: ChatPage's listener and ids, and chatController's    *)
(* emit to the room.                                                       *)
NothingElseIsLost ==
    \A t \in Tabs, m \in DOMAIN Messages :
        /\ chat[t].open /\ chat[t].live /\ history[t] = "arrived"
        /\ post[m] \in {"pushed", "done"}
        /\ \A n \in DOMAIN socket[t].inbox : socket[t].inbox[n] # m
        => Shows(t, m) \/ <<t, m>> \in lost

(* A message is shown at most twice, and twice only as the row and as the  *)
(* push that has no id to recognise it by (chatController.js:136,          *)
(* ChatPage.jsx:278).                                                      *)
AtMostRowAndPush ==
    \A t \in Tabs, m \in DOMAIN Messages :
        \A i, j \in Copies(t, m) : i # j => chat[t].shown[i].copy # chat[t].shown[j].copy
=============================================================================
