------------------------------- MODULE Sockets -------------------------------
(***************************************************************************)
(* Browser tabs connected over Socket.IO.  The server puts a new           *)
(* connection in the rooms its token names; an emit to a room goes to the  *)
(* connections in it at that moment, each of which receives in order; what *)
(* is under way when a connection drops is lost.  The client library       *)
(* connects again by itself, as a new connection in those rooms only.      *)
(***************************************************************************)
EXTENDS Naturals, Sequences

CONSTANTS
    Tabs,
    Role,           \* tab -> the role in its token
    MaxDrops        \* bound on lost connections and reloaded pages

ASSUME SocketsAssumption == MaxDrops \in Nat

VARIABLES
    socket,     \* tab -> its connection: up, rooms it is in, messages under way
    drops

socketVars == <<socket, drops>>

(* A tab's user and its tab are one here: nobody opens two. *)
OwnRooms(t) == {<<"user", t>>, <<"role", Role[t]>>}

Connected(t) == [up |-> TRUE, rooms |-> OwnRooms(t), inbox |-> <<>>]
Down == [up |-> FALSE, rooms |-> {}, inbox |-> <<>>]

SocketsInit ==
    /\ socket = [t \in Tabs |-> Connected(t)]
    /\ drops = 0

Members(room) == {t \in Tabs : room \in socket[t].rooms}

(* io.to(room).emit(message) for each room of a set in turn. *)
Emitted(rooms, message) ==
    [t \in Tabs |->
        [socket[t] EXCEPT !.inbox = IF \E room \in rooms : t \in Members(room)
                                    THEN Append(@, message) ELSE @]]

Received(t) == [socket EXCEPT ![t].inbox = Tail(@)]

Connect(t) ==
    /\ ~socket[t].up
    /\ socket' = [socket EXCEPT ![t] = Connected(t)]
    /\ UNCHANGED drops

Drop(t) ==
    /\ socket[t].up
    /\ drops < MaxDrops
    /\ drops' = drops + 1
    /\ socket' = [socket EXCEPT ![t] = Down]
=============================================================================
