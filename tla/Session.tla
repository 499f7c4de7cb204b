------------------------------- MODULE Session -------------------------------
(***************************************************************************)
(* Who a browser's windows are signed in as.  AuthContext keeps the user   *)
(* and the token of each window in memory; localStorage, which all of them *)
(* share, holds them between page loads, and it is the stored token that   *)
(* goes with every request.  No window hears that another one stored.      *)
(***************************************************************************)
EXTENDS Naturals, Sequences

CONSTANTS
    Windows,
    People,
    SessionCalls,   \* HTTP requests that may be in flight together
    MaxTokens,      \* bound on logins that succeed
    Nobody          \* nobody is signed in

ASSUME SessionAssumption ==
    /\ MaxTokens \in Nat
    /\ Nobody \notin Nat \cup People

VARIABLES
    storage,    \* localStorage: a token, and the user it was stored with
    window,     \* window -> its session in memory, and whether it is restoring
    sent,       \* call -> request in flight
    holder,     \* token issued -> whose it is
    expired,    \* tokens the server no longer takes
    overtaken,  \* windows whose session another window has replaced in storage
    mixed       \* a profile has been stored beside a token it was not saved with

sessionVars == <<storage, window, sent, holder, expired, overtaken, mixed>>

Tokens == DOMAIN holder

Person(token) == IF token \in Tokens THEN holder[token] ELSE Nobody

NotSent == [window |-> Nobody, kind |-> "none", token |-> Nobody,
            shown |-> Nobody, overtaken |-> FALSE]

NoSession == [token |-> Nobody, user |-> Nobody]
Restoring == [session |-> NoSession, restoring |-> TRUE]
SignedIn(session) == [session |-> session, restoring |-> FALSE]

SessionInit ==
    /\ storage = NoSession
    /\ window = [w \in Windows |-> Restoring]
    /\ sent = [c \in SessionCalls |-> NotSent]
    /\ holder = <<>>
    /\ expired = {}
    /\ overtaken = {}
    /\ mixed = FALSE

Others(w) == Windows \ {w}

Ready(w) == ~window[w].restoring

(* AuthProvider's effect on mount: take what is stored. *)
Restore(w) ==
    /\ window[w].restoring
    /\ window' = [window EXCEPT ![w] = SignedIn(storage)]
    /\ overtaken' = overtaken \ {w}
    /\ UNCHANGED <<storage, sent, holder, expired, mixed>>

(* A page that loads anew forgets what it is waiting for. *)
LoadsAnew(w) ==
    /\ window' = [window EXCEPT ![w] = Restoring]
    /\ sent' = [c \in SessionCalls |-> IF sent[c].window = w THEN NotSent ELSE sent[c]]

ReloadWindow(w) ==
    /\ Ready(w)
    /\ LoadsAnew(w)
    /\ UNCHANGED <<storage, holder, expired, overtaken, mixed>>

(* The request interceptor attaches the stored token, if there is one. *)
Send(c, w, kind, shown) ==
    /\ Ready(w)
    /\ sent[c].kind = "none"
    /\ sent' = [sent EXCEPT ![c] =
                 [window |-> w, kind |-> kind, token |-> storage.token,
                  shown |-> shown, overtaken |-> w \in overtaken]]
    /\ UNCHANGED <<storage, window, holder, expired, overtaken, mixed>>

(* Login and registration: their pages are routes of a signed-in window    *)
(* too, and one that is left and opened again has forgotten that it waits. *)
SubmitLogin(c, w, p) == Send(c, w, "login", p)

(* A page's load, or a profile that is saved. *)
SendRequest(c, w, kind) ==
    /\ window[w].session # NoSession
    /\ Send(c, w, kind, window[w].session.user)

Returned(c) == sent' = [sent EXCEPT ![c] = NotSent]

Stores(w, session) ==
    /\ storage' = session
    /\ overtaken' = (overtaken \ {w}) \cup Others(w)

LoginSucceeds(c) ==
    LET w == sent[c].window
        session == [token |-> Len(holder) + 1, user |-> sent[c].shown] IN
    /\ sent[c].kind = "login"
    /\ Len(holder) < MaxTokens
    /\ holder' = Append(holder, sent[c].shown)
    /\ Stores(w, session)
    /\ window' = [window EXCEPT ![w] = SignedIn(session)]
    /\ Returned(c)
    /\ UNCHANGED <<expired, mixed>>

Accepted(token) == token \in Tokens /\ token \notin expired

(* Saving a profile also puts it into the user that is stored by then, and *)
(* not into the one in memory.                                             *)
RequestSucceeds(c) ==
    LET saved == sent[c].kind = "save" /\ storage # NoSession IN
    /\ sent[c].kind \in {"load", "save"} /\ Accepted(sent[c].token)
    /\ storage' = IF saved THEN [storage EXCEPT !.user = sent[c].shown] ELSE storage
    /\ mixed' = (mixed \/ (saved /\ (storage.token # sent[c].token \/ sent[c].overtaken)))
    /\ Returned(c)
    /\ UNCHANGED <<window, holder, expired, overtaken>>

(* The response interceptor on 401, a wrong password included: storage is  *)
(* cleared, whoever's it is by now, and the window loads /login anew.      *)
Refused(c) ==
    /\ \/ sent[c].kind = "login"
       \/ sent[c].kind \in {"load", "save"} /\ ~Accepted(sent[c].token)
    /\ Stores(sent[c].window, NoSession)
    /\ LoadsAnew(sent[c].window)
    /\ UNCHANGED <<holder, expired, mixed>>

(* Any other error is left to the page. *)
RequestErrs(c) ==
    /\ sent[c].kind # "none"
    /\ Returned(c)
    /\ UNCHANGED <<storage, window, holder, expired, overtaken, mixed>>

(* (mutant) only the state is reset. *)
LogoutKeepingStorage(w) ==
    /\ Ready(w) /\ window[w].session # NoSession
    /\ window' = [window EXCEPT ![w] = SignedIn(NoSession)]
    /\ UNCHANGED <<storage, sent, holder, expired, overtaken, mixed>>

(* Requests in flight are not cancelled. *)
Logout(w) ==
    /\ Ready(w) /\ window[w].session # NoSession
    /\ Stores(w, NoSession)
    /\ window' = [window EXCEPT ![w] = SignedIn(NoSession)]
    /\ UNCHANGED <<sent, holder, expired, mixed>>

TokenExpires(token) ==
    /\ token \in Tokens \ expired
    /\ expired' = expired \cup {token}
    /\ UNCHANGED <<storage, window, sent, holder, overtaken, mixed>>

SessionNext ==
    \/ \E w \in Windows : Restore(w) \/ ReloadWindow(w) \/ Logout(w)
    \/ \E c \in SessionCalls, w \in Windows :
        \/ \E kind \in {"load", "save"} : SendRequest(c, w, kind)
        \/ \E p \in People : SubmitLogin(c, w, p)
    \/ \E c \in SessionCalls :
        LoginSucceeds(c) \/ RequestSucceeds(c) \/ Refused(c) \/ RequestErrs(c)
    \/ \E token \in 1..MaxTokens : TokenExpires(token)

SessionSpec == SessionInit /\ [][SessionNext]_sessionVars

-----------------------------------------------------------------------------

(* A window shows the session that is stored, and its requests are made as *)
(* the person it shows, unless another window has signed in or out since,  *)
(* or a profile has been saved across such a change: login, logout and      *)
(* the 401 interceptor change memory and storage together, and a late      *)
(* refusal of an earlier session's request signs the window out of both.   *)
ActsAsShown ==
    \/ mixed
    \/ /\ storage.user = Person(storage.token)
       /\ \A w \in Windows \ overtaken :
            Ready(w) => window[w].session.token = storage.token
       /\ \A c \in SessionCalls :
            sent[c].kind \in {"load", "save"} /\ ~sent[c].overtaken
                => Person(sent[c].token) = sent[c].shown

=============================================================================
