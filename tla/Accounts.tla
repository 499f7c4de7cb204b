------------------------------ MODULE Accounts ------------------------------
(***************************************************************************)
(* Registration, login with lockout, tokens and profiles.  A handler is    *)
(* two steps around its bcrypt call: it reads the row, awaits, and then    *)
(* acts on what it read.  A token carries a copy of the row's claims for   *)
(* seven days and no request reads the row to check them.                  *)
(***************************************************************************)
EXTENDS Naturals, FiniteSets, Combinatorics

CONSTANTS
    Emails,
    Roles,
    Names,
    Calls,          \* HTTP requests that may be in flight together
    FailureLimit,   \* wrong passwords that lock an account (5 in the code)
    MaxFailures,    \* bound on the stored counter
    MaxRenames,     \* bound on profile updates
    NoRow

ASSUME AccountsAssumption ==
    /\ FailureLimit \in Nat \ {0}
    /\ MaxFailures \in Nat
    /\ MaxRenames \in Nat
    /\ IsFiniteSet(Calls)
    /\ NoRow \notin [name : Names, role : Roles, failed : Nat, lock : {"none", "held", "over"}]

VARIABLES
    row,        \* email -> NoRow, or the columns of its User
    call,       \* call -> where its handler is
    tokens,     \* signed claims that have not expired
    guesses,    \* email -> wrong passwords since the last success or lock
    named,      \* email -> the names its row has had
    renames

accountVars == <<row, call, tokens, guesses, named, renames>>

Idle == [stage |-> "idle"]

Claims(e, r) == [email |-> e, role |-> r.role, name |-> r.name]

AccountsInit ==
    /\ row = [e \in Emails |-> NoRow]
    /\ call = [c \in Calls |-> Idle]
    /\ tokens = {}
    /\ guesses = [e \in Emails |-> 0]
    /\ named = [e \in Emails |-> {}]
    /\ renames = 0

(* The uniqueness check of a registration, before the hash. *)
Register(c, e, n, r) ==
    /\ call[c].stage = "idle"
    /\ row[e] = NoRow
    /\ call' = [call EXCEPT ![c] = [stage |-> "hash", email |-> e, name |-> n, role |-> r]]
    /\ UNCHANGED <<row, tokens, guesses, named, renames>>

NewRow(c) == [name |-> call[c].name, role |-> call[c].role, failed |-> 0, lock |-> "none"]

(* (mutant) an upsert in the place of the create. *)
UpsertUser(c) ==
    /\ call[c].stage = "hash"
    /\ call' = [call EXCEPT ![c] = Idle]
    /\ row' = [row EXCEPT ![call[c].email] = NewRow(c)]
    /\ tokens' = tokens \cup {Claims(call[c].email, NewRow(c))}
    /\ named' = [named EXCEPT ![call[c].email] = @ \cup {call[c].name}]
    /\ UNCHANGED <<guesses, renames>>

(* The insert, which the unique email refuses when a registration that ran *)
(* beside this one was faster, and the token.                              *)
CreateUser(c) ==
    /\ call[c].stage = "hash"
    /\ call' = [call EXCEPT ![c] = Idle]
    /\ IF row[call[c].email] = NoRow
       THEN /\ row' = [row EXCEPT ![call[c].email] = NewRow(c)]
            /\ tokens' = tokens \cup {Claims(call[c].email, NewRow(c))}
            /\ named' = [named EXCEPT ![call[c].email] = @ \cup {call[c].name}]
       ELSE UNCHANGED <<row, tokens, named>>
    /\ UNCHANGED <<guesses, renames>>

(* The row is read and, unless its lock is in force, the password goes to  *)
(* bcrypt; nothing deactivates an account.                                 *)
Login(c, e, right) ==
    /\ call[c].stage = "idle"
    /\ row[e] # NoRow
    /\ row[e].lock # "held"
    /\ row[e].failed < MaxFailures
    /\ call' = [call EXCEPT ![c] =
                    [stage |-> "compare", email |-> e, right |-> right, seen |-> row[e]]]
    /\ UNCHANGED <<row, tokens, guesses, named, renames>>

(* (mutant) one attempt more before the lock. *)
ShouldLockLate(count) == count > FailureLimit

ShouldLock(count) == count >= FailureLimit

(* A wrong password: the count that was read, plus one, is written back.   *)
RecordFailure(c) ==
    LET e == call[c].email
        newCount == call[c].seen.failed + 1
    IN  /\ call[c].stage = "compare"
        /\ ~call[c].right
        /\ row' = [row EXCEPT ![e].failed = newCount,
                              ![e].lock = IF ShouldLock(newCount) THEN "held" ELSE @]
        /\ guesses' = [guesses EXCEPT ![e] = IF ShouldLock(newCount) THEN 0 ELSE @ + 1]
        /\ call' = [call EXCEPT ![c] = Idle]
        /\ UNCHANGED <<tokens, named, renames>>

(* The right password: counter and lock are cleared, a lock set meanwhile  *)
(* too, and the claims that were read are signed.                          *)
GrantToken(c) ==
    LET e == call[c].email
    IN  /\ call[c].stage = "compare"
        /\ call[c].right
        /\ row' = [row EXCEPT ![e].failed = 0, ![e].lock = "none"]
        /\ guesses' = [guesses EXCEPT ![e] = 0]
        /\ tokens' = tokens \cup {Claims(e, call[c].seen)}
        /\ call' = [call EXCEPT ![c] = Idle]
        /\ UNCHANGED <<named, renames>>

(* bcrypt or the database throws: next(err), nothing was written. *)
HandlerThrows(c) ==
    /\ call[c].stage # "idle"
    /\ call' = [call EXCEPT ![c] = Idle]
    /\ UNCHANGED <<row, tokens, guesses, named, renames>>

LockExpires(e) ==
    /\ row[e] # NoRow
    /\ row[e].lock = "held"
    /\ row' = [row EXCEPT ![e].lock = "over"]
    /\ UNCHANGED <<call, tokens, guesses, named, renames>>

(* (mutant) tokens signed without expiresIn. *)
TokenNeverExpires(t) == FALSE /\ t \in tokens /\ UNCHANGED accountVars

TokenExpires(t) ==
    /\ t \in tokens
    /\ tokens' = tokens \ {t}
    /\ UNCHANGED <<row, call, guesses, named, renames>>

Authenticate(t) == t \in tokens

Authorize(t, allowedRoles) == Authenticate(t) /\ t.role \in allowedRoles

(* PATCH /me: the name changes in the row, and in no token. *)
UpdateMe(t, n) ==
    /\ Authenticate(t)
    /\ renames < MaxRenames
    /\ row' = [row EXCEPT ![t.email].name = n]
    /\ named' = [named EXCEPT ![t.email] = @ \cup {n}]
    /\ renames' = renames + 1
    /\ UNCHANGED <<call, tokens, guesses>>

HandlerSteps(c) == CreateUser(c) \/ RecordFailure(c) \/ GrantToken(c) \/ HandlerThrows(c)

AccountsNext ==
    \/ \E c \in Calls, e \in Emails, n \in Names, r \in Roles : Register(c, e, n, r)
    \/ \E c \in Calls, e \in Emails, right \in BOOLEAN : Login(c, e, right)
    \/ \E c \in Calls : HandlerSteps(c)
    \/ \E e \in Emails : LockExpires(e)
    \/ \E t \in tokens : TokenExpires(t)
    \/ \E t \in tokens, n \in Names : UpdateMe(t, n)

AccountsSpec == AccountsInit /\ [][AccountsNext]_accountVars

(* Handlers run to their end and the clock reaches a token's expiry.       *)
AccountsFairness ==
    /\ \A c \in Calls : WF_accountVars(HandlerSteps(c))
    /\ \A t \in [email : Emails, role : Roles, name : Names] : WF_accountVars(TokenExpires(t))

-----------------------------------------------------------------------------

(* Rows, handlers and tokens keep their shape (authController and the JWT  *)
(* payload).                                                               *)
AccountsTypeOK ==
    /\ \A e \in Emails : row[e] # NoRow =>
        row[e] \in [name : Names, role : Roles, failed : 0..MaxFailures,
                    lock : {"none", "held", "over"}]
    /\ \A c \in Calls :
        /\ call[c].stage \in {"idle", "hash", "compare"}
        /\ call[c].stage = "compare" => row[call[c].email] # NoRow
    /\ tokens \subseteq [email : Emails, role : Roles, name : Names]

(* How far the read-modify-write around bcrypt lets an account be guessed: *)
(* with n handlers in flight, attempts that overtake each other set the    *)
(* counter back, and there can be (limit + n - 1 choose n) wrong passwords *)
(* before a lock rather than the limit, but never more.                    *)
GuessesBounded ==
    \A e \in Emails :
        guesses[e] < choose(FailureLimit + Cardinality(Calls) - 1, Cardinality(Calls))

(* Requests are served on the word of a token: for as long as one is       *)
(* valid, the row it was signed for exists and has the token's role, and   *)
(* the token's name is one that row has had, however registrations, logins *)
(* and renames of one email overlap.                                       *)
TokensMatchRows ==
    \A t \in tokens :
        row[t.email] # NoRow /\ row[t.email].role = t.role /\ t.name \in named[t.email]

(* A name replaced by PATCH /me lives on in tokens, and in the chat and    *)
(* panic messages signed with it, though not for ever: once profiles stop  *)
(* changing, every valid token is in the end about the row as it is.       *)
OldNamesLeave == <>[](\A t \in tokens : row[t.email].name = t.name)

=============================================================================
