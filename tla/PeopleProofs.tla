---------------------------- MODULE PeopleProofs ----------------------------
(***************************************************************************)
(* Who may act, how often, and who is on duty: accounts and their tokens,   *)
(* the rate limiter, shifts and the assignment strategies, for any numbers  *)
(* of accounts, requests, staff and ticks; and how many passwords can be    *)
(* tried on an account before it is locked.                                 *)
(***************************************************************************)
EXTENDS Accounts, RateLimiter, Staffing, FiniteSetTheorems, WellFoundedInduction, TLAPS

-----------------------------------------------------------------------------
\* Accounts.

Columns ==
    [name : Names, role : Roles, failed : 0..MaxFailures, lock : {"none", "held", "over"}]

(* A handler at bcrypt.compare holds a copy of a row that still exists,    *)
(* with the role it has and a name it has had: no statement changes a role *)
(* or removes a row.                                                       *)
HandlerKnows(c) ==
    /\ c.stage \in {"idle", "hash", "compare"}
    /\ c.stage = "hash" => c.email \in Emails /\ c.name \in Names /\ c.role \in Roles
    /\ c.stage = "compare" =>
        /\ c.email \in Emails
        /\ c.seen \in Columns
        /\ c.seen.failed < MaxFailures
        /\ row[c.email] # NoRow
        /\ row[c.email].role = c.seen.role
        /\ c.seen.name \in named[c.email]

RowsOK == row \in [Emails -> Columns \cup {NoRow}]

NamesOK ==
    /\ named \in [Emails -> SUBSET Names]
    /\ \A e \in Emails : row[e] # NoRow => row[e].name \in named[e]

AInv ==
    /\ RowsOK
    /\ NamesOK
    /\ DOMAIN call = Calls
    /\ \A c \in Calls : HandlerKnows(call[c])
    /\ tokens \subseteq [email : Emails, role : Roles, name : Names]
    /\ TokensMatchRows

LEMMA NoRowIsNoRow == NoRow \notin Columns
BY AccountsAssumption DEF Columns

LEMMA InitAccounts == AccountsInit => AInv
BY DEF AccountsInit, AInv, RowsOK, NamesOK, HandlerKnows, TokensMatchRows, Idle

\* Rows stay, keep their roles, and have had the names they had: what handlers
\* know and tokens say stays true.
RolesStay ==
    \A e \in Emails : row[e] # NoRow => row'[e] # NoRow /\ row'[e].role = row[e].role

NamesGrow == \A e \in Emails : named[e] \subseteq named'[e]

\* So a step has to account only for the one handler and the tokens it changes.
LEMMA StepKeepsAInv ==
    ASSUME AInv, RowsOK', NamesOK', RolesStay, NamesGrow, DOMAIN call' = Calls,
           \A c \in Calls : call'[c] # call[c] => HandlerKnows(call[c])',
           \A t \in tokens' \ tokens :
                /\ t \in [email : Emails, role : Roles, name : Names]
                /\ row'[t.email] # NoRow /\ row'[t.email].role = t.role
                /\ t.name \in named'[t.email]
    PROVE  AInv'
<1>1. \A c \in Calls : call'[c] = call[c] => HandlerKnows(call[c])'
  BY DEF AInv, HandlerKnows, RolesStay, NamesGrow
<1>2. \A t \in tokens : t.email \in Emails
  BY DEF AInv
<1>3. \A t \in tokens :
        row'[t.email] # NoRow /\ row'[t.email].role = t.role /\ t.name \in named'[t.email]
  BY <1>2 DEF AInv, RolesStay, NamesGrow, TokensMatchRows
<1> QED
  BY <1>1, <1>3 DEF AInv, TokensMatchRows

LEMMA RegisterKeepsAInv ==
    ASSUME AInv, NEW c \in Calls, NEW e \in Emails, NEW n \in Names, NEW r \in Roles,
           Register(c, e, n, r)
    PROVE  AInv'
<1>1. \A d \in Calls : call'[d] # call[d] => HandlerKnows(call[d])'
  BY DEF Register, AInv, HandlerKnows
<1> QED
  BY <1>1, StepKeepsAInv DEF Register, AInv, RowsOK, NamesOK, RolesStay, NamesGrow

LEMMA CreateUserKeepsAInv ==
    ASSUME AInv, NEW c \in Calls, CreateUser(c)
    PROVE  AInv'
<1>1. /\ call[c].email \in Emails
      /\ NewRow(c) \in Columns
      /\ NewRow(c).role \in Roles
      /\ Claims(call[c].email, NewRow(c)) \in [email : Emails, role : Roles, name : Names]
  BY AccountsAssumption DEF CreateUser, AInv, HandlerKnows, NewRow, Columns, Claims
<1>2. \A d \in Calls : call'[d] # call[d] => HandlerKnows(call[d])'
  BY DEF CreateUser, AInv, HandlerKnows, Idle
<1>3. DOMAIN call' = Calls
  BY DEF CreateUser, AInv
<1>4. CASE row[call[c].email] = NoRow
  <2>1. row' = [row EXCEPT ![call[c].email] = NewRow(c)]
    BY <1>4 DEF CreateUser
  <2>2. row'[call[c].email] = NewRow(c) /\ RowsOK'
    BY <1>1, <2>1 DEF AInv, RowsOK
  <2>3. RolesStay
    BY <1>4, <2>1 DEF AInv, RowsOK, RolesStay
  <2>4. tokens' = tokens \cup {Claims(call[c].email, NewRow(c))}
    BY <1>4 DEF CreateUser
  <2>5. /\ Claims(call[c].email, NewRow(c)).email = call[c].email
        /\ Claims(call[c].email, NewRow(c)).role = NewRow(c).role
        /\ Claims(call[c].email, NewRow(c)).name = NewRow(c).name
    BY DEF Claims
  <2>6. NamesOK' /\ NamesGrow /\ NewRow(c).name \in named'[call[c].email]
    <3>1. named' = [named EXCEPT ![call[c].email] = @ \cup {NewRow(c).name}]
      BY <1>4 DEF CreateUser, NewRow
    <3>2. NewRow(c).name \in Names
      BY <1>1 DEF Columns
    <3>3. \A e \in Emails : e # call[c].email => row'[e] = row[e]
      BY <2>1 DEF AInv, RowsOK
    <3> QED
      BY <1>1, <2>2, <3>1, <3>2, <3>3 DEF AInv, NamesOK, NamesGrow
  <2> QED
    BY <1>1, <1>2, <1>3, <2>2, <2>3, <2>4, <2>5, <2>6, NoRowIsNoRow, StepKeepsAInv
<1>5. CASE row[call[c].email] # NoRow
  BY <1>2, <1>3, <1>5, StepKeepsAInv DEF CreateUser, AInv, RowsOK, NamesOK, RolesStay, NamesGrow
<1> QED
  BY <1>4, <1>5

LEMMA LoginKeepsAInv ==
    ASSUME AInv, NEW c \in Calls, NEW e \in Emails, NEW right \in BOOLEAN, Login(c, e, right)
    PROVE  AInv'
<1>1. \A d \in Calls : call'[d] # call[d] => HandlerKnows(call[d])'
  BY DEF Login, AInv, RowsOK, NamesOK, HandlerKnows
<1> QED
  BY <1>1, StepKeepsAInv DEF Login, AInv, RowsOK, NamesOK, RolesStay, NamesGrow

\* Columns that a statement writes leave the others as they are.
LEMMA WriteLock ==
    ASSUME NEW r \in Columns, NEW lock \in {"none", "held", "over"}
    PROVE  /\ [r EXCEPT !.lock = lock] \in Columns
           /\ [r EXCEPT !.lock = lock].role = r.role
           /\ [r EXCEPT !.lock = lock].name = r.name
BY DEF Columns

LEMMA WriteCount ==
    ASSUME NEW r \in Columns, NEW failed \in 0..MaxFailures
    PROVE  /\ [r EXCEPT !.failed = failed] \in Columns
           /\ [r EXCEPT !.failed = failed].role = r.role
           /\ [r EXCEPT !.failed = failed].name = r.name
BY DEF Columns

\* Writing the counter or the lock of a row.
LEMMA WriteKeepsRoles ==
    ASSUME AInv, NEW e \in Emails, row[e] # NoRow, NEW failed \in 0..MaxFailures,
           NEW lock \in {"none", "held", "over"},
           row' = [row EXCEPT ![e].failed = failed, ![e].lock = lock], named' = named
    PROVE  RowsOK' /\ NamesOK' /\ RolesStay /\ NamesGrow
<1> DEFINE counted == [row[e] EXCEPT !.failed = failed]
<1>1. row[e] \in Columns /\ e \in DOMAIN row
  BY DEF AInv, RowsOK
<1>2. row' = [row EXCEPT ![e] = [counted EXCEPT !.lock = lock]]
  OBVIOUS
<1>3. row'[e] = [counted EXCEPT !.lock = lock]
  BY <1>1, <1>2
<1>4. counted \in Columns /\ counted.role = row[e].role /\ counted.name = row[e].name
  BY <1>1, WriteCount
<1> HIDE DEF counted
<1>5. row'[e] \in Columns /\ row'[e].role = row[e].role /\ row'[e].name = row[e].name
  <2>1. /\ [counted EXCEPT !.lock = lock] \in Columns
        /\ [counted EXCEPT !.lock = lock].role = counted.role
        /\ [counted EXCEPT !.lock = lock].name = counted.name
    BY <1>4, WriteLock
  <2> QED
    BY <1>3, <1>4, <2>1
<1>6. \A d \in Emails : d # e => row'[d] = row[d]
  BY DEF AInv, RowsOK
<1>7. row' \in [Emails -> Columns \cup {NoRow}]
  BY <1>5, <1>6 DEF AInv, RowsOK
<1>8. NamesOK' /\ NamesGrow
  BY <1>5, <1>6 DEF AInv, NamesOK, NamesGrow
<1> QED
  BY <1>5, <1>6, <1>7, <1>8, NoRowIsNoRow DEF RowsOK, RolesStay

LEMMA RecordFailureKeepsAInv ==
    ASSUME AInv, NEW c \in Calls, RecordFailure(c)
    PROVE  AInv'
<1> DEFINE e == call[c].email
           count == call[c].seen.failed + 1
           lock == IF ShouldLock(count) THEN "held" ELSE row[e].lock
<1>1. /\ e \in Emails /\ row[e] # NoRow /\ row[e] \in Columns
      /\ call[c].seen.failed \in Nat /\ count \in 0..MaxFailures
  BY AccountsAssumption DEF RecordFailure, AInv, RowsOK, HandlerKnows, Columns
<1>2. lock \in {"none", "held", "over"}
  BY <1>1 DEF Columns
<1>3. row' = [row EXCEPT ![e].failed = count, ![e].lock = lock]
  BY <1>1 DEF RecordFailure, AInv, RowsOK
<1>4. \A d \in Calls : call'[d] # call[d] => HandlerKnows(call[d])'
  BY DEF RecordFailure, AInv, HandlerKnows, Idle
<1>5. DOMAIN call' = Calls /\ tokens' = tokens /\ named' = named
  BY DEF RecordFailure, AInv
<1> HIDE DEF e, count, lock
<1> QED
  BY <1>1, <1>2, <1>3, <1>4, <1>5, WriteKeepsRoles, StepKeepsAInv

LEMMA GrantTokenKeepsAInv ==
    ASSUME AInv, NEW c \in Calls, GrantToken(c)
    PROVE  AInv'
<1> DEFINE e == call[c].email
           claims == Claims(e, call[c].seen)
<1>1. /\ e \in Emails /\ row[e] # NoRow /\ 0 \in 0..MaxFailures
      /\ call[c].seen \in Columns /\ row[e].role = call[c].seen.role
      /\ call[c].seen.name \in named[e]
  BY AccountsAssumption DEF GrantToken, AInv, HandlerKnows
<1>2. row' = [row EXCEPT ![e].failed = 0, ![e].lock = "none"]
  BY DEF GrantToken
<1>3. \A d \in Calls : call'[d] # call[d] => HandlerKnows(call[d])'
  BY DEF GrantToken, AInv, HandlerKnows, Idle
<1>4. DOMAIN call' = Calls /\ tokens' = tokens \cup {claims} /\ named' = named
  BY DEF GrantToken, AInv
<1>5. /\ claims \in [email : Emails, role : Roles, name : Names]
      /\ claims.email = e /\ claims.role = row[e].role /\ claims.name \in named[e]
  BY <1>1 DEF Claims, Columns
<1> HIDE DEF e, claims
<1>6. RowsOK' /\ NamesOK' /\ RolesStay /\ NamesGrow
  BY <1>1, <1>2, <1>4, WriteKeepsRoles
<1> QED
  BY <1>1, <1>3, <1>4, <1>5, <1>6, StepKeepsAInv DEF RolesStay

LEMMA HandlerThrowsKeepsAInv ==
    ASSUME AInv, NEW c \in Calls, HandlerThrows(c)
    PROVE  AInv'
<1>1. \A d \in Calls : call'[d] # call[d] => HandlerKnows(call[d])'
  BY DEF HandlerThrows, AInv, HandlerKnows, Idle
<1> QED
  BY <1>1, StepKeepsAInv DEF HandlerThrows, AInv, RowsOK, NamesOK, RolesStay, NamesGrow

LEMMA LockExpiresKeepsAInv ==
    ASSUME AInv, NEW e \in Emails, LockExpires(e)
    PROVE  AInv'
<1>1. row[e] \in Columns /\ row'[e] = [row[e] EXCEPT !.lock = "over"]
  BY DEF LockExpires, AInv, RowsOK
<1>2. row'[e] \in Columns /\ row'[e].role = row[e].role /\ row'[e].name = row[e].name
  BY <1>1 DEF Columns
<1>3. \A d \in Emails : d # e => row'[d] = row[d]
  BY DEF LockExpires, AInv, RowsOK
<1>4. row' \in [Emails -> Columns \cup {NoRow}]
  BY <1>2, <1>3 DEF LockExpires, AInv, RowsOK
<1>5. RowsOK' /\ RolesStay
  BY <1>2, <1>3, <1>4, NoRowIsNoRow DEF RowsOK, RolesStay
<1>6. NamesOK' /\ NamesGrow
  BY <1>2, <1>3 DEF LockExpires, AInv, NamesOK, NamesGrow
<1> QED
  BY <1>5, <1>6, StepKeepsAInv DEF LockExpires, AInv

LEMMA UpdateMeKeepsAInv ==
    ASSUME AInv, NEW t \in tokens, NEW n \in Names, UpdateMe(t, n)
    PROVE  AInv'
<1>1. t.email \in Emails /\ row[t.email] \in Columns
  BY DEF AInv, RowsOK, TokensMatchRows
<1>2. row'[t.email] = [row[t.email] EXCEPT !.name = n]
  BY <1>1 DEF UpdateMe, AInv, RowsOK
<1>3. /\ row'[t.email] \in Columns /\ row'[t.email].role = row[t.email].role
      /\ row'[t.email].name = n
  BY <1>1, <1>2 DEF Columns
<1>4. \A d \in Emails : d # t.email => row'[d] = row[d]
  BY DEF UpdateMe, AInv, RowsOK
<1>5. row' \in [Emails -> Columns \cup {NoRow}]
  BY <1>1, <1>3, <1>4 DEF UpdateMe, AInv, RowsOK
<1>6. RowsOK' /\ RolesStay
  BY <1>3, <1>4, <1>5, NoRowIsNoRow DEF RowsOK, RolesStay
<1>7. NamesOK' /\ NamesGrow
  <2>1. named' = [named EXCEPT ![t.email] = @ \cup {n}]
    BY DEF UpdateMe
  <2> QED
    BY <1>1, <1>3, <1>4, <2>1 DEF AInv, NamesOK, NamesGrow
<1> QED
  BY <1>6, <1>7, StepKeepsAInv DEF UpdateMe, AInv

LEMMA TokenExpiresKeepsAInv ==
    ASSUME AInv, NEW t \in tokens, TokenExpires(t)
    PROVE  AInv'
BY StepKeepsAInv DEF TokenExpires, AInv, RowsOK, NamesOK, RolesStay, NamesGrow

LEMMA AccountsStep == AInv /\ [AccountsNext]_accountVars => AInv'
<1> SUFFICES ASSUME AInv, [AccountsNext]_accountVars PROVE AInv'
  OBVIOUS
<1>1. CASE UNCHANGED accountVars
  BY <1>1, StepKeepsAInv DEF accountVars, AInv, RowsOK, NamesOK, RolesStay, NamesGrow
<1>2. CASE \E c \in Calls : HandlerSteps(c)
  BY <1>2, CreateUserKeepsAInv, RecordFailureKeepsAInv, GrantTokenKeepsAInv,
     HandlerThrowsKeepsAInv DEF HandlerSteps
<1> QED
  BY <1>1, <1>2, RegisterKeepsAInv, LoginKeepsAInv, LockExpiresKeepsAInv,
     TokenExpiresKeepsAInv, UpdateMeKeepsAInv DEF AccountsNext

LEMMA AccountsInvariance == AccountsSpec => []AInv
BY InitAccounts, AccountsStep, PTL DEF AccountsSpec

\* Rows, handlers and tokens keep their shape.
THEOREM AccountTypes == AccountsSpec => []AccountsTypeOK
<1>1. AInv => AccountsTypeOK
  BY NoRowIsNoRow DEF AInv, RowsOK, HandlerKnows, AccountsTypeOK, Columns
<1> QED
  BY AccountsInvariance, <1>1, PTL

\* A valid token names a row that exists, with the role that the row has and a name
\* it has had, however many registrations, logins and profile updates overlap.
THEOREM TokensCanBeTrusted == AccountsSpec => []TokensMatchRows
<1>1. AInv => TokensMatchRows
  BY DEF AInv
<1> QED
  BY AccountsInvariance, <1>1, PTL

-----------------------------------------------------------------------------
\* The rate limiter.

LEMMA TotalIsMonotone ==
    ASSUME NEW f, NEW g, NEW T, NEW U, Members(f, T) \subseteq Members(g, U)
    PROVE  Total(f, T) <= Total(g, U) /\ Total(f, T) \in Nat /\ Total(g, U) \in Nat
<1>1. IsFiniteSet(Times) /\ IsFiniteSet(1..MaxPerTick)
  BY FS_Interval, LimiterAssumption DEF Times
<1>2. IsFiniteSet((U \cap Times) \X (1..MaxPerTick))
  <2>1. IsFiniteSet(U \cap Times)
    BY <1>1, FS_Subset
  <2> QED
    BY <1>1, <2>1, FS_Product
<1>3. IsFiniteSet(Members(g, U))
  BY <1>2, FS_Subset DEF Members
<1>4. IsFiniteSet(Members(f, T)) /\ Cardinality(Members(f, T)) <= Cardinality(Members(g, U))
  BY <1>3, FS_Subset
<1> QED
  BY <1>3, <1>4, FS_CardinalityType DEF Total

LEMMA TotalOfNone ==
    ASSUME NEW f \in [Times -> Nat], NEW T, \A u \in T \cap Times : f[u] = 0
    PROVE  Total(f, T) = 0
<1>1. Members(f, T) = {}
  BY LimiterAssumption DEF Members
<1> QED
  BY <1>1, FS_EmptySet DEF Total

LimiterTypes ==
    /\ now \in Times
    /\ scores \in [Addresses -> [Times -> Nat]]
    /\ sent \in [Addresses -> [Times -> Nat]]
    /\ admitted \in [Addresses -> [Times -> Nat]]
    /\ refused \subseteq Addresses

\* Within the window the sorted set has every request sent; nothing is later than now.
SetIsExact(a) ==
    \A u \in Times :
        /\ admitted[a][u] <= sent[a][u]
        /\ u > now => scores[a][u] = 0 /\ sent[a][u] = 0
        /\ u \in InWindow(now) => scores[a][u] = sent[a][u]

LimiterInv ==
    /\ LimiterTypes
    /\ \A a \in Addresses : SetIsExact(a)
    /\ WindowIsExact

LEMMA LimiterInitInv == LimiterInit => LimiterInv
<1> SUFFICES ASSUME LimiterInit PROVE LimiterInv
  OBVIOUS
<1>1. LimiterTypes
  BY LimiterAssumption DEF LimiterInit, LimiterTypes, Times
<1>2. \A a \in Addresses, u \in Times : scores[a][u] = 0 /\ sent[a][u] = 0 /\ admitted[a][u] = 0
  BY DEF LimiterInit
<1>3. \A a \in Addresses, t \in Times : Total(admitted[a], InWindow(t)) <= Limit
  <2>1. \A a \in Addresses, t \in Times : Total(admitted[a], InWindow(t)) = 0
    BY <1>1, <1>2, TotalOfNone DEF LimiterTypes
  <2> QED
    BY <2>1, LimiterAssumption
<1> QED
  BY <1>1, <1>2, <1>3 DEF LimiterInv, SetIsExact, WindowIsExact, LimiterInit

\* What the pipeline leaves: every request of the window, this one among them,
\* and no other.
LEMMA PipelineIsExact ==
    ASSUME LimiterInv, NEW a \in Addresses, now' = now,
           scores' = [scores EXCEPT ![a] = Recorded(a)],
           sent' = [sent EXCEPT ![a][now] = @ + 1]
    PROVE  /\ scores' \in [Addresses -> [Times -> Nat]]
           /\ sent' \in [Addresses -> [Times -> Nat]]
           /\ scores'[a] = Recorded(a)
           /\ sent'[a][now] = sent[a][now] + 1
           /\ \A u \in Times : u # now => sent'[a][u] = sent[a][u]
           /\ \A b \in Addresses \ {a} : scores'[b] = scores[b] /\ sent'[b] = sent[b]
           /\ \A u \in Times : Recorded(a)[u] = IF u \in InWindow(now) THEN sent'[a][u] ELSE 0
<1>1. /\ now \in Times /\ scores \in [Addresses -> [Times -> Nat]]
      /\ sent \in [Addresses -> [Times -> Nat]] /\ SetIsExact(a)
      /\ scores[a] \in [Times -> Nat] /\ sent[a] \in [Times -> Nat]
  BY DEF LimiterInv, LimiterTypes
<1>2. now \in Nat /\ Window \in Nat \ {0} /\ Times \subseteq Nat
  BY <1>1, LimiterAssumption DEF Times
<1>3. Recorded(a) \in [Times -> Nat]
  <2>1. \A u \in Times : scores[a][u] \in Nat /\ scores[a][u] + 1 \in Nat /\ 0 \in Nat
    BY <1>1
  <2> QED
    BY <2>1 DEF Recorded
<1>4. PICK f \in [Times -> Nat] : f = [sent[a] EXCEPT ![now] = @ + 1]
  <2>1. [sent[a] EXCEPT ![now] = @ + 1] \in [Times -> Nat]
    BY <1>1
  <2> QED
    BY <2>1
<1>5. sent' = [sent EXCEPT ![a] = f]
  BY <1>1, <1>4
<1>6. /\ scores' \in [Addresses -> [Times -> Nat]] /\ scores'[a] = Recorded(a)
      /\ \A b \in Addresses \ {a} : scores'[b] = scores[b]
  BY <1>1, <1>3
<1>7. /\ sent' \in [Addresses -> [Times -> Nat]] /\ sent'[a] = f
      /\ \A b \in Addresses \ {a} : sent'[b] = sent[b]
  BY <1>1, <1>5
<1>8. f[now] = sent[a][now] + 1 /\ \A u \in Times : u # now => f[u] = sent[a][u]
  BY <1>1, <1>4
<1>9. ASSUME NEW u \in Times
      PROVE  Recorded(a)[u] = IF u \in InWindow(now) THEN f[u] ELSE 0
  <2>1. u \in Nat /\ (u \in InWindow(now) <=> u <= now /\ u + Window > now)
    BY <1>2 DEF InWindow
  <2>2. Recorded(a)[u] = IF u = now THEN scores[a][u] + 1
                         ELSE IF u + Window <= now THEN 0 ELSE scores[a][u]
    BY DEF Recorded, Evicted
  <2>3. /\ u > now => scores[a][u] = 0
        /\ u \in InWindow(now) => scores[a][u] = sent[a][u]
    BY <1>1 DEF SetIsExact
  <2> QED
    BY <1>2, <1>8, <2>1, <2>2, <2>3
<1> QED
  BY <1>6, <1>7, <1>8, <1>9

LEMMA ExactAfterPipeline ==
    ASSUME LimiterInv, NEW a \in Addresses, now' = now,
           scores' = [scores EXCEPT ![a] = Recorded(a)],
           sent' = [sent EXCEPT ![a][now] = @ + 1],
           admitted' = admitted \/ admitted' = [admitted EXCEPT ![a][now] = @ + 1]
    PROVE  /\ admitted' \in [Addresses -> [Times -> Nat]]
           /\ \A b \in Addresses : SetIsExact(b)'
           /\ \A b \in Addresses \ {a} : admitted'[b] = admitted[b]
           /\ \A u \in Times : u # now => admitted'[a][u] = admitted[a][u]
<1>1. /\ now \in Times /\ admitted \in [Addresses -> [Times -> Nat]]
      /\ admitted[a] \in [Times -> Nat] /\ sent[a] \in [Times -> Nat]
      /\ \A b \in Addresses : SetIsExact(b)
  BY DEF LimiterInv, LimiterTypes
<1>2. PICK f \in [Times -> Nat] :
        /\ f = admitted[a] \/ f = [admitted[a] EXCEPT ![now] = @ + 1]
        /\ admitted' = [admitted EXCEPT ![a] = f]
  <2>1. CASE admitted' = admitted
    BY <1>1, <2>1
  <2>2. CASE admitted' = [admitted EXCEPT ![a][now] = @ + 1]
    <3>1. [admitted[a] EXCEPT ![now] = @ + 1] \in [Times -> Nat]
      BY <1>1
    <3>2. admitted' = [admitted EXCEPT ![a] = [admitted[a] EXCEPT ![now] = @ + 1]]
      BY <1>1, <2>2
    <3> QED
      BY <3>1, <3>2
  <2> QED
    BY <2>1, <2>2
<1>3. /\ admitted' \in [Addresses -> [Times -> Nat]] /\ admitted'[a] = f
      /\ \A b \in Addresses \ {a} : admitted'[b] = admitted[b]
  BY <1>1, <1>2
<1>4. /\ \A u \in Times : u # now => f[u] = admitted[a][u]
      /\ f[now] <= admitted[a][now] + 1
  BY <1>1, <1>2
<1>5. /\ scores'[a] = Recorded(a)
      /\ sent'[a][now] = sent[a][now] + 1
      /\ \A u \in Times : u # now => sent'[a][u] = sent[a][u]
      /\ \A b \in Addresses \ {a} : scores'[b] = scores[b] /\ sent'[b] = sent[b]
      /\ \A u \in Times : Recorded(a)[u] = IF u \in InWindow(now) THEN sent'[a][u] ELSE 0
  BY PipelineIsExact
<1>6. InWindow(now)' = InWindow(now)
  BY DEF InWindow
<1>7. SetIsExact(a)'
  <2> SUFFICES ASSUME NEW u \in Times
               PROVE  /\ f[u] <= sent'[a][u]
                      /\ u > now => scores'[a][u] = 0 /\ sent'[a][u] = 0
                      /\ u \in InWindow(now) => scores'[a][u] = sent'[a][u]
    BY <1>3, <1>6 DEF SetIsExact
  <2>1. /\ admitted[a][u] <= sent[a][u] /\ admitted[a][u] \in Nat /\ sent[a][u] \in Nat
        /\ f[u] \in Nat /\ u \in Nat /\ now \in Nat
        /\ u > now => sent[a][u] = 0
    BY <1>1, LimiterAssumption DEF SetIsExact, Times
  <2>2. f[u] <= sent'[a][u]
    BY <1>4, <1>5, <2>1
  <2>3. u > now => u \notin InWindow(now) /\ u # now
    BY <2>1 DEF InWindow
  <2> QED
    BY <1>5, <2>1, <2>2, <2>3
<1>8. \A b \in Addresses \ {a} : SetIsExact(b)'
  BY <1>1, <1>3, <1>5, <1>6 DEF SetIsExact
<1> QED
  BY <1>3, <1>4, <1>7, <1>8

LEMMA StepRateLimit ==
    ASSUME LimiterInv, NEW a \in Addresses, RateLimit(a)
    PROVE  LimiterInv'
<1>1. /\ now' = now /\ scores' = [scores EXCEPT ![a] = Recorded(a)]
      /\ sent' = [sent EXCEPT ![a][now] = @ + 1]
      /\ OverLimit(a) => refused' = {a} /\ admitted' = admitted
      /\ ~OverLimit(a) => refused' = {} /\ admitted' = [admitted EXCEPT ![a][now] = @ + 1]
  BY DEF RateLimit
<1>2. /\ scores' \in [Addresses -> [Times -> Nat]] /\ sent' \in [Addresses -> [Times -> Nat]]
      /\ \A u \in Times : Recorded(a)[u] = IF u \in InWindow(now) THEN sent'[a][u] ELSE 0
  BY <1>1, PipelineIsExact
<1>3. /\ admitted' \in [Addresses -> [Times -> Nat]]
      /\ \A b \in Addresses : SetIsExact(b)'
      /\ \A b \in Addresses \ {a} : admitted'[b] = admitted[b]
      /\ \A u \in Times : u # now => admitted'[a][u] = admitted[a][u]
  BY <1>1, ExactAfterPipeline
<1>4. LimiterTypes /\ WindowIsExact
  BY DEF LimiterInv
<1>5. LimiterTypes'
  BY <1>1, <1>2, <1>3, <1>4 DEF LimiterTypes
<1>6. /\ now \in Nat /\ Times \subseteq Nat /\ Window \in Nat \ {0} /\ Limit \in Nat
      /\ MaxPerTick \in Nat
  BY <1>4, LimiterAssumption DEF LimiterTypes, Times
<1>7. \A b \in Addresses, t \in Times : Total(admitted[b], InWindow(t)) <= Limit
  BY <1>4 DEF WindowIsExact
<1>8. ASSUME ~OverLimit(a), NEW t \in Times PROVE Total(admitted'[a], InWindow(t)) <= Limit
  <2>1. Total(Recorded(a), Times) <= Limit
    <3>1. Total(Recorded(a), Times) \in Nat
      BY TotalIsMonotone
    <3> QED
      BY <1>6, <1>8, <3>1 DEF OverLimit
  <2>2. CASE t < now
    <3>1. Members(admitted'[a], InWindow(t)) \subseteq Members(admitted[a], InWindow(t))
      <4>1. now \notin InWindow(t)
        BY <1>6, <2>2 DEF InWindow
      <4> QED
        BY <1>3, <4>1 DEF Members
    <3>2. /\ Total(admitted'[a], InWindow(t)) <= Total(admitted[a], InWindow(t))
          /\ Total(admitted'[a], InWindow(t)) \in Nat /\ Total(admitted[a], InWindow(t)) \in Nat
      BY <3>1, TotalIsMonotone
    <3> QED
      BY <1>6, <1>7, <3>2
  <2>3. CASE ~(t < now)
    <3>1. ASSUME NEW u \in InWindow(t), u \in Times, NEW k \in 1..MaxPerTick, k <= admitted'[a][u]
          PROVE  k <= Recorded(a)[u]
      <4>1. /\ admitted'[a][u] <= sent'[a][u] /\ (u > now => sent'[a][u] = 0)
            /\ admitted'[a][u] \in Nat /\ sent'[a][u] \in Nat /\ u \in Nat /\ t \in Nat
        BY <1>1, <1>2, <1>3, <1>6, <3>1 DEF SetIsExact
      <4>2. u <= now
        BY <1>6, <3>1, <4>1
      <4>3. u \in InWindow(now)
        BY <1>6, <2>3, <3>1, <4>1, <4>2 DEF InWindow
      <4> QED
        BY <1>2, <3>1, <4>1, <4>3
    <3>2. Members(admitted'[a], InWindow(t)) \subseteq Members(Recorded(a), Times)
      BY <3>1 DEF Members
    <3>3. /\ Total(admitted'[a], InWindow(t)) <= Total(Recorded(a), Times)
          /\ Total(admitted'[a], InWindow(t)) \in Nat /\ Total(Recorded(a), Times) \in Nat
      BY <3>2, TotalIsMonotone
    <3> QED
      BY <1>6, <2>1, <3>3
  <2> QED
    BY <2>2, <2>3
<1>9. \A b \in Addresses, t \in Times : Total(admitted'[b], InWindow(t)) <= Limit
  <2> SUFFICES ASSUME NEW b \in Addresses, NEW t \in Times
               PROVE  Total(admitted'[b], InWindow(t)) <= Limit
    OBVIOUS
  <2>1. CASE OverLimit(a) \/ b # a
    <3>1. admitted'[b] = admitted[b]
      BY <1>1, <1>3, <2>1
    <3> QED
      BY <1>7, <3>1
  <2>2. CASE ~OverLimit(a) /\ b = a
    BY <1>8, <2>2
  <2> QED
    BY <2>1, <2>2
<1>10. ASSUME OverLimit(a) PROVE Total(sent'[a], InWindow(now)) > Limit
  <2>1. Members(Recorded(a), Times) \subseteq Members(sent'[a], InWindow(now))
    <3>1. ASSUME NEW u \in Times, NEW k \in 1..MaxPerTick, k <= Recorded(a)[u]
          PROVE  u \in InWindow(now) /\ k <= sent'[a][u]
      BY <1>2, <1>6, <3>1
    <3> QED
      BY <3>1 DEF Members
  <2>2. /\ Total(Recorded(a), Times) <= Total(sent'[a], InWindow(now))
        /\ Total(Recorded(a), Times) \in Nat /\ Total(sent'[a], InWindow(now)) \in Nat
    BY <2>1, TotalIsMonotone
  <2> QED
    BY <1>6, <1>10, <2>2 DEF OverLimit
<1>11. WindowIsExact'
  <2>1. \A b \in refused' : Total(sent'[b], InWindow(now)) > Limit
    BY <1>1, <1>10
  <2> QED
    BY <1>1, <1>9, <2>1 DEF WindowIsExact, Total, Members, InWindow
<1> QED
  BY <1>3, <1>5, <1>11 DEF LimiterInv

LEMMA StepFailOpen ==
    ASSUME LimiterInv, NEW a \in Addresses, FailOpen(a)
    PROVE  LimiterInv'
<1>1. /\ now' = now /\ scores' = [scores EXCEPT ![a] = Recorded(a)]
      /\ sent' = [sent EXCEPT ![a][now] = @ + 1]
      /\ admitted' = admitted /\ refused' = {}
  BY DEF FailOpen
<1>2. scores' \in [Addresses -> [Times -> Nat]] /\ sent' \in [Addresses -> [Times -> Nat]]
  BY <1>1, PipelineIsExact
<1>3. \A b \in Addresses : SetIsExact(b)'
  BY <1>1, ExactAfterPipeline
<1>4. LimiterTypes /\ WindowIsExact
  BY DEF LimiterInv
<1>5. LimiterTypes'
  BY <1>1, <1>2, <1>4 DEF LimiterTypes
<1>6. WindowIsExact'
  BY <1>1, <1>4 DEF WindowIsExact
<1> QED
  BY <1>3, <1>5, <1>6 DEF LimiterInv

LEMMA StepClockTicks ==
    ASSUME LimiterInv, ClockTicks
    PROVE  LimiterInv'
<1>1. /\ LimiterTypes /\ WindowIsExact /\ \A a \in Addresses : SetIsExact(a)
      /\ now < MaxTime /\ now' = now + 1 /\ refused' = {}
      /\ scores' = scores /\ sent' = sent /\ admitted' = admitted
  BY DEF LimiterInv, ClockTicks
<1>2. now \in Nat /\ now' \in Times /\ Times \subseteq Nat /\ Window \in Nat \ {0}
  BY <1>1, LimiterAssumption DEF LimiterTypes, Times
<1>3. LimiterTypes'
  BY <1>1, <1>2 DEF LimiterTypes
<1>4. ASSUME NEW a \in Addresses PROVE SetIsExact(a)'
  <2> SUFFICES ASSUME NEW u \in Times
               PROVE  /\ admitted[a][u] <= sent[a][u]
                      /\ u > now' => scores[a][u] = 0 /\ sent[a][u] = 0
                      /\ u \in InWindow(now)' => scores[a][u] = sent[a][u]
    BY <1>1 DEF SetIsExact
  <2>1. /\ admitted[a][u] <= sent[a][u]
        /\ u > now => scores[a][u] = 0 /\ sent[a][u] = 0
        /\ u \in InWindow(now) => scores[a][u] = sent[a][u]
    BY <1>1 DEF SetIsExact
  <2>2. u > now' => u > now
    BY <1>1, <1>2
  <2>3. u \in InWindow(now)' => u > now \/ u \in InWindow(now)
    BY <1>1, <1>2 DEF InWindow
  <2> QED
    BY <2>1, <2>2, <2>3
<1>5. WindowIsExact'
  BY <1>1 DEF WindowIsExact
<1> QED
  BY <1>3, <1>4, <1>5 DEF LimiterInv

LEMMA StepKeyExpires ==
    ASSUME LimiterInv, NEW a \in Addresses, KeyExpires(a)
    PROVE  LimiterInv'
<1>1. /\ LimiterTypes /\ WindowIsExact /\ \A b \in Addresses : SetIsExact(b)
      /\ \A t \in Times : sent[a][t] > 0 => t + Window <= now
      /\ scores' = [scores EXCEPT ![a] = [t \in Times |-> 0]] /\ refused' = {}
      /\ now' = now /\ sent' = sent /\ admitted' = admitted
  BY DEF LimiterInv, KeyExpires
<1>2. now \in Nat /\ Times \subseteq Nat /\ Window \in Nat \ {0}
  BY <1>1, LimiterAssumption DEF LimiterTypes, Times
<1>3. /\ scores' \in [Addresses -> [Times -> Nat]]
      /\ \A u \in Times : scores'[a][u] = 0
      /\ \A b \in Addresses \ {a} : scores'[b] = scores[b]
  BY <1>1 DEF LimiterTypes
<1>4. LimiterTypes'
  BY <1>1, <1>3 DEF LimiterTypes
<1>5. SetIsExact(a)'
  <2> SUFFICES ASSUME NEW u \in Times
               PROVE  /\ admitted[a][u] <= sent[a][u]
                      /\ u > now => scores'[a][u] = 0 /\ sent[a][u] = 0
                      /\ u \in InWindow(now) => scores'[a][u] = sent[a][u]
    BY <1>1 DEF SetIsExact, InWindow
  <2>1. admitted[a][u] <= sent[a][u] /\ (u > now => sent[a][u] = 0)
    BY <1>1 DEF SetIsExact
  <2>2. u \in InWindow(now) => sent[a][u] = 0
    <3>1. sent[a][u] \in Nat
      BY <1>1 DEF LimiterTypes
    <3> QED
      BY <1>1, <1>2, <3>1 DEF InWindow
  <2> QED
    BY <1>3, <2>1, <2>2
<1>6. \A b \in Addresses \ {a} : SetIsExact(b)'
  BY <1>1, <1>3 DEF SetIsExact, InWindow
<1>7. WindowIsExact'
  BY <1>1 DEF WindowIsExact
<1> QED
  BY <1>4, <1>5, <1>6, <1>7 DEF LimiterInv

LEMMA LimiterStep == LimiterInv /\ [LimiterNext]_limiterVars => LimiterInv'
<1> SUFFICES ASSUME LimiterInv, [LimiterNext]_limiterVars PROVE LimiterInv'
  OBVIOUS
<1>1. CASE UNCHANGED limiterVars
  BY <1>1 DEF limiterVars, LimiterInv, LimiterTypes, SetIsExact, InWindow, WindowIsExact
<1>2. CASE ClockTicks
  BY <1>2, StepClockTicks
<1>3. ASSUME NEW a \in Addresses, RateLimit(a) PROVE LimiterInv'
  BY <1>3, StepRateLimit
<1>4. ASSUME NEW a \in Addresses, FailOpen(a) PROVE LimiterInv'
  BY <1>4, StepFailOpen
<1>5. ASSUME NEW a \in Addresses, KeyExpires(a) PROVE LimiterInv'
  BY <1>5, StepKeyExpires
<1> QED
  BY <1>1, <1>2, <1>3, <1>4, <1>5 DEF LimiterNext

\* No window of the limiter's length lets more than the limit through by the
\* count, and whoever is refused sent more than the limit within the window
\* (rateLimiter.js:26-38).
THEOREM TheWindowSlides == LimiterSpec => []WindowIsExact
<1>1. LimiterSpec => []LimiterInv
  BY LimiterInitInv, LimiterStep, PTL DEF LimiterSpec
<1>2. LimiterInv => WindowIsExact
  BY DEF LimiterInv
<1> QED
  BY <1>1, <1>2, PTL

-----------------------------------------------------------------------------
\* Shifts and assignment.

LEMMA DivMod ==
    ASSUME NEW n \in Nat, NEW b \in Nat \ {0}
    PROVE  /\ n \div b \in Nat /\ n % b \in 0..(b - 1)
           /\ n = b * (n \div b) + (n % b)
<1>1. n % b \in 0..(b - 1)
  OBVIOUS
<1>2. n = b * (n \div b) + (n % b)
  OBVIOUS
<1>3. n \div b \in Nat
  OBVIOUS
<1> QED
  BY <1>1, <1>2, <1>3

LEMMA DivModOf ==
    ASSUME NEW q \in Nat, NEW b \in Nat \ {0}, NEW m \in 0..(b - 1)
    PROVE  (b * q + m) \div b = q /\ (b * q + m) % b = m
OBVIOUS

LEMMA DivLess ==
    ASSUME NEW n \in Nat, NEW b \in Nat \ {0}, NEW c \in Nat \ {0}, n < b * c
    PROVE  n \div b < c
OBVIOUS

LEMMA LeastOfNat ==
    ASSUME NEW S \in SUBSET Nat, S # {}
    PROVE  Min(S) \in S /\ \A x \in S : Min(S) <= x
<1> DEFINE R == {ss \in Nat \X Nat : ss[1] < ss[2]}
<1>1. IsWellFoundedOn(R, Nat)
  BY NatLessThanWellFounded DEF OpToRel
<1> HIDE DEF R
<1>2. \E x \in S : \A y \in S : ~(<<y, x>> \in R)
  <2>1. S \subseteq Nat /\ S # {}
    OBVIOUS
  <2> QED
    BY <1>1, <2>1, WFMin, Zenon
<1>3. \E x \in S : \A y \in S : x <= y
  <2>1. \A x, y \in Nat : y < x => <<y, x>> \in R
    BY DEF R
  <2>2. PICK x \in S : \A y \in S : ~(<<y, x>> \in R)
    BY <1>2
  <2>3. \A y \in S : ~(y < x)
    BY <2>1, <2>2
  <2> QED
    BY <2>3
<1> QED
  BY <1>3 DEF Min

-----------------------------------------------------------------------------
\* Shifts against the roster they stand for.

LEMMA TimeOfDay ==
    ASSUME NEW t \in Nat
    PROVE  /\ t \div DayLength \in Nat /\ MinutesSinceMidnight(t) \in 0..(DayLength - 1)
           /\ t = DayLength * (t \div DayLength) + MinutesSinceMidnight(t)
BY DivMod, ShiftsAssumption DEF MinutesSinceMidnight

\* The slot of a week at a time of a day of it.
LEMMA SlotOfWeek ==
    ASSUME NEW d \in 0..(WeekLength - 1), NEW m \in 0..(DayLength - 1)
    PROVE  /\ DayLength * d + m \in Week
           /\ (DayLength * d + m) % (DayLength * WeekLength) = DayLength * d + m
           /\ (DayLength * d + m) \div DayLength = d
           /\ Day(DayLength * d + m) = d
           /\ MinutesSinceMidnight(DayLength * d + m) = m
<1>1. d \in Nat /\ m \in Nat /\ DayLength \in Nat \ {0} /\ WeekLength \in Nat \ {0}
  BY ShiftsAssumption
<1>2. (DayLength * d + m) \div DayLength = d /\ (DayLength * d + m) % DayLength = m
  BY <1>1, DivModOf
<1>3. DayLength * WeekLength \in Nat \ {0} /\ DayLength * d + m \in Nat
  BY <1>1
<1>4. DayLength * d + m < DayLength * WeekLength
  <2>1. PICK e \in Nat : WeekLength = d + 1 + e
    <3>1. WeekLength - d - 1 \in Nat /\ WeekLength = d + 1 + (WeekLength - d - 1)
      BY <1>1
    <3> QED
      BY <3>1
  <2>2. DayLength * WeekLength = DayLength * d + DayLength + DayLength * e
    BY <1>1, <2>1
  <2>3. DayLength * e \in Nat /\ DayLength * d \in Nat
    BY <1>1, <2>1
  <2> QED
    BY <1>1, <2>2, <2>3
<1>5. (DayLength * d + m) % (DayLength * WeekLength) = DayLength * d + m
  BY <1>3, <1>4
<1>6. d % WeekLength = d
  BY <1>1
<1> QED
  BY <1>2, <1>3, <1>4, <1>5, <1>6 DEF Week, Day, MinutesSinceMidnight

\* And the day and the time of a slot of the week.
LEMMA WeekSlot ==
    ASSUME NEW t \in Week
    PROVE  /\ Day(t) \in 0..(WeekLength - 1)
           /\ MinutesSinceMidnight(t) \in 0..(DayLength - 1)
           /\ t = DayLength * Day(t) + MinutesSinceMidnight(t)
<1>1. DayLength \in Nat \ {0} /\ WeekLength \in Nat \ {0} /\ DayLength * WeekLength \in Nat
  BY ShiftsAssumption
<1>2. t \in Nat /\ t < DayLength * WeekLength
  BY <1>1 DEF Week
<1>3. t \div DayLength < WeekLength
  BY <1>1, <1>2, DivLess
<1>4. t \div DayLength \in Nat
  BY <1>2, TimeOfDay
<1>5. Day(t) = t \div DayLength
  BY <1>1, <1>3, <1>4 DEF Day
<1>6. /\ MinutesSinceMidnight(t) \in 0..(DayLength - 1)
      /\ t = DayLength * (t \div DayLength) + MinutesSinceMidnight(t)
  BY <1>2, TimeOfDay
<1> QED
  BY <1>1, <1>3, <1>4, <1>5, <1>6

LEMMA OnShiftIsOnRoster ==
    ASSUME NEW s \in Row, NEW t \in Week, IsOnShift(s, t),
           \/ s.start <= s.end
           \/ s.days = 0..(WeekLength - 1)
           \/ MinutesSinceMidnight(t) >= s.start
    PROVE  OnRoster(s, t)
<1> DEFINE m == MinutesSinceMidnight(t)
           length == IF s.start <= s.end THEN s.end - s.start
                                         ELSE DayLength + s.end - s.start
<1>1. /\ DayLength \in Nat \ {0} /\ WeekLength \in Nat \ {0} /\ NoTime \notin Nat
      /\ DayLength * WeekLength \in Nat \ {0}
  BY ShiftsAssumption
<1>2. /\ s.start \in Nat /\ s.end \in Nat /\ s.start < DayLength /\ s.end < DayLength
      /\ Day(t) \in s.days /\ s.days \subseteq 0..(WeekLength - 1)
  BY <1>1 DEF IsOnShift, Row, MinutesOfDay
<1>3. IF s.start <= s.end THEN m >= s.start /\ m < s.end ELSE m >= s.start \/ m < s.end
  BY DEF IsOnShift, IsWithinShiftWindow
<1>4. /\ Day(t) \in 0..(WeekLength - 1) /\ m \in 0..(DayLength - 1)
      /\ t = DayLength * Day(t) + m
  BY WeekSlot
<1>5. t % (DayLength * WeekLength) = t
  BY <1>4, SlotOfWeek
<1>6. length \in Nat
  BY <1>1, <1>2
<1>7. SUFFICES \E d \in s.days, k \in 0..length :
                    k < length
                    /\ (d * DayLength + s.start + k) % (DayLength * WeekLength) = t
  BY DEF OnRoster
<1> HIDE DEF m
<1>8. CASE m >= s.start
  <2>1. m - s.start \in 0..length /\ m - s.start < length
    BY <1>1, <1>2, <1>3, <1>4, <1>8
  <2>2. Day(t) * DayLength + s.start + (m - s.start) = t
    <3>1. Day(t) * DayLength = DayLength * Day(t) /\ DayLength * Day(t) \in Nat
      BY <1>1, <1>4
    <3> QED
      BY <1>2, <1>4, <3>1
  <2> QED
    BY <1>2, <1>5, <2>1, <2>2
<1>9. CASE m < s.start
  <2>1. s.start > s.end /\ m < s.end /\ s.days = 0..(WeekLength - 1)
    BY <1>2, <1>3, <1>4, <1>9 DEF m
  <2>2. PICK k : k = DayLength - s.start + m
    OBVIOUS
  <2>3. k \in 0..length /\ k < length
    <3>1. length = DayLength + s.end - s.start
      BY <1>2, <2>1
    <3>2. m \in Nat /\ s.start \in Nat /\ s.start < DayLength /\ s.end \in Nat
      BY <1>1, <1>2, <1>4
    <3> HIDE DEF length
    <3>3. k \in Nat /\ k < DayLength + s.end - s.start
      BY <1>1, <2>1, <2>2, <3>2
    <3> QED
      BY <1>6, <3>1, <3>3
  <2>4. CASE Day(t) > 0
    <3>1. Day(t) - 1 \in s.days
      BY <1>1, <1>4, <2>1, <2>4
    <3>2. (Day(t) - 1) * DayLength + s.start + k = t
      <4>1. (Day(t) - 1) * DayLength = DayLength * Day(t) - DayLength
        BY <1>1, <1>4
      <4>2. DayLength * Day(t) \in Nat
        BY <1>1, <1>4
      <4> QED
        BY <1>1, <1>2, <1>4, <2>2, <4>1, <4>2
    <3> QED
      BY <1>5, <2>3, <3>1, <3>2
  <2>5. CASE Day(t) = 0
    <3>1. WeekLength - 1 \in s.days
      BY <1>1, <2>1
    <3>2. t = m
      <4>1. DayLength * 0 = 0
        BY <1>1
      <4> QED
        BY <1>4, <2>5, <4>1
    <3>3. (WeekLength - 1) * DayLength + s.start + k = (DayLength * WeekLength) * 1 + m
      <4>1. (WeekLength - 1) * DayLength = DayLength * WeekLength - DayLength
        BY <1>1
      <4> QED
        BY <1>1, <1>2, <1>4, <2>2, <4>1
    <3>4. m \in 0..(DayLength * WeekLength - 1)
      BY <1>1, <3>2 DEF Week
    <3>5. ((DayLength * WeekLength) * 1 + m) % (DayLength * WeekLength) = m
      BY <1>1, <3>4, DivModOf
    <3> QED
      BY <2>3, <3>1, <3>2, <3>3, <3>5
  <2> QED
    BY <1>4, <2>4, <2>5
<1> QED
  BY <1>2, <1>4, <1>8, <1>9

LEMMA OnRosterIsOnShift ==
    ASSUME NEW s \in Row, NEW t \in Week, OnRoster(s, t),
           s.state = "ACTIVE", s.start # NoTime, s.end # NoTime,
           \/ s.start <= s.end
           \/ s.days = 0..(WeekLength - 1)
           \/ MinutesSinceMidnight(t) >= s.start
    PROVE  IsOnShift(s, t)
<1> DEFINE length == IF s.start <= s.end THEN s.end - s.start
                                         ELSE DayLength + s.end - s.start
<1>1. /\ DayLength \in Nat \ {0} /\ WeekLength \in Nat \ {0}
      /\ DayLength * WeekLength \in Nat \ {0}
  BY ShiftsAssumption
<1>2. /\ s.start \in Nat /\ s.end \in Nat /\ s.start < DayLength /\ s.end < DayLength
      /\ s.days \subseteq 0..(WeekLength - 1)
  BY <1>1 DEF Row, MinutesOfDay
<1>3. length \in Nat /\ (s.start <= s.end => length = s.end - s.start)
      /\ (~(s.start <= s.end) => length = DayLength + s.end - s.start)
  BY <1>1, <1>2
<1>4. PICK d \in s.days, k \in 0..length :
        k < length /\ (d * DayLength + s.start + k) % (DayLength * WeekLength) = t
  BY DEF OnRoster
<1> HIDE DEF length
<1>5. d \in 0..(WeekLength - 1) /\ k \in Nat /\ k < length /\ d * DayLength = DayLength * d
  BY <1>1, <1>2, <1>3, <1>4
<1>6. CASE s.start + k < DayLength
  <2>1. PICK m \in 0..(DayLength - 1) : m = s.start + k
    BY <1>1, <1>2, <1>5, <1>6
  <2>2. d * DayLength + s.start + k = DayLength * d + m
    <3>1. DayLength * d \in Nat
      BY <1>1, <1>5
    <3> QED
      BY <1>2, <1>5, <2>1, <3>1
  <2>3. t = DayLength * d + m
    BY <1>4, <1>5, <2>2, SlotOfWeek
  <2>4. Day(t) = d /\ MinutesSinceMidnight(t) = m
    BY <1>5, <2>3, SlotOfWeek
  <2>5. m >= s.start /\ (s.start <= s.end => m < s.end)
    BY <1>2, <1>3, <1>5, <2>1
  <2>6. IsWithinShiftWindow(t, s.start, s.end)
    BY <2>4, <2>5 DEF IsWithinShiftWindow
  <2> QED
    BY <1>4, <2>4, <2>6 DEF IsOnShift
<1>7. CASE s.start + k >= DayLength
  <2>1. PICK m \in 0..(DayLength - 1) : s.start + k = DayLength + m
    <3>1. s.start + k - DayLength \in 0..(DayLength - 1)
      BY <1>1, <1>2, <1>3, <1>5, <1>7
    <3>2. s.start + k = DayLength + (s.start + k - DayLength)
      BY <1>1, <1>2, <1>5
    <3> QED
      BY <3>1, <3>2
  <2>2. ~(s.start <= s.end) /\ m < s.end
    BY <1>1, <1>2, <1>3, <1>5, <2>1
  <2>3. d * DayLength + s.start + k = DayLength * (d + 1) + m
    <3>1. DayLength * (d + 1) = DayLength * d + DayLength /\ DayLength * d \in Nat
      BY <1>1, <1>5
    <3> QED
      BY <1>1, <1>2, <1>5, <2>1, <3>1
  <2>4. \E e \in 0..(WeekLength - 1) : t = DayLength * e + m
    <3>1. CASE d + 1 < WeekLength
      <4>1. d + 1 \in 0..(WeekLength - 1)
        BY <1>1, <1>5, <3>1
      <4> QED
        BY <1>4, <2>3, <4>1, SlotOfWeek
    <3>2. CASE ~(d + 1 < WeekLength)
      <4>1. d + 1 = WeekLength
        BY <1>1, <1>5, <3>2
      <4>2. d * DayLength + s.start + k = (DayLength * WeekLength) * 1 + m
        BY <1>1, <2>3, <4>1
      <4>3. 0 \in 0..(WeekLength - 1) /\ DayLength * 0 + m = m
        BY <1>1
      <4>4. m \in 0..(DayLength * WeekLength - 1)
        <5>1. m \in Week
          BY <4>3, SlotOfWeek
        <5> QED
          BY <5>1 DEF Week
      <4>5. ((DayLength * WeekLength) * 1 + m) % (DayLength * WeekLength) = m
        BY <1>1, <4>4, DivModOf
      <4>6. t = m
        BY <1>4, <4>2, <4>5
      <4> QED
        BY <4>3, <4>6
    <3> QED
      BY <3>1, <3>2
  <2>5. PICK e \in 0..(WeekLength - 1) : t = DayLength * e + m
    BY <2>4
  <2>6. Day(t) = e /\ MinutesSinceMidnight(t) = m
    BY <2>5, SlotOfWeek
  <2>7. ~(m >= s.start)
    BY <1>1, <1>2, <2>2
  <2>8. Day(t) \in s.days
    BY <2>2, <2>6, <2>7
  <2>9. IsWithinShiftWindow(t, s.start, s.end)
    BY <2>2, <2>6 DEF IsWithinShiftWindow
  <2> QED
    BY <2>8, <2>9 DEF IsOnShift
<1> QED
  BY <1>1, <1>2, <1>5, <1>6, <1>7

-----------------------------------------------------------------------------
\* Between two looks.

LEMMA EarlierDay ==
    ASSUME NEW n \in Nat \ {0}, NEW p \in Nat, NEW q \in Nat,
           NEW x \in 0..(n - 1), NEW y \in 0..(n - 1), n * p + x <= n * q + y
    PROVE  p <= q
<1> SUFFICES ASSUME q < p PROVE FALSE
  OBVIOUS
<1>1. PICK e \in Nat : p = q + 1 + e
  <2>1. p - q - 1 \in Nat /\ p = q + 1 + (p - q - 1)
    OBVIOUS
  <2> QED
    BY <2>1
<1>2. n * p = n * q + n + n * e /\ n * e \in Nat /\ n * q \in Nat
  BY <1>1
<1> QED
  BY <1>2

\* On shift at two looks no further apart than a break is long: on shift at
\* every slot between.
LEMMA BetweenTwoLooks ==
    ASSUME NEW s \in Row, NEW t \in Nat, NEW v \in Nat, NEW u \in t..v,
           v - t <= CheckInterval, IsOnShift(s, t), IsOnShift(s, v), BreakNoticed(s)
    PROVE  IsOnShift(s, u)
<1>1. PICK n : n = DayLength
  OBVIOUS
<1>2. PICK c : c = CheckInterval
  OBVIOUS
<1>3. n \in Nat \ {0} /\ c \in Nat \ {0} /\ NoTime \notin Nat /\ WeekLength \in Nat \ {0}
  BY <1>1, <1>2, ShiftsAssumption
<1>4. /\ s.start \in Nat /\ s.end \in Nat /\ s.start < n /\ s.end < n
      /\ s.state # "SUSPENDED" /\ s.start # NoTime /\ s.end # NoTime
  BY <1>1, <1>3 DEF Row, MinutesOfDay, IsOnShift
<1>5. IF s.start <= s.end THEN n + s.start - s.end >= c ELSE s.start - s.end >= c
  BY <1>1, <1>2 DEF BreakNoticed
<1>6. PICK p, x : p = t \div n /\ x = MinutesSinceMidnight(t)
  OBVIOUS
<1>7. PICK q, y : q = v \div n /\ y = MinutesSinceMidnight(v)
  OBVIOUS
<1>8. PICK r, z : r = u \div n /\ z = MinutesSinceMidnight(u)
  OBVIOUS
<1>9. /\ p \in Nat /\ x \in 0..(n - 1) /\ t = n * p + x
      /\ q \in Nat /\ y \in 0..(n - 1) /\ v = n * q + y
      /\ r \in Nat /\ z \in 0..(n - 1) /\ u = n * r + z /\ u \in Nat
  BY <1>1, <1>6, <1>7, <1>8, TimeOfDay
<1>10. /\ IF s.start <= s.end THEN x >= s.start /\ x < s.end ELSE x >= s.start \/ x < s.end
       /\ IF s.start <= s.end THEN y >= s.start /\ y < s.end ELSE y >= s.start \/ y < s.end
       /\ Day(t) \in s.days /\ Day(v) \in s.days
  BY <1>6, <1>7 DEF IsOnShift, IsWithinShiftWindow
<1>11. t <= u /\ u <= v /\ v - t <= c
  BY <1>2
<1>12. \/ r = p /\ q = p
       \/ r = p /\ q = p + 1
       \/ r = p + 1 /\ q = p + 1
  <2>1. p <= r /\ r <= q
    BY <1>3, <1>9, <1>11, EarlierDay
  <2>2. c <= n
    BY <1>3, <1>4, <1>5
  <2>3. n * (p + 1) = n * p + n /\ n * p \in Nat /\ n * q \in Nat
    BY <1>3, <1>9
  <2>4. n * q + y <= n * (p + 1) + x
    BY <1>3, <1>9, <1>11, <2>2, <2>3
  <2>5. q <= p + 1
    BY <1>3, <1>9, <2>4, EarlierDay
  <2> QED
    BY <1>9, <2>1, <2>5
<1>13. Day(u) \in s.days
  <2>1. Day(t) = p % WeekLength /\ Day(v) = q % WeekLength /\ Day(u) = r % WeekLength
    BY <1>1, <1>6, <1>7, <1>8 DEF Day
  <2> QED
    BY <1>10, <1>12, <2>1
<1>14. IF s.start <= s.end THEN z >= s.start /\ z < s.end ELSE z >= s.start \/ z < s.end
  <2>1. PICK a, b : a = s.start /\ b = s.end
    OBVIOUS
  <2>2. /\ a \in Nat /\ b \in Nat /\ a < n /\ b < n /\ n \in Nat /\ c \in Nat
        /\ x \in Nat /\ y \in Nat /\ z \in Nat /\ x < n /\ y < n /\ z < n
        /\ IF a <= b THEN n + a - b >= c ELSE a - b >= c
        /\ IF a <= b THEN x >= a /\ x < b ELSE x >= a \/ x < b
        /\ IF a <= b THEN y >= a /\ y < b ELSE y >= a \/ y < b
    BY <1>3, <1>4, <1>5, <1>9, <1>10, <2>1
  <2>3. n * p \in Nat /\ n * (p + 1) = n * p + n
    BY <1>3, <1>9
  <2>4. CASE r = p /\ q = p
    <3>1. x <= z /\ z <= y /\ y - x <= c
      BY <1>9, <1>11, <2>2, <2>3, <2>4
    <3>2. IF a <= b THEN z >= a /\ z < b ELSE z >= a \/ z < b
      BY <2>2, <3>1
    <3> QED
      BY <2>1, <3>2
  <2>5. CASE q = p + 1 /\ r \in {p, q}
    <3>1. n - x + y <= c /\ (r = p => x <= z) /\ (r = q => z <= y)
      BY <1>9, <1>11, <2>2, <2>3, <2>5
    <3>2. ~(a <= b) /\ x >= a /\ y < b
      BY <2>2, <3>1
    <3>3. z >= a \/ z < b
      BY <2>2, <2>5, <3>1, <3>2
    <3> QED
      BY <2>1, <3>2, <3>3
  <2> QED
    BY <1>12, <2>4, <2>5
<1> QED
  BY <1>4, <1>8, <1>13, <1>14 DEF IsOnShift, IsWithinShiftWindow

LEMMA AvailableThroughout ==
    ASSUME NEW s \in Row, NEW t \in Nat, NEW duration \in Nat,
           IsAvailableFor(s, duration, t), BreakNoticed(s), NEW k \in 0..duration
    PROVE  IsOnShift(s, t + k)
<1>1. PICK c \in Nat \ {0} : c = CheckInterval
  BY ShiftsAssumption
<1>2. PICK j \in Nat, x \in 0..(c - 1) : j = k \div c /\ k = c * j + x
  <2>1. k \in Nat
    OBVIOUS
  <2> QED
    BY <2>1, DivMod
<1>3. PICK last \in Nat, y \in 0..(c - 1) : last = duration \div c /\ duration = c * last + y
  BY DivMod
<1>4. j <= last
  BY <1>2, <1>3, EarlierDay
<1>5. /\ \A i \in 0..last : IsOnShift(s, t + i * c)
      /\ IsOnShift(s, t + duration)
  BY <1>1, <1>3 DEF IsAvailableFor
<1>6. j * c = c * j /\ c * j \in Nat /\ IsOnShift(s, t + c * j)
  BY <1>2, <1>4, <1>5
<1>7. CASE j < last
  <2>1. IsOnShift(s, t + (j + 1) * c)
    <3>1. j + 1 \in 0..last
      BY <1>2, <1>3, <1>7
    <3> QED
      BY <1>5, <3>1
  <2>2. (j + 1) * c = c * j + c
    BY <1>2
  <2>3. /\ t + c * j \in Nat /\ t + (j + 1) * c \in Nat
        /\ t + k \in (t + c * j)..(t + (j + 1) * c)
        /\ (t + (j + 1) * c) - (t + c * j) <= CheckInterval
    BY <1>1, <1>2, <1>6, <2>2
  <2> QED
    BY <1>6, <2>1, <2>3, BetweenTwoLooks
<1>8. CASE j = last
  <2>1. /\ t + c * j \in Nat /\ t + duration \in Nat
        /\ t + k \in (t + c * j)..(t + duration)
        /\ (t + duration) - (t + c * j) <= CheckInterval
    BY <1>1, <1>2, <1>3, <1>6, <1>8
  <2> QED
    BY <1>5, <1>6, <2>1, BetweenTwoLooks
<1> QED
  BY <1>4, <1>7, <1>8

-----------------------------------------------------------------------------
\* The pick.

PoolEntry == [id : Staff, row : Row]

LEMMA LeastLoadedIs ==
    ASSUME NEW pool \in Seq(PoolEntry), NEW I \in SUBSET DOMAIN pool, I # {}
    PROVE  \E i \in I : /\ LeastLoaded(pool, I) = pool[i].id
                       /\ \A j \in I : pool[i].row.load <= pool[j].row.load
<1>1. I \subseteq Nat
  OBVIOUS
<1>2. \A i \in I : pool[i].row.load \in Nat
  <2>1. \A i \in I : pool[i] \in PoolEntry
    OBVIOUS
  <2> QED
    BY <2>1 DEF PoolEntry, Row
<1>3. PICK loads : loads = {pool[i].row.load : i \in I}
  OBVIOUS
<1>4. loads \in SUBSET Nat /\ loads # {}
  BY <1>2, <1>3
<1>5. Min(loads) \in loads /\ \A x \in loads : Min(loads) <= x
  BY <1>4, LeastOfNat
<1>6. PICK first : first = {i \in I : pool[i].row.load = Min(loads)}
  OBVIOUS
<1>7. first \in SUBSET Nat /\ first # {}
  BY <1>1, <1>3, <1>5, <1>6
<1>8. Min(first) \in first
  BY <1>7, LeastOfNat
<1>9. LeastLoaded(pool, I) = pool[Min(first)].id
  BY <1>3, <1>6 DEF LeastLoaded
<1> QED
  BY <1>3, <1>5, <1>6, <1>8, <1>9

\* Whom the pick left out and whom it took, at the time of the pick.
NobodyFreer(at) ==
    \A i \in DOMAIN at.pool :
        at.pool[i].row.state = "ACTIVE" /\ OnDuty(at.pool[i].row, at.at) =>
            /\ at.staff \in Staff
            /\ \E j \in DOMAIN at.pool : /\ at.staff = at.pool[j].id
                                       /\ at.pool[j].row.load <= at.pool[i].row.load

OnDutyOrCall(at) ==
    at.staff # NoStaff =>
        \E i \in DOMAIN at.pool :
            /\ at.staff = at.pool[i].id
            /\ Covers(at.pool[i].row, at.at) \/ IsOnCall(at.pool[i].row, at.at)

PoolOK(pool) ==
    /\ pool \in Seq(PoolEntry)
    /\ \A i \in DOMAIN pool : pool[i].row.load = user[pool[i].id].load
    /\ \A i, j \in DOMAIN pool : pool[i].id = pool[j].id => pool[i] = pool[j]

PickOK(at) ==
    /\ at.stage \in {"pick", "picked"} => PoolOK(at.pool)
    /\ at.stage = "picked" =>
        /\ at.at \in Nat
        /\ at.read.strategy = "LEAST_LOADED" => NobodyFreer(at)
        /\ at.read.strategy = "SHIFT_AWARE" => OnDutyOrCall(at)

StaffingInv ==
    /\ clock \in Nat
    /\ user \in [Staff -> Row]
    /\ DOMAIN assignment = Assignments
    /\ \A a \in Assignments : PickOK(assignment[a])

LEMMA StaffingInitInv == StaffingInit => StaffingInv
<1> SUFFICES ASSUME StaffingInit PROVE StaffingInv
  OBVIOUS
<1>1. clock \in Nat
  BY ShiftsAssumption DEF StaffingInit, Week
<1>2. user \in [Staff -> Row]
  BY StaffingAssumption DEF StaffingInit
<1>3. DOMAIN assignment = Assignments /\ \A a \in Assignments : assignment[a].stage = "idle"
  BY DEF StaffingInit, Waiting
<1> QED
  BY <1>1, <1>2, <1>3 DEF StaffingInv, PickOK

\* One assignment moves, and the rows stay.
LEMMA AssignmentBecomes ==
    ASSUME StaffingInv, NEW a \in Assignments, NEW at,
           assignment' = [assignment EXCEPT ![a] = at], PickOK(at),
           clock' = clock, user' = user
    PROVE  StaffingInv'
<1>1. DOMAIN assignment' = Assignments /\ assignment'[a] = at
      /\ \A b \in Assignments \ {a} : assignment'[b] = assignment[b]
  BY DEF StaffingInv
<1>2. \A b \in Assignments : PickOK(assignment'[b])
  BY <1>1 DEF StaffingInv
<1>3. \A b \in Assignments : PickOK(assignment[b])'
  <2> SUFFICES ASSUME NEW b \in Assignments PROVE PickOK(assignment[b])'
    OBVIOUS
  <2>1. PickOK(assignment'[b])
    BY <1>2
  <2> QED
    BY <2>1 DEF PickOK, PoolOK
<1> QED
  BY <1>1, <1>3 DEF StaffingInv

LEMMA StepFindDepartment ==
    ASSUME StaffingInv, NEW a \in Assignments, NEW d, NEW c, FindDepartment(a, d, c)
    PROVE  StaffingInv'
<1> DEFINE at == [stage |-> "pool", department |-> d, category |-> c, read |-> department[d]]
<1>1. PickOK(at)
  BY DEF PickOK
<1>2. assignment' = [assignment EXCEPT ![a] = at] /\ clock' = clock /\ user' = user
  BY DEF FindDepartment
<1> HIDE DEF at
<1> QED
  BY <1>1, <1>2, AssignmentBecomes

LEMMA StaffOfCohorts ==
    ASSUME NEW category, NEW d, NEW ids \in Cohorts(category, d)
    PROVE  ids \in Seq(Staff)
<1>1. ASSUME NEW S \in SUBSET Staff, NEW q \in Sorted(S) PROVE q \in Seq(Staff)
  <2>1. Cardinality(S) \in Nat
    BY StaffingAssumption, FS_Subset, FS_CardinalityType
  <2>2. q \in [1..Cardinality(S) -> S]
    BY <1>1 DEF Sorted
  <2> QED
    BY <2>1, <2>2
<1>2. \A role : BuildWhere(role, d) \in SUBSET Staff
  BY DEF BuildWhere
<1>3. CASE Len(RolesOf(category)) = 1
  <2>1. ids \in Sorted(BuildWhere(RolesOf(category)[1], d))
    BY <1>3 DEF Cohorts
  <2> QED
    BY <1>1, <1>2, <2>1
<1>4. CASE Len(RolesOf(category)) # 1
  <2>1. PICK m \in Sorted(BuildWhere(RolesOf(category)[1], d)),
             o \in Sorted(BuildWhere(RolesOf(category)[2], d)) : ids = m \o o
    BY <1>4 DEF Cohorts
  <2>2. m \in Seq(Staff) /\ o \in Seq(Staff)
    BY <1>1, <1>2
  <2> QED
    BY <2>1, <2>2
<1> QED
  BY <1>3, <1>4

LEMMA StepFindEligibleStaff ==
    ASSUME StaffingInv, NEW a \in Assignments, FindEligibleStaff(a)
    PROVE  StaffingInv'
<1>1. PICK ids \in Cohorts(assignment[a].category, assignment[a].department) :
        assignment' = [assignment EXCEPT ![a] =
            [stage |-> "pick", department |-> @.department, read |-> @.read,
             pool |-> [i \in DOMAIN ids |-> [id |-> ids[i], row |-> user[ids[i]]]]]]
  BY DEF FindEligibleStaff
<1>2. ids \in Seq(Staff) /\ user \in [Staff -> Row]
  BY StaffOfCohorts DEF StaffingInv
<1>3. PICK pool : pool = [i \in DOMAIN ids |-> [id |-> ids[i], row |-> user[ids[i]]]]
  OBVIOUS
<1>4. /\ DOMAIN pool = DOMAIN ids
      /\ \A i \in DOMAIN ids :
            pool[i] = [id |-> ids[i], row |-> user[ids[i]]] /\ pool[i] \in PoolEntry
            /\ pool[i].id = ids[i] /\ pool[i].row = user[ids[i]]
  BY <1>2, <1>3 DEF PoolEntry
<1>5. pool \in Seq(PoolEntry)
  BY <1>2, <1>3, <1>4
<1>6. PoolOK(pool)
  BY <1>4, <1>5 DEF PoolOK
<1> DEFINE at == [stage |-> "pick", department |-> assignment[a].department,
                  read |-> assignment[a].read, pool |-> pool]
<1>7. PickOK(at)
  BY <1>6 DEF PickOK
<1>8. assignment' = [assignment EXCEPT ![a] = at]
  BY <1>1, <1>3
<1> HIDE DEF at
<1> QED
  BY <1>7, <1>8, AssignmentBecomes DEF FindEligibleStaff

LEMMA StepAssign ==
    ASSUME StaffingInv, NEW a \in Assignments, Assign(a)
    PROVE  StaffingInv'
<1> DEFINE pool == assignment[a].pool
           read == assignment[a].read
           staff == Picked(read.strategy, read.roundRobinIndex, pool)
           at == [stage |-> "picked", department |-> assignment[a].department, read |-> read,
                  pool |-> pool, staff |-> staff, at |-> clock]
<1>1. assignment[a].stage = "pick" /\ assignment' = [assignment EXCEPT ![a] = at]
      /\ clock' = clock /\ user' = user
  BY DEF Assign
<1>2. PoolOK(pool) /\ clock \in Nat
  BY <1>1 DEF StaffingInv, PickOK
<1>3. pool \in Seq(PoolEntry) /\ \A i \in DOMAIN pool : pool[i] \in PoolEntry
  BY <1>2 DEF PoolOK
<1>4. \A i \in DOMAIN pool : pool[i].id \in Staff
  BY <1>3 DEF PoolEntry
<1>5. /\ at.stage = "picked" /\ at.pool = pool /\ at.staff = staff /\ at.at = clock
      /\ at.read = read
  OBVIOUS
<1> HIDE DEF at, pool, read
<1>6. ASSUME read.strategy = "LEAST_LOADED" PROVE NobodyFreer(at)
  <2> DEFINE I == {i \in Active(pool) : OnDuty(pool[i].row, clock)}
  <2>1. staff = LeastLoaded(pool, I)
    BY <1>6 DEF Picked, LeastLoadedStrategy
  <2>2. I \in SUBSET DOMAIN pool
    BY DEF Active
  <2>3. \A i \in DOMAIN pool : pool[i].row.state = "ACTIVE" /\ OnDuty(pool[i].row, clock) => i \in I
    BY DEF Active
  <2> HIDE DEF I
  <2>4. I # {} => \E j \in I : /\ staff = pool[j].id
                             /\ \A i \in I : pool[j].row.load <= pool[i].row.load
    BY <1>3, <2>1, <2>2, LeastLoadedIs
  <2> QED
    BY <1>4, <1>5, <2>2, <2>3, <2>4 DEF NobodyFreer
<1>7. ASSUME read.strategy = "SHIFT_AWARE" PROVE OnDutyOrCall(at)
  <2> DEFINE covering == {i \in Active(pool) : Covers(pool[i].row, clock)}
             onCall == {i \in Active(pool) :
                          pool[i].row.role = "MAINTENANCE" /\ IsOnCall(pool[i].row, clock)}
  <2>1. staff = IF covering # {} THEN LeastLoaded(pool, covering)
                ELSE IF onCall # {} THEN pool[Min(onCall)].id ELSE NoStaff
    BY <1>7 DEF Picked, ShiftAwareStrategy
  <2>2. covering \in SUBSET DOMAIN pool /\ \A i \in covering : Covers(pool[i].row, clock)
    BY DEF Active
  <2>3. onCall \in SUBSET DOMAIN pool /\ \A i \in onCall : IsOnCall(pool[i].row, clock)
    BY DEF Active
  <2> HIDE DEF covering, onCall
  <2>4. CASE covering # {}
    <3>1. PICK i \in covering : staff = pool[i].id
      BY <1>3, <2>1, <2>2, <2>4, LeastLoadedIs
    <3> QED
      BY <1>5, <2>2, <3>1 DEF OnDutyOrCall
  <2>5. CASE covering = {} /\ onCall # {}
    <3>1. onCall \in SUBSET Nat
      BY <1>3, <2>3
    <3>2. Min(onCall) \in onCall
      BY <2>5, <3>1, LeastOfNat
    <3> QED
      BY <1>5, <2>1, <2>3, <2>5, <3>2 DEF OnDutyOrCall
  <2>6. CASE covering = {} /\ onCall = {}
    BY <1>5, <2>1, <2>6 DEF OnDutyOrCall
  <2> QED
    BY <2>4, <2>5, <2>6
<1>8. PickOK(at)
  BY <1>2, <1>5, <1>6, <1>7 DEF PickOK
<1> QED
  BY <1>1, <1>8, AssignmentBecomes

LEMMA StepFinish ==
    ASSUME StaffingInv, NEW a \in Assignments, Finish(a)
    PROVE  StaffingInv'
<1>1. PickOK(Waiting)
  BY DEF PickOK, Waiting
<1> QED
  BY <1>1, AssignmentBecomes DEF Finish

LEMMA StepUpdateStaffState ==
    ASSUME StaffingInv, NEW s \in Staff, NEW state \in {"ACTIVE", "UNDER_REVIEW", "SUSPENDED"},
           UpdateStaffState(s, state)
    PROVE  StaffingInv'
<1>1. /\ user \in [Staff -> Row] /\ user[s] \in Row
      /\ user' = [user EXCEPT ![s].state = state]
      /\ clock' = clock /\ assignment' = assignment
  BY DEF StaffingInv, UpdateStaffState
<1>2. /\ [user[s] EXCEPT !.state = state] \in Row
      /\ [user[s] EXCEPT !.state = state].load = user[s].load
  BY <1>1 DEF Row
<1>3. user' = [user EXCEPT ![s] = [user[s] EXCEPT !.state = state]]
  BY <1>1
<1>4. user' \in [Staff -> Row] /\ \A x \in Staff : user'[x].load = user[x].load
  BY <1>1, <1>2, <1>3
<1>5. ASSUME NEW pool, PoolOK(pool) PROVE PoolOK(pool)'
  <2>1. \A i \in DOMAIN pool : pool[i].id \in Staff
    <3>1. \A i \in DOMAIN pool : pool[i] \in PoolEntry
      BY <1>5 DEF PoolOK
    <3> QED
      BY <3>1 DEF PoolEntry
  <2> QED
    BY <1>4, <1>5, <2>1 DEF PoolOK
<1>6. \A a \in Assignments : PickOK(assignment[a])'
  <2> SUFFICES ASSUME NEW a \in Assignments PROVE PickOK(assignment[a])'
    OBVIOUS
  <2>1. PickOK(assignment[a]) /\ assignment'[a] = assignment[a]
    BY <1>1 DEF StaffingInv
  <2> QED
    BY <1>1, <1>5, <2>1 DEF PickOK
<1> QED
  BY <1>1, <1>4, <1>6 DEF StaffingInv

LEMMA OthersStay ==
    ASSUME StaffingInv, clock' \in Nat, UNCHANGED <<user, assignment>>
    PROVE  StaffingInv'
BY DEF StaffingInv, PickOK, PoolOK

LEMMA StepTimePasses ==
    ASSUME StaffingInv, TimePasses
    PROVE  StaffingInv'
<1>1. clock' \in Nat
  BY ShiftsAssumption DEF StaffingInv, TimePasses
<1> QED
  BY <1>1, OthersStay DEF TimePasses

LEMMA StaffingStep == StaffingInv /\ [StaffingNext]_staffingVars => StaffingInv'
<1> SUFFICES ASSUME StaffingInv, [StaffingNext]_staffingVars PROVE StaffingInv'
  OBVIOUS
<1>1. CASE UNCHANGED staffingVars
  BY <1>1, OthersStay DEF staffingVars, StaffingInv
<1>2. ASSUME NEW a \in Assignments, NEW d \in Departments, NEW c \in Categories,
             FindDepartment(a, d, c)
      PROVE  StaffingInv'
  BY <1>2, StepFindDepartment
<1>3. ASSUME NEW a \in Assignments, FindEligibleStaff(a) \/ Assign(a) \/ Finish(a)
      PROVE  StaffingInv'
  BY <1>3, StepFindEligibleStaff, StepAssign, StepFinish
<1>4. ASSUME NEW s \in Staff, NEW st \in {"ACTIVE", "UNDER_REVIEW", "SUSPENDED"},
             UpdateStaffState(s, st)
      PROVE  StaffingInv'
  BY <1>4, StepUpdateStaffState
<1>5. ASSUME NEW d \in Departments, NEW st \in Strategies, UpdateStrategy(d, st)
      PROVE  StaffingInv'
  BY <1>5, OthersStay DEF UpdateStrategy, StaffingInv
<1>6. CASE TimePasses
  BY <1>6, StepTimePasses
<1> QED
  BY <1>1, <1>2, <1>3, <1>4, <1>5, <1>6 DEF StaffingNext

LEMMA StaffingInvariance == StaffingSpec => []StaffingInv
BY StaffingInitInv, StaffingStep, PTL DEF StaffingSpec

\* The methods of MaintenanceStaff agree with the roster they stand for, but for
\* the hours after midnight of a shift that is not of every day
\* (User.js:45-80, 185-189).
THEOREM RostersAreKept == StaffingSpec => []ShiftsExact
<1>1. StaffingInv => ShiftsExact
  <2> SUFFICES ASSUME StaffingInv, NEW s \in Staff, NEW t \in Week,
                      user[s].state = "ACTIVE", user[s].start # NoTime, user[s].end # NoTime,
                      \/ user[s].start <= user[s].end
                      \/ user[s].days = 0..(WeekLength - 1)
                      \/ MinutesSinceMidnight(t) >= user[s].start
               PROVE  IsOnShift(user[s], t) <=> OnRoster(user[s], t)
    BY DEF ShiftsExact
  <2>1. user[s] \in Row
    BY DEF StaffingInv
  <2>2. IsOnShift(user[s], t) => OnRoster(user[s], t)
    BY <2>1, OnShiftIsOnRoster
  <2>3. OnRoster(user[s], t) => IsOnShift(user[s], t)
    BY <2>1, OnRosterIsOnShift
  <2> QED
    BY <2>2, <2>3
<1> QED
  BY <1>1, StaffingInvariance, PTL

\* Whom SHIFT_AWARE picks is on duty up to the deadline, or on call
\* (AssignmentStrategy.js:85-114, User.js:191-202).
THEOREM DutyCoversTheWindow == StaffingSpec => []DutyOutlastsWindow
<1>1. StaffingInv => DutyOutlastsWindow
  <2> SUFFICES ASSUME StaffingInv, NEW a \in Assignments, assignment[a].stage = "picked",
                      assignment[a].read.strategy = "SHIFT_AWARE",
                      assignment[a].staff # NoStaff,
                      NEW s, s = (CHOOSE x \in {assignment[a].pool[i] : i \in DOMAIN assignment[a].pool} :
                                      x.id = assignment[a].staff).row
               PROVE  \/ s.role = "SECURITY"
                      \/ ~BreakNoticed(s)
                      \/ IsOnCall(s, assignment[a].at)
                      \/ \A k \in 0..SLAWindow : IsOnShift(s, assignment[a].at + k)
    BY DEF DutyOutlastsWindow
  <2>1. PICK at : at = assignment[a]
    OBVIOUS
  <2>2. PoolOK(at.pool) /\ at.at \in Nat /\ OnDutyOrCall(at) /\ at.staff # NoStaff
    BY <2>1 DEF StaffingInv, PickOK
  <2>3. PICK i \in DOMAIN at.pool :
          /\ at.staff = at.pool[i].id
          /\ Covers(at.pool[i].row, at.at) \/ IsOnCall(at.pool[i].row, at.at)
    BY <2>2 DEF OnDutyOrCall
  <2>4. \A x \in {at.pool[j] : j \in DOMAIN at.pool} : x.id = at.staff => x = at.pool[i]
    BY <2>2, <2>3 DEF PoolOK
  <2>5. (CHOOSE x \in {at.pool[j] : j \in DOMAIN at.pool} : x.id = at.staff) = at.pool[i]
    BY <2>3, <2>4
  <2>6. s = at.pool[i].row /\ s \in Row
    <3>1. at.pool[i] \in PoolEntry
      BY <2>2 DEF PoolOK
    <3> QED
      BY <2>1, <2>5, <3>1 DEF PoolEntry
  <2>7. CASE Covers(s, at.at) /\ s.role # "SECURITY" /\ BreakNoticed(s)
    <3>1. s.role = "MAINTENANCE"
      BY <2>6, <2>7 DEF Row
    <3>2. IsAvailableFor(s, SLAWindow, at.at)
      BY <2>7, <3>1 DEF Covers
    <3> QED
      BY <2>1, <2>2, <2>6, <2>7, <3>2, AvailableThroughout, StaffingAssumption
  <2>8. CASE IsOnCall(s, at.at)
    BY <2>1, <2>8
  <2> QED
    BY <2>3, <2>6, <2>7, <2>8
<1> QED
  BY <1>1, StaffingInvariance, PTL

\* Under LEAST_LOADED nobody on duty had fewer tasks than the one picked
\* (AssignmentStrategy.js:34-47).
THEOREM NobodyWasFreer == StaffingSpec => []NobodyFreerWasPassedOver
<1>1. StaffingInv => NobodyFreerWasPassedOver
  <2> SUFFICES ASSUME StaffingInv, NEW a \in Assignments, assignment[a].stage = "picked",
                      assignment[a].read.strategy = "LEAST_LOADED",
                      NEW i \in DOMAIN assignment[a].pool,
                      assignment[a].pool[i].row.state = "ACTIVE",
                      OnDuty(assignment[a].pool[i].row, assignment[a].at)
               PROVE  /\ assignment[a].staff # NoStaff
                      /\ user[assignment[a].staff].load <= assignment[a].pool[i].row.load
    BY DEF NobodyFreerWasPassedOver
  <2>1. PICK at : at = assignment[a]
    OBVIOUS
  <2>2. PoolOK(at.pool) /\ NobodyFreer(at)
    BY <2>1 DEF StaffingInv, PickOK
  <2>3. /\ at.staff \in Staff
        /\ \E j \in DOMAIN at.pool : /\ at.staff = at.pool[j].id
                                   /\ at.pool[j].row.load <= at.pool[i].row.load
    BY <2>1, <2>2 DEF NobodyFreer
  <2> QED
    BY <2>1, <2>2, <2>3, StaffingAssumption DEF PoolOK
<1> QED
  BY <1>1, StaffingInvariance, PTL

-----------------------------------------------------------------------------
\* Binomial coefficients count increasing functions.

(* What a table of factorials up to n has to be. *)
IsTable(n, g) ==
    /\ g \in [0..n -> Nat \ {0}]
    /\ g[0] = 1
    /\ \A i \in 1..n : g[i] = i * g[i - 1]

LEMMA TableExists ==
    ASSUME NEW n \in Nat
    PROVE  \E g : IsTable(n, g)
<1> DEFINE S == {k \in Nat : ~\E g : IsTable(k, g)}
<1>1. SUFFICES ASSUME S # {} PROVE FALSE
  BY <1>1
<1> DEFINE k == Min(S)
<1>2. k \in Nat /\ ~(\E g : IsTable(k, g)) /\ \A j \in Nat : (\E g : IsTable(j, g)) \/ k <= j
  <2>1. S \in SUBSET Nat
    OBVIOUS
  <2>2. k \in S /\ \A j \in S : k <= j
    BY <1>1, <2>1, LeastOfNat
  <2> QED
    BY <2>2
<1> HIDE DEF k, S
<1>3. k # 0
  <2> DEFINE g == [i \in 0..0 |-> 1]
  <2>1. IsTable(0, g)
    BY DEF IsTable
  <2> QED
    BY <1>2, <2>1
<1>4. k - 1 \in Nat /\ ~(k <= k - 1)
  BY <1>2, <1>3
<1>5. PICK g : IsTable(k - 1, g)
  BY <1>2, <1>4
<1> DEFINE h == [i \in 0..k |-> IF i = k THEN k * g[k - 1] ELSE g[i]]
<1>6. h \in [0..k -> Nat \ {0}]
  <2>1. \A a, b \in Nat \ {0} : a * b \in Nat \ {0}
    OBVIOUS
  <2>2. g[k - 1] \in Nat \ {0} /\ k \in Nat \ {0}
    BY <1>2, <1>3, <1>4, <1>5 DEF IsTable
  <2>3. k * g[k - 1] \in Nat \ {0}
    BY <2>1, <2>2
  <2>4. \A i \in 0..k : i # k => g[i] \in Nat \ {0}
    BY <1>2, <1>5 DEF IsTable
  <2> QED
    BY <2>3, <2>4
<1>7. h[0] = 1
  BY <1>2, <1>3, <1>4, <1>5 DEF IsTable
<1>8. ASSUME NEW i \in 1..k PROVE h[i] = i * h[i - 1]
  <2>1. i \in 0..k /\ i - 1 \in 0..k /\ i - 1 # k /\ h[i - 1] = g[i - 1]
    BY <1>2
  <2>2. CASE i = k
    BY <2>1, <2>2
  <2>3. CASE i # k
    <3>1. i \in 1..(k - 1) /\ h[i] = g[i]
      BY <1>2, <2>1, <2>3
    <3> QED
      BY <1>5, <2>1, <3>1 DEF IsTable
  <2> QED
    BY <2>2, <2>3
<1>9. IsTable(k, h)
  BY <1>6, <1>7, <1>8 DEF IsTable
<1> QED
  BY <1>2, <1>9

\* Two tables agree as far as both go.
LEMMA TablesAgree ==
    ASSUME NEW n \in Nat, NEW m \in Nat, NEW g, NEW h, IsTable(n, g), IsTable(m, h),
           NEW i \in Nat, i <= n, i <= m
    PROVE  g[i] = h[i]
<1> DEFINE S == {k \in Nat : k <= n /\ k <= m /\ g[k] # h[k]}
<1>1. SUFFICES ASSUME S # {} PROVE FALSE
  BY <1>1
<1>2. S \in SUBSET Nat
  OBVIOUS
<1> DEFINE k == Min(S)
<1>3. k \in S /\ \A j \in S : k <= j
  BY <1>1, <1>2, LeastOfNat
<1>4. k \in Nat /\ k <= n /\ k <= m /\ g[k] # h[k]
  BY <1>3
<1>5. k # 0
  BY <1>4 DEF IsTable
<1>6. k - 1 \in Nat /\ k - 1 \notin S
  BY <1>3, <1>4, <1>5
<1> HIDE DEF k
<1>7. g[k - 1] = h[k - 1]
  BY <1>4, <1>6
<1>8. k \in 1..n /\ k \in 1..m
  BY <1>4, <1>5
<1>9. g[k] = k * g[k - 1] /\ h[k] = k * h[k - 1]
  BY <1>8 DEF IsTable
<1> QED
  BY <1>4, <1>7, <1>9

\* factorial is the function its definition asks for.
LEMMA FactorialIs ==
    /\ factorial \in [Nat -> Nat \ {0}]
    /\ factorial[0] = 1
    /\ \A n \in Nat \ {0} : factorial[n] = n * factorial[n - 1]
<1> DEFINE T(n) == CHOOSE g : IsTable(n, g)
           f == [n \in Nat |-> T(n)[n]]
<1>1. \A n \in Nat : IsTable(n, T(n))
  BY TableExists
<1> HIDE DEF T
<1>2. \A n \in Nat : f[n] \in Nat \ {0}
  BY <1>1 DEF IsTable
<1>3. f[0] = 1
  BY <1>1 DEF IsTable
<1>4. ASSUME NEW n \in Nat \ {0} PROVE f[n] = n * f[n - 1]
  <2>1. n \in Nat /\ n - 1 \in Nat /\ n - 1 <= n /\ n - 1 <= n - 1 /\ n \in 1..n
    OBVIOUS
  <2>2. T(n)[n] = n * T(n)[n - 1]
    BY <1>1, <2>1 DEF IsTable
  <2>3. T(n)[n - 1] = T(n - 1)[n - 1]
    BY <1>1, <2>1, TablesAgree
  <2> QED
    BY <2>1, <2>2, <2>3
<1> HIDE DEF f
<1>5. f = [n \in Nat |-> IF n = 0 THEN 1 ELSE n * f[n - 1]]
  <2>1. f = [n \in Nat |-> f[n]]
    BY DEF f
  <2>2. \A n \in Nat : f[n] = IF n = 0 THEN 1 ELSE n * f[n - 1]
    BY <1>3, <1>4
  <2> QED
    BY <2>1, <2>2, Zenon
<1>6. factorial = [n \in Nat |-> IF n = 0 THEN 1 ELSE n * factorial[n - 1]]
  BY <1>5, Zenon DEF factorial
<1> DEFINE S == {n \in Nat : factorial[n] # f[n]}
<1>7. S = {}
  <2>1. SUFFICES ASSUME S # {} PROVE FALSE
    BY <2>1
  <2>2. S \in SUBSET Nat
    OBVIOUS
  <2> DEFINE k == Min(S)
  <2>3. k \in S /\ \A j \in S : k <= j
    BY <2>1, <2>2, LeastOfNat
  <2> HIDE DEF k
  <2>4. k \in Nat /\ factorial[k] # f[k]
    BY <2>3
  <2>5. k # 0
    BY <1>3, <1>6, <2>4
  <2>6. k - 1 \in Nat /\ k - 1 \notin S
    BY <2>3, <2>4, <2>5
  <2>7. factorial[k - 1] = f[k - 1]
    BY <2>6
  <2> QED
    BY <1>4, <1>6, <2>4, <2>5, <2>7
<1>8. \A n \in Nat : factorial[n] = f[n]
  BY <1>7
<1>9. factorial \in [Nat -> Nat \ {0}]
  <2>1. factorial = [n \in Nat |-> factorial[n]]
    BY <1>6
  <2> QED
    BY <1>2, <1>8, <2>1
<1> QED
  BY <1>3, <1>4, <1>8, <1>9
-----------------------------------------------------------------------------
\* Functions on the first m numbers, with values up to n, that do not decrease.

Increasing(m, n) ==
    {p \in [0..(m - 1) -> 0..n] : \A i, j \in 0..(m - 1) : i <= j => p[i] <= p[j]}

LEMMA NothingIncreases ==
    ASSUME NEW m \in Nat, NEW n \in Nat, m = 0 \/ n = 0
    PROVE  IsFiniteSet(Increasing(m, n)) /\ Cardinality(Increasing(m, n)) = 1
<1> DEFINE zero == [i \in 0..(m - 1) |-> 0]
<1>1. zero \in Increasing(m, n)
  BY DEF Increasing
<1>2. \A p \in Increasing(m, n) : p = zero
  <2>1. CASE m = 0
    <3>1. 0..(m - 1) = {}
      BY <2>1
    <3> QED
      BY <3>1 DEF Increasing
  <2>2. CASE n = 0
    BY <2>2 DEF Increasing
  <2> QED
    BY <2>1, <2>2
<1>3. Increasing(m, n) = {zero}
  BY <1>1, <1>2
<1> QED
  BY <1>3, FS_Singleton

\* Such a function stays below n, or reaches it at the last number.
LEMMA IncreasingSplit ==
    ASSUME NEW m \in Nat \ {0}, NEW n \in Nat \ {0},
           IsFiniteSet(Increasing(m, n - 1)), IsFiniteSet(Increasing(m - 1, n))
    PROVE  /\ IsFiniteSet(Increasing(m, n))
           /\ Cardinality(Increasing(m, n)) =
                  Cardinality(Increasing(m, n - 1)) + Cardinality(Increasing(m - 1, n))
<1> DEFINE A == Increasing(m, n - 1)
           B == Increasing(m - 1, n)
           Full == {p \in Increasing(m, n) : p[m - 1] = n}
           Extended(p) == [i \in 0..(m - 1) |-> IF i = m - 1 THEN n ELSE p[i]]
           g == [p \in B |-> Extended(p)]
<1>1. Increasing(m, n) = A \cup Full
  <2>1. ASSUME NEW p \in Increasing(m, n), p[m - 1] # n PROVE p \in A
    <3>1. \A i \in 0..(m - 1) : p[i] \in 0..n /\ p[i] <= p[m - 1]
      BY DEF Increasing
    <3>2. \A i \in 0..(m - 1) : p[i] \in 0..(n - 1)
      BY <2>1, <3>1
    <3> QED
      BY <3>2 DEF Increasing
  <2>2. A \subseteq Increasing(m, n)
    BY DEF Increasing
  <2> QED
    BY <2>1, <2>2
<1>2. A \cap Full = {}
  <2>1. \A p \in A : p[m - 1] \in 0..(n - 1)
    BY DEF Increasing
  <2> QED
    BY <2>1
<1>3. \A p \in B : Extended(p) \in Full
  <2> SUFFICES ASSUME NEW p \in B PROVE Extended(p) \in Full
    OBVIOUS
  <2>1. \A i \in 0..(m - 1) : i # m - 1 => i \in 0..(m - 1 - 1)
    OBVIOUS
  <2>2. \A i \in 0..(m - 1) : i # m - 1 => p[i] \in 0..n
    BY <2>1 DEF Increasing
  <2>3. Extended(p) \in [0..(m - 1) -> 0..n] /\ Extended(p)[m - 1] = n
    BY <2>2
  <2>4. \A i, j \in 0..(m - 1) : i <= j => Extended(p)[i] <= Extended(p)[j]
    <3> SUFFICES ASSUME NEW i \in 0..(m - 1), NEW j \in 0..(m - 1), i <= j
                 PROVE  Extended(p)[i] <= Extended(p)[j]
      OBVIOUS
    <3>1. CASE j = m - 1
      BY <2>3, <3>1
    <3>2. CASE j # m - 1
      <4>1. i # m - 1
        BY <3>2
      <4>2. p[i] <= p[j]
        BY <2>1, <3>2, <4>1 DEF Increasing
      <4> QED
        BY <3>2, <4>1, <4>2
    <3> QED
      BY <3>1, <3>2
  <2> HIDE DEF Extended
  <2> QED
    BY <2>3, <2>4 DEF Increasing
<1>4. g \in Bijection(B, Full)
  <2>1. g \in [B -> Full]
    BY <1>3
  <2>2. \A p, q \in B : g[p] = g[q] => p = q
    <3> SUFFICES ASSUME NEW p \in B, NEW q \in B, Extended(p) = Extended(q) PROVE p = q
      OBVIOUS
    <3>1. \A i \in 0..(m - 1 - 1) : i \in 0..(m - 1) /\ i # m - 1
      OBVIOUS
    <3>2. \A i \in 0..(m - 1 - 1) : Extended(p)[i] = p[i] /\ Extended(q)[i] = q[i]
      BY <3>1
    <3>3. \A i \in 0..(m - 1 - 1) : p[i] = q[i]
      BY <3>2
    <3> QED
      BY <3>3 DEF Increasing
  <2>3. \A q \in Full : \E p \in B : g[p] = q
    <3> SUFFICES ASSUME NEW q \in Full PROVE \E p \in B : g[p] = q
      OBVIOUS
    <3> DEFINE p == [i \in 0..(m - 1 - 1) |-> q[i]]
    <3>1. q \in [0..(m - 1) -> 0..n] /\ q[m - 1] = n
      BY DEF Increasing
    <3>2. p \in B
      BY DEF Increasing
    <3>3. \A i \in 0..(m - 1) : i # m - 1 => i \in 0..(m - 1 - 1)
      OBVIOUS
    <3>4. \A i \in 0..(m - 1) : Extended(p)[i] = q[i]
      BY <3>1, <3>3
    <3>5. Extended(p) = q
      BY <3>1, <3>4
    <3> QED
      BY <3>2, <3>5
  <2> HIDE DEF g, B, Full
  <2> QED
    BY <2>1, <2>2, <2>3 DEF Bijection, Injection, Surjection, IsInjective
<1>5. IsFiniteSet(Full) /\ Cardinality(Full) = Cardinality(B)
  BY <1>4, FS_Bijection DEF ExistsBijection
<1> HIDE DEF A, B, Full
<1>6. IsFiniteSet(A) /\ IsFiniteSet(B)
  BY DEF A, B
<1>7. /\ IsFiniteSet(A \cup Full)
      /\ Cardinality(A \cup Full) = Cardinality(A) + Cardinality(Full) - Cardinality(A \cap Full)
  BY <1>5, <1>6, FS_Union
<1>8. Cardinality(A \cap Full) = 0 /\ Cardinality(A) \in Nat /\ Cardinality(Full) \in Nat
  BY <1>2, <1>5, <1>6, FS_EmptySet, FS_CardinalityType
<1> QED
  BY <1>1, <1>5, <1>7, <1>8 DEF A, B

LEMMA PascalArithmetic ==
    ASSUME NEW a \in Nat, NEW b \in Nat, NEW x \in Nat, NEW y \in Nat, NEW s \in Nat,
           NEW m \in Nat, NEW n \in Nat,
           s = a * ((m * x) * y), s = b * (x * (n * y))
    PROVE  (m + n) * s = (a + b) * ((m * x) * (n * y))
<1>1. n * s = a * ((m * x) * (n * y))
  OBVIOUS
<1>2. m * s = b * ((m * x) * (n * y))
  OBVIOUS
<1> QED
  BY <1>1, <1>2

\* There are (m + n)! / (m! n!) of them.
LEMMA IncreasingCount ==
    ASSUME NEW m \in Nat, NEW n \in Nat
    PROVE  /\ IsFiniteSet(Increasing(m, n))
           /\ factorial[m + n] = Cardinality(Increasing(m, n)) * (factorial[m] * factorial[n])
<1> DEFINE Claim(i, j) ==
               /\ IsFiniteSet(Increasing(i, j))
               /\ factorial[i + j] = Cardinality(Increasing(i, j)) * (factorial[i] * factorial[j])
           S == {s \in Nat : \E i, j \in Nat : s = i + j /\ ~Claim(i, j)}
<1>0. \A i, j \in Nat : i + j \notin S => Claim(i, j)
  <2> HIDE DEF Claim
  <2> SUFFICES ASSUME NEW i \in Nat, NEW j \in Nat, i + j \notin S PROVE Claim(i, j)
    OBVIOUS
  <2>1. i + j \in Nat
    OBVIOUS
  <2> QED
    BY <2>1, Zenon
<1>1. SUFFICES ASSUME S # {} PROVE FALSE
  BY <1>0, <1>1
<1>2. S \in SUBSET Nat
  OBVIOUS
<1>3. Min(S) \in S /\ \A s \in S : Min(S) <= s
  BY <1>1, <1>2, LeastOfNat
<1>4. PICK i \in Nat, j \in Nat : Min(S) = i + j /\ ~Claim(i, j)
  BY <1>3
<1>5. \A k, l \in Nat : k + l < i + j => Claim(k, l)
  <2> SUFFICES ASSUME NEW k \in Nat, NEW l \in Nat, k + l < i + j PROVE Claim(k, l)
    OBVIOUS
  <2> HIDE DEF S, Claim
  <2>1. k + l \in Nat /\ k + l \notin S
    BY <1>3, <1>4
  <2> QED
    BY <1>0, <2>1
<1>6. factorial[i] \in Nat /\ factorial[j] \in Nat
  BY FactorialIs
<1>7. i # 0 /\ j # 0
  <2> SUFFICES ASSUME i = 0 \/ j = 0 PROVE FALSE
    OBVIOUS
  <2>1. IsFiniteSet(Increasing(i, j)) /\ Cardinality(Increasing(i, j)) = 1
    BY NothingIncreases
  <2>2. factorial[i + j] = 1 * (factorial[i] * factorial[j])
    BY <1>6, FactorialIs
  <2> QED
    BY <1>4, <2>1, <2>2
<1>8. /\ i - 1 \in Nat /\ j - 1 \in Nat
      /\ i \in Nat \ {0} /\ j \in Nat \ {0} /\ i + j \in Nat \ {0}
      /\ (i - 1) + j = i + j - 1 /\ i + (j - 1) = i + j - 1 /\ i + j - 1 \in Nat
      /\ i + j - 1 < i + j
  BY <1>7
<1>9. Claim(i, j - 1) /\ Claim(i - 1, j)
  BY <1>5, <1>8
<1> HIDE DEF S
<1>10. /\ IsFiniteSet(Increasing(i, j))
       /\ Cardinality(Increasing(i, j)) =
              Cardinality(Increasing(i, j - 1)) + Cardinality(Increasing(i - 1, j))
  BY <1>8, <1>9, IncreasingSplit
<1> DEFINE a == Cardinality(Increasing(i, j - 1))
           b == Cardinality(Increasing(i - 1, j))
           s == factorial[i + j - 1]
           x == factorial[i - 1]
           y == factorial[j - 1]
<1>11. a \in Nat /\ b \in Nat /\ s \in Nat /\ x \in Nat /\ y \in Nat
  BY <1>8, <1>9, FactorialIs, FS_CardinalityType
<1>12. /\ factorial[i] = i * x /\ factorial[j] = j * y /\ factorial[i + j] = (i + j) * s
  BY <1>8, FactorialIs
<1>13. s = a * ((i * x) * y) /\ s = b * (x * (j * y))
  BY <1>8, <1>9, <1>12
<1>14. Cardinality(Increasing(i, j)) = a + b
  BY <1>10
<1> HIDE DEF a, b, s, x, y
<1>15. (i + j) * s = (a + b) * ((i * x) * (j * y))
  BY <1>11, <1>13, PascalArithmetic
<1> QED
  BY <1>4, <1>10, <1>12, <1>14, <1>15

LEMMA DivExact ==
    ASSUME NEW a \in Nat, NEW d \in Nat \ {0}
    PROVE  (a * d) \div d = a
<1>1. (d * a + 0) \div d = a
  BY DivModOf
<1>2. a * d = d * a + 0
  OBVIOUS
<1> QED
  BY <1>1, <1>2

LEMMA ChooseCountsIncreasing ==
    ASSUME NEW m \in Nat, NEW n \in Nat
    PROVE  choose(m + n, n) = Cardinality(Increasing(m, n))
<1> DEFINE c == Cardinality(Increasing(m, n))
           d == factorial[n] * factorial[m]
<1>1. factorial[n] \in Nat \ {0} /\ factorial[m] \in Nat \ {0}
  BY FactorialIs
<1>2. d \in Nat \ {0}
  BY <1>1
<1>3. c \in Nat
  BY IncreasingCount, FS_CardinalityType
<1>4. factorial[m + n] = c * d
  <2>1. factorial[m + n] = c * (factorial[m] * factorial[n])
    BY IncreasingCount
  <2>2. factorial[m] * factorial[n] = d
    BY <1>1
  <2> HIDE DEF c, d
  <2> QED
    BY <2>1, <2>2
<1>5. (m + n) - n = m
  OBVIOUS
<1>6. choose(m + n, n) = factorial[m + n] \div d
  BY <1>5 DEF choose
<1> HIDE DEF c, d
<1>7. (c * d) \div d = c
  BY <1>2, <1>3, DivExact
<1> QED
  BY <1>4, <1>6, <1>7 DEF c

-----------------------------------------------------------------------------
\* Wrong passwords before a lock.

(* Requests that could still write a counter of at most k + 1 for e: those *)
(* that read at most k, and all of them while that can be read.            *)
Counter(e) == IF row[e] = NoRow THEN 0 ELSE row[e].failed

Comparing(c, e) == call[c].stage = "compare" /\ call[c].email = e

Low(e, k) == {c \in Calls : Counter(e) <= k \/ (Comparing(c, e) /\ call[c].seen.failed <= k)}

Unlocked == FailureLimit - 1

Profile(e) == [k \in 0..(Unlocked - 1) |-> Cardinality(Low(e, k))]

Profiles == Increasing(Unlocked, Cardinality(Calls))

(* The order in which profiles can follow one another while no password is *)
(* right and no lock is set: down, where it first differs.                 *)
Below(p, q) ==
    \E k \in 0..(Unlocked - 1) :
        p[k] < q[k] /\ \A j \in 0..(Unlocked - 1) : j < k => p[j] <= q[j]

Passed(e) == {q \in Profiles : Below(Profile(e), q)}

(* Each wrong password has left a profile behind that does not come back.  *)
GuessInv == \A e \in Emails : guesses[e] \in Nat /\ guesses[e] <= Cardinality(Passed(e))

LEMMA UnlockedIsNat == Unlocked \in Nat /\ Cardinality(Calls) \in Nat
BY AccountsAssumption, FS_CardinalityType DEF Unlocked

LEMMA ProfilesFinite ==
    /\ IsFiniteSet(Profiles)
    /\ \A S \in SUBSET Profiles : IsFiniteSet(S) /\ Cardinality(S) \in Nat
<1>1. IsFiniteSet(Profiles)
  BY UnlockedIsNat, IncreasingCount DEF Profiles
<1> QED
  BY <1>1, FS_Subset, FS_CardinalityType

LEMMA ProfileIsProfile == AInv => \A e \in Emails : Profile(e) \in Profiles
<1> SUFFICES ASSUME AInv, NEW e \in Emails PROVE Profile(e) \in Profiles
  OBVIOUS
<1>1. ASSUME NEW k \in Int
      PROVE  IsFiniteSet(Low(e, k)) /\ Cardinality(Low(e, k)) \in 0..Cardinality(Calls)
  <2>1. Low(e, k) \in SUBSET Calls
    BY DEF Low
  <2>2. IsFiniteSet(Low(e, k)) /\ Cardinality(Low(e, k)) <= Cardinality(Calls)
    BY <2>1, AccountsAssumption, FS_Subset
  <2>3. Cardinality(Low(e, k)) \in Nat
    BY <2>2, FS_CardinalityType
  <2> QED
    BY <2>2, <2>3, UnlockedIsNat
<1>2. \A c \in Calls : Comparing(c, e) => call[c].seen.failed \in Nat
  BY AccountsAssumption DEF AInv, HandlerKnows, Columns, Comparing
<1>3. Counter(e) \in Nat
  BY AccountsAssumption DEF AInv, RowsOK, Columns, Counter
<1>4. ASSUME NEW i \in 0..(Unlocked - 1), NEW j \in 0..(Unlocked - 1), i <= j
      PROVE  Cardinality(Low(e, i)) <= Cardinality(Low(e, j))
  <2>1. i \in Int /\ j \in Int
    BY UnlockedIsNat
  <2>2. Low(e, i) \subseteq Low(e, j)
    BY <1>2, <1>3, <1>4, <2>1 DEF Low
  <2> QED
    BY <1>1, <2>1, <2>2, FS_Subset
<1>5. Profile(e) \in [0..(Unlocked - 1) -> 0..Cardinality(Calls)]
  BY <1>1, UnlockedIsNat DEF Profile
<1>6. \A i, j \in 0..(Unlocked - 1) : i <= j => Profile(e)[i] <= Profile(e)[j]
  BY <1>4 DEF Profile
<1> QED
  BY <1>5, <1>6 DEF Profiles, Increasing

\* Going down or staying keeps what was passed.
LEMMA BelowStays ==
    ASSUME NEW p \in Profiles, NEW q \in Profiles, NEW r \in Profiles,
           Below(p, q) \/ (\A k \in 0..(Unlocked - 1) : p[k] <= q[k]), Below(q, r)
    PROVE  Below(p, r)
<1> DEFINE D == 0..(Unlocked - 1)
<1>1. \A k \in D : k \in Nat /\ p[k] \in Nat /\ q[k] \in Nat /\ r[k] \in Nat
  BY UnlockedIsNat DEF Profiles, Increasing
<1>2. PICK k \in D : q[k] < r[k] /\ \A j \in D : j < k => q[j] <= r[j]
  BY DEF Below
<1>3. CASE \A j \in D : p[j] <= q[j]
  <2>1. p[k] < r[k] /\ \A j \in D : j < k => p[j] <= r[j]
    <3> HIDE DEF D
    <3> QED
      BY <1>1, <1>2, <1>3
  <2> QED
    BY <2>1 DEF Below
<1>4. CASE Below(p, q)
  <2>1. PICK i \in D : p[i] < q[i] /\ \A j \in D : j < i => p[j] <= q[j]
    BY <1>4 DEF Below
  <2>2. CASE i <= k
    <3>1. p[i] < r[i] /\ \A j \in D : j < i => p[j] <= r[j]
      <4> HIDE DEF D
      <4> QED
        BY <1>1, <1>2, <2>1, <2>2
    <3> QED
      BY <3>1 DEF Below
  <2>3. CASE k < i
    <3>1. p[k] < r[k] /\ \A j \in D : j < k => p[j] <= r[j]
      <4> HIDE DEF D
      <4> QED
        BY <1>1, <1>2, <2>1, <2>3
    <3> QED
      BY <3>1 DEF Below
  <2>4. i <= k \/ k < i
    BY <1>1
  <2> QED
    BY <2>2, <2>3, <2>4
<1> QED
  BY <1>3, <1>4

LEMMA BelowIsStrict == ASSUME NEW p \in Profiles PROVE ~Below(p, p)
<1>1. \A k \in 0..(Unlocked - 1) : p[k] \in Nat
  BY UnlockedIsNat DEF Profiles, Increasing
<1> QED
  BY <1>1 DEF Below

LEMMA ProfileNext == AInv' => \A e \in Emails : Profile(e)' \in Profiles
<1>1. (AInv => \A e \in Emails : Profile(e) \in Profiles)'
  BY ProfileIsProfile, PTL
<1>2. Profiles' = Profiles
  BY DEF Profiles, Increasing, Unlocked
<1> QED
  BY <1>1, <1>2

\* The profiles on both sides of a step.
LEMMA ProfilesOfStep ==
    ASSUME AInv, AInv', NEW e \in Emails
    PROVE  /\ Profile(e) \in Profiles /\ Profile(e)' \in Profiles
           /\ Passed(e)' = {q \in Profiles : Below(Profile(e)', q)}
           /\ \A k \in 0..(Unlocked - 1) :
               /\ Profile(e)[k] = Cardinality(Low(e, k)) /\ Profile(e)'[k] = Cardinality(Low(e, k)')
               /\ Low(e, k)' \subseteq Low(e, k) => Profile(e)'[k] <= Profile(e)[k]
               /\ Low(e, k)' \subseteq Low(e, k) /\ Low(e, k)' # Low(e, k) => Profile(e)'[k] < Profile(e)[k]
<1>2. Profile(e) \in Profiles /\ Profile(e)' \in Profiles
  BY ProfileIsProfile, ProfileNext
<1>3. Passed(e)' = {q \in Profiles : Below(Profile(e)', q)}
  BY DEF Passed
<1>4. \A k \in 0..(Unlocked - 1) : Profile(e)[k] = Cardinality(Low(e, k))
  BY DEF Profile
<1>5. \A k \in 0..(Unlocked - 1) : Profile(e)'[k] = Cardinality(Low(e, k)')
  BY DEF Profile
<1>6. ASSUME NEW k \in 0..(Unlocked - 1), Low(e, k)' \subseteq Low(e, k)
      PROVE  /\ Cardinality(Low(e, k)') <= Cardinality(Low(e, k))
             /\ Low(e, k)' # Low(e, k) => Cardinality(Low(e, k)') < Cardinality(Low(e, k))
  <2>1. Low(e, k) \in SUBSET Calls
    BY DEF Low
  <2>2. IsFiniteSet(Low(e, k))
    BY <2>1, AccountsAssumption, FS_Subset
  <2>3. /\ IsFiniteSet(Low(e, k)') /\ Cardinality(Low(e, k)') <= Cardinality(Low(e, k))
        /\ Cardinality(Low(e, k)) = Cardinality(Low(e, k)') => Low(e, k)' = Low(e, k)
    BY <1>6, <2>2, FS_Subset
  <2>4. Cardinality(Low(e, k)) \in Nat /\ Cardinality(Low(e, k)') \in Nat
    BY <2>2, <2>3, FS_CardinalityType
  <2> QED
    BY <2>3, <2>4
<1> QED
  BY <1>2, <1>3, <1>4, <1>5, <1>6

\* A step that counts no wrong password for e brings no profile back.
LEMMA NoGuess ==
    ASSUME AInv, AInv', GuessInv, NEW e \in Emails,
           \A k \in 0..(Unlocked - 1) : Low(e, k)' \subseteq Low(e, k),
           guesses'[e] = guesses[e]
    PROVE  guesses'[e] \in Nat /\ guesses'[e] <= Cardinality(Passed(e)')
<1>1. /\ Profile(e) \in Profiles /\ Profile(e)' \in Profiles
      /\ \A k \in 0..(Unlocked - 1) : Profile(e)'[k] <= Profile(e)[k]
  BY ProfilesOfStep
<1>2. \A q \in Profiles : Below(Profile(e), q) => Below(Profile(e)', q)
  BY <1>1, BelowStays
<1>3. Passed(e) \subseteq Passed(e)' /\ Passed(e)' \in SUBSET Profiles /\ Passed(e) \in SUBSET Profiles
  BY <1>2, ProfilesOfStep DEF Passed
<1>4. IsFiniteSet(Passed(e)') /\ Cardinality(Passed(e)') \in Nat /\ Cardinality(Passed(e)) \in Nat
  BY <1>3, ProfilesFinite
<1>5. Cardinality(Passed(e)) <= Cardinality(Passed(e)')
  BY <1>3, <1>4, FS_Subset
<1> QED
  BY <1>4, <1>5 DEF GuessInv

\* One that counts a wrong password passes the profile it finds.
LEMMA Guess ==
    ASSUME AInv, AInv', GuessInv, NEW e \in Emails, NEW v \in 0..(Unlocked - 1),
           \A k \in 0..(Unlocked - 1) : k <= v => Low(e, k)' \subseteq Low(e, k),
           Low(e, v)' # Low(e, v),
           guesses'[e] = guesses[e] + 1
    PROVE  guesses'[e] \in Nat /\ guesses'[e] <= Cardinality(Passed(e)')
<1>1. Profile(e) \in Profiles /\ Profile(e)' \in Profiles
  BY ProfilesOfStep
<1>2. v <= v /\ \A j \in 0..(Unlocked - 1) : j < v => j <= v
  BY UnlockedIsNat
<1>3. Below(Profile(e)', Profile(e))
  <2>1. Profile(e)'[v] < Profile(e)[v]
    BY <1>2, ProfilesOfStep
  <2>2. \A j \in 0..(Unlocked - 1) : j < v => Profile(e)'[j] <= Profile(e)[j]
    BY <1>2, ProfilesOfStep
  <2> QED
    BY <2>1, <2>2 DEF Below
<1>4. \A q \in Profiles : Below(Profile(e), q) => Below(Profile(e)', q)
  BY <1>1, <1>3, BelowStays
<1>5. /\ Passed(e) \cup {Profile(e)} \subseteq Passed(e)'
      /\ Passed(e)' \in SUBSET Profiles /\ Passed(e) \in SUBSET Profiles
  BY <1>1, <1>3, <1>4, ProfilesOfStep DEF Passed
<1>6. Profile(e) \notin Passed(e)
  BY <1>1, BelowIsStrict DEF Passed
<1>7. /\ IsFiniteSet(Passed(e)') /\ Cardinality(Passed(e)') \in Nat
      /\ IsFiniteSet(Passed(e)) /\ Cardinality(Passed(e)) \in Nat
  BY <1>5, ProfilesFinite
<1>8. Cardinality(Passed(e) \cup {Profile(e)}) = Cardinality(Passed(e)) + 1
  BY <1>6, <1>7, FS_AddElement
<1>9. Cardinality(Passed(e) \cup {Profile(e)}) <= Cardinality(Passed(e)')
  BY <1>5, <1>7, FS_Subset
<1> QED
  BY <1>7, <1>8, <1>9 DEF GuessInv

\* And when the count starts again there is nothing to show.
LEMMA NoneGuessed ==
    ASSUME AInv, AInv', NEW e \in Emails, guesses'[e] = 0
    PROVE  guesses'[e] \in Nat /\ guesses'[e] <= Cardinality(Passed(e)')
<1>1. Passed(e)' \in SUBSET Profiles
  BY ProfilesOfStep
<1> QED
  BY <1>1, ProfilesFinite

\* A handler may start or end without a write, and others keep what they read.
LEMMA LowStays ==
    ASSUME NEW e \in Emails, Counter(e)' = Counter(e),
           \A c \in Calls : call'[c] = call[c]
                            \/ ~Comparing(c, e)'
                            \/ (Comparing(c, e)' /\ call'[c].seen.failed = Counter(e)),
           NEW k
    PROVE  Low(e, k)' \subseteq Low(e, k)
BY DEF Low, Comparing

LEMMA RecordFailureKeepsGuessInv ==
    ASSUME AInv, AInv', GuessInv, guesses \in [Emails -> Nat], NEW c \in Calls, RecordFailure(c), NEW d \in Emails
    PROVE  guesses'[d] \in Nat /\ guesses'[d] <= Cardinality(Passed(d)')
<1> DEFINE e == call[c].email
<1>0. PICK v : v = call[c].seen.failed
  OBVIOUS
<1>1. e \in Emails /\ v \in 0..MaxFailures /\ v + 1 \in 0..MaxFailures /\ row[e] # NoRow /\ row[e] \in Columns /\ Comparing(c, e)
  <2>1. call[c].stage = "compare" /\ HandlerKnows(call[c])
    BY DEF RecordFailure, AInv
  <2>2. e \in Emails /\ v \in 0..MaxFailures /\ v + 1 \in 0..MaxFailures /\ row[e] # NoRow
    BY <1>0, <2>1, AccountsAssumption DEF HandlerKnows, Columns
  <2> QED
    BY <2>1, <2>2 DEF AInv, RowsOK, Comparing
<1>2. call' = [call EXCEPT ![c] = Idle] /\ DOMAIN call = Calls
  BY DEF RecordFailure, AInv
<1>3. \A b \in Calls : IF b = c THEN call'[b].stage = "idle" ELSE call'[b] = call[b]
  BY <1>2 DEF Idle
<1>4. row'[e] # NoRow /\ row'[e].failed = v + 1 /\ \A b \in Emails : b # e => row'[b] = row[b]
  <2> DEFINE lock == IF ShouldLock(v + 1) THEN "held" ELSE row[e].lock
             written == [[row[e] EXCEPT !.failed = v + 1] EXCEPT !.lock = lock]
  <2>1. row \in [Emails -> Columns \cup {NoRow}]
    BY DEF AInv, RowsOK
  <2>2. row' = [row EXCEPT ![e] = written]
    BY <1>0, <1>1, <2>1 DEF RecordFailure
  <2>3. written.failed = v + 1
    BY <1>1 DEF Columns
  <2>5. written \in Columns
    <3>1. lock \in {"none", "held", "over"}
      BY <1>1 DEF Columns
    <3> HIDE DEF lock
    <3> QED
      BY <1>1, <3>1, WriteCount, WriteLock
  <2> HIDE DEF written
  <2>4. row'[e] = written /\ \A b \in Emails : b # e => row'[b] = row[b]
    BY <1>1, <2>1, <2>2
  <2>6. row'[e] # NoRow
    BY <2>4, <2>5, NoRowIsNoRow
  <2> QED
    BY <2>3, <2>4, <2>6
<1>5. guesses' = [guesses EXCEPT ![e] = IF ShouldLock(v + 1) THEN 0 ELSE @ + 1]
  BY <1>0 DEF RecordFailure
<1> HIDE DEF e
<1>6. CASE d # e
  <2>1. guesses'[d] = guesses[d] /\ Counter(d)' = Counter(d)
    BY <1>4, <1>5, <1>6 DEF Counter
  <2>2. \A b \in Calls : call'[b] = call[b] \/ ~Comparing(b, d)'
    BY <1>3 DEF Comparing
  <2>3. \A k \in 0..(Unlocked - 1) : Low(d, k)' \subseteq Low(d, k)
    BY <2>1, <2>2, LowStays
  <2> QED
    BY <2>1, <2>3, NoGuess
<1>7. CASE d = e /\ ShouldLock(v + 1)
  <2>1. guesses'[d] = 0
    BY <1>1, <1>5, <1>7
  <2> QED
    BY <2>1, NoneGuessed
<1>8. CASE d = e /\ ~ShouldLock(v + 1)
  <2>1. guesses'[d] = guesses[d] + 1
    BY <1>1, <1>5, <1>8
  <2>2. v \in 0..(Unlocked - 1)
    BY <1>1, <1>8, AccountsAssumption DEF ShouldLock, Unlocked
  <2>3. Counter(d)' = v + 1
    BY <1>4, <1>8 DEF Counter
  <2>4. \A k \in 0..(Unlocked - 1) : k <= v =>
            Low(d, k)' = {b \in Calls \ {c} : Comparing(b, d) /\ call[b].seen.failed <= k}
    <3> SUFFICES ASSUME NEW k \in 0..(Unlocked - 1), k <= v
                 PROVE  Low(d, k)' = {b \in Calls \ {c} : Comparing(b, d) /\ call[b].seen.failed <= k}
      OBVIOUS
    <3>1. ~(v + 1 <= k)
      BY <2>2, <1>1, UnlockedIsNat
    <3>2. ~Comparing(c, d)'
      BY <1>3 DEF Comparing
    <3>3. \A b \in Calls \ {c} : /\ Comparing(b, d)' <=> Comparing(b, d)
                                 /\ call'[b] = call[b]
      BY <1>3 DEF Comparing
    <3> QED
      BY <2>3, <3>1, <3>2, <3>3 DEF Low
  <2>5. \A k \in 0..(Unlocked - 1) : k <= v => Low(d, k)' \subseteq Low(d, k)
    BY <2>4 DEF Low
  <2>6. c \in Low(d, v) /\ c \notin Low(d, v)'
    <3>1. v <= v
      BY <1>1
    <3>2. c \notin Low(d, v)'
      BY <2>2, <2>4, <3>1
    <3>3. c \in Low(d, v)
      BY <1>0, <1>1, <1>8, <3>1 DEF Low
    <3> QED
      BY <3>2, <3>3
  <2> QED
    BY <2>1, <2>2, <2>5, <2>6, Guess
<1> QED
  BY <1>6, <1>7, <1>8

LEMMA GrantTokenKeepsGuessInv ==
    ASSUME AInv, AInv', GuessInv, guesses \in [Emails -> Nat], NEW c \in Calls, GrantToken(c), NEW d \in Emails
    PROVE  guesses'[d] \in Nat /\ guesses'[d] <= Cardinality(Passed(d)')
<1>1. /\ call[c].email \in Emails /\ row \in [Emails -> Columns \cup {NoRow}]
      /\ guesses' = [guesses EXCEPT ![call[c].email] = 0]
  BY DEF GrantToken, AInv, HandlerKnows, RowsOK
<1>2. CASE d = call[c].email
  BY <1>1, <1>2, NoneGuessed
<1>3. CASE d # call[c].email
  <2>1. guesses'[d] = guesses[d]
    BY <1>1, <1>3
  <2>2. row'[d] = row[d]
    BY <1>1, <1>3 DEF GrantToken
  <2>3. Counter(d)' = Counter(d)
    BY <2>2 DEF Counter
  <2>4. \A b \in Calls : call'[b] = call[b] \/ ~Comparing(b, d)'
    BY DEF GrantToken, AInv, Comparing, Idle
  <2> QED
    BY <2>1, <2>3, <2>4, LowStays, NoGuess
<1> QED
  BY <1>2, <1>3

\* The other steps write no counter; a login reads the one there is.
LEMMA OthersKeepGuessInv ==
    ASSUME AInv, AInv', GuessInv, NEW d \in Emails,
           \/ \E c \in Calls, e \in Emails, n \in Names, r \in Roles : Register(c, e, n, r)
           \/ \E c \in Calls, e \in Emails, right \in BOOLEAN : Login(c, e, right)
           \/ \E c \in Calls : CreateUser(c) \/ HandlerThrows(c)
           \/ \E e \in Emails : LockExpires(e)
           \/ \E t \in tokens : TokenExpires(t)
           \/ \E t \in tokens, n \in Names : UpdateMe(t, n)
           \/ UNCHANGED accountVars
    PROVE  guesses'[d] \in Nat /\ guesses'[d] <= Cardinality(Passed(d)')
<1>1. guesses' = guesses
  BY DEF Register, Login, CreateUser, HandlerThrows, LockExpires, TokenExpires, UpdateMe, accountVars
<1>2. /\ row \in [Emails -> Columns \cup {NoRow}] /\ row' \in [Emails -> Columns \cup {NoRow}]
      /\ DOMAIN call = Calls
  BY DEF AInv, RowsOK
<1>3. Counter(d)' = Counter(d)
  <2>1. CASE \E c \in Calls : CreateUser(c)
    <3>1. PICK c \in Calls : CreateUser(c)
      BY <2>1
    <3>2. CASE row'[d] = row[d]
      BY <3>2 DEF Counter
    <3>3. CASE row'[d] # row[d]
      <4>1. row[d] = NoRow /\ row'[d] = NewRow(c)
        BY <1>2, <3>1, <3>3 DEF CreateUser
      <4> QED
        BY <4>1 DEF Counter, NewRow
    <3> QED
      BY <3>2, <3>3
  <2>2. CASE \E e \in Emails : LockExpires(e)
    <3>1. PICK e \in Emails : LockExpires(e)
      BY <2>2
    <3>2. row'[d] = IF d = e THEN [row[e] EXCEPT !.lock = "over"] ELSE row[d]
      BY <1>2, <3>1 DEF LockExpires
    <3>3. row[e] \in Columns
      BY <1>2, <3>1 DEF LockExpires
    <3>4. [row[e] EXCEPT !.lock = "over"] \in Columns /\ [row[e] EXCEPT !.lock = "over"].failed = row[e].failed
      BY <3>3 DEF Columns
    <3> QED
      BY <3>1, <3>2, <3>4, NoRowIsNoRow DEF Counter, LockExpires
  <2>3. CASE \E t \in tokens, n \in Names : UpdateMe(t, n)
    <3>1. PICK t \in tokens, n \in Names : UpdateMe(t, n)
      BY <2>3
    <3>2. row'[d] = IF d = t.email THEN [row[d] EXCEPT !.name = n] ELSE row[d]
      BY <1>2, <3>1 DEF UpdateMe
    <3>3. d = t.email => row[d] \in Columns
      BY <1>2, <3>1 DEF AInv, TokensMatchRows
    <3>4. row[d] \in Columns => [row[d] EXCEPT !.name = n] \in Columns /\ [row[d] EXCEPT !.name = n].failed = row[d].failed
      BY DEF Columns
    <3> QED
      BY <3>2, <3>3, <3>4, NoRowIsNoRow DEF Counter
  <2>4. CASE row' = row
    BY <2>4 DEF Counter
  <2> QED
    BY <2>1, <2>2, <2>3, <2>4 DEF Register, Login, HandlerThrows, TokenExpires, accountVars
<1>4. \A b \in Calls : \/ call'[b] = call[b]
                       \/ ~Comparing(b, d)'
                       \/ Comparing(b, d)' /\ call'[b].seen.failed = Counter(d)
  <2>1. CASE \E c \in Calls, e \in Emails, right \in BOOLEAN : Login(c, e, right)
    BY <1>2, <2>1 DEF Login, Comparing, Counter
  <2>2. CASE \E c \in Calls, e \in Emails, n \in Names, r \in Roles : Register(c, e, n, r)
    BY <1>2, <2>2 DEF Register, Comparing
  <2>3. CASE \E c \in Calls : CreateUser(c) \/ HandlerThrows(c)
    BY <1>2, <2>3 DEF CreateUser, HandlerThrows, Comparing, Idle
  <2>4. CASE call' = call
    BY <2>4
  <2> QED
    BY <2>1, <2>2, <2>3, <2>4 DEF LockExpires, TokenExpires, UpdateMe, accountVars
<1> QED
  BY <1>1, <1>3, <1>4, LowStays, NoGuess

LEMMA GuessStep ==
    AInv /\ AInv' /\ guesses \in [Emails -> Nat] /\ GuessInv /\ [AccountsNext]_accountVars
        => GuessInv' /\ guesses' \in [Emails -> Nat]
<1> SUFFICES ASSUME AInv, AInv', GuessInv, guesses \in [Emails -> Nat], [AccountsNext]_accountVars
             PROVE  GuessInv' /\ guesses' \in [Emails -> Nat]
  OBVIOUS
<1>1. \A d \in Emails : guesses'[d] \in Nat /\ guesses'[d] <= Cardinality(Passed(d)')
  <2> SUFFICES ASSUME NEW d \in Emails
               PROVE  guesses'[d] \in Nat /\ guesses'[d] <= Cardinality(Passed(d)')
    OBVIOUS
  <2>1. CASE \E c \in Calls : RecordFailure(c)
    BY <2>1, RecordFailureKeepsGuessInv
  <2>2. CASE \E c \in Calls : GrantToken(c)
    BY <2>2, GrantTokenKeepsGuessInv
  <2> QED
    BY <2>1, <2>2, OthersKeepGuessInv DEF AccountsNext, HandlerSteps
<1>2. DOMAIN guesses' = Emails
  BY DEF AccountsNext, HandlerSteps, Register, Login, CreateUser, HandlerThrows, RecordFailure,
         GrantToken, LockExpires, TokenExpires, UpdateMe, accountVars
<1>3. guesses' = [e \in Emails |-> guesses'[e]]
  BY <1>2 DEF AccountsNext, HandlerSteps, Register, Login, CreateUser, HandlerThrows, RecordFailure,
         GrantToken, LockExpires, TokenExpires, UpdateMe, accountVars
<1> QED
  BY <1>1, <1>3 DEF GuessInv

(* Attempts that overtake one another set the counter back; however they   *)
(* do, an account sees fewer wrong passwords before a lock than there are  *)
(* profiles (authController.login).                                        *)
THEOREM FewGuesses == AccountsSpec => []GuessesBounded
<1> DEFINE Inv == AInv /\ guesses \in [Emails -> Nat] /\ GuessInv
<1>1. AccountsInit => Inv
  <2> SUFFICES ASSUME AccountsInit PROVE Inv
    OBVIOUS
  <2>1. AInv
    BY InitAccounts
  <2>2. \A e \in Emails : Passed(e) \in SUBSET Profiles
    BY DEF Passed
  <2>3. \A e \in Emails : Cardinality(Passed(e)) \in Nat
    BY <2>2, ProfilesFinite
  <2> QED
    BY <2>1, <2>3 DEF AccountsInit, GuessInv
<1>2. Inv /\ [AccountsNext]_accountVars => Inv'
  BY AccountsStep, GuessStep
<1>3. Inv => GuessesBounded
  <2> SUFFICES ASSUME Inv, NEW e \in Emails
               PROVE  guesses[e] < choose(FailureLimit + Cardinality(Calls) - 1, Cardinality(Calls))
    BY DEF GuessesBounded
  <2>1. Profile(e) \in Profiles /\ Profile(e) \notin Passed(e)
    BY ProfileIsProfile, BelowIsStrict DEF Passed
  <2>2. /\ Passed(e) \in SUBSET Profiles /\ Cardinality(Passed(e)) \in Nat
        /\ IsFiniteSet(Profiles) /\ Cardinality(Profiles) \in Nat
    BY ProfilesFinite DEF Passed
  <2>3. Cardinality(Passed(e)) < Cardinality(Profiles)
    BY <2>1, <2>2, FS_Subset
  <2>4. FailureLimit + Cardinality(Calls) - 1 = Unlocked + Cardinality(Calls)
    BY AccountsAssumption, UnlockedIsNat DEF Unlocked
  <2>5. choose(Unlocked + Cardinality(Calls), Cardinality(Calls)) = Cardinality(Profiles)
    BY UnlockedIsNat, ChooseCountsIncreasing DEF Profiles
  <2>6. guesses[e] \in Nat /\ guesses[e] <= Cardinality(Passed(e))
    BY DEF GuessInv
  <2> QED
    BY <2>2, <2>3, <2>4, <2>5, <2>6
<1> QED
  BY <1>1, <1>2, <1>3, PTL DEF AccountsSpec
=============================================================================
