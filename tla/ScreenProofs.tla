---------------------------- MODULE ScreenProofs ----------------------------
(***************************************************************************)
(* What a screen shows and as whom it acts: the cached dashboards, the      *)
(* pages that load and reload, and the windows of one browser, for any      *)
(* departments, people, requests, answers and losses.                       *)
(***************************************************************************)
EXTENDS DashboardStats, PageFetch, Session, TLAPS

-----------------------------------------------------------------------------
\* The caches implement StatsContract.

(* Every seen value is a function on some of the fields. *)
SeenOK(seen) ==
    /\ DOMAIN seen \subseteq {"counts", "details"}
    /\ Versions(seen) \subseteq 0..MaxChanges

ReaderOK(b) ==
    /\ b = [stage |-> b.stage, key |-> b.key, seen |-> b.seen]
    /\ b.stage \in {"idle", "get", "query", "answered", "failed"}
    /\ b.key \in Keys
    /\ SeenOK(b.seen)
    /\ b.stage = "get" => Versions(b.seen) = {}

(* The campus counts the changes of all departments. *)
VersionOK ==
    /\ version \in [Scopes -> 0..MaxChanges]
    /\ \A s \in Scopes : version[s] <= version[Campus]

StatsInv ==
    /\ VersionOK
    /\ DOMAIN cache = Keys
    /\ \A k \in Keys : cache[k] # NoEntry => SeenOK(cache[k])
    /\ DOMAIN reader = Readers
    /\ \A r \in Readers : ReaderOK(reader[r])
    /\ pending \subseteq Departments
    /\ faults \in 0..MaxFaults

Answer(r) == IF reader[r].stage = "answered" THEN Versions(reader[r].seen) ELSE {}

LEMMA NothingSeen == Versions(<<>>) = {} /\ SeenOK(<<>>)
BY DEF Versions, SeenOK

LEMMA CampusIsScope == Campus \in Scopes /\ \A s \in Scopes : <<"analytics", s>> \in Keys
BY DEF Scopes, Keys

LEMMA InitStats == StatsInit => StatsInv
<1> SUFFICES ASSUME StatsInit PROVE StatsInv
  OBVIOUS
<1>1. VersionOK
  BY StatsAssumption, CampusIsScope DEF StatsInit, VersionOK
<1>2. \A r \in Readers : ReaderOK(reader[r])
  BY NothingSeen, CampusIsScope DEF StatsInit, ReaderOK, Idle
<1> QED
  BY <1>1, <1>2, StatsAssumption DEF StatsInit, StatsInv

-----------------------------------------------------------------------------
\* What circulates.

LEMMA EntryHeld ==
    ASSUME NEW k \in Keys, cache[k] # NoEntry
    PROVE  Versions(cache[k]) \subseteq Held(k)
BY DEF Held

LEMMA ComputationHeld ==
    ASSUME NEW r \in Readers, reader[r].stage = "query"
    PROVE  Versions(reader[r].seen) \subseteq Held(reader[r].key)
BY DEF Held

Allowed(k) == Held(k) \cup {version[k[2]]}

EntersCurrent == \A k \in Keys : Held(k)' \subseteq Allowed(k)

Circulates ==
    \A r \in Readers :
        \/ Answer(r)' \in {Answer(r), {}}
        \/ \E k \in Keys : Answer(r)' \subseteq Allowed(k)

Increases == \A s \in Scopes : version'[s] \in {version[s], version[s] + 1}

\* It is enough to look at each entry and each computation.
LEMMA HeldBound ==
    ASSUME NEW k \in Keys,
           cache'[k] = NoEntry \/ Versions(cache'[k]) \subseteq Allowed(k),
           \A q \in Readers : reader'[q].stage = "query" /\ reader'[q].key = k =>
                Versions(reader'[q].seen) \subseteq Allowed(k)
    PROVE  Held(k)' \subseteq Allowed(k)
BY DEF Held

\* One reader moves; entries are kept, dropped, or become what circulates.
LEMMA ReaderMoves ==
    ASSUME StatsInv, NEW r \in Readers, NEW b, ReaderOK(b),
           reader' = [reader EXCEPT ![r] = b],
           b.stage = "query" => Versions(b.seen) \subseteq Allowed(b.key),
           b.stage = "answered" => Versions(b.seen) \subseteq Allowed(b.key),
           version' = version, pending' = pending, faults' \in 0..MaxFaults,
           DOMAIN cache' = Keys,
           \A k \in Keys :
               \/ cache'[k] = cache[k]
               \/ cache'[k] = NoEntry
               \/ SeenOK(cache'[k]) /\ Versions(cache'[k]) \subseteq Allowed(k)
    PROVE  StatsInv' /\ EntersCurrent /\ Circulates /\ Increases
<1>1. \A q \in Readers : reader'[q] = IF q = r THEN b ELSE reader[q]
  BY DEF StatsInv
<1>2. DOMAIN reader' = Readers /\ \A q \in Readers : ReaderOK(reader'[q])
  BY <1>1 DEF StatsInv
<1>3. \A k \in Keys : cache'[k] # NoEntry => SeenOK(cache'[k])
  BY DEF StatsInv
<1>4. VersionOK'
  BY DEF StatsInv, VersionOK
<1>5. StatsInv'
  BY <1>2, <1>3, <1>4 DEF StatsInv
<1>6. ASSUME NEW k \in Keys PROVE Held(k)' \subseteq Allowed(k)
  <2>1. cache'[k] = NoEntry \/ Versions(cache'[k]) \subseteq Allowed(k)
    BY EntryHeld DEF Allowed
  <2>2. \A q \in Readers : reader'[q].stage = "query" /\ reader'[q].key = k =>
            Versions(reader'[q].seen) \subseteq Allowed(k)
    BY <1>1, ComputationHeld DEF Allowed
  <2> QED
    BY <2>1, <2>2, HeldBound
<1>7. Circulates
  BY <1>1 DEF Circulates, Answer, ReaderOK
<1>8. Increases
  BY DEF Increases
<1> QED
  BY <1>5, <1>6, <1>7, <1>8 DEF EntersCurrent

-----------------------------------------------------------------------------
\* The actions.

Keeps == StatsInv' /\ EntersCurrent /\ Circulates /\ Increases

LEMMA FaultOK ==
    ASSUME StatsInv, Fault
    PROVE  faults' \in 0..MaxFaults
BY StatsAssumption DEF StatsInv, Fault

\* A step of a computation, written field by field.
LEMMA EntryMoved ==
    ASSUME NEW b, b = [stage |-> b.stage, key |-> b.key, seen |-> b.seen], NEW stage
    PROVE  [b EXCEPT !.stage = stage] = [stage |-> stage, key |-> b.key, seen |-> b.seen]
<1>1. b \in [stage : {b.stage}, key : {b.key}, seen : {b.seen}]
  OBVIOUS
<1> QED
  BY <1>1

LEMMA Filled ==
    ASSUME NEW b, b = [stage |-> b.stage, key |-> b.key, seen |-> b.seen], NEW stage, NEW seen
    PROVE  [b EXCEPT !.stage = stage, !.seen = seen] = [stage |-> stage, key |-> b.key, seen |-> seen]
<1> DEFINE c == [stage |-> stage, key |-> b.key, seen |-> b.seen]
<1>1. c \in [stage : {stage}, key : {b.key}, seen : {b.seen}] /\ c.stage = stage /\ c.key = b.key
  OBVIOUS
<1>2. [b EXCEPT !.stage = stage] = c
  BY EntryMoved
<1>3. [c EXCEPT !.seen = seen] = [stage |-> c.stage, key |-> c.key, seen |-> seen]
  <2> HIDE DEF c
  <2> QED
    BY <1>1
<1> QED
  BY <1>1, <1>2, <1>3

LEMMA BeginKeeps ==
    ASSUME StatsInv, NEW r \in Readers, NEW k \in Keys, NEW stage \in {"get", "query"},
           Begin(r, k, stage)
    PROVE  Keeps
<1> DEFINE b == [stage |-> stage, key |-> k, seen |-> <<>>]
<1>1. ReaderOK(b) /\ b.seen = <<>>
  BY NothingSeen DEF ReaderOK
<1>2. reader' = [reader EXCEPT ![r] = b]
  BY DEF Begin
<1>3. b.stage # "answered" /\ Versions(b.seen) = {}
  BY NothingSeen
<1> HIDE DEF b
<1> QED
  BY <1>1, <1>2, <1>3, ReaderMoves DEF Begin, StatsInv, Keeps

LEMMA HitKeeps ==
    ASSUME StatsInv, NEW r \in Readers, Hit(r)
    PROVE  Keeps
<1> DEFINE k == reader[r].key
           b == [stage |-> "answered", key |-> k, seen |-> cache[k]]
<1>1. k \in Keys /\ cache[k] # NoEntry
  BY DEF StatsInv, ReaderOK, Hit
<1>2. ReaderOK(b)
  BY <1>1 DEF ReaderOK, StatsInv
<1>3. reader' = [reader EXCEPT ![r] = b]
  <2>1. reader' = [reader EXCEPT ![r] = [reader[r] EXCEPT !.stage = "answered", !.seen = cache[k]]]
    BY DEF Hit
  <2>2. reader[r] = [stage |-> reader[r].stage, key |-> reader[r].key, seen |-> reader[r].seen]
    BY DEF StatsInv, ReaderOK
  <2>3. [reader[r] EXCEPT !.stage = "answered", !.seen = cache[k]] = b
    BY <2>2, Filled
  <2> QED
    BY <2>1, <2>3, Zenon
<1>4. b.stage = "answered" /\ Versions(b.seen) \subseteq Allowed(b.key)
  BY <1>1, EntryHeld DEF Allowed
<1> HIDE DEF b
<1> QED
  BY <1>2, <1>3, <1>4, ReaderMoves DEF Hit, StatsInv, Keeps

LEMMA MissKeeps ==
    ASSUME StatsInv, NEW r \in Readers, Miss(r)
    PROVE  Keeps
<1> DEFINE b == [stage |-> "query", key |-> reader[r].key, seen |-> reader[r].seen]
<1>1. ReaderOK(b)
  BY DEF ReaderOK, StatsInv
<1>2. reader' = [reader EXCEPT ![r] = b]
  <2>1. reader' = [reader EXCEPT ![r] = [reader[r] EXCEPT !.stage = "query"]]
    BY DEF Miss
  <2>2. reader[r] = [stage |-> reader[r].stage, key |-> reader[r].key, seen |-> reader[r].seen]
    BY DEF StatsInv, ReaderOK
  <2> QED
    BY <2>1, <2>2, EntryMoved
<1>3. b.stage # "answered" /\ Versions(b.seen) = {}
  BY DEF Miss, StatsInv, ReaderOK
<1>4. faults' \in 0..MaxFaults
  BY FaultOK DEF Miss, StatsInv
<1> HIDE DEF b
<1> QED
  BY <1>1, <1>2, <1>3, <1>4, ReaderMoves DEF Miss, StatsInv, Keeps

LEMMA QueryKeeps ==
    ASSUME StatsInv, NEW r \in Readers, Query(r)
    PROVE  Keeps
<1> DEFINE k == reader[r].key
           old == reader[r].seen
<1>1. PICK f \in Fields(r) :
        reader' = [reader EXCEPT ![r].seen =
                    [g \in DOMAIN @ \cup {f} |-> IF g = f THEN version[k[2]] ELSE @[g]]]
  BY DEF Query
<1> DEFINE new == [g \in DOMAIN old \cup {f} |-> IF g = f THEN version[k[2]] ELSE old[g]]
           b == [stage |-> "query", key |-> k, seen |-> new]
<1>2. k \in Keys /\ version[k[2]] \in 0..MaxChanges /\ f \in {"counts", "details"}
  BY DEF StatsInv, ReaderOK, VersionOK, Keys, Fields
<1>3. Versions(new) \subseteq Versions(old) \cup {version[k[2]]}
  BY DEF Versions
<1>4. DOMAIN new = DOMAIN old \cup {f}
  OBVIOUS
<1>5. reader' = [reader EXCEPT ![r] = b]
  BY <1>1 DEF Query, StatsInv, ReaderOK
<1>6. reader[r].stage = "query" /\ SeenOK(old)
  BY DEF Query, StatsInv, ReaderOK
<1> HIDE DEF old, new
<1>7. ReaderOK(b)
  BY <1>2, <1>3, <1>4, <1>6 DEF ReaderOK, SeenOK
<1>8. Versions(b.seen) \subseteq Allowed(b.key) /\ b.stage = "query"
  BY <1>3, <1>6, ComputationHeld DEF Allowed, old
<1> HIDE DEF b
<1> QED
  BY <1>5, <1>7, <1>8, ReaderMoves DEF Query, StatsInv, Keeps

LEMMA QueryFailsKeeps ==
    ASSUME StatsInv, NEW r \in Readers, QueryFails(r)
    PROVE  Keeps
<1> DEFINE b == [stage |-> "failed", key |-> reader[r].key, seen |-> reader[r].seen]
<1>1. ReaderOK(b)
  BY DEF ReaderOK, StatsInv
<1>2. reader' = [reader EXCEPT ![r] = b]
  <2>1. reader' = [reader EXCEPT ![r] = [reader[r] EXCEPT !.stage = "failed"]]
    BY DEF QueryFails
  <2>2. reader[r] = [stage |-> reader[r].stage, key |-> reader[r].key, seen |-> reader[r].seen]
    BY DEF StatsInv, ReaderOK
  <2> QED
    BY <2>1, <2>2, EntryMoved
<1>3. b.stage = "failed"
  OBVIOUS
<1>4. faults' \in 0..MaxFaults
  BY FaultOK DEF QueryFails
<1> HIDE DEF b
<1> QED
  BY <1>1, <1>2, <1>3, <1>4, ReaderMoves DEF QueryFails, StatsInv, Keeps

LEMMA StoreKeeps ==
    ASSUME StatsInv, NEW r \in Readers, Store(r)
    PROVE  Keeps
<1> DEFINE k == reader[r].key
           seen == reader[r].seen
           b == [stage |-> "answered", key |-> k, seen |-> seen]
<1>1. k \in Keys /\ SeenOK(seen)
  BY DEF StatsInv, ReaderOK
<1>2. ReaderOK(b)
  BY <1>1 DEF ReaderOK
<1>3. reader' = [reader EXCEPT ![r] = b]
  <2>1. reader' = [reader EXCEPT ![r] = [reader[r] EXCEPT !.stage = "answered"]]
    BY DEF Store
  <2>2. reader[r] = [stage |-> reader[r].stage, key |-> reader[r].key, seen |-> reader[r].seen]
    BY DEF StatsInv, ReaderOK
  <2> QED
    BY <2>1, <2>2, EntryMoved
<1>4. Versions(seen) \subseteq Allowed(k)
  BY ComputationHeld DEF Store, Computed, Allowed
<1>5. b.stage = "answered" /\ b.seen = seen /\ b.key = k
  OBVIOUS
<1>6. faults' \in 0..MaxFaults
  BY FaultOK DEF Store, StatsInv
<1>7. cache' = cache \/ cache' = [cache EXCEPT ![k] = seen]
  BY DEF Store
<1> HIDE DEF b, k, seen
<1>8. DOMAIN cache' = Keys
  BY <1>7 DEF StatsInv
<1>9. \A j \in Keys : \/ cache'[j] = cache[j]
                      \/ SeenOK(cache'[j]) /\ Versions(cache'[j]) \subseteq Allowed(j)
  BY <1>1, <1>4, <1>7 DEF StatsInv
<1> QED
  BY <1>2, <1>3, <1>4, <1>5, <1>6, <1>8, <1>9, ReaderMoves DEF Store, Keeps

LEMMA FinishKeeps ==
    ASSUME StatsInv, NEW r \in Readers, Finish(r)
    PROVE  Keeps
<1>1. ReaderOK(Idle) /\ Idle.stage = "idle"
  BY NothingSeen, CampusIsScope DEF ReaderOK, Idle
<1> QED
  BY <1>1, ReaderMoves DEF Finish, StatsInv, Keeps

\* The other actions leave the readers alone.
LEMMA EntriesGo ==
    ASSUME StatsInv, reader' = reader, VersionOK', Increases, DOMAIN cache' = Keys,
           pending' \subseteq Departments, faults' \in 0..MaxFaults,
           \A k \in Keys : cache'[k] \in {cache[k], NoEntry}
    PROVE  Keeps
<1>1. StatsInv'
  BY DEF StatsInv
<1>2. \A k \in Keys : Held(k)' \subseteq Held(k)
  BY DEF Held
<1>3. Circulates
  BY DEF Circulates, Answer
<1> QED
  BY <1>1, <1>2, <1>3 DEF Keeps, EntersCurrent, Allowed

LEMMA SameVersion ==
    ASSUME StatsInv, version' = version
    PROVE  VersionOK' /\ Increases
BY DEF StatsInv, VersionOK, Increases

LEMMA ChangeIncidentKeeps ==
    ASSUME StatsInv, NEW d \in Departments, NEW heard \in BOOLEAN, ChangeIncident(d, heard)
    PROVE  Keeps
<1>1. /\ d \in Scopes /\ Campus \in Scopes /\ d # Campus
      /\ version[Campus] \in Nat /\ version[d] \in Nat /\ version[d] <= version[Campus]
      /\ version[Campus] < MaxChanges
  BY StatsAssumption DEF Scopes, StatsInv, VersionOK, ChangeIncident
<1>2. version' = [version EXCEPT ![d] = @ + 1, ![Campus] = @ + 1]
  BY DEF ChangeIncident
<1>3. \A s \in Scopes : version'[s] = IF s \in {d, Campus} THEN version[s] + 1 ELSE version[s]
  BY <1>1, <1>2 DEF StatsInv, VersionOK
<1>4. version' \in [Scopes -> 0..MaxChanges]
  BY <1>1, <1>2, StatsAssumption DEF StatsInv, VersionOK
<1>5. VersionOK' /\ Increases
  BY <1>1, <1>3, <1>4 DEF StatsInv, VersionOK, Increases
<1> QED
  BY <1>5, EntriesGo DEF ChangeIncident, StatsInv

LEMMA InvalidateKeeps ==
    ASSUME StatsInv, NEW d \in Departments, Invalidate(d)
    PROVE  Keeps
<1>1. faults' \in 0..MaxFaults
  BY FaultOK DEF Invalidate, StatsInv
<1>2. DOMAIN cache' = Keys /\ \A k \in Keys : cache'[k] \in {cache[k], NoEntry}
  BY DEF Invalidate, StatsInv
<1>3. pending' \subseteq Departments
  BY DEF Invalidate, StatsInv
<1> QED
  BY <1>1, <1>2, <1>3, SameVersion, EntriesGo DEF Invalidate

LEMMA ExpireKeeps ==
    ASSUME StatsInv, NEW k \in Keys, Expire(k)
    PROVE  Keeps
<1>1. DOMAIN cache' = Keys /\ \A j \in Keys : cache'[j] \in {cache[j], NoEntry}
  BY DEF Expire, StatsInv
<1> QED
  BY <1>1, SameVersion, EntriesGo DEF Expire, StatsInv

LEMMA StutterKeeps ==
    ASSUME StatsInv, UNCHANGED statsVars
    PROVE  Keeps
BY SameVersion, EntriesGo DEF statsVars, StatsInv

LEMMA StatsStep ==
    ASSUME StatsInv, [Next]_statsVars
    PROVE  Keeps
<1>1. CASE \E r \in Requests, s \in Scopes : GetDashboard(r, s)
  BY <1>1, BeginKeeps, CampusIsScope DEF GetDashboard, CacheKey, Readers
<1>2. CASE \E d \in Departments : GetDashboardStats(d)
  BY <1>2, BeginKeeps DEF GetDashboardStats, CacheKey, Readers, Keys, Scopes
<1>3. CASE \E s \in Scopes : RefreshDashboard(s)
  BY <1>3, BeginKeeps, CampusIsScope DEF RefreshDashboard, CacheKey, Readers
<1>4. CASE \E r \in Readers : Compute(r)
  BY <1>4, HitKeeps, MissKeeps, QueryKeeps, QueryFailsKeeps, StoreKeeps, FinishKeeps DEF Compute
<1> QED
  BY <1>1, <1>2, <1>3, <1>4, ChangeIncidentKeeps, InvalidateKeeps, ExpireKeeps, StutterKeeps
     DEF Next

LEMMA StatsInvariance == Spec => []StatsInv
BY InitStats, StatsStep, PTL DEF Spec, Keeps

\* Every variable keeps its shape.
THEOREM StatsTypes == Spec => []StatsTypeOK
<1>1. StatsInv => StatsTypeOK
  BY DEF StatsInv, VersionOK, ReaderOK, SeenOK, StatsTypeOK
<1> QED
  BY StatsInvariance, <1>1, PTL

\* No number that left circulation comes back, through whichever of the three caching
\* paths, in whatever order they read, store, invalidate and fail.
THEOREM OldNumbersStayAway == Spec => NothingOldReturns
<1>1. StatsInit => Contract!Init
  <2> SUFFICES ASSUME StatsInit PROVE Contract!Init
    OBVIOUS
  <2>1. \A k \in Keys : Held(k) = {}
    BY DEF StatsInit, Held, Idle
  <2>2. \A r \in Readers : reader[r].stage # "answered"
    BY DEF StatsInit, Idle
  <2> QED
    BY <2>1, <2>2 DEF StatsInit, Contract!Init
<1>2. StatsInv /\ [Next]_statsVars => [Contract!Next]_(Contract!contractVars)
  <2> SUFFICES ASSUME StatsInv, [Next]_statsVars PROVE Contract!Next
    OBVIOUS
  <2>1. EntersCurrent /\ Circulates /\ Increases
    BY StatsStep DEF Keeps
  <2>2. Contract!Grows
    BY <2>1 DEF Contract!Grows, Increases, StatsInv, VersionOK
  <2>3. Contract!OnlyCurrentEnters
    BY <2>1 DEF Contract!OnlyCurrentEnters, EntersCurrent, Allowed
  <2>4. Contract!AnswersCirculate
    BY <2>1 DEF Contract!AnswersCirculate, Circulates, Allowed, Answer
  <2> QED
    BY <2>2, <2>3, <2>4 DEF Contract!Next
<1> QED
  BY StatsInvariance, <1>1, <1>2, PTL DEF Spec, NothingOldReturns, Contract!Spec

-----------------------------------------------------------------------------
\* A page that loads and reloads.

PageType ==
    [kind : Kinds, selected : Selections,
     shown : [about : Selections, edition : Nat, any : BOOLEAN],
     due : BOOLEAN, mine : SUBSET Slots, raced : BOOLEAN, failed : BOOLEAN,
     acting : BOOLEAN, own : Nat]

RequestType ==
    [stage : {"none", "sent", "answered", "failed"}, act : BOOLEAN, about : Selections, edition : Nat]

PageTypes == page \in PageType /\ request \in [Slots -> RequestType] /\ edition \in Nat

(* A page waits for requests that are under way, and only one with a       *)
(* button for what a button asked.                                         *)
MineInv ==
    /\ page.own <= edition
    /\ \A r \in Slots : request[r].stage = "answered" => request[r].edition <= edition
    /\ \A r \in page.mine : /\ request[r].stage # "none"
                            /\ request[r].act => page.kind.acts
    /\ page.kind.guarded => \A r, q \in page.mine : r = q

(* The one load a page waits for asks what is selected now, and sees the   *)
(* user's own change; when there is none, the page shows such an answer.   *)
LoadInv ==
    /\ ~Unordered => \A r, q \in Loading : r = q
    /\ ~page.due /\ ~Unordered =>
        /\ \A r \in Loading :
            /\ request[r].about = page.selected
            /\ request[r].stage = "answered" => request[r].edition >= page.own
        /\ Loading = {} /\ ~page.failed =>
            /\ page.shown.any
            /\ page.shown.about = page.selected
            /\ page.shown.edition >= page.own

PageInv == PageTypes /\ MineInv /\ LoadInv

FormOf(kind) ==
    /\ kind \in [guarded : BOOLEAN, keeps : BOOLEAN, live : BOOLEAN, filters : BOOLEAN, acts : BOOLEAN]
    /\ ~(kind.guarded /\ kind.acts)

LEMMA KindForm ==
    ASSUME NEW guarded \in BOOLEAN, NEW keeps \in BOOLEAN, NEW live \in BOOLEAN,
           NEW filters \in BOOLEAN, NEW acts \in BOOLEAN, ~(guarded /\ acts)
    PROVE  FormOf(Kind(guarded, keeps, live, filters, acts))
BY DEF FormOf, Kind

\* No page that cancels its loads has a button that changes data.
LEMMA KindsOf == \A kind \in Kinds : FormOf(kind)
<1>1. /\ FormOf(DashboardCounts) /\ FormOf(RecentIncidents) /\ FormOf(StaffQueue)
      /\ FormOf(IncidentList) /\ FormOf(IncidentDetail) /\ FormOf(IncidentPanel)
  BY KindForm DEF DashboardCounts, RecentIncidents, StaffQueue, IncidentList, IncidentDetail,
                  IncidentPanel
<1>2. /\ FormOf(AdminAnalytics) /\ FormOf(PerformanceModal) /\ FormOf(Heatmap)
      /\ FormOf(StaffManagement) /\ FormOf(BroadcastAlerts) /\ FormOf(ReportSuggestion)
  BY KindForm DEF AdminAnalytics, PerformanceModal, Heatmap, StaffManagement, BroadcastAlerts,
                  ReportSuggestion
<1> QED
  BY <1>1, <1>2 DEF Kinds

LEMMA MountedPage ==
    ASSUME NEW kind \in Kinds
    PROVE  /\ Mounted(kind) \in PageType /\ Mounted(kind).due /\ Mounted(kind).mine = {}
           /\ Mounted(kind).own = 0
<1>1. First \in Selections
  BY PageAssumption DEF First
<1> QED
  BY <1>1 DEF Mounted, PageType, NothingShown

LEMMA NoRequestType == NoRequest \in RequestType /\ NoRequest.stage = "none"
<1>1. First \in Selections
  BY PageAssumption DEF First
<1> QED
  BY <1>1 DEF NoRequest, RequestType

\* A page that opens, or opens anew.
LEMMA StepMount ==
    ASSUME PageTypes', NEW kind \in Kinds, page' = Mounted(kind),
           \A r \in Slots : request'[r].stage = "answered" => request'[r].edition <= edition'
    PROVE  PageInv'
<1>1. page'.due /\ page'.mine = {} /\ page'.own = 0 /\ edition' \in Nat
  BY MountedPage DEF PageTypes
<1> QED
  BY <1>1 DEF PageInv, MineInv, LoadInv, Loading

LEMMA InitPageInv == PageInit => PageInv
<1> SUFFICES ASSUME PageInit PROVE PageInv
  OBVIOUS
<1>1. PICK kind \in Kinds : page = Mounted(kind)
  BY DEF PageInit
<1>2. page.due /\ page.mine = {} /\ page.own = 0 /\ page \in PageType
  BY <1>1, MountedPage
<1>3. /\ request \in [Slots -> RequestType] /\ edition = 0
      /\ \A r \in Slots : request[r].stage = "none"
  BY NoRequestType DEF PageInit
<1> QED
  BY <1>2, <1>3 DEF PageInv, PageTypes, MineInv, LoadInv, Loading

LEMMA StepNavigate ==
    ASSUME PageInv, NEW kind \in Kinds, Navigate(kind) PROVE PageInv'
<1>1. page' = Mounted(kind) /\ UNCHANGED <<edition, request>>
  BY DEF Navigate
<1>2. PageTypes'
  BY <1>1, MountedPage DEF PageInv, PageTypes
<1> QED
  BY <1>1, <1>2, StepMount DEF PageInv, MineInv

LEMMA StepSelect ==
    ASSUME PageInv, NEW s \in Selections, Select(s) PROVE PageInv'
<1>1. page' = [page EXCEPT !.selected = s, !.due = TRUE] /\ UNCHANGED <<edition, request>>
  BY DEF Select
<1>2. /\ page' \in PageType /\ page'.due /\ page'.mine = page.mine /\ page'.raced = page.raced
      /\ page'.kind = page.kind /\ page'.own = page.own
  BY <1>1 DEF PageInv, PageTypes, PageType
<1>3. Loading' = Loading /\ (Unordered' <=> Unordered)
  BY <1>1, <1>2 DEF Loading, Unordered
<1> QED
  BY <1>1, <1>2, <1>3 DEF PageInv, PageTypes, MineInv, LoadInv

LEMMA SentOne ==
    ASSUME PageInv, NEW r \in Slots, NEW act \in BOOLEAN, Sent(r, act, page.selected)
    PROVE  /\ request' \in [Slots -> RequestType] /\ request[r].stage = "none" /\ r \notin page.mine
           /\ request'[r].stage = "sent" /\ request'[r].act = act /\ request'[r].about = page.selected
           /\ \A q \in Slots \ {r} : request'[q] = request[q]
<1> DEFINE new == [stage |-> "sent", act |-> act, about |-> page.selected, edition |-> 0]
<1>1. request[r].stage = "none" /\ request' = [request EXCEPT ![r] = new]
  BY DEF Sent
<1>2. page.selected \in Selections
  BY DEF PageInv, PageTypes, PageType
<1>3. new \in RequestType /\ new.stage = "sent" /\ new.act = act /\ new.about = page.selected
  BY <1>2 DEF RequestType
<1> HIDE DEF new
<1> QED
  BY <1>1, <1>3 DEF PageInv, PageTypes, MineInv

LEMMA StepLoad ==
    ASSUME PageInv, NEW r \in Slots, Load(r) PROVE PageInv'
<1> DEFINE mine == IF page.kind.guarded THEN {r} ELSE page.mine \cup {r}
           raced == Loading # {}
<1>1. /\ page.due /\ Sent(r, FALSE, page.selected) /\ edition' = edition
      /\ page' = [page EXCEPT !.due = FALSE, !.raced = raced, !.mine = mine]
  BY DEF Load, LoadWith
<1>2. /\ request' \in [Slots -> RequestType] /\ request[r].stage = "none" /\ r \notin page.mine
      /\ request'[r].stage = "sent" /\ ~request'[r].act /\ request'[r].about = page.selected
      /\ \A q \in Slots \ {r} : request'[q] = request[q]
  BY <1>1, SentOne
<1>3. page \in PageType /\ page.mine \subseteq Slots /\ mine \in SUBSET Slots /\ raced \in BOOLEAN
  BY DEF PageInv, PageTypes, PageType
<1> HIDE DEF mine, raced
<1>4. /\ page' \in PageType
      /\ page'.mine = mine /\ page'.raced = raced /\ page'.kind = page.kind /\ page'.own = page.own
      /\ page'.selected = page.selected
  BY <1>1, <1>3 DEF PageType
<1>5. PageTypes'
  BY <1>1, <1>2, <1>4 DEF PageInv, PageTypes
<1>6. MineInv'
  BY <1>1, <1>2, <1>3, <1>4 DEF PageInv, MineInv, mine
<1>7. Loading' = IF page.kind.guarded THEN {r} ELSE Loading \cup {r}
  BY <1>2, <1>3, <1>4 DEF Loading, mine
<1>8. ~Unordered' => Loading' = {r}
  BY <1>4, <1>7 DEF Unordered, raced
<1>9. LoadInv'
  BY <1>2, <1>4, <1>8 DEF LoadInv
<1> QED
  BY <1>5, <1>6, <1>9 DEF PageInv

LEMMA StepAct ==
    ASSUME PageInv, NEW r \in Slots, Act(r) PROVE PageInv'
<1>1. /\ page.kind.acts /\ Sent(r, TRUE, page.selected) /\ edition' = edition
      /\ page' = [page EXCEPT !.acting = TRUE, !.mine = @ \cup {r}]
  BY DEF Act
<1>2. /\ request' \in [Slots -> RequestType] /\ r \notin page.mine
      /\ request'[r].stage = "sent" /\ request'[r].act
      /\ \A q \in Slots \ {r} : request'[q] = request[q]
  BY <1>1, SentOne
<1>3. page \in PageType /\ page.mine \cup {r} \in SUBSET Slots /\ page.kind \in Kinds
  BY DEF PageInv, PageTypes, PageType
<1>4. page' \in PageType /\ page'.mine = page.mine \cup {r}
      /\ page'.raced = page.raced /\ page'.kind = page.kind /\ page'.own = page.own
      /\ page'.selected = page.selected /\ page'.due = page.due /\ page'.failed = page.failed
      /\ page'.shown = page.shown
  BY <1>1, <1>3 DEF PageType
<1>5. PageTypes'
  BY <1>1, <1>2, <1>4 DEF PageInv, PageTypes
<1>6. ~page.kind.guarded
  BY <1>1, <1>3, KindsOf DEF FormOf
<1>7. MineInv'
  BY <1>1, <1>2, <1>3, <1>4, <1>6 DEF PageInv, MineInv
<1>8. Loading' = Loading /\ (Unordered' <=> Unordered) /\ r \notin Loading /\ Loading \subseteq Slots
  BY <1>2, <1>3, <1>4 DEF Loading, Unordered
<1>9. LoadInv'
  BY <1>2, <1>4, <1>8 DEF PageInv, LoadInv
<1> QED
  BY <1>5, <1>7, <1>9 DEF PageInv

\* What the server and the other users do.
LEMMA StepServer ==
    ASSUME PageInv, page' = page, request' \in [Slots -> RequestType],
           edition' \in Nat, edition' >= edition,
           \A r \in Slots : /\ request'[r].act = request[r].act
                            /\ request'[r].about = request[r].about
                            /\ request[r].stage # "none" => request'[r].stage # "none"
                            /\ \/ request'[r] = request[r]
                               \/ request'[r].stage = "answered" => request'[r].edition = edition'
    PROVE  PageInv'
<1>1. PageTypes' /\ page.mine \subseteq Slots /\ page.own \in Nat /\ edition \in Nat
  BY DEF PageInv, PageTypes, PageType
<1>2. \A r \in Slots : request[r].edition \in Nat
  BY DEF PageInv, PageTypes, RequestType
<1>3. MineInv'
  BY <1>1, <1>2 DEF PageInv, MineInv
<1>4. Loading' = Loading /\ (Unordered' <=> Unordered) /\ Loading \subseteq Slots
  BY <1>1 DEF Loading, Unordered
<1>5. page.own <= edition'
  BY <1>1 DEF PageInv, MineInv
<1>6. LoadInv'
  BY <1>1, <1>4, <1>5 DEF PageInv, LoadInv
<1> QED
  BY <1>1, <1>3, <1>6 DEF PageInv

LEMMA StepServe ==
    ASSUME PageInv, NEW r \in Slots, Serve(r) PROVE PageInv'
<1>1. /\ request[r].stage = "sent" /\ edition' = IF request[r].act THEN edition + 1 ELSE edition
      /\ request' = [request EXCEPT ![r].stage = "answered", ![r].edition = edition']
      /\ page' = page
  BY DEF Serve
<1>2. edition \in Nat /\ edition' \in Nat /\ edition' >= edition
  BY <1>1 DEF PageInv, PageTypes
<1>3. /\ request' \in [Slots -> RequestType]
      /\ \A q \in Slots \ {r} : request'[q] = request[q]
      /\ request'[r].stage = "answered" /\ request'[r].edition = edition'
      /\ request'[r].act = request[r].act /\ request'[r].about = request[r].about
  BY <1>1, <1>2 DEF PageInv, PageTypes, RequestType
<1> QED
  BY <1>1, <1>2, <1>3, StepServer

LEMMA StepRequestFails ==
    ASSUME PageInv, NEW r \in Slots, RequestFails(r) PROVE PageInv'
<1>1. /\ request' = [request EXCEPT ![r].stage = "failed"]
      /\ page' = page /\ edition' = edition /\ edition \in Nat
  BY DEF RequestFails, PageInv, PageTypes
<1>2. /\ request' \in [Slots -> RequestType]
      /\ \A q \in Slots \ {r} : request'[q] = request[q]
      /\ request'[r].stage = "failed"
      /\ request'[r].act = request[r].act /\ request'[r].about = request[r].about
  BY <1>1 DEF PageInv, PageTypes, RequestType
<1> QED
  BY <1>1, <1>2, StepServer

LEMMA StepChange ==
    ASSUME PageInv, NEW asked \in BOOLEAN, Change(asked) PROVE PageInv'
<1>1. page' = page /\ request' = request /\ edition' = edition + 1 /\ edition \in Nat
  BY DEF Change, PageInv, PageTypes
<1> QED
  BY <1>1, StepServer DEF PageInv, PageTypes

LEMMA StepHear ==
    ASSUME PageInv, Hear PROVE PageInv'
<1> DEFINE due == page.due \/ page.kind.live
<1>1. page' = [page EXCEPT !.due = due] /\ UNCHANGED <<edition, request>>
  BY DEF Hear
<1>2. page \in PageType /\ page.kind.live \in BOOLEAN /\ due \in BOOLEAN
  BY KindsOf DEF FormOf, PageInv, PageTypes, PageType
<1> HIDE DEF due
<1>3. /\ page' \in PageType /\ page'.mine = page.mine
      /\ page'.raced = page.raced /\ page'.kind = page.kind /\ page'.own = page.own
      /\ page'.selected = page.selected /\ page'.due = due /\ page'.failed = page.failed
      /\ page'.shown = page.shown
  BY <1>1, <1>2 DEF PageType
<1>4. page.due => page'.due
  BY <1>3 DEF due
<1>5. Loading' = Loading /\ (Unordered' <=> Unordered)
  BY <1>1, <1>3 DEF Loading, Unordered
<1> QED
  BY <1>1, <1>3, <1>4, <1>5 DEF PageInv, PageTypes, MineInv, LoadInv

LEMMA StepDeliver ==
    ASSUME PageInv, NEW r \in Slots, Deliver(r) PROVE PageInv'
<1>1. /\ request[r].stage \in {"answered", "failed"}
      /\ request' = [request EXCEPT ![r] = NoRequest] /\ edition' = edition
      /\ page' = IF r \notin page.mine THEN page
                 ELSE IF request[r].act THEN Acted(r) ELSE Loaded(r)
  BY DEF Deliver
<1>2. /\ request' \in [Slots -> RequestType] /\ request'[r] = NoRequest
      /\ \A q \in Slots \ {r} : request'[q] = request[q]
      /\ page \in PageType /\ page.mine \subseteq Slots /\ edition \in Nat
      /\ request[r] \in RequestType
  BY <1>1, NoRequestType DEF PageInv, PageTypes, PageType
<1>3. \A q \in Slots : request'[q].stage = "answered" => request'[q].edition <= edition'
  BY <1>1, <1>2, NoRequestType DEF PageInv, MineInv
<1>4. CASE r \notin page.mine
  <2>1. page' = page
    BY <1>1, <1>4
  <2>2. MineInv'
    BY <1>1, <1>2, <1>3, <1>4, <2>1 DEF PageInv, MineInv
  <2>3. Loading' = Loading /\ r \notin Loading /\ Loading \subseteq Slots /\ (Unordered' <=> Unordered)
    BY <1>2, <1>4, <2>1 DEF Loading, Unordered
  <2>4. LoadInv'
    BY <1>2, <2>1, <2>3 DEF PageInv, LoadInv
  <2> QED
    BY <1>1, <1>2, <2>1, <2>2, <2>4 DEF PageInv, PageTypes
<1>5. CASE r \in page.mine /\ request[r].act
  <2> DEFINE due == page.due \/ request[r].stage = "answered"
             own == IF request[r].stage = "answered" THEN request[r].edition ELSE page.own
             mine == page.mine \ {r}
  <2>1. page' = [page EXCEPT !.mine = mine, !.acting = FALSE, !.due = due, !.own = own]
    BY <1>1, <1>5 DEF Acted
  <2>2. /\ due \in BOOLEAN /\ own \in Nat /\ own <= edition /\ mine \in SUBSET Slots
        /\ due \/ own = page.own
        /\ page.due => due
    BY <1>1, <1>2 DEF PageInv, PageType, RequestType, MineInv
  <2> HIDE DEF due, own, mine
  <2>3. /\ page' \in PageType /\ page'.mine = mine
        /\ page'.raced = page.raced /\ page'.kind = page.kind /\ page'.own = own
        /\ page'.selected = page.selected /\ page'.due = due /\ page'.failed = page.failed
        /\ page'.shown = page.shown
    BY <1>2, <2>1, <2>2 DEF PageType
  <2>4. MineInv'
    BY <1>1, <1>2, <1>3, <2>2, <2>3 DEF PageInv, MineInv, mine
  <2>5. Loading' = Loading /\ r \notin Loading /\ Loading \subseteq Slots /\ (Unordered' <=> Unordered)
    BY <1>2, <1>5, <2>3 DEF Loading, Unordered, mine
  <2>6. LoadInv'
    BY <1>2, <2>2, <2>3, <2>5 DEF PageInv, LoadInv
  <2> QED
    BY <1>1, <1>2, <2>3, <2>4, <2>6 DEF PageInv, PageTypes
<1>6. CASE r \in page.mine /\ ~request[r].act
  <2> DEFINE failed == request[r].stage = "failed"
             shown == IF request[r].stage = "answered"
                      THEN [about |-> request[r].about, edition |-> request[r].edition, any |-> TRUE]
                      ELSE IF page.kind.keeps THEN page.shown ELSE NothingShown
             mine == page.mine \ {r}
  <2>1. page' = [page EXCEPT !.mine = mine, !.failed = failed, !.shown = shown]
    BY <1>1, <1>6 DEF Loaded
  <2>2. shown \in [about : Selections, edition : Nat, any : BOOLEAN]
    <3>1. First \in Selections
      BY PageAssumption DEF First
    <3> QED
      BY <1>2, <3>1 DEF PageType, RequestType, NothingShown
  <2>3. /\ failed \in BOOLEAN /\ mine \in SUBSET Slots
        /\ ~failed => request[r].stage = "answered" /\ shown.any
                      /\ shown.about = request[r].about /\ shown.edition = request[r].edition
    BY <1>1, <1>2
  <2> HIDE DEF failed, shown, mine
  <2>4. /\ page' \in PageType /\ page'.mine = mine
        /\ page'.raced = page.raced /\ page'.kind = page.kind /\ page'.own = page.own
        /\ page'.selected = page.selected /\ page'.due = page.due /\ page'.failed = failed
        /\ page'.shown = shown
    BY <1>2, <2>1, <2>2, <2>3 DEF PageType
  <2>5. MineInv'
    BY <1>1, <1>2, <1>3, <2>4 DEF PageInv, MineInv, mine
  <2>6. /\ Loading' = Loading \ {r} /\ r \in Loading /\ (Unordered' <=> Unordered)
        /\ Loading \subseteq Slots
    BY <1>2, <1>6, <2>4 DEF Loading, Unordered, mine
  <2>7. LoadInv'
    <3>1. ~Unordered => Loading' = {}
      BY <2>6 DEF PageInv, LoadInv
    <3> QED
      BY <2>3, <2>4, <2>6, <3>1 DEF PageInv, LoadInv
  <2> QED
    BY <1>1, <1>2, <2>4, <2>5, <2>7 DEF PageInv, PageTypes
<1> QED
  BY <1>4, <1>5, <1>6

LEMMA NextPageInv == PageInv /\ [PageNext]_pageVars => PageInv'
<1> SUFFICES ASSUME PageInv, [PageNext]_pageVars PROVE PageInv'
  OBVIOUS
<1>1. CASE UNCHANGED pageVars
  BY <1>1 DEF PageInv, PageTypes, MineInv, LoadInv, Loading, Unordered, pageVars
<1>2. CASE PageNext
  BY <1>2, StepNavigate, StepSelect, StepLoad, StepAct, StepServe, StepRequestFails, StepDeliver,
     StepChange, StepHear DEF PageNext
<1> QED
  BY <1>1, <1>2

(* A page that finished loading shows what was selected last, with the     *)
(* user's own change in it: IncidentListPage's cancelled flag, and the     *)
(* reload after handleAddStaff and handleSubmit.                           *)
THEOREM PagesShowWhatWasAsked == PageSpec => []ShowsWhatWasAsked
<1>1. PageInv => ShowsWhatWasAsked
  BY DEF PageInv, LoadInv, ShowsWhatWasAsked, Settled
<1> QED
  BY <1>1, InitPageInv, NextPageInv, PTL DEF PageSpec

-----------------------------------------------------------------------------
\* As whom the windows of a browser act.

Users == People \cup {Nobody}
Issued == Tokens \cup {Nobody}

Sessions == [token : Issued, user : Users]

SessionTypeOK ==
    /\ holder \in Seq(People)
    /\ storage \in Sessions
    /\ window \in [Windows -> [session : Sessions, restoring : BOOLEAN]]
    /\ sent \in [SessionCalls -> [window : Windows \cup {Nobody}, kind : {"none", "login", "load", "save"},
                                  token : Issued, shown : Users, overtaken : BOOLEAN]]
    /\ \A c \in SessionCalls :
        /\ sent[c].kind # "none" => sent[c].window \in Windows
        /\ sent[c].kind = "login" => sent[c].shown \in People
    /\ overtaken \subseteq Windows
    /\ mixed \in BOOLEAN

(* A window nobody overtook has in memory what is stored. *)
Agreement ==
    /\ storage.user = Person(storage.token)
    /\ \A w \in Windows \ overtaken : Ready(w) => window[w].session = storage
    /\ \A c \in SessionCalls :
        sent[c].kind \in {"load", "save"} /\ ~sent[c].overtaken
            => Person(sent[c].token) = sent[c].shown

SessionInv == SessionTypeOK /\ (mixed \/ Agreement)

-----------------------------------------------------------------------------

LEMMA NobodyHasNone ==
    SessionTypeOK => Nobody \notin Tokens /\ Person(Nobody) = Nobody
BY SessionAssumption DEF SessionTypeOK, Tokens, Person

LEMMA EmptySessions ==
    /\ NoSession \in Sessions /\ NoSession.token = Nobody /\ NoSession.user = Nobody
    /\ NotSent \in [window : Windows \cup {Nobody}, kind : {"none", "login", "load", "save"},
                    token : Issued, shown : Users, overtaken : BOOLEAN]
    /\ NotSent.kind = "none"
BY DEF NoSession, NotSent, Sessions, Issued, Users

LEMMA WindowsAre ==
    /\ Restoring \in [session : Sessions, restoring : BOOLEAN] /\ Restoring.restoring
    /\ \A s \in Sessions :
        /\ SignedIn(s) \in [session : Sessions, restoring : BOOLEAN]
        /\ SignedIn(s).session = s /\ ~SignedIn(s).restoring
BY EmptySessions DEF Restoring, SignedIn

\* Tokens are only added: what a token stands for stays.
LEMMA NewToken ==
    ASSUME SessionTypeOK, NEW p \in People, holder' = Append(holder, p)
    PROVE  /\ holder' \in Seq(People)
           /\ Tokens \subseteq Tokens' /\ Issued \subseteq Issued'
           /\ \A token \in Issued : Person(token)' = Person(token)
           /\ Len(holder) + 1 \in Issued'
           /\ \A token : token = Len(holder) + 1 => Person(token)' = p
<1>1. /\ holder \in Seq(People) /\ Len(holder) \in Nat
      /\ DOMAIN holder = 1..Len(holder)
  BY DEF SessionTypeOK
<1>2. /\ holder' \in Seq(People) /\ DOMAIN holder' = 1..(Len(holder) + 1)
      /\ holder'[Len(holder) + 1] = p
      /\ \A n \in 1..Len(holder) : holder'[n] = holder[n]
  BY <1>1
<1>3. Nobody \notin Tokens /\ Nobody \notin DOMAIN holder'
  BY <1>2, NobodyHasNone, SessionAssumption
<1>4. Tokens = 1..Len(holder) /\ Tokens' = 1..(Len(holder) + 1)
  BY <1>1, <1>2 DEF Tokens
<1>5. Tokens \subseteq Tokens' /\ Issued \subseteq Issued'
  BY <1>1, <1>4 DEF Issued
<1>6. ASSUME NEW token \in Issued PROVE Person(token)' = Person(token)
  <2>1. CASE token \in Tokens
    BY <1>2, <1>4, <1>5, <2>1 DEF Person
  <2>2. CASE token = Nobody
    BY <1>3, <2>2 DEF Person, Tokens
  <2> QED
    BY <2>1, <2>2 DEF Issued
<1>7. Len(holder) + 1 \in Tokens'
  BY <1>1, <1>4
<1>8. /\ Len(holder) + 1 \in Issued'
      /\ \A token : token = Len(holder) + 1 => Person(token)' = p
  BY <1>2, <1>7 DEF Person, Issued
<1> QED
  BY <1>2, <1>5, <1>6, <1>8

-----------------------------------------------------------------------------
\* The steps.

LEMMA InitSessionInv == SessionInit => SessionInv
<1> SUFFICES ASSUME SessionInit PROVE SessionInv
  OBVIOUS
<1>1. holder \in Seq(People) /\ Tokens = {}
  BY DEF SessionInit, Tokens
<1>2. SessionTypeOK
  BY <1>1, EmptySessions, WindowsAre DEF SessionInit, SessionTypeOK
<1>3. Agreement
  BY <1>2, EmptySessions, WindowsAre, NobodyHasNone DEF SessionInit, Agreement, Ready
<1> QED
  BY <1>2, <1>3 DEF SessionInv

LEMMA StepRestore ==
    ASSUME SessionInv, NEW w \in Windows, Restore(w) PROVE SessionInv'
<1>1. /\ window' = [window EXCEPT ![w] = SignedIn(storage)] /\ overtaken' = overtaken \ {w}
      /\ UNCHANGED <<storage, sent, holder, mixed>>
  BY DEF Restore
<1>2. storage \in Sessions
  BY DEF SessionInv, SessionTypeOK
<1>3. Issued' = Issued /\ Sessions' = Sessions /\ \A token : Person(token)' = Person(token)
  BY <1>1 DEF Issued, Sessions, Tokens, Person
<1>4. SessionTypeOK'
  BY <1>1, <1>2, <1>3, WindowsAre DEF SessionInv, SessionTypeOK
<1>5. Agreement => Agreement'
  BY <1>1, <1>2, <1>3, WindowsAre DEF SessionInv, SessionTypeOK, Agreement, Ready
<1> QED
  BY <1>1, <1>4, <1>5 DEF SessionInv

\* What a reload leaves in flight.
LEMMA Reloaded ==
    ASSUME SessionTypeOK, NEW w \in Windows, LoadsAnew(w)
    PROVE  /\ window' \in [Windows -> [session : Sessions, restoring : BOOLEAN]]
           /\ window'[w].restoring /\ \A v \in Windows \ {w} : window'[v] = window[v]
           /\ sent' \in [SessionCalls -> [window : Windows \cup {Nobody}, kind : {"none", "login", "load", "save"},
                                          token : Issued, shown : Users, overtaken : BOOLEAN]]
           /\ \A c \in SessionCalls : sent'[c] = sent[c] \/ sent'[c].kind = "none"
BY EmptySessions, WindowsAre DEF LoadsAnew, SessionTypeOK

LEMMA StepReloadWindow ==
    ASSUME SessionInv, NEW w \in Windows, ReloadWindow(w) PROVE SessionInv'
<1>1. LoadsAnew(w) /\ UNCHANGED <<storage, holder, overtaken, mixed>>
  BY DEF ReloadWindow
<1>2. Issued' = Issued /\ Sessions' = Sessions /\ \A token : Person(token)' = Person(token)
  BY <1>1 DEF Issued, Sessions, Tokens, Person
<1>3. /\ window' \in [Windows -> [session : Sessions, restoring : BOOLEAN]]
      /\ window'[w].restoring /\ \A v \in Windows \ {w} : window'[v] = window[v]
      /\ sent' \in [SessionCalls -> [window : Windows \cup {Nobody}, kind : {"none", "login", "load", "save"},
                                     token : Issued, shown : Users, overtaken : BOOLEAN]]
      /\ \A c \in SessionCalls : sent'[c] = sent[c] \/ sent'[c].kind = "none"
  BY <1>1, Reloaded DEF SessionInv
<1>4. SessionTypeOK'
  BY <1>1, <1>2, <1>3 DEF SessionInv, SessionTypeOK
<1>5. Agreement => Agreement'
  BY <1>1, <1>2, <1>3 DEF Agreement, Ready
<1> QED
  BY <1>1, <1>4, <1>5 DEF SessionInv

\* One call's record is replaced.
LEMMA StepSend ==
    ASSUME SessionInv, NEW c \in SessionCalls, NEW w \in Windows,
           NEW kind \in {"login", "load", "save"}, NEW shown \in Users,
           kind = "login" => shown \in People,
           kind # "login" => shown = window[w].session.user,
           Send(c, w, kind, shown)
    PROVE  SessionInv'
<1> DEFINE call == [window |-> w, kind |-> kind, token |-> storage.token,
                       shown |-> shown, overtaken |-> w \in overtaken]
<1>1. /\ Ready(w) /\ sent' = [sent EXCEPT ![c] = call]
      /\ UNCHANGED <<storage, window, holder, overtaken, mixed>>
  BY DEF Send
<1>2. Issued' = Issued /\ Sessions' = Sessions /\ \A token : Person(token)' = Person(token)
  BY <1>1 DEF Issued, Sessions, Tokens, Person
<1>3. storage.token \in Issued /\ storage.user \in Users
  BY DEF SessionInv, SessionTypeOK, Sessions
<1>4. /\ call \in [window : Windows \cup {Nobody}, kind : {"none", "login", "load", "save"},
                      token : Issued, shown : Users, overtaken : BOOLEAN]
      /\ call.window = w /\ call.kind = kind /\ call.token = storage.token
      /\ call.shown = shown /\ call.overtaken = (w \in overtaken)
  BY <1>3
<1> HIDE DEF call
<1>5. SessionTypeOK'
  BY <1>1, <1>2, <1>4 DEF SessionInv, SessionTypeOK
<1>6. Agreement => Agreement'
  <2> SUFFICES ASSUME Agreement PROVE Agreement'
    OBVIOUS
  <2>1. \A d \in SessionCalls : sent'[d] = IF d = c THEN call ELSE sent[d]
    BY <1>1 DEF SessionInv, SessionTypeOK
  <2>2. call.kind \in {"load", "save"} /\ ~call.overtaken => Person(call.token) = call.shown
    BY <1>1, <1>4 DEF Agreement
  <2> QED
    BY <1>1, <1>2, <2>1, <2>2 DEF Agreement, Ready
<1> QED
  BY <1>1, <1>5, <1>6 DEF SessionInv

LEMMA StepLoginSucceeds ==
    ASSUME SessionInv, NEW c \in SessionCalls, LoginSucceeds(c) PROVE SessionInv'
<1> DEFINE w == sent[c].window
           p == sent[c].shown
           session == [token |-> Len(holder) + 1, user |-> p]
<1>1. /\ sent[c].kind = "login" /\ holder' = Append(holder, p)
      /\ storage' = session /\ overtaken' = (overtaken \ {w}) \cup (Windows \ {w})
      /\ window' = [window EXCEPT ![w] = SignedIn(session)]
      /\ sent' = [sent EXCEPT ![c] = NotSent]
      /\ UNCHANGED mixed
  BY DEF LoginSucceeds, Stores, Returned, Others
<1>2. w \in Windows /\ p \in People
  BY <1>1 DEF SessionInv, SessionTypeOK
<1> HIDE DEF w, p
<1>3. /\ holder' \in Seq(People)
      /\ Tokens \subseteq Tokens' /\ Issued \subseteq Issued'
      /\ \A token \in Issued : Person(token)' = Person(token)
      /\ Len(holder) + 1 \in Issued'
      /\ \A token : token = Len(holder) + 1 => Person(token)' = p
  BY <1>1, <1>2, NewToken DEF SessionInv
<1>4. session \in Sessions' /\ session.token = Len(holder) + 1 /\ session.user = p
  BY <1>2, <1>3 DEF Sessions, Users
<1> HIDE DEF session
<1>5. Sessions \subseteq Sessions'
  BY <1>3 DEF Sessions
<1>6. /\ SignedIn(session) \in [session : Sessions', restoring : BOOLEAN]
      /\ SignedIn(session).session = session
  BY <1>4 DEF SignedIn
<1>7. /\ window' \in [Windows -> [session : Sessions', restoring : BOOLEAN]]
      /\ window'[w].session = session
  BY <1>1, <1>2, <1>5, <1>6 DEF SessionInv, SessionTypeOK
<1>8. /\ sent' \in [SessionCalls -> [window : Windows \cup {Nobody}, kind : {"none", "login", "load", "save"},
                                     token : Issued', shown : Users, overtaken : BOOLEAN]]
      /\ \A d \in SessionCalls : sent'[d] = sent[d] \/ sent'[d].kind = "none"
  BY <1>1, <1>3, EmptySessions DEF SessionInv, SessionTypeOK
<1>9. SessionTypeOK'
  BY <1>1, <1>2, <1>3, <1>4, <1>7, <1>8 DEF SessionInv, SessionTypeOK
<1>10. Agreement => Agreement'
  <2>1. \A d \in SessionCalls : sent[d].token \in Issued
    BY DEF SessionInv, SessionTypeOK
  <2>2. storage'.user = Person(storage.token)'
    BY <1>1, <1>3, <1>4
  <2>3. \A v \in Windows \ overtaken' : window'[v].session = storage'
    BY <1>1, <1>7
  <2>4. ASSUME Agreement, NEW d \in SessionCalls,
               sent'[d].kind \in {"load", "save"}, ~sent'[d].overtaken
        PROVE  Person(sent[d].token)' = sent'[d].shown
    <3>1. sent'[d] = sent[d]
      BY <1>8, <2>4
    <3>2. \A token : token = sent[d].token => Person(token)' = sent[d].shown
      BY <1>3, <2>1, <2>4, <3>1 DEF Agreement
    <3> QED
      BY <3>1, <3>2
  <2> QED
    BY <2>2, <2>3, <2>4 DEF Agreement
<1> QED
  BY <1>1, <1>9, <1>10 DEF SessionInv

LEMMA StepRequestSucceeds ==
    ASSUME SessionInv, NEW c \in SessionCalls, RequestSucceeds(c) PROVE SessionInv'
<1> DEFINE saved == sent[c].kind = "save" /\ storage # NoSession
<1>1. /\ sent[c].kind \in {"load", "save"}
      /\ storage' = IF saved THEN [storage EXCEPT !.user = sent[c].shown] ELSE storage
      /\ mixed' = (mixed \/ (saved /\ (storage.token # sent[c].token \/ sent[c].overtaken)))
      /\ sent' = [sent EXCEPT ![c] = NotSent]
      /\ UNCHANGED <<window, holder, overtaken>>
  BY DEF RequestSucceeds, Returned
<1>2. Issued' = Issued /\ Sessions' = Sessions /\ \A token : Person(token)' = Person(token)
  BY <1>1 DEF Issued, Sessions, Tokens, Person
<1>3. /\ storage \in Sessions /\ sent[c].shown \in Users
      /\ mixed \in BOOLEAN
  BY DEF SessionInv, SessionTypeOK
<1>4. storage' \in Sessions
  BY <1>1, <1>3 DEF Sessions
<1>5. /\ sent' \in [SessionCalls -> [window : Windows \cup {Nobody}, kind : {"none", "login", "load", "save"},
                                     token : Issued, shown : Users, overtaken : BOOLEAN]]
      /\ \A d \in SessionCalls : sent'[d] = sent[d] \/ sent'[d].kind = "none"
  BY <1>1, EmptySessions DEF SessionInv, SessionTypeOK
<1>6. mixed' \in BOOLEAN
  BY <1>1, Zenon
<1>7. SessionTypeOK'
  BY <1>1, <1>2, <1>4, <1>5, <1>6 DEF SessionInv, SessionTypeOK
<1>8. ~mixed' => Agreement'
  <2> SUFFICES ASSUME ~mixed' PROVE Agreement'
    OBVIOUS
  <2>1. ~mixed /\ (saved => storage.token = sent[c].token /\ ~sent[c].overtaken)
    BY <1>1, Zenon
  <2>2. Agreement
    BY <2>1 DEF SessionInv
  <2>3. saved => sent[c].shown = storage.user
    BY <1>1, <2>1, <2>2 DEF Agreement
  <2>4. storage' = storage
    BY <1>1, <1>3, <2>3 DEF Sessions
  <2> QED
    BY <1>1, <1>2, <1>5, <2>2, <2>4 DEF Agreement, Ready
<1> QED
  BY <1>7, <1>8 DEF SessionInv

LEMMA StepRefused ==
    ASSUME SessionInv, NEW c \in SessionCalls, Refused(c) PROVE SessionInv'
<1> DEFINE w == sent[c].window
<1>1. /\ sent[c].kind # "none" /\ storage' = NoSession
      /\ overtaken' = (overtaken \ {w}) \cup (Windows \ {w})
      /\ LoadsAnew(w) /\ UNCHANGED <<holder, mixed>>
  BY DEF Refused, Stores, Others
<1>2. w \in Windows
  BY <1>1 DEF SessionInv, SessionTypeOK
<1> HIDE DEF w
<1>3. Issued' = Issued /\ Sessions' = Sessions /\ \A token : Person(token)' = Person(token)
  BY <1>1 DEF Issued, Sessions, Tokens, Person
<1>4. /\ window' \in [Windows -> [session : Sessions, restoring : BOOLEAN]]
      /\ window'[w].restoring /\ \A v \in Windows \ {w} : window'[v] = window[v]
      /\ sent' \in [SessionCalls -> [window : Windows \cup {Nobody}, kind : {"none", "login", "load", "save"},
                                     token : Issued, shown : Users, overtaken : BOOLEAN]]
      /\ \A d \in SessionCalls : sent'[d] = sent[d] \/ sent'[d].kind = "none"
  BY <1>1, <1>2, Reloaded DEF SessionInv
<1>5. SessionTypeOK'
  BY <1>1, <1>2, <1>3, <1>4, EmptySessions DEF SessionInv, SessionTypeOK
<1>6. Agreement => Agreement'
  BY <1>1, <1>2, <1>3, <1>4, EmptySessions, NobodyHasNone DEF SessionInv, Agreement, Ready
<1> QED
  BY <1>1, <1>5, <1>6 DEF SessionInv

LEMMA StepRequestErrs ==
    ASSUME SessionInv, NEW c \in SessionCalls, RequestErrs(c) PROVE SessionInv'
<1>1. /\ sent' = [sent EXCEPT ![c] = NotSent]
      /\ UNCHANGED <<storage, window, holder, overtaken, mixed>>
  BY DEF RequestErrs, Returned
<1>2. Issued' = Issued /\ Sessions' = Sessions /\ \A token : Person(token)' = Person(token)
  BY <1>1 DEF Issued, Sessions, Tokens, Person
<1>3. /\ sent' \in [SessionCalls -> [window : Windows \cup {Nobody}, kind : {"none", "login", "load", "save"},
                                     token : Issued, shown : Users, overtaken : BOOLEAN]]
      /\ \A d \in SessionCalls : sent'[d] = sent[d] \/ sent'[d].kind = "none"
  BY <1>1, EmptySessions DEF SessionInv, SessionTypeOK
<1>4. SessionTypeOK'
  BY <1>1, <1>2, <1>3 DEF SessionInv, SessionTypeOK
<1>5. Agreement => Agreement'
  BY <1>1, <1>2, <1>3 DEF Agreement, Ready
<1> QED
  BY <1>1, <1>4, <1>5 DEF SessionInv

LEMMA StepLogout ==
    ASSUME SessionInv, NEW w \in Windows, Logout(w) PROVE SessionInv'
<1>1. /\ storage' = NoSession /\ overtaken' = (overtaken \ {w}) \cup (Windows \ {w})
      /\ window' = [window EXCEPT ![w] = SignedIn(NoSession)]
      /\ UNCHANGED <<sent, holder, mixed>>
  BY DEF Logout, Stores, Others
<1>2. Issued' = Issued /\ Sessions' = Sessions /\ \A token : Person(token)' = Person(token)
  BY <1>1 DEF Issued, Sessions, Tokens, Person
<1>3. SessionTypeOK'
  BY <1>1, <1>2, EmptySessions, WindowsAre DEF SessionInv, SessionTypeOK
<1>4. window'[w].session = NoSession
  BY <1>1, EmptySessions, WindowsAre DEF SessionInv, SessionTypeOK
<1>5. Agreement => Agreement'
  BY <1>1, <1>2, <1>4, EmptySessions, NobodyHasNone DEF SessionInv, Agreement, Ready
<1> QED
  BY <1>1, <1>3, <1>5 DEF SessionInv

LEMMA StepElse ==
    ASSUME SessionInv, UNCHANGED <<storage, window, sent, holder, overtaken, mixed>> PROVE SessionInv'
BY DEF SessionInv, SessionTypeOK, Agreement, Ready, Person, Tokens, Issued, Sessions

LEMMA SessionStep == SessionInv /\ [SessionNext]_sessionVars => SessionInv'
<1> SUFFICES ASSUME SessionInv, [SessionNext]_sessionVars PROVE SessionInv'
  OBVIOUS
<1>1. CASE \E w \in Windows : Restore(w) \/ ReloadWindow(w) \/ Logout(w)
  BY <1>1, StepRestore, StepReloadWindow, StepLogout
<1>2. ASSUME NEW c \in SessionCalls, NEW w \in Windows, NEW kind \in {"load", "save"},
             SendRequest(c, w, kind)
      PROVE  SessionInv'
  <2>1. window[w].session.user \in Users
    BY DEF SessionInv, SessionTypeOK, Sessions
  <2> QED
    BY <1>2, <2>1, StepSend DEF SendRequest
<1>3. ASSUME NEW c \in SessionCalls, NEW w \in Windows, NEW p \in People, SubmitLogin(c, w, p)
      PROVE  SessionInv'
  BY <1>3, StepSend DEF SubmitLogin, Users
<1>4. CASE \E c \in SessionCalls :
             LoginSucceeds(c) \/ RequestSucceeds(c) \/ Refused(c) \/ RequestErrs(c)
  BY <1>4, StepLoginSucceeds, StepRequestSucceeds, StepRefused, StepRequestErrs
<1>5. CASE (\E token \in 1..MaxTokens : TokenExpires(token)) \/ UNCHANGED sessionVars
  BY <1>5, StepElse DEF TokenExpires, sessionVars
<1> QED
  BY <1>1, <1>2, <1>3, <1>4, <1>5 DEF SessionNext

(* A window acts as the person it shows, unless another has signed in or   *)
(* out since or a profile was saved across such a change                   *)
(* (AuthContext.jsx, api/axios.js).                                        *)
THEOREM WindowsActAsShown == SessionSpec => []ActsAsShown
<1>1. SessionInit => SessionInv
  BY InitSessionInv
<1>2. SessionInv /\ [SessionNext]_sessionVars => SessionInv'
  BY SessionStep
<1>3. SessionInv => ActsAsShown
  BY DEF SessionInv, Agreement, ActsAsShown
<1> QED
  BY <1>1, <1>2, <1>3, PTL DEF SessionSpec
=============================================================================
