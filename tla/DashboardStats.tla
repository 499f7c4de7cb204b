--------------------------- MODULE DashboardStats ---------------------------
(***************************************************************************)
(* Aggregated incident statistics and the Redis entries they are kept in.  *)
(*                                                                         *)
(* A number is abstracted to the version of the incidents it was computed  *)
(* from: version[s] counts the changes to the incidents of scope s.  The   *)
(* queries of one answer are separate statements, each seeing its own      *)
(* version; "counts" stands for the group-by on status and the breaches,   *)
(* "details" for everything an answer holds beside them.                   *)
(***************************************************************************)
EXTENDS Naturals, FiniteSets

CONSTANTS
    Departments,
    Campus,         \* the scope of a request without departmentId
    Requests,       \* HTTP requests that may be in flight together
    NoEntry,        \* Redis holds no entry under a key
    MaxChanges,     \* bound on changes to incidents
    MaxBusy,        \* bound on computations running together
    MaxFaults       \* bound on failing Redis commands and queries

ASSUME StatsAssumption ==
    /\ Campus \notin Departments
    /\ MaxChanges \in Nat
    /\ MaxFaults \in Nat
    /\ MaxBusy \in Nat
    /\ {"worker", "proxy"} \cap Requests = {}

VARIABLES
    version,    \* scope -> changes so far
    cache,      \* key -> NoEntry, or field -> version
    reader,     \* reader -> the computation it is in
    pending,    \* departments whose CacheInvalidator has yet to run
    faults

statsVars == <<version, cache, reader, pending, faults>>

Scopes == Departments \cup {Campus}

(* "analytics" keys belong to the controller and the worker, "stats" keys  *)
(* to the repository's proxy.                                              *)
Keys == {"analytics", "stats"} \X Scopes

Readers == Requests \cup {"worker", "proxy"}

Fields(r) == IF r = "worker" THEN {"counts"} ELSE {"counts", "details"}

Versions(seen) == {seen[f] : f \in DOMAIN seen}

Held(k) ==
    (IF cache[k] = NoEntry THEN {} ELSE Versions(cache[k]))
    \cup UNION {Versions(reader[r].seen) :
                    r \in {q \in Readers : reader[q].stage = "query" /\ reader[q].key = k}}

Idle == [stage |-> "idle", key |-> <<"analytics", Campus>>, seen |-> <<>>]

StatsInit ==
    /\ version = [s \in Scopes |-> 0]
    /\ cache = [k \in Keys |-> NoEntry]
    /\ reader = [r \in Readers |-> Idle]
    /\ pending = {}
    /\ faults = 0

Fault == faults < MaxFaults /\ faults' = faults + 1

Begin(r, k, stage) ==
    /\ reader[r].stage = "idle"
    /\ Cardinality({q \in Readers : reader[q].stage # "idle"}) < MaxBusy
    /\ reader' = [reader EXCEPT ![r] = [stage |-> stage, key |-> k, seen |-> <<>>]]
    /\ UNCHANGED <<version, cache, pending, faults>>

CacheKey(family, s) == <<family, s>>

(* The controller's GET and the proxy's call look in Redis first; the      *)
(* worker recomputes.                                                      *)
GetDashboard(r, s) == Begin(r, CacheKey("analytics", s), "get")
GetDashboardStats(d) == Begin("proxy", CacheKey("stats", d), "get")
RefreshDashboard(s) == Begin("worker", CacheKey("analytics", s), "query")

Hit(r) ==
    /\ reader[r].stage = "get"
    /\ cache[reader[r].key] # NoEntry
    /\ reader' = [reader EXCEPT ![r].stage = "answered", ![r].seen = cache[reader[r].key]]
    /\ UNCHANGED <<version, cache, pending, faults>>

Miss(r) ==
    /\ reader[r].stage = "get"
    /\ \/ cache[reader[r].key] = NoEntry /\ UNCHANGED faults
       \/ Fault
    /\ reader' = [reader EXCEPT ![r].stage = "query"]
    /\ UNCHANGED <<version, cache, pending>>

(* The controller and the worker send their queries together; the proxy's  *)
(* repository awaits them in turn.                                         *)
Query(r) ==
    /\ reader[r].stage = "query"
    /\ \E f \in Fields(r) \ DOMAIN reader[r].seen :
        /\ r = "proxy" /\ f = "details" => "counts" \in DOMAIN reader[r].seen
        /\ reader' = [reader EXCEPT ![r].seen =
                        [g \in DOMAIN @ \cup {f} |->
                            IF g = f THEN version[reader[r].key[2]] ELSE @[g]]]
    /\ UNCHANGED <<version, cache, pending, faults>>

QueryFails(r) ==
    /\ reader[r].stage = "query"
    /\ Fault
    /\ reader' = [reader EXCEPT ![r].stage = "failed"]
    /\ UNCHANGED <<version, cache, pending>>

Computed(r) == reader[r].stage = "query" /\ DOMAIN reader[r].seen = Fields(r)

(* Store the answer, best effort, and give it. *)
Store(r) ==
    /\ Computed(r)
    /\ \/ /\ cache' = [cache EXCEPT ![reader[r].key] = reader[r].seen]
          /\ UNCHANGED faults
       \/ Fault /\ UNCHANGED cache
    /\ reader' = [reader EXCEPT ![r].stage = "answered"]
    /\ UNCHANGED <<version, pending>>

(* (mutant) what was answered is written back, to keep the entry longer. *)
FinishRefreshing(r) ==
    /\ reader[r].stage = "answered"
    /\ reader' = [reader EXCEPT ![r] = Idle]
    /\ cache' = [cache EXCEPT ![reader[r].key] = reader[r].seen]
    /\ UNCHANGED <<version, pending, faults>>

(* The response is sent, the job is done, the caller has its numbers. *)
Finish(r) ==
    /\ reader[r].stage \in {"answered", "failed"}
    /\ reader' = [reader EXCEPT ![r] = Idle]
    /\ UNCHANGED <<version, cache, pending, faults>>

(* An incident of department d changed; an event CacheInvalidator hears    *)
(* follows for a resolution and a reopening.                               *)
ChangeIncident(d, heard) ==
    /\ version[Campus] < MaxChanges
    /\ version' = [version EXCEPT ![d] = @ + 1, ![Campus] = @ + 1]
    /\ pending' = IF heard THEN pending \cup {d} ELSE pending
    /\ UNCHANGED <<cache, reader, faults>>

Invalidated(d) == {<<"stats", d>>, <<"stats", Campus>>}

(* Both deletions, each of which may fail unnoticed. *)
Invalidate(d) ==
    /\ d \in pending
    /\ pending' = pending \ {d}
    /\ \/ /\ cache' = [k \in Keys |-> IF k \in Invalidated(d) THEN NoEntry ELSE cache[k]]
          /\ UNCHANGED faults
       \/ Fault /\ UNCHANGED cache
    /\ UNCHANGED <<version, reader>>

(* Every entry is stored with a time to live and may be gone at any time. *)
Expire(k) ==
    /\ cache[k] # NoEntry
    /\ cache' = [cache EXCEPT ![k] = NoEntry]
    /\ UNCHANGED <<version, reader, pending, faults>>

Compute(r) == Hit(r) \/ Miss(r) \/ Query(r) \/ QueryFails(r) \/ Store(r) \/ Finish(r)

Next ==
    \/ \E r \in Requests, s \in Scopes : GetDashboard(r, s)
    \/ \E d \in Departments : GetDashboardStats(d)
    \/ \E s \in Scopes : RefreshDashboard(s)
    \/ \E r \in Readers : Compute(r)
    \/ \E d \in Departments, heard \in BOOLEAN : ChangeIncident(d, heard)
    \/ \E d \in Departments : Invalidate(d)
    \/ \E k \in Keys : Expire(k)

Spec == StatsInit /\ [][Next]_statsVars

-----------------------------------------------------------------------------

(* Every variable keeps its shape: readers hold versions of the fields     *)
(* they query and entries hold versions (the caching proxy, the analytics  *)
(* controller and the analytics worker).                                   *)
StatsTypeOK ==
    /\ version \in [Scopes -> 0..MaxChanges]
    /\ \A k \in Keys : cache[k] = NoEntry \/ Versions(cache[k]) \subseteq 0..MaxChanges
    /\ \A r \in Readers :
        /\ reader[r].stage \in {"idle", "get", "query", "answered", "failed"}
        /\ reader[r].key \in Keys
        /\ DOMAIN reader[r].seen \subseteq {"counts", "details"}
        /\ Versions(reader[r].seen) \subseteq 0..MaxChanges
    /\ pending \subseteq Departments
    /\ faults \in 0..MaxFaults

(* No caching path brings back numbers that had left circulation:          *)
(* getDashboard, getDashboardStats and the refresh job, with their         *)
(* best-effort writes, invalidations and expiries, implement the contract. *)
Contract ==
    INSTANCE StatsContract WITH
        current <- version,
        circulating <- [k \in Keys |-> Held(k)],
        answer <- [r \in Readers |->
                    IF reader[r].stage = "answered" THEN Versions(reader[r].seen) ELSE {}]

NothingOldReturns == Contract!Spec

(* (claim) "Redis - 5-minute TTL, invalidated on incident status change":   *)
(* once CacheInvalidator has heard of an incident of a department and both *)
(* its deletions have succeeded, Redis holds no dashboard of the           *)
(* department and none of the campus.                                      *)
DashboardIsInvalidated ==
    [][\A d \in pending \ pending' :
            faults' = faults =>
                \A s \in {d, Campus} : cache'[CacheKey("analytics", s)] = NoEntry]_statsVars

=============================================================================
