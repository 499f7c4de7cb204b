----------------------------- MODULE RateLimiter -----------------------------
(***************************************************************************)
(* The sliding window over a Redis sorted set.  The limiters are mounted   *)
(* before authenticate, so a request is counted under its address.         *)
(***************************************************************************)
EXTENDS Naturals, FiniteSets

CONSTANTS
    Addresses,
    Limit,      \* max
    Window,     \* windowMs, in ticks
    MaxTime,    \* bound on the clock
    MaxPerTick  \* bound on the requests of an address in one tick

ASSUME LimiterAssumption ==
    /\ Limit \in Nat
    /\ Window \in Nat \ {0}
    /\ MaxTime \in Nat
    /\ MaxPerTick \in Nat

VARIABLES
    now,
    scores,     \* address -> time -> members of the sorted set with that score
    sent,       \* address -> time -> requests that reached Redis
    admitted,   \* address -> time -> those let through by the count
    refused     \* the address refused by the last step, if any

limiterVars == <<now, scores, sent, admitted, refused>>

Times == 0..MaxTime

(* The members with a score in T, and how many they are. *)
Members(f, T) == {m \in (T \cap Times) \X (1..MaxPerTick) : m[2] <= f[m[1]]}

Total(f, T) == Cardinality(Members(f, T))

(* The scores a window ending at t holds. *)
InWindow(t) == {u \in Times : u <= t /\ u + Window > t}

LimiterInit ==
    /\ now = 0
    /\ scores = [a \in Addresses |-> [t \in Times |-> 0]]
    /\ sent = [a \in Addresses |-> [t \in Times |-> 0]]
    /\ admitted = [a \in Addresses |-> [t \in Times |-> 0]]
    /\ refused = {}

(* (mutant) the range of zremrangebyscore off by one. *)
EvictedEarly(t) == t + Window <= now + 1

Evicted(t) == t + Window <= now

(* zremrangebyscore and zadd. *)
Recorded(a) ==
    [t \in Times |-> IF t = now THEN scores[a][t] + 1
                     ELSE IF Evicted(t) THEN 0 ELSE scores[a][t]]

(* zcard > max *)
OverLimit(a) == Total(Recorded(a), Times) > Limit

(* A request that reaches Redis is recorded whether or not it is admitted. *)
RateLimit(a) ==
    /\ sent[a][now] < MaxPerTick
    /\ scores' = [scores EXCEPT ![a] = Recorded(a)]
    /\ sent' = [sent EXCEPT ![a][now] = @ + 1]
    /\ IF OverLimit(a)
       THEN refused' = {a} /\ UNCHANGED admitted
       ELSE refused' = {} /\ admitted' = [admitted EXCEPT ![a][now] = @ + 1]
    /\ UNCHANGED now

(* Redis fails after it ran the pipeline: the request is let through.  One *)
(* that Redis never saw is let through as well and leaves no trace.        *)
FailOpen(a) ==
    /\ sent[a][now] < MaxPerTick
    /\ scores' = [scores EXCEPT ![a] = Recorded(a)]
    /\ sent' = [sent EXCEPT ![a][now] = @ + 1]
    /\ refused' = {}
    /\ UNCHANGED <<now, admitted>>

ClockTicks ==
    /\ now < MaxTime
    /\ now' = now + 1
    /\ refused' = {}
    /\ UNCHANGED <<scores, sent, admitted>>

(* The key's own expiry: Window after its last request. *)
KeyExpires(a) ==
    /\ \A t \in Times : sent[a][t] > 0 => t + Window <= now
    /\ scores' = [scores EXCEPT ![a] = [t \in Times |-> 0]]
    /\ refused' = {}
    /\ UNCHANGED <<now, sent, admitted>>

LimiterNext ==
    \/ ClockTicks
    \/ \E a \in Addresses : RateLimit(a) \/ FailOpen(a) \/ KeyExpires(a)

LimiterSpec == LimiterInit /\ [][LimiterNext]_limiterVars

-----------------------------------------------------------------------------

(* No window of the limiter's length, wherever it starts, saw more than    *)
(* the limit let through by the count: the window slides, it does not jump *)
(* (zremrangebyscore, zadd and zcard in one pipeline).  And a refusal is   *)
(* earned: the address sent more than the limit within the window, refused *)
(* requests among them, so one that stays away for a window is served      *)
(* again, and another address does not matter.                             *)
WindowIsExact ==
    /\ \A a \in Addresses, t \in Times : Total(admitted[a], InWindow(t)) <= Limit
    /\ \A a \in refused : Total(sent[a], InWindow(now)) > Limit

=============================================================================
