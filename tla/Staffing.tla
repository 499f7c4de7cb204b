------------------------------ MODULE Staffing ------------------------------
(***************************************************************************)
(* Whom a department's strategy picks for an incident.  An assignment      *)
(* reads the department, then the pool, and picks from what it read; an    *)
(* administrator's updates may fall between.  Only the assignment of the   *)
(* incident is saved: the round robin index and the task counts a pick     *)
(* moves are those of objects that are thrown away.                        *)
(***************************************************************************)
EXTENDS Shifts, Sequences, FiniteSetsExt

CONSTANTS
    Staff,
    Departments,
    Assignments,    \* assignments that may be in flight together
    Categories,
    Rosters,        \* sets of staff rows to start from
    SLAWindow,      \* slots of the incident's SLA window
    MaxUpdates,     \* bound on an administrator's updates
    MaxAssignments, \* bound on assignments
    NoStaff

(* The columns of a User that a strategy looks at. *)
Row ==
    [role : {"MAINTENANCE", "SECURITY"}, department : Departments,
     state : {"ACTIVE", "UNDER_REVIEW", "SUSPENDED"},
     days : SUBSET (0..(WeekLength - 1)),
     start : MinutesOfDay \cup {NoTime}, end : MinutesOfDay \cup {NoTime}, load : Nat]

ASSUME StaffingAssumption ==
    /\ IsFiniteSet(Staff)
    /\ NoStaff \notin Staff
    /\ \A r \in Rosters : r \in [Staff -> Row]
    /\ SLAWindow \in Nat

VARIABLES
    clock,
    user,           \* staff -> the columns of its User
    department,     \* department -> its strategy and stored index
    assignment,     \* assignment -> where it is
    updates,
    assignments

staffingVars ==
    <<clock, user, department, assignment, updates, assignments>>

Strategies == {"LEAST_LOADED", "ROUND_ROBIN", "SHIFT_AWARE", "MANUAL"}

Waiting == [stage |-> "idle"]

StaffingInit ==
    /\ clock \in Week
    /\ user \in Rosters
    /\ department \in [Departments -> [strategy : Strategies, roundRobinIndex : {0}]]
    /\ assignment = [a \in Assignments |-> Waiting]
    /\ updates = 0
    /\ assignments = 0

(* CATEGORY_ROLE_MAP; an unknown category is treated like OTHER.           *)
RolesOf(category) ==
    CASE category \in {"MAINTENANCE", "CLEANLINESS", "INFRASTRUCTURE"} -> <<"MAINTENANCE">>
      [] category \in {"SECURITY", "EMERGENCY"} -> <<"SECURITY">>
      [] OTHER -> <<"MAINTENANCE", "SECURITY">>

(* findById: the row of the department. *)
FindDepartment(a, d, category) ==
    /\ assignment[a].stage = "idle"
    /\ assignments < MaxAssignments
    /\ assignments' = assignments + 1
    /\ assignment' = [assignment EXCEPT ![a] =
                        [stage |-> "pool", department |-> d, category |-> category,
                         read |-> department[d]]]
    /\ UNCHANGED <<clock, user, department, updates>>

(* Maintenance staff belong to a department, security to the campus.       *)
BuildWhere(role, d) ==
    {s \in Staff : /\ user[s].role = role
                   /\ user[s].state # "SUSPENDED"
                   /\ role = "MAINTENANCE" => user[s].department = d}

(* Every order the database may return by ascending task count. *)
Sorted(S) ==
    {q \in [1..Cardinality(S) -> S] :
        /\ \A i, j \in DOMAIN q : i # j => q[i] # q[j]
        /\ \A i, j \in DOMAIN q : i < j => user[q[i]].load <= user[q[j]].load}

Cohorts(category, d) ==
    LET roles == RolesOf(category)
    IN  IF Len(roles) = 1 THEN Sorted(BuildWhere(roles[1], d))
        ELSE {m \o o : m \in Sorted(BuildWhere(roles[1], d)),
                       o \in Sorted(BuildWhere(roles[2], d))}

(* findEligibleStaff: entities made of the rows as they are now. *)
FindEligibleStaff(a) ==
    /\ assignment[a].stage = "pool"
    /\ \E ids \in Cohorts(assignment[a].category, assignment[a].department) :
        assignment' = [assignment EXCEPT ![a] =
            [stage |-> "pick", department |-> @.department, read |-> @.read,
             pool |-> [i \in DOMAIN ids |-> [id |-> ids[i], row |-> user[ids[i]]]]]]
    /\ UNCHANGED <<clock, user, department, updates, assignments>>

(* Where in the pool the ones are whom every strategy but MANUAL asks. *)
Active(pool) == {i \in DOMAIN pool : pool[i].row.state = "ACTIVE"}

(* (mutant) the first of the list, taken for sorted. *)
FirstAvailable(pool, I) == IF I = {} THEN NoStaff ELSE pool[Min(I)].id

(* The first of those with the fewest tasks. *)
LeastLoaded(pool, I) ==
    IF I = {} THEN NoStaff
    ELSE LET least == Min({pool[i].row.load : i \in I})
         IN  pool[Min({i \in I : pool[i].row.load = least})].id

OnDuty(r, t) == r.role = "MAINTENANCE" => IsOnShift(r, t)

Covers(r, t) == r.role = "MAINTENANCE" => IsAvailableFor(r, SLAWindow, t)

LeastLoadedStrategy(pool) ==
    LeastLoaded(pool, {i \in Active(pool) : OnDuty(pool[i].row, clock)})

(* The index advances in the object that was read. *)
RoundRobinStrategy(pool, index) ==
    LET active == Active(pool)
        turn == index % Cardinality(active)
    IN  IF active = {} THEN NoStaff
        ELSE pool[CHOOSE i \in active : Cardinality({j \in active : j < i}) = turn].id

ShiftAwareStrategy(pool) ==
    LET covering == {i \in Active(pool) : Covers(pool[i].row, clock)}
        onCall == {i \in Active(pool) :
                    pool[i].row.role = "MAINTENANCE" /\ IsOnCall(pool[i].row, clock)}
    IN  IF covering # {} THEN LeastLoaded(pool, covering)
        ELSE IF onCall # {} THEN pool[Min(onCall)].id
        ELSE NoStaff

(* StrategyFactory.create and assign: MANUAL throws, for the service never *)
(* names a target.                                                         *)
Picked(strategy, index, pool) ==
    CASE strategy = "ROUND_ROBIN" -> RoundRobinStrategy(pool, index)
      [] strategy = "SHIFT_AWARE" -> ShiftAwareStrategy(pool)
      [] strategy = "MANUAL" -> NoStaff
      [] OTHER -> LeastLoadedStrategy(pool)

(* The pick, in the same turn of the event loop as the pool's arrival. *)
Assign(a) ==
    LET at == assignment[a]
        staff == Picked(at.read.strategy, at.read.roundRobinIndex, at.pool)
    IN  /\ at.stage = "pick"
        /\ assignment' = [assignment EXCEPT ![a] =
                [stage |-> "picked", department |-> at.department, read |-> at.read,
                 pool |-> at.pool, staff |-> staff, at |-> clock]]
        /\ UNCHANGED <<clock, user, department, updates, assignments>>

Finish(a) ==
    /\ assignment[a].stage = "picked"
    /\ assignment' = [assignment EXCEPT ![a] = Waiting]
    /\ UNCHANGED <<clock, user, department, updates, assignments>>

Update == updates < MaxUpdates /\ updates' = updates + 1

UpdateStaffState(s, state) ==
    /\ Update
    /\ user' = [user EXCEPT ![s].state = state]
    /\ UNCHANGED <<clock, department, assignment, assignments>>

(* Any of the four names, whatever the staff of the department. *)
UpdateStrategy(d, strategy) ==
    /\ Update
    /\ department' = [department EXCEPT ![d].strategy = strategy]
    /\ UNCHANGED <<clock, user, assignment, assignments>>

TimePasses ==
    /\ clock' = (clock + 1) % (DayLength * WeekLength)
    /\ \A a \in Assignments : assignment[a].stage # "pick"
    /\ UNCHANGED <<user, department, assignment, updates, assignments>>

StaffingNext ==
    \/ \E a \in Assignments, d \in Departments, c \in Categories : FindDepartment(a, d, c)
    \/ \E a \in Assignments : FindEligibleStaff(a) \/ Assign(a) \/ Finish(a)
    \/ \E s \in Staff, st \in {"ACTIVE", "UNDER_REVIEW", "SUSPENDED"} : UpdateStaffState(s, st)
    \/ \E d \in Departments, st \in Strategies : UpdateStrategy(d, st)
    \/ TimePasses

StaffingSpec == StaffingInit /\ [][StaffingNext]_staffingVars

-----------------------------------------------------------------------------

(* The methods of MaintenanceStaff against the meaning of a roster: they   *)
(* agree for shifts within a day and for shifts of every day, but the      *)
(* hours after midnight of an overnight shift count for the day they fall  *)
(* on, so otherwise only the hours before midnight agree.                  *)
ShiftsExact ==
    \A s \in Staff, t \in Week :
        LET u == user[s]
        IN  /\ u.state = "ACTIVE"
            /\ u.start # NoTime /\ u.end # NoTime
            /\ \/ u.start <= u.end
               \/ u.days = 0..(WeekLength - 1)
               \/ MinutesSinceMidnight(t) >= u.start
            => (IsOnShift(u, t) <=> OnRoster(u, t))

(* A worker SHIFT_AWARE picks for an incident is on duty at every slot up  *)
(* to the deadline, between two looks of isAvailableFor too, or on call.   *)
DutyOutlastsWindow ==
    \A a \in Assignments :
        LET at == assignment[a]
        IN  /\ at.stage = "picked"
            /\ at.read.strategy = "SHIFT_AWARE"
            /\ at.staff # NoStaff
            => LET s == (CHOOSE x \in {at.pool[i] : i \in DOMAIN at.pool} : x.id = at.staff).row
               IN  \/ s.role = "SECURITY"
                   \/ ~BreakNoticed(s)
                   \/ IsOnCall(s, at.at)
                   \/ \A k \in 0..SLAWindow : IsOnShift(s, at.at + k)

(* Under LEAST_LOADED nobody of the pool who was ACTIVE and on duty had    *)
(* fewer tasks than the one picked, whichever cohort of an OTHER incident  *)
(* the two come from.                                                      *)
NobodyFreerWasPassedOver ==
    \A a \in Assignments :
        LET at == assignment[a]
        IN  /\ at.stage = "picked"
            /\ at.read.strategy = "LEAST_LOADED"
            => \A i \in DOMAIN at.pool :
                LET s == at.pool[i].row
                IN  /\ s.state = "ACTIVE"
                    /\ OnDuty(s, at.at)
                    => at.staff # NoStaff /\ user[at.staff].load <= s.load

=============================================================================
