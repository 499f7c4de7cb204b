----------------------------- MODULE IncidentStore -----------------------------
(***************************************************************************)
(* The incident table as IncidentRepository uses it, one operator per      *)
(* query.  Each is one statement in PostgreSQL, so it is atomic; nothing   *)
(* the server does holds a lock or a transaction across two of them.       *)
(*                                                                         *)
(* hist is a history variable: every version a row has had.                *)
(***************************************************************************)
EXTENDS IncidentStates, IncidentContract, FiniteSets

CONSTANTS
    Incidents,  \* the ids the database may hand out
    NoRow,      \* no row with this id
    MaxAge,     \* bound: how far rows grow old (2 in the code: past every window)
    MaxFaults   \* bound: how often something outside the program fails

ASSUME StoreAssumption == NoRow \notin Row /\ MaxAge \in 0..2 /\ MaxFaults \in Nat

VARIABLES
    rows,       \* the table
    hist,       \* every version each row has had
    age,        \* 0: created within the hour, 1: within 24 hours, 2: before that
    faults      \* how many outside failures have happened

storeVars == <<rows, hist, age>>

StoreInit == /\ rows = [i \in Incidents |-> NoRow]
             /\ hist = [i \in Incidents |-> {}]
             /\ age  = [i \in Incidents |-> 0]
             /\ faults = 0

StoreType == /\ rows \in [Incidents -> Row \cup {NoRow}]
             /\ hist \in [Incidents -> SUBSET Row]
             /\ age \in [Incidents -> 0..2]
             /\ faults \in Nat

Fault == faults < MaxFaults /\ faults' = faults + 1

FreeIds == {i \in Incidents : rows[i] = NoRow}

-----------------------------------------------------------------------------
\* save() of an entity without an id.  The schema requires a category.
CanCreate(e) == e.category # Undefined

Create(i, e) == /\ rows' = [rows EXCEPT ![i] = e]
                /\ hist' = [hist EXCEPT ![i] = @ \cup {e}]
                /\ age'  = [age EXCEPT ![i] = 0]

\* (mutant) save() writes the status column alone.
UpdateStatusOnly(i, e) ==
    LET row == [rows[i] EXCEPT !.status = e.status]
    IN  /\ rows' = [rows EXCEPT ![i] = row]
        /\ hist' = [hist EXCEPT ![i] = @ \cup {row}]
        /\ UNCHANGED age

\* save() of an entity with an id: toDocument() lists every column, so the
\* update replaces whatever other writers put there since the entity was read.
Update(i, e) == /\ rows' = [rows EXCEPT ![i] = e]
                /\ hist' = [hist EXCEPT ![i] = @ \cup {e}]
                /\ UNCHANGED age

\* (mutant) SLAFactory.fromRow() forgets slaIsEscalated.
ToEntityUnescalated(row) == [row EXCEPT !.escalated = FALSE]

\* findById() and toEntity(): MaintenanceIncident, which also serves
\* CLEANLINESS, sets its own category.
ToEntity(row) ==
    [row EXCEPT !.category = IF @ = "CLEANLINESS" THEN "MAINTENANCE" ELSE @]

\* (mutant) Incidents that staff already work on are not duplicates.
FindUnassigned(category, room) ==
    {i \in Incidents : /\ rows[i] # NoRow
                       /\ rows[i].category = category
                       /\ rows[i].status = "OPEN"
                       /\ room \in {rows[i].room, NoRoom}
                       /\ age[i] <= 1}

\* findDuplicates(): open incidents of the last 24 hours in the same category;
\* a report without a room matches the whole block.
FindDuplicates(category, room) ==
    {i \in Incidents : /\ rows[i] # NoRow
                       /\ rows[i].category = category
                       /\ rows[i].status \in {"OPEN", "IN_PROGRESS"}
                       /\ room \in {rows[i].room, NoRoom}
                       /\ age[i] <= 1}

\* The newest of them, which the query returns.
Newest(found) == {i \in found : \A j \in found : age[i] <= age[j]}

\* (mutant) The count is set instead of raised.
SetDuplicateCount(i) ==
    LET row == [rows[i] EXCEPT !.dups = 1]
    IN  /\ rows' = [rows EXCEPT ![i] = row]
        /\ hist' = [hist EXCEPT ![i] = @ \cup {row}]
        /\ UNCHANGED age

\* incrementDuplicateCount(): the database adds one to the current value.
IncrementDuplicateCount(i) ==
    LET row == [rows[i] EXCEPT !.dups = @ + 1]
    IN  /\ rows' = [rows EXCEPT ![i] = row]
        /\ hist' = [hist EXCEPT ![i] = @ \cup {row}]
        /\ UNCHANGED age

\* countRecentByUser() over the last hour.
RecentByUser(u) ==
    {i \in Incidents : rows[i] # NoRow /\ rows[i].creator = u /\ age[i] = 0}

\* A row leaves the one-hour window, then the 24-hour window.
GrowOld(i) == /\ rows[i] # NoRow
              /\ age[i] < MaxAge
              /\ age' = [age EXCEPT ![i] = @ + 1]
              /\ UNCHANGED <<rows, hist>>
=============================================================================
