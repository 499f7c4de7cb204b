SPECIFICATION Spec
CONSTANTS
    u1 = u1
    u2 = u2
    r1 = r1
    r2 = r2
    r3 = r3
    r4 = r4
    s1 = s1
    i1 = i1
    i2 = i2
    a = a
    Staff = {s1}
    Users = {u1, u2}
    Rooms = {a}
    NoOne = NoOne
    NoRoom = NoRoom
    Incidents = {i1, i2}
    NoRow = NoRow
    Requests = {r1, r2, r3, r4}
    Kinds = {"create", "assign", "resolve", "feedback"}
    Reports <- MixedReports
    MaxPerHour = 1
    MaxInFlight = 1
    MaxAge = 2
    MaxFaults = 0
    MaxAttempts = 2
    MaxStalls = 1
SYMMETRY Interchangeable
INVARIANTS
    SpamLimit
    DuplicatesCounted
PROPERTIES
    WritesAreTransitions
    CreatesAreNovel
CHECK_DEADLOCK FALSE
