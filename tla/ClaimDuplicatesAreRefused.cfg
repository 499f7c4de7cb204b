SPECIFICATION Spec
CONSTANTS
    u1 = u1
    r1 = r1
    r2 = r2
    r3 = r3
    r4 = r4
    r5 = r5
    s1 = s1
    i1 = i1
    i2 = i2
    a = a
    Staff = {s1}
    Users = {u1}
    Rooms = {a}
    NoOne = NoOne
    NoRoom = NoRoom
    Incidents = {i1, i2}
    NoRow = NoRow
    Requests = {r1, r2, r3, r4, r5}
    Kinds = {"create"}
    Reports <- CleanlinessReport
    MaxPerHour = 5
    MaxInFlight = 1
    MaxAge = 2
    MaxFaults = 0
    MaxAttempts = 2
    MaxStalls = 1
SYMMETRY Interchangeable
PROPERTIES
    DuplicatesAreRefused
CHECK_DEADLOCK FALSE
