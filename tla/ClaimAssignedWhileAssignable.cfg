SPECIFICATION Spec
CONSTANTS
    u1 = u1
    r1 = r1
    r2 = r2
    r3 = r3
    r4 = r4
    r5 = r5
    s1 = s1
    i1 = i1
    i2 = i2
    a = a
    Staff = {s1}
    Users = {u1}
    Rooms = {}
    NoOne = NoOne
    NoRoom = NoRoom
    Incidents = {i1}
    NoRow = NoRow
    Requests = {r1, r2, r3, r4, r5}
    Kinds = {"create", "assign", "resolve", "feedback"}
    Reports <- SecurityReport
    MaxPerHour = 5
    MaxInFlight = 3
    MaxAge = 0
    MaxFaults = 0
    MaxAttempts = 2
    MaxStalls = 1
SYMMETRY Interchangeable
PROPERTIES
    AssignedWhileAssignable
CHECK_DEADLOCK FALSE
