SPECIFICATION FairSpec
CONSTANTS
    u1 = u1
    r1 = r1
    r2 = r2
    r3 = r3
    s1 = s1
    i1 = i1
    Staff = {s1}
    Users = {u1}
    Rooms = {}
    NoOne = NoOne
    NoRoom = NoRoom
    Incidents = {i1}
    NoRow = NoRow
    Requests = {r1, r2, r3}
    Kinds = {"create", "assign", "resolve", "feedback"}
    Reports <- TwoReports
    MaxPerHour = 5
    MaxInFlight = 5
    MaxAge = 0
    MaxFaults = 1
    MaxAttempts = 2
    MaxStalls = 1
PROPERTIES
    RequestsAnswered
    OverdueIsHandled
    OverdueIsAnnounced
CHECK_DEADLOCK FALSE
