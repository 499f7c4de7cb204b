SPECIFICATION Spec
CONSTANTS
    u1 = u1
    r1 = r1
    r2 = r2
    r3 = r3
    r4 = r4
    s1 = s1
    i1 = i1
    Staff = {s1}
    Users = {u1}
    Rooms = {}
    NoOne = NoOne
    NoRoom = NoRoom
    Incidents = {i1}
    NoRow = NoRow
    Requests = {r1, r2, r3, r4}
    Kinds = {"create", "assign", "resolve", "feedback"}
    Reports <- SecurityReport
    MaxPerHour = 5
    MaxInFlight = 5
    MaxAge = 0
    MaxFaults = 2
    MaxAttempts = 2
    MaxStalls = 1
SYMMETRY Interchangeable
INVARIANTS
    TypeOK
    IInv
    RowsCoherent
    AnswersAreRecorded
    SpentTimerWasJustified
    EscalationAnnouncedOnce
    SilentEscalationNeedsCrash
    CreatedHasTimer
PROPERTIES
    WritesAreSnapshots
    EdgesUnlessStale
CHECK_DEADLOCK FALSE
