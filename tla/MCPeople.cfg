\* One account and two requests in flight; one address and a window of two ticks;
\* two workers and an officer of one department in weeks of two days of seven
\* slots; two assign commands and an alert command; four reports of a place in
\* three ticks of a window of two; every event, and two refusals; two
\* departments that summarise two days.
CONSTANTS
    Emails = {e1}
    Roles = {ADMIN, STUDENT}
    Names = {n1, n2}
    Calls = {c1, c2}
    FailureLimit = 5
    MaxFailures = 6
    MaxRenames = 1
    NoRow = NoRow
    Addresses = {a1}
    Limit = 2
    Window = 2
    MaxTime = 3
    MaxPerTick = 3
    DayLength = 7
    WeekLength = 2
    CheckInterval = 2
    BusinessStart = 2
    BusinessEnd = 5
    NoTime = NoTime
    Staff = {m1, m2, o1}
    d1 = d1
    m1 = m1
    m2 = m2
    o1 = o1
    Departments = {d1}
    Assignments = {x1}
    Categories = {"MAINTENANCE", "SECURITY", "OTHER"}
    Rosters <- AllRosters
    SLAWindow = 4
    MaxUpdates = 1
    MaxAssignments = 1
    NoStaff = NoStaff
    Workers = {w1, w2}
    AssignCommands = {k1, k2}
    AlertCommands = {k3}
    MaxInvocations = 4
    Nobody = Nobody
    HotspotThreshold = 3
    HotspotTTL = 2
    MaxReports = 4
    MaxHotspotTime = 3
    Never = Never
    Events = {"INCIDENT_CREATED", "INCIDENT_ASSIGNED", "INCIDENT_RESOLVED", "INCIDENT_ESCALATED",
              "INCIDENT_REOPENED_BY_FEEDBACK", "INCIDENT_REASSIGNED", "STAFF_UNDER_REVIEW",
              "FEEDBACK_RECEIVED"}
    MaxSendFailures = 2
    Divisions = {v1, v2}
    MaxDays = 2
    MaxOccurrences = 2
    MaxRestarts = 3
    Concurrency = 2
    NoJob = NoJob
    NoSummary = NoSummary
SPECIFICATION Spec
INVARIANTS
    GuessesBounded
    TokensMatchRows
    WindowIsExact
    ShiftsExact
    DutyOutlastsWindow
    NobodyFreerWasPassedOver
    UndoRestores
    AuditIsTrue
    HotspotNotMissed
    ObserversAreIndependent
    SilenceIsExplained
    SummariesAreWhole
PROPERTIES
    OldNamesLeave
CHECK_DEADLOCK FALSE
