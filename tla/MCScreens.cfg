\* One department, one change, two computations together, one fault; two loads
\* of a page together, of two editions; two emergencies, held for two ticks;
\* two messages, two opened chats; two alerts; one lost connection; two windows
\* of one browser, two people and two tokens.
CONSTANTS
    Departments = {d1}
    Campus = campus
    Requests = {r1}
    NoEntry = NoEntry
    MaxChanges = 1
    MaxBusy = 2
    MaxFaults = 1
    Selections = {s1, s2}
    Slots = {q1, q2}
    MaxEditions = 2
    MaxMoves = 1
    MaxFailures = 1
    reporter = reporter
    officer = officer
    admin = admin
    p1 = p1
    k1 = k1
    Tabs = {reporter, officer, admin}
    Role <- TabRoles
    MaxDrops = 1
    Panics = {1, 2}
    FullHold = 2
    NoPanic = 0
    Messages <- ChatMessages
    MaxOpens = 2
    AlertScopes <- ToCampusAndRole
    MaxRetractions = 2
    Windows = {w1, w2}
    People = {p1, p2}
    SessionCalls = {k1, k2}
    MaxTokens = 2
    Nobody = Nobody
SPECIFICATION ScreensSpec
INVARIANTS
    ShowsWhatWasAsked
    TakeoversEnd
    AnnouncedIffRecorded
    NothingElseIsLost
    AtMostRowAndPush
    RetractionsFollow
    ActsAsShown
PROPERTIES
    NothingOldReturns
    LivePageCatchesUp
CHECK_DEADLOCK FALSE
