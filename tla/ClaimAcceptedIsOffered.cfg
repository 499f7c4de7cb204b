SPECIFICATION DetailSpec
CONSTANTS
    reporter = reporter
    officer = officer
    admin = admin
    NoOne = NoOne
    NoRoom = NoRoom
    Tabs = {officer, admin}
    Role <- TabRoles
    MaxDrops = 0
    Panics = {1}
    FullHold = 2
    NoPanic = 0
    AlertScopes <- ToCampus
    MaxRetractions = 0
    Staff = {officer}
    Users = {reporter}
    Rooms = {}
    Viewers <- Viewing
    Reporter = reporter
    Assignee = officer
INVARIANTS
    AcceptedIsOffered
CHECK_DEADLOCK FALSE
