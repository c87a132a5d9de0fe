SPECIFICATION ServicesSpec
CONSTANTS
    Cell = {c1, c2}
    Families <- SafeFamiliesValue
    InitialOnHand = 1
    MaxOnHand = 2
    MaxVersion = 4
    Holder = {"ann"}
    Slot = {1, 2, 3}
    MaxTokens = 3
    User = {"ann", "bob"}
    Founder = "ann"
    Grants <- GrantsValue
    Administrator = {1, 2}
    Drawer = {1, 2}
    MaxNumber = 3
    Writer = {1, 2}
    Viewer = {1}
    MaxCommits = 3
    Job = {1, 2}
    MaxInserts = 1
    MaxResets = 2
    Scanner = {1, 2, 3}
    Limit = 2
    MaxScans = 5
    Editor = {1, 2}
    Rate = {"SST", "exempt"}
    Category = {"tools", "drills"}
    Root = "root"
    Together = FALSE
    Moves = FALSE
INVARIANTS TypeOK NoOversell OneTokenPerLogin RolesFit NumbersFresh NothingForgotten ReferencesHold QuotaExact MastersSound
PROPERTIES DashboardCatchesUp LastAdministrator
CHECK_DEADLOCK FALSE
