SPECIFICATION FairSpec
CONSTANTS
    Invoice = {i1, i2}
    Request = {r1}
    Beat = beat
    Window = 0
    MaxDocs = 1
    PendingLimit = 2
    Overlap = {"refresh", "view"}
INVARIANT RejectionStands
PROPERTIES SettledEventually ClosedEventually
CHECK_DEADLOCK FALSE
