SPECIFICATION Spec
CONSTANTS
    Invoice = {i1}
    Request = {r1, r2}
    Beat = beat
    Window = 1
    MaxDocs = 2
    PendingLimit = 1
    Overlap = {"refresh", "reject", "view"}
INVARIANT LodgedOnce
CHECK_DEADLOCK FALSE
