SPECIFICATION Spec
CONSTANTS
    a = a
    Order = {o1, o2}
    Sku = {a}
    Warehouse = {w}
    Request = {r1, r2}
    Baskets <- SmallBaskets
    InitialOnHand = 2
    MaxOnHand = 3
    MaxEdits = 1
    EditWarehouse = FALSE
    Overlap = {"confirm", "cancel", "edit", "ship"}
SYMMETRY Symmetry
INVARIANTS TypeOK NoOversell ShipmentsSafe
PROPERTY KeepsLedger
CHECK_DEADLOCK FALSE
