SPECIFICATION Spec
CONSTANTS
    a = a
    Order = {o1, o2}
    Sku = {a, b}
    Warehouse = {w}
    Request = {r1, r2}
    Baskets <- PairBasket
    InitialOnHand = 1
    MaxOnHand = 1
    MaxEdits = 0
    EditWarehouse = FALSE
    Overlap = {"ship"}
SYMMETRY Symmetry
INVARIANT FullyShippedIsRecorded
CHECK_DEADLOCK FALSE
