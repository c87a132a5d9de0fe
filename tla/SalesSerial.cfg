SPECIFICATION Spec
CONSTANTS
    a = a
    Order = {o1, o2}
    Sku = {a, b}
    Warehouse = {w1, w2}
    Request = {r1, r2}
    Baskets <- MixedBaskets
    InitialOnHand = 2
    MaxOnHand = 2
    MaxEdits = 1
    EditWarehouse = TRUE
    Overlap = {"edit"}
SYMMETRY Symmetry
INVARIANTS ReservationsExact StatusTrue
CHECK_DEADLOCK FALSE
