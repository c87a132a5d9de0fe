SPECIFICATION Spec
CONSTANTS
    Transfer = {t1, t2}
    Sku = {a}
    Warehouse = {w1, w2}
    Request = {r1, r2}
    Baskets <- SmallBaskets
    InitialOnHand = 3
    MaxReceipt = 2
    MaxEdits = 1
    EditWarehouses = TRUE
    Overlap = {"ship", "receive"}
SYMMETRY Symmetry
INVARIANTS GoodsAccounted MovedAsWritten StatusTrue
PROPERTY KeepsLedger
CHECK_DEADLOCK FALSE
