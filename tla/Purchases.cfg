SPECIFICATION Spec
CONSTANTS
    Order = {o1, o2}
    Sku = {a}
    Warehouse = {w1, w2}
    Request = {r1, r2}
    Baskets <- SmallBaskets
    Tolerance = 50
    MaxReceipt = 3
    MaxEdits = 1
    EditWarehouse = TRUE
    Overlap = {"receive"}
SYMMETRY Symmetry
INVARIANTS TypeOK ReceiptsSafe IncomingExact StatusTrue
PROPERTY KeepsLedger
CHECK_DEADLOCK FALSE
