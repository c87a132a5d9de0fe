SPECIFICATION Spec
CONSTANTS
    o1 = o1
    o2 = o2
    o3 = o3
    a = a
    s = s
    w1 = w1
    w2 = w2
    Order = {o1, o2}
    Customer = {a}
    Retail = {a}
    Sku = {s}
    Warehouse = {w1, w2}
    CustomerOf <- Customers
    SkuOf <- Skus
    WarehouseOf <- Warehouses
    Request = {r1, r2}
    Payloads <- RepeatedLine
    Ordered <- Quantities
    MaxInvoices = 2
    MaxNotes = 1
    Overlap = {"draft", "credit", "cancel"}
SYMMETRY Symmetry
INVARIANT CreditBound
CHECK_DEADLOCK FALSE
