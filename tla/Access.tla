------------------------------- MODULE Access -------------------------------
(***************************************************************************)
(* Which role may use which endpoint (require_role in the routers), and    *)
(* which entries of the menu a role is shown (services/auth.py).  A router *)
(* is a function from its operations to the roles that they admit.         *)
(***************************************************************************)
EXTENDS TLC

Role == {"ADMIN", "MANAGER", "SALES", "PURCHASER"}

\* get_current_user alone admits everybody who is logged in, with or without
\* a role; require_role with all four still asks for one of them.
Anyone == {"user"}
AnyRole == Role
Managers == {"ADMIN", "MANAGER"}
Sellers == Managers \cup {"SALES"}
Buyers == Managers \cup {"PURCHASER"}

\* require_role, or get_current_user alone, for the holder of some roles.
May(roles, admitted) == (roles \cup Anyone) \cap admitted # {}

Give(ops, roles) == [o \in ops |-> roles]

Read == {"list", "get"}
Write == {"create", "update"}

SalesOrders == Give(Read \cup Write \cup {"confirm", "cancel"}, Sellers)
DeliveryOrders == Give(Read \cup {"create"}, Sellers)
Invoices ==
    Give(Read \cup {"create", "precheck", "submit", "refresh"}, Sellers)
    @@ Give({"reject", "finalize scan", "pending scan", "consolidate"}, Managers)
CreditNotes == Give(Read \cup {"create", "submit"}, Sellers) @@ Give({"cancel"}, Managers)
Customers == Give(Read \cup Write, Sellers) @@ Give({"delete"}, Managers)

PurchaseOrders == Give(Read \cup Write \cup {"confirm", "cancel"}, Buyers)
GoodsReceipts == Give(Read \cup {"create"}, Buyers)
Suppliers == Give(Read \cup Write, Buyers) @@ Give({"delete"}, Managers)

StockTransfers ==
    Give(Read, AnyRole)
    @@ Give(Write \cup {"confirm", "ship out", "receive", "cancel"}, Buyers)

\* A variant of StockAdjustments: everybody may write, some may not read.
AdjustmentsUnread == Give(Write \cup {"cancel"}, AnyRole) @@ Give(Read \cup {"confirm"}, Managers)

StockAdjustments ==
    Give(Read, AnyRole) @@ Give(Write \cup {"cancel"}, Buyers) @@ Give({"confirm"}, Managers)
Inventory ==
    Give({"movements", "stocks"}, AnyRole) @@ Give({"branch matrix", "low stock"}, Buyers)

Skus == Give(Read, Anyone) @@ Give(Write, Buyers) @@ Give({"delete"}, Managers)
Warehouses == Give(Read, Anyone) @@ Give(Write \cup {"delete"}, {"ADMIN"})
Brands == Give(Read, Anyone) @@ Give(Write, Managers) @@ Give({"delete"}, {"ADMIN"})
Categories == Give(Read, Anyone) @@ Give(Write, Managers) @@ Give({"delete"}, {"ADMIN"})
Uoms == Give(Read, Anyone) @@ Give(Write, Managers) @@ Give({"delete"}, {"ADMIN"})
TaxRates == Give(Read, Anyone) @@ Give(Write, Managers) @@ Give({"delete"}, {"ADMIN"})
Currencies == Give(Read, Anyone) @@ Give(Write, {"ADMIN"})
ExchangeRates == Give(Read, Anyone) @@ Give(Write, Managers)

Reports == Give({"list"}, Managers)
Dashboard == Give({"list"}, Anyone) @@ Give({"refresh"}, Managers)
Notifications == Give({"list", "count", "mark", "mark all"}, Anyone)
AuditLogs == Give({"list"}, {"ADMIN"})
AI == Give({"purchase order scan"}, Anyone)
Administration == Give({"ai settings", "demo reset", "history", "events"}, {"ADMIN"})
Users == Give(Read \cup Write \cup {"reset password", "delete"}, {"ADMIN"})

Routers ==
    {SalesOrders, DeliveryOrders, Invoices, CreditNotes, Customers, PurchaseOrders,
     GoodsReceipts, Suppliers, StockTransfers, StockAdjustments, Inventory, Skus,
     Warehouses, Brands, Categories, Uoms, TaxRates, Currencies, ExchangeRates,
     Reports, Dashboard, Notifications, AuditLogs, AI, Administration, Users}

-----------------------------------------------------------------------------
(* The menu: an entry is shown to the holders of its roles if its parent is *)

Entry(parent, roles, admits) == [parent |-> parent, roles |-> roles, admits |-> admits]

Top(roles) == Entry("", roles, Anyone)

\* Per entry the roles it is for, and those that its list endpoint admits.
TradeMenu ==
    [dashboard   |-> Entry("", Anyone, Dashboard["list"]),
     purchase    |-> Top(Buyers),
     orders      |-> Entry("purchase", Buyers, PurchaseOrders["list"]),
     receipts    |-> Entry("purchase", Buyers, GoodsReceipts["list"]),
     ocr         |-> Entry("purchase", Buyers, AI["purchase order scan"]),
     suppliers   |-> Entry("purchase", Buyers, Suppliers["list"]),
     sales       |-> Top(Sellers),
     sold        |-> Entry("sales", Sellers, SalesOrders["list"]),
     delivery    |-> Entry("sales", Sellers, DeliveryOrders["list"]),
     customers   |-> Entry("sales", Sellers, Customers["list"]),
     einvoice    |-> Top(Sellers),
     invoices    |-> Entry("einvoice", Sellers, Invoices["list"]),
     creditNotes |-> Entry("einvoice", Sellers, CreditNotes["list"]),
     consolidate |-> Entry("einvoice", Managers, Invoices["consolidate"])]

OtherMenu ==
    [inventory   |-> Top(Anyone),
     skus        |-> Entry("inventory", Anyone, Skus["list"]),
     stock       |-> Entry("inventory", Anyone, Inventory["stocks"]),
     movements   |-> Entry("inventory", Anyone, Inventory["movements"]),
     transfers   |-> Entry("inventory", Buyers, StockTransfers["list"]),
     adjustments |-> Entry("inventory", Managers, StockAdjustments["list"]),
     matrix      |-> Entry("inventory", Buyers, Inventory["branch matrix"]),
     alerts      |-> Entry("inventory", Buyers, Inventory["low stock"]),
     reports     |-> Entry("", Managers, Reports["list"]),
     settings    |-> Top({"ADMIN"}),
     currencies  |-> Entry("settings", {"ADMIN"}, Currencies["list"]),
     taxRates    |-> Entry("settings", {"ADMIN"}, TaxRates["list"]),
     ai          |-> Entry("settings", {"ADMIN"}, Administration["ai settings"]),
     users       |-> Entry("settings", {"ADMIN"}, Users["list"]),
     warehouses  |-> Entry("settings", {"ADMIN"}, Warehouses["list"]),
     uoms        |-> Entry("settings", {"ADMIN"}, Uoms["list"]),
     brands      |-> Entry("settings", {"ADMIN"}, Brands["list"]),
     categories  |-> Entry("settings", {"ADMIN"}, Categories["list"]),
     admin       |-> Top({"ADMIN"}),
     devTools    |-> Entry("admin", {"ADMIN"}, Administration["events"]),
     demoReset   |-> Entry("admin", {"ADMIN"}, Administration["demo reset"]),
     auditLogs   |-> Entry("admin", {"ADMIN"}, AuditLogs["list"])]

Menu == TradeMenu @@ OtherMenu

\* _node_visible: a node is open to all if it names no role.
ForRoles(entry, roles) == May(roles, Menu[entry].roles)

\* _build_menu_for_roles drops the children of a node that is not visible.
Visible(roles) ==
    {m \in DOMAIN Menu : /\ ForRoles(m, roles)
                         /\ Menu[m].parent # "" => ForRoles(Menu[m].parent, roles)}

\* Who may save a document, and who may see what its form loads.
Form(writers, loads) == [writers |-> writers, loads |-> loads]
Forms ==
    {Form(SalesOrders["create"], {Customers, Skus, Warehouses, TaxRates, Uoms}),
     Form(PurchaseOrders["create"], {Suppliers, Skus, Warehouses, TaxRates, Uoms}),
     Form(DeliveryOrders["create"], {SalesOrders}),
     Form(GoodsReceipts["create"], {PurchaseOrders}),
     Form(CreditNotes["create"], {Invoices}),
     Form(StockTransfers["create"], {Skus, Warehouses}),
     Form(StockAdjustments["create"], {Skus, Warehouses})}

-----------------------------------------------------------------------------
(* What must hold *)

\* Whatever roles a user is given, what he may write he may read, together with
\* what the form for it loads; and if he has a role at all, each entry of his
\* menu opens a page that he may load, under a parent that he sees.
Allowed(roles, router, op) == op \in DOMAIN router => May(roles, router[op])

MenuOpens(roles) ==
    \A m \in Visible(roles) :
       /\ May(roles, Menu[m].admits)
       /\ Menu[m].parent # "" => Menu[m].parent \in Visible(roles)

WritersRead(roles) ==
    /\ \A router \in Routers, op \in Write :
          op \in DOMAIN router /\ May(roles, router[op])
             => \A o \in Read : Allowed(roles, router, o)
    /\ \A f \in Forms : May(roles, f.writers) => \A s \in f.loads : Allowed(roles, s, "list")

RolesFit ==
    /\ \A roles \in SUBSET Role : WritersRead(roles)
    /\ \A roles \in (SUBSET Role) \ {{}} : MenuOpens(roles)
=============================================================================
