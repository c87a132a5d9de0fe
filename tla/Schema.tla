------------------------------- MODULE Schema -------------------------------
(***************************************************************************)
(* The tables of the database and their foreign keys, in the order of the  *)
(* migrations (alembic/versions), and the scripts that fill them.          *)
(***************************************************************************)
EXTENDS Sequences, SequencesExt

\* A table: the tables that a row of it must refer to, and that it may refer to.
T(name, needs, may) == [name |-> name, needs |-> needs, may |-> may]

OrgOnly == {"organizations"}
Actor == {"users"}

Roots ==
    <<T("currencies", {}, {}), T("login_attempts", {}, {}), T("msic_codes", {}, {}),
      T("organizations", {}, {}), T("permissions", {}, {}),
      T("brands", OrgOnly, {}), T("categories", OrgOnly, {"categories"}),
      T("document_sequences", OrgOnly, {}), T("roles", OrgOnly, {})>>

\* users.default_warehouse_id gets its foreign key when warehouses is there.
People ==
    <<T("tax_rates", OrgOnly, {}), T("uoms", OrgOnly, {}), T("users", OrgOnly, {}),
      T("ai_call_logs", OrgOnly, Actor), T("audit_logs", OrgOnly, Actor),
      T("customers", OrgOnly, Actor)>>

Articles ==
    <<T("demo_reset_logs", {}, Actor),
      T("exchange_rates", OrgOnly \cup {"currencies"}, Actor),
      T("notifications", OrgOnly, Actor),
      T("role_permissions", {"permissions", "roles"}, {}),
      T("skus", OrgOnly \cup {"tax_rates", "uoms"},
        Actor \cup {"brands", "categories", "msic_codes"})>>

Places ==
    <<T("suppliers", OrgOnly, Actor), T("uploaded_files", OrgOnly, Actor),
      T("user_roles", {"roles", "users"}, {}), T("warehouses", OrgOnly, Actor)>>

Orders ==
    <<T("payments", OrgOnly, Actor \cup {"customers", "suppliers"}),
      T("purchase_orders", OrgOnly \cup {"suppliers", "warehouses"},
        Actor \cup {"uploaded_files"}),
      T("sales_orders", OrgOnly \cup {"customers", "warehouses"}, Actor),
      T("stock_adjustments", OrgOnly \cup {"warehouses"}, Actor)>>

Movements ==
    <<T("stock_movements", OrgOnly \cup {"skus", "warehouses"}, Actor),
      T("stock_transfers", OrgOnly \cup {"warehouses"}, Actor),
      T("stocks", OrgOnly \cup {"skus", "warehouses"}, {}),
      T("delivery_orders", OrgOnly \cup {"sales_orders", "warehouses"}, Actor),
      T("goods_receipts", OrgOnly \cup {"purchase_orders", "warehouses"}, Actor)>>

Ordered == {"skus", "tax_rates", "uoms"}

Invoicing ==
    <<T("invoices", OrgOnly \cup {"customers"},
        Actor \cup {"sales_orders", "uploaded_files", "warehouses"}),
      T("purchase_order_lines", Ordered \cup {"purchase_orders"}, {}),
      T("sales_order_lines", Ordered \cup {"sales_orders"}, {}),
      T("stock_adjustment_lines", {"skus", "uoms", "stock_adjustments"}, {})>>

Lines ==
    <<T("stock_transfer_lines", {"skus", "uoms", "stock_transfers"}, {}),
      T("credit_notes", OrgOnly \cup {"customers", "invoices"},
        Actor \cup {"uploaded_files"}),
      T("delivery_order_lines", {"skus", "uoms", "delivery_orders", "sales_order_lines"}, {}),
      T("goods_receipt_lines", {"skus", "uoms", "goods_receipts", "purchase_order_lines"}, {}),
      T("invoice_lines", Ordered \cup {"invoices"}, {"sales_order_lines"})>>

Settlement ==
    <<T("credit_note_lines", {"skus", "uoms", "credit_notes", "invoice_lines"}, {}),
      T("payment_allocations", {"payments"},
        Actor \cup {"credit_notes", "invoices", "purchase_orders"})>>

EventLogs == <<T("event_logs", {}, {})>>

Creation ==
    Roots \o People \o Articles \o Places \o Orders \o Movements \o Invoicing \o Lines
    \o Settlement \o EventLogs

Entries == ToSet(Creation)
Table == {e.name : e \in Entries}

Needs == [t \in Table |-> UNION {e.needs : e \in {x \in Entries : x.name = t}}]

\* The reference that is added by ALTER TABLE, from one table to another.
LateReference == <<"users", "warehouses">>

References ==
    [t \in Table |-> (UNION {e.needs \cup e.may : e \in {x \in Entries : x.name = t}})
                     \cup (IF t = LateReference[1] THEN {LateReference[2]} ELSE {})]

\* The order in which downgrade drops them.
Dropping ==
    <<"event_logs", "payment_allocations", "credit_note_lines", "invoice_lines",
      "goods_receipt_lines", "delivery_order_lines", "stock_transfer_lines",
      "stock_adjustment_lines", "stock_movements", "credit_notes", "invoices",
      "sales_order_lines", "purchase_order_lines", "goods_receipts", "delivery_orders",
      "stocks", "sales_orders", "purchase_orders", "payments", "skus", "suppliers",
      "customers", "notifications", "document_sequences", "exchange_rates", "audit_logs",
      "ai_call_logs", "uploaded_files", "demo_reset_logs", "stock_adjustments",
      "stock_transfers", "user_roles", "role_permissions", "warehouses", "users", "roles",
      "brands", "categories", "tax_rates", "uoms", "login_attempts", "permissions",
      "organizations", "currencies", "msic_codes">>

-----------------------------------------------------------------------------
(* Seeds: a step inserts the rows that are not there yet, given the rows    *)
(* that it looks up.  A script is a transaction.                            *)

Fill(tables, reads) == [tables |-> tables, reads |-> reads]

SeedOrg == Fill({"organizations"}, {})
SeedPermissions == Fill({"permissions"}, {})
SeedRoles == Fill({"roles", "role_permissions"}, {"organizations", "permissions"})
SeedUsers == Fill({"users", "user_roles"}, {"organizations", "roles"})
SeedWarehouses == Fill({"warehouses"}, {"organizations"})

SeedCurrencies == Fill({"currencies"}, {})
SeedTaxRates == Fill({"tax_rates"}, {})
SeedUoms == Fill({"uoms"}, {})
SeedBrands == Fill({"brands"}, {})
SeedCategories == Fill({"categories"}, {})
SeedMsicCodes == Fill({"msic_codes"}, {})

SeedSkus == Fill({"skus"}, {"brands", "categories", "uoms", "tax_rates", "users"})
SeedSuppliers == Fill({"suppliers"}, {})
SeedCustomers == Fill({"customers"}, {})
SeedStock == Fill({"stocks", "stock_movements"}, {"skus", "warehouses"})

SeedPurchases ==
    Fill({"purchase_orders", "purchase_order_lines"}, {"suppliers", "warehouses", "skus", "uoms"})
SeedSales ==
    Fill({"sales_orders", "sales_order_lines", "invoices", "invoice_lines"},
         {"customers", "warehouses", "skus", "uoms"})

\* seed_all_master.
Scripts ==
    <<<<SeedOrg, SeedPermissions, SeedRoles, SeedUsers, SeedWarehouses>>,
      <<SeedCurrencies, SeedTaxRates, SeedUoms, SeedBrands, SeedCategories, SeedMsicCodes>>,
      <<SeedSkus>>, <<SeedSuppliers>>, <<SeedCustomers>>, <<SeedStock>>>>

\* What the demo reset inserts; seed_transactional refuses to run twice, its
\* document numbers are fixed.
Reseed == <<SeedStock, SeedPurchases, SeedSales>>

Tables(script) == UNION {script[i].tables : i \in DOMAIN script}

\* Every step of a script finds what it looks up and what its rows refer to.
Runs(script, filled) ==
    \A i \in DOMAIN script :
       LET there == filled \cup Tables(SubSeq(script, 1, i - 1))
       IN  /\ script[i].reads \subseteq there
           /\ \A t \in script[i].tables : Needs[t] \subseteq there \cup script[i].tables
=============================================================================
