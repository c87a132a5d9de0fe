# erp_os in TLA+

This directory specifies erp_os: the stock rows and the four families of
documents that move goods, the invoices, credit notes and e-invoices that follow
a sale, and the services they stand on - accounts, document numbers, domain
events, the quota of the AI features, master data, and the life of the database
itself. The modules are translated from `src/backend`; the checks are TLC runs on
small instances and proofs that TLAPS checks for every instance.

What makes this code worth specifying is one design decision. A request is one
database transaction on MySQL, under its default REPEATABLE READ. Handlers read
a document, check it in Python, and write it back through the ORM; no row is
locked while that happens (there is no `FOR UPDATE`, and no ORM version column).
The `stocks` table alone is changed by guarded UPDATE statements
(`WHERE version = ? AND on_hand >= ?`). So stock quantities are protected by the
database, while the documents are protected only as far as a conflict on a stock
row, a foreign key or a unique index happens to hit the same request. And what a
request does outside the database - at the tax authority, in Redis, in the
handlers of its events - is not undone when it rolls back. The models keep
exactly these divisions, and the properties ask how far they carry.

## 1. Inventory of the system

Sources are relative to `src/backend/app` unless they say otherwise.

| Component | State | Operations | Module | Status |
|---|---|---|---|---|
| Stock rows (`services/inventory.py`, `models/stock.py`) | `stocks`: on_hand, reserved, quality_hold, incoming, in_transit, version, costs | nine guarded UPDATEs, `_adjust_incoming` | StockRow, StockLedger | partly: costs left out |
| Sales orders, delivery orders (`services/sales.py`, `delivery_order.py`) | orders, lines, `qty_shipped`, delivery lines | create, update, confirm, cancel, ship | SalesFlow | modelled |
| Purchase orders, goods receipts (`purchase.py`, `goods_receipt.py`) | orders, lines, `qty_received`, receipt lines | create, update, confirm, cancel, receive | PurchaseFlow | modelled |
| Transfers (`stock_transfer.py`) | transfers, lines | create, update, confirm, ship out, receive, cancel | StockTransfer | modelled |
| Adjustments (`stock_adjustment.py`) | adjustments, lines | create, update, confirm, cancel | StockAdjustment | modelled |
| Request transactions (`core/deps.py`, `core/database.py`) | one session per request | commit after the handler, or roll back | all | modelled, as the shape of every action |
| E-invoices (`einvoice.py`, `tasks/einvoice.py`, `integrations/`) | invoices; documents at LHDN | draft, consolidate, submit, refresh, reject, finalise (read, scan), pending scan | EInvoice, Billing | modelled |
| Credit notes (`credit_note.py`) | credit notes, lines | create, submit, cancel | Billing | modelled |
| Domain events (`events/`) | queue per session, audit, notifications, event log | publish, drain after commit, handlers | Events | partly |
| Document numbers (`sequence.py`) | Redis counter, sequence rows | next number, recovery | Numbers | modelled |
| Logins, tokens (`auth.py`, `core/security.py`) | tokens in Redis | login, refresh, logout | Accounts | modelled |
| Users, roles (`routers/users.py`, `core/deps.py`) | users, their roles | create, update, delete; who may | UserAdmin, Access | modelled |
| Routers (`routers/`) | none | permissions, parsing | Access | partly: permissions |
| Demo reset (`demo_reset.py`) | all tables, reset log | truncate, reseed, log | Database | modelled |
| Migrations, seeds (`src/backend/alembic`, `src/backend/scripts`) | tables and foreign keys | upgrade, downgrade, seed | Schema, Database | partly: no columns |
| AI features (`ai_gate.py`, `quota.py`, `ocr.py`, `einvoice_precheck.py`) | Redis counter | gate, quota, scan of a document | Quota | partly |
| Master data | single rows; default tax rate, category tree | create, update, soft delete | MasterData | partly |
| Dashboard, reports (`dashboard.py`, `reports.py`) | a cache | queries | Events | partly: the cache |
| Moving average cost (`costing.py`) | none | average | | not modelled |
| Front end (`src/frontend`) | none the backend relies on | | | not modelled |

How the parts meet:

- The document services share the rows of `stocks`, and nothing else. Any two of
  them may work on one row in one instant.
- Delivery orders write to sales orders, and goods receipts to purchase orders,
  in the transaction that moves the stock. Credit notes return goods to the rows
  from which the invoiced orders were delivered.
- An e-invoice is drafted from a shipped order, or rolled up from many at the end
  of the month, lodged with the tax authority by an HTTP call inside the
  transaction, and closed by a Beat task or by a read.
- Every document takes its number from Redis before its transaction commits.
- Events are published inside the transaction and drained after the commit by
  requests; Celery tasks use sessions that nobody drains.
- The demo reset wipes the tables and Redis under all of them.

Where it is hard:

- *Overlap.* Every check on a document is a check on a snapshot.
- *Failure.* A rollback undoes every row, and nothing at the tax authority or in
  Redis. A crash loses the events in memory.
- *Several records of one thing.* A number is counted in Redis, in a table and in
  the documents; the dashboard is in a cache; menu, endpoints and forms each
  list the roles.
- *Time.* The opposition window ends for a read, a scan and a rejection at once;
  the quota changes its key at midnight.
- *Progress.* Closing an invoice is left to two periodic scans that swallow
  failures.

The full list of hazards, each at its line and with the properties that watch
it, is in `PROJECT.json`.

What makes each component correct: stock is never oversold nor negative; what a
document says was shipped, received or applied is what the stock movements say;
`reserved`, `incoming` and `in_transit` are what the open documents account for;
a status tells the truth; nothing is billed twice or credited beyond what was
billed; the ERP never claims a verdict that the tax authority did not give; every
validated invoice is closed; a number is given once; an entry of a committed
change is written unless its own handler fails; a login is one session; somebody
can administer the users; no row loses what it refers to.

## 2. The modules

```
StockRow          one row, and every UPDATE against it
  StockLedger     abstract: what commits may do to the table
  SalesFlow       -+
  PurchaseFlow     |  each implements StockLedger
  StockTransfer    |  for the families of statements it uses
  StockAdjustment -+
InvoiceLife       how the status of an invoice may change
  EInvoice        one invoice between the ERP and the tax authority: guarantees it
  Billing         invoices and credit notes of delivered orders: relies on it
Access            roles, endpoints, menu
AccountLife       how the row of a user may change
  UserAdmin       users and their roles, on Access too: guarantees it
  Accounts        logins, refresh tokens: relies on it
Numbers           document numbers
Events            after the commit: handlers, notices, dashboard cache
Schema            tables, foreign keys, seeds
  Database        migrations, seeds, resets
Quota             the gate and the daily quota of AI features
MasterData        default tax rate, category tree
  Services        StockLedger, Accounts, UserAdmin, Numbers, Events, Database,
                  Quota and MasterData side by side
StockRow_proofs, Services_proofs, SalesFlow_proofs, PurchaseFlow_proofs,
StockTransfer_proofs, StockAdjustment_proofs, Billing_proofs, EInvoice_proofs
MC*               instances for TLC
```

**StockRow** has two operators per helper of the inventory service: `XxxOK` is
the WHERE clause, `Xxx` the SET list. A false `XxxOK` is `rowcount == 0`, which
raises and rolls the request back. Quantities are integers because the columns
are DECIMAL(18,4), whole multiples of 0.0001. Costs, movements and events are
left out.

**StockLedger** is the abstract specification of the table. A step is the commit
of some request: any set of rows changes at once, each by one statement whose
guard held, on the row as it is. `Families` says which kinds of statement are in
use. `KeepsLedger` in each of the four document modules says that the module
implements it (the mapping is the identity on `stock`; documents, requests and
snapshots disappear).

**SalesFlow, PurchaseFlow, StockTransfer, StockAdjustment.** Each handler is two
actions. `Begin...` takes the snapshot - the document row, and the stock
versions - and makes the checks of the handler on it. The second action
(`ConfirmSO`, `CreateDO`, ...) evaluates every WHERE clause and constraint on the
current rows, writes, and commits; if a guard fails there is only `Rollback`,
which is possible at any time and stands for exceptions, deadlock victims, lost
connections and crashes alike. The details that decide the outcome are kept:

- a column is written as read plus change (`qty_shipped`), or only if it differs
  from what was read (the status of an order);
- `gen` is the identity of the line rows. An edit deletes the lines and creates
  others, so a delivery or receipt that refers to the old ones breaks its foreign
  key, and a second edit of the same lines breaks the unique line number;
- `ver` holds the versions of the stock rows as read, which the guarded
  statements compare;
- `delivered`, `received`, `out`, `landed`, `applied` are what the posted rows
  and movements add up to. They are the record against which the documents'
  own columns are judged.

A document has at most one line per SKU. Stock rows exist from the start with
zero in them (`_get_or_create_stock` inserts such a row when it is missing).
Sequence rows, which serialise the writers of new documents only after their
checks, change nothing here.

**InvoiceLife** lists the moves between the statuses of an invoice: `Moves`, which
the handlers intend, and `StaleMoves`, which they make besides when a refresh or a
read commits late. EInvoice is shown to keep to them (`StatusMoves`), and Billing,
which sees many invoices from further away, uses nothing else of it: `Stage` says
which statuses credit notes tell apart.

**EInvoice** has the invoice row, the documents that the authority holds for it,
and requests that talk to the authority between snapshot and commit. Steps at
the authority are not undone by `Rollback`. The pending scan is
`refresh_status` for the oldest SUBMITTED invoices in one transaction that skips
those that fail (`Skip`); the finalisation scan is one UPDATE. `Verdict`, the
decision of the authority, is the only external action. Time is counted in
ticks; a request sees at most one (an HTTP call gives up within seconds, the
window lasts 72 hours), and ages saturate just beyond the window, where the code
stops telling them apart.

**Billing** has orders with one delivered line each, invoices of both kinds, and
credit notes, over the same stock rows. The way of an invoice through EInvoice
appears as `Advance`, which changes its stage as InvoiceLife allows. Guards that the
database provides are kept apart from checks on the snapshot: `uq_inv_so` (one
invoice per order, migration `b2c3d4e5f6a7`) is in `GenerateDraft`, the version
of the stock row in `ReturnOK` and `UndoOK`. Requests name what they are about by
kind (an order, an invoice, a note), and the statements of one document against
one stock row count as one.

**Access** holds the roles of each router, the menu and what the forms load; `May`
is `require_role`. `Anyone` is `get_current_user` alone, which admits a user without
roles; `AnyRole` is `require_role` with all four, which does not.

**UserAdmin** has the rows of the users. A request reads the caller's row and the one
that it is about in one snapshot (`Begin`), and its commit (`Save`) writes what it
changed in them: a column, or a role to add or take away, that differs from what was
read. `AccountLife` says how a row moves between not being there, active, inactive and
deleted. UserAdmin is proved to keep to it, and **Accounts**, which sees of a user no
more than that, uses nothing else (`Administer`).

**Accounts** has the tokens in Redis, which change at once, whatever becomes of the
request. `login` of a token is the login it descends from by rotation. A refresh is
three steps (GET, DEL with the query for the user, SETEX), and between them fall the
steps of other requests: `Logout` of any token that was ever issued, `Flush` by a
demo reset, another refresh. The end of a token by its TTL is to the others what a
logout with it is. `ended` and `forked` are history: logins whose live token a logout
named while none was being rotated, and logins one of whose tokens two refreshes found.

**Numbers** keeps one counter three times, as the code does. What a request sees
of the tables is its snapshot (`Begin`); the number is drawn in Redis outside the
transaction (`Draw`), and committed with its document. `Disturb` marks the
requests that were in flight when Redis or the tables changed behind the back of
the service.

**Events** identifies a commit by its number. A commit puts the handlers of what
it published into the queue of its request; handlers run one by one, fail one by
one, and vanish when the process dies. The cache of the overview is a commit
number: which commit's figures it shows.

**Schema, Database** keep which tables exist and hold rows. `References` are the
foreign keys of the migrations. The reset truncates in the order of
`RESET_TABLES`, each table for good, with foreign keys off; `dangling` records the
pairs of tables where rows survive what they refer to.

**Quota** is one user and one day: the counter, what it handed out, and requests
between increment and decrement. **MasterData** has the two kinds of rows that
depend on each other.

Definitions marked *Variant* are faults that a change of the code might
introduce; no specification uses them.

## 3. Overlap

No handler locks its document, so any two operations may overlap on one
document. The constant `Overlap` names those that may do so in a run; operations
outside it run one after the other *on one document*, and everything overlaps
across documents. Some properties hold whatever overlaps, others only with a
restriction, and the restriction is part of what a run says:

| Property | Overlap allowed | What goes wrong beyond it |
|---|---|---|
| `NoOversell`, `KeepsLedger`, `TypeOK` | all | |
| sales `ShipmentsSafe` | all, if drafts keep their warehouse | an edit of the warehouse that commits late lets two deliveries use different rows; one `qty_shipped` is lost |
| `ReservationsExact` | edit, ship | two confirmations of one draft both reserve; two cancellations both release |
| sales `StatusTrue` | confirm, cancel, edit | run SalesSplitShipment; a cancellation read before a delivery overwrites its status |
| purchase properties | receive with receive | cancellations and confirmations as in sales; an edited warehouse lets a line be received twice; receipts of different lines each miss the other's |
| transfer properties | ship and receive | a stale confirmation makes a moving transfer shippable again; a stale cancellation ends it; two edits of one end each make both ends equal; receipts of different lines leave it IN_TRANSIT |
| adjustment properties | confirm with confirm | a stale cancellation or edit changes a confirmed document |
| invoice safety, `StatusMoves` | refresh, reject, view | two submissions lodge two documents, and the second UIN hides the first |
| `RejectionStands` | refresh and view in any way, or reject with reject; the scans always | a poll of the SUBMITTED invoice that commits after the opposition makes it VALIDATED again (section 6); a read begun before it turns REJECTED into FINAL |
| `StatusAdvances` (proved, in no run) | view with view, or reject with reject; the scans always | the same, and of two polls the later one turns FINAL into VALIDATED |
| `BilledOnce` | draft with draft (`uq_inv_so`) | a consolidation next to a draft, or to another consolidation, bills an order twice |
| `CreditBound` | credit with credit, cancel | run CreditTwice |
| `ReturnsMatch` | credit, cancel | a submission next to a cancellation revives a cancelled note |
| `OneTokenPerLogin` | all; it excuses the logins in `forked` | two refreshes of one token both rotate it |
| `LastAdministrator` | all | an administrator who gives up his role, or two who demote each other, leave none |
| `MastersSound` | all for tax rates, none for categories | a child is created while its parent is deleted |

Where receipts of one document may overlap the instance has one SKU: it is about
receipts of the same line, which the version of the stock row keeps apart.

## 4. The runs

| Run | Instance | What it shows |
|---|---|---|
| SalesConcurrent | 2 orders of 1 SKU, up to 2 units each for 2 in stock, 2 requests, everything overlaps, lines edited once | no oversell, shipments recorded and bounded, refinement |
| SalesSerial | 2 SKUs, 2 warehouses, 2 orders, drafts move and are edited, edits overlap | reservations exact, statuses true |
| SalesSplitShipment | 2 SKUs, deliveries overlap | violated: a fully shipped order stays PARTIAL_SHIPPED |
| Purchases | 2 orders, 2 warehouses, tolerance 50 %, receipts overlap | receipts recorded and bounded, `incoming` exact, statuses, refinement |
| Transfers | 2 transfers, 2 warehouses, ship and receive overlap | goods conserved, `in_transit` exact, ships once, lands no more, statuses, refinement |
| Adjustments | 2 documents, 2 rows, 3 requests, confirmations overlap | applied once, as written, iff confirmed; refinement |
| Billing | 2 orders of a retail customer in 2 warehouses, 2 invoices, 2 credit notes of one or two lines, 2 requests | billed once, credits bounded, returns made and undone once |
| CreditTwice | as Billing, payloads that repeat a line | violated: a customer is credited for more than was billed |
| EInvoices | 1 invoice, 2 documents, 2 requests and the scans, window of 1 tick | verdicts respected, rejections told, no early FINAL, no move beyond InvoiceLife |
| EInvoiceScans | 2 invoices, 1 request and the worker, refreshes and reads overlap, fairness | settled and closed in the end, rejections stand |
| EInvoiceResubmit | as EInvoices | violated: a lodged document is lodged again |
| Services | one part of eight, see below | the properties of the modules that stand alone |

**Services** runs eight specifications that share no state, one per behaviour
(`part` in `Services`); each of its properties is that of one part.

| Part | Instance | Property |
|---|---|---|
| ledger | 2 rows, the safe families, 4 statements per row | `TypeOK`, `NoOversell` |
| accounts | 1 user, 3 requests, 3 tokens | `OneTokenPerLogin` |
| users | 2 users, 2 requests of administrators | `LastAdministrator`, `RolesFit` (what is written can be read: all 16 sets of roles; the menu: the 15 with a role) |
| numbers | 2 requests, numbers up to 3 | `NumbersFresh` |
| events | 2 requests, 1 viewer, 2 commits after the first | `NothingForgotten`, `DashboardCatchesUp` |
| database | 45 tables, 2 jobs, 2 resets, 1 insert between | `ReferencesHold` |
| quota | 3 requests for a limit of 2, 5 scans a day | `QuotaExact` |
| masters | 2 tax rates, 2 categories, 2 requests | `MastersSound` |

**Bounds.** Two documents compete for goods that suffice for one and a half, so
reservations fail as well as succeed; two units per line make partial shipments
possible; two requests are what every race in the table above needs, and
Adjustments has three so that two confirmations can meet a third operation.
`MaxEdits` (lines replaced once) makes stale line rows possible. `MaxOnHand` and
`MaxReceipt` bound what can arrive. `MaxVersion` bounds the number of statements
per row of the ledger, whose `BoundedNext` is for TLC only. `MaxDocs = 2` is what
a second lodging needs. `Window` is a small number of ticks: only its boundary
matters. Purchases has a tolerance of 50 %, which for one or two units rounds to
a whole unit of excess, so that over-receipts occur. Billing needs two invoices
so that an order could be on both, and two notes so that one could be credited
against the other. In Services: three tokens are a login, its rotation and one
more of either, and three requests are two refreshes and a login; two
administrators are enough for each to take the other away; two requests and three numbers let one request draw what the
other has drawn; two commits after the first let one request's handlers run among
the other's; three requests for a quota of two make one too many, and five scans
let a refusal of one meet another; two resets can overlap, and one insert behind
the wipe is enough to leave a dangling row.

The overlap of a run need not be all that a property bears: the second column of
the table in section 3 is what the theorems of section 5 prove. SalesSerial lets
edits overlap, the one operation that both of its properties allow next to the
others; TLC has also confirmed each alone with the overlap of the table.

Deadlock is not checked: all documents may be closed and all edits used up.

**Fairness** is assumed in two runs. In Services it is weak fairness of `Expire`
alone: Redis honours the TTL of five minutes (`dashboard.py:74`). Nothing is asked
of handlers, requests or viewers, which may fail for ever, and commits are
bounded, so that the property speaks of the time after the last one. In
EInvoiceScans it says what the deployment provides: time passes; a user request ends, by commit or rollback (the HTTP
client gives up after three attempts of 30 s); Beat starts both scans
periodically (`tasks/celery_app.py`), so a scan that is possible for ever happens;
an answer that the scan could have it obtains in one of infinitely many attempts
(strong fairness of `Ask`); from some time on the worker no longer crashes in
every scan. The authority is never obliged to decide, and one of its documents
may have a status that fails every refresh. `PendingLimit` covers the backlog, as
100 does in practice: with a limit of 1 and an undecidable invoice in front,
`SettledEventually` fails, because the scan always takes the oldest first.

## 5. What is proved

Every theorem is about a specification that the runs check, for every value of
its constants (the two about the ledger are about `StockLedger`, unbounded). What a theorem needs beyond the `ASSUME`s of its module stands as a
hypothesis in its statement; such a hypothesis on `Overlap` is the row of the table in
section 3, and the runs use instances that satisfy it.

**Stock rows and the ledger** (`StockRow_proofs`, `Services_proofs`).
`StockRow_proofs` has a lemma per statement: it maps rows to rows under its guard,
counts the version up, and changes `available` by what it should. It also has the
facts about sums that the exactness theorems need: a sum over a finite set changes by
what one summand changes, splits at one element, and is zero if all are. They are
proved by induction over the subsets of the set, written out, because the provers
cannot use the induction theorems of the library. On these rest
`QuantitiesNonNegative` (whatever statements run in whatever order, no quantity column
but `incoming` becomes negative) and `SafeFamiliesNeverOversell`.

**The four flows.** Each of `SalesFlow_proofs`, `PurchaseFlow_proofs`,
`StockTransfer_proofs` and `StockAdjustment_proofs` proves `TypeOK` for every
`Overlap` and the refinement `Spec => Ledger!Spec`, step by step: a handler that
commits is a step of the ledger in which each row changes by one statement whose
guard held. Sales have `NeverOversold` besides. No run checks `TypeOK` of
transfers and adjustments: that their stock never becomes negative follows from
`KeepsLedger` and `QuantitiesNonNegative`, and the rest of it is typing.

Beyond these the question is always the same: a handler decides on a snapshot, so no
property of the documents is inductive on its own. The strengthening says of every
request in flight that *what it read still holds, or a guard will stop it*:

| Theorem | What is said of a request in flight |
|---|---|
| sales `ShipmentsAreSafe` (drafts keep their warehouse) | it has other line rows than the order has now (an older `gen`: the foreign key stops it), or, for each line, an outdated version of the stock row (the guarded UPDATE stops it), or the very `qty_shipped` of the line |
| `ReceiptsAreSafe` (the same, or only receipts overlap) | the same of `qty_received`, with the tolerance |
| `AdjustmentsAppliedOnce` (only confirmations of one document overlap) | a confirmation of a document that is confirmed already holds an outdated version of every row it would change |
| `MovedIsWritten` (only shipments and receipts overlap) | a shipment finds the transfer CONFIRMED, or a source row has moved on; each line of a receipt is as read, or the row it goes into has moved on |
| `GoodsAreAccounted` (the same) | besides, what a receipt has read as landed has landed |
| `OrdersBilledOnce` (the roll-up alone) | a draft's order is on no roll-up (on an invoice of its own `uq_inv_so` stops it); the orders of a roll-up are on no invoice, and it alone makes one |
| `ReturnsAreExact` (submissions alone) | its note is still a DRAFT, or it is a cancellation and a stock row of the note has moved on |
| `CreditsAreBounded` (the same, and no request repeats a line) | for each line, what it credits still fits under what is billed, or the row the goods return to has moved on |

What carries these invariants across the steps of other requests is in each case that
whoever changes the document column also counts up the version of the row that the
snapshot compares. It is why drafts must keep their warehouse: another warehouse is
another row.

For sales, `ReservationsAreExact` and `StatusIsTrue` divide the overlap between them.
Reservations are exact if confirmations and cancellations have their order to
themselves: edits find a draft, which reserves nothing, and a shipment writes a
status and quantities that may be outdated, but takes from the row exactly what it
adds to the lines, since for the lines it ships the version of the row says that it
has read the truth. Statuses are true if shipments have their order to themselves:
then nothing was delivered of an order on which any other request is in flight,
however these overwrite each other. Only one operation, the edit, may overlap in
both. `IncomingIsExact`
(only receipts overlap) and `GoodsAreAccounted` relate a column of a row to a sum
over all documents, for any finite number of them. `StatusIsTrue` of purchases and
transfers lets receipts overlap where documents have one SKU. `GoodsAreConserved` has
no hypothesis on overlap: the warehouses and the ways between them hold together what
there was at the start, whatever becomes of the documents. It is the part of
`GoodsAccounted` that survives every race.

**Billing** (`Billing_proofs`): the three theorems of the table, and `TypeCorrect`,
which says among other things that undoing a return never takes more than is on hand
and that every note names an invoice that exists.

**E-invoices** (`EInvoice_proofs`), submissions of one invoice apart but for
`TypeCorrect`: `VerdictsAreRespected`, `RejectionsAreTold`, `FinalIsAfterWindow`. The
invariant follows an invoice through its life, with what the authority holds at each
stage and what each request has been told; it has to allow for the step at the
authority that a rollback leaves behind. On its status there are three more:
`StatusKeepsItsMoves`, whatever overlaps but submissions; `RejectionsStand`, if a
rejection overlaps with no refresh and no read, since then none of these is at work
on an invoice that its buyer has rejected; and `InvoicesAdvance`, if moreover no two
refreshes overlap. The invariant of all three says where an invoice can have got to
since a request read it: a request that is about to write finds the status it read,
or a later one that it may follow.

**The services** (`Services_proofs`). `EachPart`: a behaviour of `Services` is one of
every part, so what is proved of a part holds of the whole.

- `LoginsHaveOneToken`, without a hypothesis: `[]OneTokenPerLogin`. The strengthening
  orders the tokens of a login that is not forked by their issue: only the last may
  live; a token that is being rotated is the last until it is revoked, and then its
  login has none, so that a failure between DEL and SETEX leaves fewer tokens and
  never more; two refreshes are about two logins.
- `LastAdministratorGoes`, for any sets of roles that are given: the invariant says of
  a request in flight what its checks on the snapshot have established, that on the
  caller's own account it neither deactivates nor deletes. So the caller, if he still
  administers the users when it commits and does not give up the role, does so
  afterwards. `AccountsAreLed` is what Accounts relies on: `UserAdmin!StandingsMove`,
  which TLC confirms and no run repeats. A commit that was read before a deletion does
  not undo it, since it writes the mark of deletion only if it sets it.
- `NumbersAreFresh`. The invariant separates the requests that began before the last
  disturbance from the others: the counter has passed whatever the seed of the
  others does not see.
- `QuotaIsExact`, for every limit and every finite set of requests. The counter
  covers the units handed out and the increments that will be taken back, up to
  `late`; and unless units are missing because Redis was lost, they are missing only
  when all are handed out. The second part is needed since a crash leaves an
  increment in the counter for good.
- `NothingIsForgotten`: however requests commit, their handlers fail and the process
  dies, what is owed to the trail waits, is written or has failed in its own handler.
  The invariant adds that a row is in one queue, once, so that running its handler
  leaves nothing of it waiting, and that no number of a commit is used again; and, for
  the notice of low stock, that an unread one counts for the present dip.
- `MastersAreSound`: one default tax rate at most, whatever overlaps, because
  `clear_default` clears what is there and not what was read; and the tree of
  categories is whole if `~Together` and `~Moves`.
- `ReferencesAreKept`, without a hypothesis: for any number of jobs, resets and
  inserts behind the wipe. It says that no migration or seed is refused, and that rows
  refer to lost ones only in the tables of `touched`, which requests or another reset
  filled behind the wipe; there they may. The invariant says that a script that is run
  by hand has the database to itself; that how far it has come says which tables are
  there, and which of them a seed has filled; and that a table which a reset has
  truncated, and which refers to another one it empties, stays empty or is touched. The
  facts about the data - that migrations, seeds and `RESET_TABLES` come in an order that
  the foreign keys allow - are lemmas over the 45 tables and the 28 that are wiped.
- `QuietResetsAreWhole`: with no inserts during a reset, and one reset at a time,
  nothing is touched, and so no row refers to a lost one at any moment.

**Assumptions.** Bounds are naturals, line sets are non-empty functions into the
naturals, sets of documents, warehouses and requests that are summed over or counted
are finite, the flags are Booleans, `Families` is a subset of the families that
exist. The code has all of that.

**Only model-checked.** `RolesFit` is about fixed data, the roles and what each may
call: TLC evaluates it for every set of roles, and it has no parameter that a proof
would generalise. The liveness properties (`SettledEventually`,
`ClosedEventually`, `DashboardCatchesUp`) need fairness and ENABLED, which are out of
the prover's reach. So is what a recursive definition computes for every input; no
module that is proved about declares one, and the sums are folds about which only the
facts above are used.

## 6. Findings

Three runs are expected to fail, and `PROJECT.json` quotes what each contradicts:
SalesSplitShipment (`delivery_order.py:223`), CreditTwice (`credit_note.py:184`)
and EInvoiceResubmit (`einvoice.py:396`). The other rows of the table in section 3
were found the same way, by widening `Overlap` until the property failed.

What else the models brought up, by module. None of it is a checked claim of a
run; each follows from the code at the line named.

- *Ledger.* `NoOversell` is checked and proved for the families of statements that
  look at reservations. `apply_transfer_ship_out` (`inventory.py:889`),
  `apply_adjustment_decrease` and `apply_sales_return_reverse` guard `on_hand` alone
  and take goods that confirmed orders have reserved, although
  `src/docs/ddl.sql:953` calls reserved stock locked by placed orders; add the
  families "ship", "count down" and "undo return" to `Families` and TLC shows it.
- *PurchaseFlow.* An over-receipt within the tolerance takes more out of `incoming`
  than the order put in (`inventory.py:156`), so the column becomes negative and
  stays so; `IncomingExact` counts such a line negative.
- *Billing.* An order invoiced after a partial delivery gets no second invoice for
  the rest (`einvoice.py:241` returns the first). A credit note that the authority
  has not answered stays SUBMITTED for ever: there is no refresh and no scan for
  it. Like an invoice it is lodged before the commit (`credit_note.py:328`).
  The consolidation leaves `qty_invoiced` alone.
- *EInvoice.* `refresh_status` looks for SUBMITTED in its own snapshot, waits for the
  authority and writes the verdict over whatever the row has become
  (`einvoice.py:472`). Of two polls of one invoice the first validates it, the buyer
  rejects it, and the second makes it VALIDATED again, although `einvoice.py:457`
  calls the endpoint safe to call from a polling UI. Let "refresh" and "reject"
  overlap, and TLC shows it against `RejectionStands`.
- *Accounts.* A wrong password is counted in the transaction that the failure
  rolls back, so accounts are never locked. `login` does not look at `is_active`;
  such a login gets tokens that no request and no refresh accepts. Two refreshes of
  one token at once both find it and both rotate it (`forked`), although
  `auth.py:515` calls a token one-time-use. A logout deletes the token it names and
  no other (`auth.py:545`): a client that never received the answer of its refresh
  names an older one, and the newer stays live; so does the one that a refresh under
  way is about to store. The front end posts no token with its logout
  (`src/frontend/src/hooks/useAuth.ts:27`), which the schema refuses, so that its
  logouts revoke nothing.
- *UserAdmin.* Only the two checks on the caller's own account protect the last
  administrator: he may drop his own role, and two administrators who demote,
  deactivate or delete each other at once both succeed. `LastAdministrator` says that
  these are the only ways.
- *Access.* A user may have no role (`schemas/users_admin.py:27` and an update with an
  empty list). The menu shows him stock and movements (`auth.py:180-205` names no
  roles), and `routers/inventory.py:57` and `:113` refuse him. `RolesFit` asks for the
  agreement of the menu only for users with a role.
- *Numbers.* Numbers of five digits are compared as text when the tables are
  searched for the greatest one, so that beyond 99999 only the sequence row keeps
  them apart. A number drawn by a request that was in flight when Redis was lost
  may be drawn again; the unique constraint then refuses one of the two.
- *Events.* Changes made by the worker leave no audit row, no event log and a stale
  cache. A validated credit note publishes its own id as that of an invoice
  (`credit_note.py:358`). Two handlers that look for a notice at once both write
  one. The event of a bulk finalisation has document id 0, which the audit handler
  skips.
- *Database.* The comment that `demo_reset_logs` is truncated separately at the
  end is not what `RESET_TABLES` does. A reset that dies leaves no log, or one
  that says RUNNING. A reset whose reseed fails after its first script commits
  what was flushed until then together with its log (`demo_reset.py:259`, no
  rollback before the merge); if it was a flush that failed, the session refuses
  the merge and there is no log. `seed_transactional` is not idempotent, and
  confirmed orders that it inserts have no reservations. Requests that write
  behind the wipe leave rows whose references are gone; `ReferencesHold` allows
  exactly those. Nothing keeps a second reset from starting.
- *Quota.* A unit is not given back when the upload or the model fails. A crash
  between increment and decrement costs the user nothing that day, since the quota
  is used up anyway, as `QuotaExact` says.
- *MasterData.* A category may be moved under a deleted one or below its own child
  (`Moves`), and be created under one that is being deleted (`Together`). Clearing the
  default of a tax rate leaves none.

## 7. Not modelled

- The columns for cost and the weighted average (`costing.py`): arithmetic on
  DECIMALs without control; no other part reads them.
- Prices, taxes, currencies, UBL documents (`myinvois_payload.py`), prompts and the
  parsing of what the model answers (`prompts.py`, `einvoice_precheck.py`): data.
- The figures of the dashboard and the reports: read-only queries.
- The other services of master data: single rows without a state machine.
- Trimming of the event log and the live stream of the developer page: best effort
  by design.
- The front end, but for what its forms load (`Access`).

## 8. Plan

1. *Composition.* The four flows and Billing on the same rows against `StockLedger`
   with all families, with `NoOversell` for warehouses that only sell and buy.
2. *Credit notes at the authority*, as EInvoice does it for invoices.
