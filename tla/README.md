# Verification of smebuze

TLA+ models of the smebuze API, the TLC runs that check them on small instances,
and theorems about them that TLAPS proves for every value of the constants.

smebuze is business software for small Indian companies: a NestJS API over
Postgres (`apps/api`, 33 000 lines), a Next.js website, a Flutter client and a
set of SQL migrations. All state that matters is in Postgres; the API processes
keep next to none, save a shop's counter, whose browser keeps the bills it could not
send. Its tests start the application and ask for its health, so
nothing in the repository exercises two requests at once. That is where this
project looks: what a handler reads, awaits and writes, and who may come between.

## The system

| part | state | operations | what is hard | what makes it correct |
| --- | --- | --- | --- | --- |
| Receivables (`sales.service`, `payu.service`, `payu-return.service`) | `sales_invoices`, `invoice_payments`, notes | desk payment, club receipt and its reversal, credit and debit note, counter return, edit, delete, PayU checkout and return | ten handlers over one balance, two of which lock rows and eight of which do not; repeated gateway returns | paid amount = receipts that stand, where rows are locked; no receipt above what is due; a receipt is whole or absent; what is deleted has none; what a receipt checked holds when it commits |
| Ice-crest stock (`sales.service`, `inventory.service`) | `stocks`, `stock_reservations`, `sales_orders` | order reserves, bill consumes, cancel releases; counter and production move the same rows | SERIALIZABLE beside READ COMMITTED on the same rows | reserved = what active reservations still hold; reserved never above quantity |
| Issuing (`sales.service`, `document-series`) | `sales_invoices`, `tenants.settings`, `delivery_challans`, `recurring_invoices` | issue by hand, for challans, from a schedule; set the series; deliver a challan | limit and links checked long before they are used; numbers given by three rules; a run that is cut short | numbers of a series only grow; the limit is passed by no more than charges and what came in between; no date skipped; a challan shows only an invoice it is linked to |
| Counter, its outbox and the stock it sells (`pos` pages, `counter-desk`, `sales.service`, `inventory.service`, `hub.service`, `purchase.service`) | browser's outbox, `sales_invoices`, `stocks`, `hub_orders`, supplier bills | ring up, queue, sync; delete; receive | lost replies, closed pages, restarts, two pages, stock written from old copies | a bill promised to be sent is never forgotten; stock is accounted for by documents |
| Mall and settlement scheduler (`marketplace`) | orders, settlements, delivery jobs | checkout, pay, deliver, build settlements | timer beside administrator, gateway returns repeated, whole-row saves | an order is settled once, after its term; a paid order is settled in the end |
| Workspace licence (`billing`, `commerce`, `platform`, `partners`, `tenant`) | `tenants`, `tenant_commerce_settings`, subscription payments, commissions | checkout, return, screenshot, approve, reject, offline, grant, pause, settings, mall switch | extension and payment saved apart; a dozen savers of one JSON column | a payment extends once; a setting keeps what it does not name |
| Payroll (`hr.service`, expenses of `ice-crest.service`) | `payroll_runs`, `payroll_lines`, `business_expenses` | draw up a month's slips, finalize them, pay them | both read the run before their transaction; only unique keys tell them apart | a salary is booked once, a finalized run as its slips say, and nothing paid beyond that |
| Restaurant floor | tickets, tables | order, kitchen, bill, transfer | several tablets on one table | one open ticket a table, billed once |
| Other inventory, purchase, accounting, transport, growth, CRM | their own tables | mostly one row at a time | some totals kept beside rows | totals = rows |
| Authentication | users, tokens, codes | login, reset, invite | codes used once | — |
| Reports, search, audit, mail, AI, backup, other pages, mobile, scripts | none, or a log | reads and output | — | — |

Parts meet in the database. `counterReturn` and `deleteInvoice` call the
inventory; every document asks for a number and for the period lock in
`tenants.settings`; gateways call back over HTTP. Nothing is sent through a queue.

How Postgres is modelled, everywhere: a handler is a process and every statement
it awaits outside a transaction is one step, so any other handler may run between
two of them. TypeORM's `save` is two such steps: it reads the row again and then
writes the columns on which the copy in memory differs, so it also puts back old
values of columns it never meant to touch. `update` writes the columns it names.
READ COMMITTED is the default; a transaction's writes appear at its commit.

## Modules

### Receivables

What a tenant is owed. Variables `invoice`, `rows`, `notes`, `restored` and
`movements` are the tables; `lock` the row locks, `conns` the pooled connections
transactions hold; `closed` whether the month of the "old" dates is locked; the
rest are the program counters and local variables of the handlers.

| handler | actions |
| --- | --- |
| `recordPayment` | RecordPayment, CheckBooks, ReadNotes, InsertPayment, UpdatePaid |
| `receiveClubPayment` | ReceiveClubPayment, LockRow (each invoice), AllLocked, CheckLine (each), CommitReceipt |
| `deleteReceipt` | DeleteReceipt, CheckRowBooks, LockRow, AllLocked, CheckLine, CommitReversal |
| `createCheckoutOrder` | CreateCheckout, InsertPayment |
| `handleReturn`, `verifyAndApplyInvoice`, `recordPaymentByInvoiceId` | PayuReturn, GatewayDup, DropPending, Reread, Redup, ReadNotes, InsertPayment, UpdatePaid |
| `createCreditNote`, `createSalesDebitNote` | CreateNote, CheckNoteBooks, ReadForNote, ReadNotesForCredit / ReadNotesAfterDebit, InsertNote, UpdateNoteStatus |
| `counterReturn` | CounterReturn, CheckReturn, the credit note's actions, RestoreStock, RecordMovement |
| `deleteInvoice` | DeleteInvoice, CheckBooks, ReadNotes, RestoreStock, RecordMovement, LoadForSave, SaveInvoice |
| `updateInvoice` | UpdateInvoice, CheckBooks, LoadForSave, SaveInvoice, Retotal |

A statement that writes an invoice, or inserts a row whose foreign key refers to
it, waits while a transaction holds that invoice FOR UPDATE (`Writable`).
`noteTotals` and the period-lock check run outside the transaction's own manager
even when called from within it, so a transaction needs a second connection of
the pool (`Free`). DeadlockVictim is Postgres aborting one of a circle of waiters;
Crash the loss of the process.

Money is in paise. Amounts of the runs are chosen so that two payments exceed a
bill together, one fits within the rounding slack of five paise, and one does not.

Left out or simplified: issuing invoices (they exist at the start); the number a
note takes (document series); lines of an invoice, of which only the total and
whether stock was deducted matter; the gateway's own verification (external: the
return that is modelled is one the gateway confirmed); `noteTotals`' two queries
are one step, as are the two date checks of an edit; the smallest partial
payment a tenant may set is taken as one rupee.

A module of this project holds, beside a definition, a faulty form of it where a
plausible slip would break a property: `AboveNet` beside `AboveDue`, `ReadRow` (no
FOR UPDATE) beside `LockRow`, and so on. They are used only to confirm that each
property fails when the code is wrong in that way.

### ReceiptLedger

What the receipts promise, without handlers: a receipt is posted in one step to
all its invoices, is taken back whole, and a balance moves by exactly what its
receipts say. `Receivables!ImplementsLedger` maps `paid_amount` to `balance` and
the posted payment rows, grouped by receipt, to `receipts`. It holds of receipts,
reversals and notes as long as no reversal reads rows that another is to delete
(`ReversalsApart`); what two reversals of one receipt do is said under Runs.

### IceCrestStock

Tenants that make ice reserve stock when an order is confirmed and take it when
it is invoiced. Variables `stock`, `holds` (`stock_reservations`), `order` and
`moved` (what the movements of an item add up to) are the tables, `lock` the rows
held FOR UPDATE; the rest are each call's label and locals. An order is known by
the call that placed it.

| handler | actions |
| --- | --- |
| `createIceCrestSalesOrderTransactional` | PlaceOrder, LockStock (each item), CommitOrder |
| `createIceCrestInvoiceTransactional` | Invoice or InvoiceOrder, LockStock, CommitInvoice or CommitOrderInvoice |
| `updateSalesOrder`, status cancelled | CancelOrder, LockHeld, CommitCancel |
| `recordMovement` with `receiveStock` or `deductStock` | EnterMovement, LoadForSave, WriteStock, RecordMovement |

Orders and invoices are SERIALIZABLE, which Postgres implements with a snapshot.
`stale` holds what other transactions changed since a call's snapshot: locking a
row in it fails (first updater wins), so does an order's invoice that committed
after another of the same order, each having counted the reservation the other
wrote (`NoSkew`). The reservation is read from the snapshot (`held`), the stock row
under its lock (`mine`). Whatever else Postgres may refuse, deadlocks included, is
RolledBack. Cancelling runs READ COMMITTED: it waits for a lock and reads the
latest row, and read its reservations before the transaction began.

`save` of a movement compares its copy with the row it reads again: the quantity
is always written (decimals are strings, and '5' differs from '5.0000'), reserved
only when someone changed it meanwhile, and then back to the old value.

Simplified: one tenant, warehouse and batch; no number is allocated; 'rejected'
is merged with 'cancelled'; a movement's process is not lost between its stock
and its movement; an 'opening' or 'adjustment' movement is an inward one, as in
the code. Deleting an ice-crest invoice is not in it.

### StockBook

The promise behind reservations: stock is promised to an order only while free,
sold only while free or from the order's own promise, and a promise ends when
taken or given up. `IceCrestStock!ImplementsStockBook` maps a row's quantity to
`quantity` and what an order's active reservations still hold to `promised`;
the reserved column does not occur in it, so the step that sells what is free is
really checked against the sum of the promises.

### MallSettlement

The platform collects the money for mall orders and settles with the sellers.
Variables `order` (`marketplace_orders`), `jobs`, `settlements` (each the set of
orders it adds up) are the tables; `forms` says whose buyer holds a PayU form;
`hour` and `ran` (whether `lastRunKey` is today's) drive the scheduler; the rest
are each call's label and locals. `paidFor`, the time since an order was first
paid, is kept by no table: the code takes `updated_at` for it.

| handler | actions |
| --- | --- |
| `checkout` | Checkout, InsertJob, PayAfterCheckout, then as `createMallPayuCheckout` |
| `createMallPayuCheckout` | Pay, LoadForSave, WriteOrder |
| `handleReturn`, `markMallPaidById` with `markMallPaid` | PayuReturn or MarkMallPaidById, LoadForSave, WriteOrder |
| `patchDeliveryJob`, the job delivered | Deliver, LoadForSave, WriteOrder |
| `buildOpenSettlements` for `build`, `runNow` and the scheduler's `tick` | BuildOpenSettlements or Tick, SettleSeller (each seller), StampOrder, LoadForSave, WriteOrder (each order), EndBuild |

A handler changes fields of the entity it read (`copy`) and saves it. Save reads
the row again and writes the columns that differ; `updated_at` is one of them, so
a copy older than the row also puts back an older `updated_at`, and otherwise the
row is stamped with the time of the write (age 0).

Simplified: amounts are left out, a settlement being the orders it adds up; a
transaction id is only there or not, since a return is matched by the order's id;
so is the reference of a payment. A delivery job's own status is not kept: any
patch that leaves it 'delivered' is Deliver. What `checkout` writes before the
mall order (customer, sales order) is not in it. Handlers take no time that
counts in hours, so HourPasses waits until none runs. `settle_days` does not
change. `mall.service.markOrderPaid` is called by nothing. Of the scheduler's
settings only the daily cadence is modelled: with the weekly one a build waits for its
day of the week, and MARKETPLACE_SETTLEMENT_FORCE runs one at boot, which to the orders
is an administrator's `runNow`.

### Workspace

What a tenant bought from the platform. `db` holds its row of `tenants`, its row of
`tenant_commerce_settings` and one row for each payment, all of them one wide record
whose columns each table uses its own of; `forms` says which payer holds a PayU form;
`commissions` counts rows of `platform_commissions`; `applied` and `grants`, kept by
no table, count extensions.

| handler | actions |
| --- | --- |
| `createPayuCheckout`, `createAddonOrder` | Checkout, HandOutForm |
| `submitManualPaymentProof` | Submit, InsertProof |
| `handleReturn`, `markPaid` | PayuReturn, ExtendPlan, SettlePayment, LookForCommission, EarnCommission |
| `handleReturn`, `markAddonPaymentPaid`, `activateAddon` | PayuReturn, ActivateAddon |
| `approvePaymentProof` | Approve, then as `markPaid`, SeeActive, ConfirmApproval |
| `rejectPaymentProof` | Reject |
| `recordOfflinePayment` | RecordOfflinePayment, then as `markPaid`, SeeActive |
| `activateLicence`, savers of `tenants.settings`, `tenant.update`, `patchSettings` | ActivateLicence, SaveSettings, Pause, PatchSettings |
| every `save` | LoadForSave, WriteRow |

A handler reads a row, changes the copy and saves it; `dirty` are the columns on
which copy and row differ when save reads the row again. The settings are one
column: a map from keys to versions, so an old copy puts every key back.

Simplified: `activateLicence` always names an interval; of what an administrator's
`tenant.update` may change only the pause is modelled, not the plan, its end or the
active flag set by hand; gifts and free add-ons,
mandates and their dues are not in it; the workspace was brought by a partner, so
each payment earns a commission where the code records one.

### Licence

The promise behind it, without handlers: a payment counts once, an extension starts
where the last one ends or now, one setting changes at a time, at most one screenshot
waits. `Workspace!ImplementsLicence` maps the rows to it.

### Issuing

`invoices` (in the order they were inserted), `start` (the series in
`tenants.settings`), `next` (`next_run_at`), `challan` and `links`
(`invoice_delivery_challans`) are the tables, `lock` the tenant's row. Kept by no table
are `begun` (a schedule's first date), `deducted` (how often a challan's lines were
taken from stock) and `added`: for an invoice that was held to the credit limit and is
not yet written, what the customer has come to owe meanwhile by anything else.

| handler | actions |
| --- | --- |
| `createInvoice` | CreateInvoice, NumberGiven or AllocateDocumentNumber and ReadNumbers, InsertInvoice, WriteTotal |
| `createInvoiceFromChallans` | CreateInvoiceFromChallans, the same, LinkChallan and MarkChallan (each) |
| `createRecurringInvoice`, `runDueRecurringInvoices` | CreateRecurringInvoice; RunDueRecurringInvoices, RunOne (each due row), the same, Advance, EndRun |
| `updateDeliveryChallan` | UpdateDeliveryChallan, LoadForSave, WriteChallan, DeductChallan |
| `saveDocumentSeries` | SaveDocumentSeries |
| the handlers of Receivables | LowerDue (payments, credit notes), RaiseDue (debit notes, reversed receipts, edits) |

`allocateDocumentNumber` locks the tenant's row, reads the numbers there are and
takes the next; the invoice is inserted in the same transaction. A number given by
hand, to `createInvoice` or to `createInvoiceFromChallans`, takes no lock, and the
unique index decides. The credit limit is asked of the sum of the lines with their tax
(`WithinCredit`); the total written later adds shipping and other charges and takes the
discount off (`BillTotal`).

Simplified: one customer, one company, one series with one prefix and year, so that a
number is its place in the series (a number made from the clock is 0 and new); dates
count periods of the schedule, not days of a calendar. A limit is above zero: one of
zero is none to the code. Dues are raised only while an invoice on credit is between
its check and its total (`RaiseMatters`): at any other time a larger invoice does the
same. Expenses, loyalty points and the invoice's stock are not in it (the stock is in
Counter).

### Counter

The device: `cart` (what became of each bill), `outbox` (`localStorage`), `desk` (a
sale or a sync in progress). The server: `invoices`, `stock`, `order` (`hub_orders`),
`bought` (supplier bills that received stock), `call` (handlers in progress).

| code | actions |
| --- | --- |
| `pay` of both counter pages, `queueBill` | Pay, PostInvoice, HearInvoice, PostPayment, HearPayment, Lose, ClosePage |
| `syncOutbox` | SyncOutbox, NextBill (each), the same, EndSync |
| `createInvoice` with `deductStock` | InsertInvoice, ReadStock and DeductStock (each line), StampInvoice |
| `recordPayment` | RecordPayment |
| `deleteInvoice` | DeleteInvoice, ReadForReceipt and ReceiveStock (each line), EraseInvoice |
| `createOrder`, `adminPatchOrder`, `receiveOrder` | PlaceOrder; PatchOrder, SaveOrder; ReceiveOrder, ReadForReceipt, ReceiveStock, CloseOrder |
| `createVendorInvoice` | CreateVendorInvoice, ReadForReceipt, ReceiveStock, EndVendorInvoice |

A request may be lost before it is served or its answer after (Lose), the page closed
(ClosePage), the server restarted (Crash). A handler goes on when nobody waits for it.

Simplified: a line is one unit; the outbox is a set (its order does not matter to what
is sent); a payment is of the whole bill, and a bill counts as paid once its payment is recorded
(the page rounds tax by the line and the server cgst and sgst apart, so an invoice may
be left partial by a few paise, and its bill has gone from the outbox all the same); of a hub order's statuses only whether it is
placed and whether it may be received matter; `adminPatchOrder`'s save is one step.

### Payroll

One month of a tenant with several companies. Variables `status`, `lines` and
`expenses` are the tables (a row of the last is known by the call that booked it and
the employee); `locked` the expense held FOR UPDATE. `handed` adds up what was paid on
an expense, and `skipped` are the companies a run of which was finalized with a salary
of nothing; no table keeps these two.

| code | actions |
| --- | --- |
| `generatePayroll` | GeneratePayroll (what it reads first), DeleteLines (the DELETE is issued), ReplaceLines (it has what it waited for: the new lines, and its save reads the run again), SaveRun (the rest, and the commit) |
| `finalizePayroll` | FinalizePayroll (what it reads first), BookSalaries (its transaction) |
| `recordExpensePayment` | RecordExpensePayment (the locking read and the check), SavePayment |

Under READ COMMITTED a DELETE takes the lines that were there when it was issued: if it
has to wait for another call that replaces them, the lines that call adds stay. So
DeleteLines keeps the lines as they were (`copy`), and ReplaceLines, enabled when nobody
holds a line, a key or the new run it has to wait for (`WaitsFor`), is refused if one of
its staff has a line it did not delete (`LineExists`, the unique key of a run's
employee) or the run has been made meanwhile (`RunExists`).

BookSalaries is one step: what it writes, it writes before anyone else can see it, and
it waits for a call that deletes a line it books. Two things make it fail, and both are
the schema's: `uq_business_expense_number`, for the number of an expense is made of the
month and the slip's place in the run alone; and `payroll_lines.payroll_run_id`, which
may not be null, when TypeORM's save of the run finds lines of it that the call had not
read and takes them away from it. A salary of nothing is passed over (`PassesOver`):
its slip's number books no expense. A call that waits for another's rows and then finds
its key taken ends in RolledBack.

Simplified: who is active and what attendance, leave and components come to is an
input, any staff and any net, nothing included; a payment's journal entry, written
beside the transaction whether or not that commits, is left out.

## Runs

| run | question | answer |
| --- | --- | --- |
| serial | do requests served one at a time keep the books? | yes: stock, status and deletes, over every order of four calls of seven kinds |
| locked | are the row locks enough when club receipts overlap each other, reversals of other receipts and notes, with a crash, and does every handler end? | yes: they implement ReceiptLedger, and all end given one connection more than the transactions hold |
| mixed | with all ten handlers two at a time, and a crash, what survives? | a receipt's locked rows stay as read, it posts exactly its parts, its rows come and go whole, and what it checked is still so when it commits |
| gateway | does a repeated or late PayU return, or one that was cut short, book a checkout twice, or above the balance, beside payments and reversals? | no, when returns do not overlap |
| ice_concurrent | do overlapping orders and invoices, with cancellations and stock coming in between them, keep stock, reservations and orders in step? | yes, and they implement StockBook |
| ice_races | with all six calls, three at a time, does what a transaction checked hold when it commits? | yes |
| mall | with conflicting handlers kept apart, and a restart, is every paid order, and no other, settled, once, not before its term, and stamped right? | yes |
| licence | with handlers that save one row kept apart, does each payment, grant and setting count once? | yes: Workspace implements Licence |
| ws_races | with any two handlers together, and a restart, can a payment stand as paid for nothing, or an add-on be given for none? | no |
| issuing | with issues, runs, bills, edits of the series and payments overlapping, and a restart, do numbers grow, due dates get their invoice, challans show what they are linked to, and does what is above the credit limit have a reason? | yes |
| counter | with requests and replies lost, pages closed and restarts, is a queued bill kept until it is paid for, and stock accounted for? | yes, with the overlaps below kept apart |
| payroll | with slips drawn up, finalized and paid in any overlap, is a salary booked once, a finalized run as its slips say, and nothing paid twice? | yes, but for a second booking in a company where a salary of nothing was passed over |

On receivables, two handlers lock the invoice rows; the others read a row, await,
and write from the copy. `mixed` checks, and the proof shows for any number of
them, that the two that lock are safe from the others. The others are not safe
from anyone: raising MaxInFlight to 2 in `serial` refutes most of its properties.
A delete that read the invoice before a receipt committed leaves the receipt on a
deleted invoice, and two returns of one bill put its stock back twice. Nor are two
reversals of one receipt safe from each other, though both lock: each reads the rows
before it locks, and the second takes the receipt off its invoices again. It takes
four calls to see it, two receipts on one invoice and two deletes of the first, since
without another receipt `Math.max(0, ...)` hides it: with four calls and ReversalsApart
FALSE, TLC refutes ImplementsLedger. On ice the same holds of movements by hand:
adding "outward" to the kinds of `ice_concurrent` lets deductStock take what is
reserved, and emptying Alone there lets an inward movement put back
the quantity an invoice took, or the reserved column an order just raised.

Fairness (`FairSpec`) is weak fairness of each handler's own steps: Node keeps
running the continuations it has, and Postgres grants a lock that is free and
detects deadlocks. Nothing is owed for new calls, crashes or the administrator.
A pool as small as the number of transactions would block for ever: both would
hold their connection and wait for a second. That is why PoolSize is above the
number of concurrent transactions in `locked`.

Bounds: two to four requests, one or two invoices, one or two amounts. Two
invoices are needed for deadlock and for a receipt that is partly undone; three
requests for a third party to come between two; four, one at a time, for
pay-reverse-pay-delete sequences. `PaidMeansSettled` is checked without
`updateInvoice`: an edit after a full credit leaves the status 'paid' with money
due, and the code does not recompute it.

The ice runs have two items, one with a quantity of two and one with one, lines of
one or two, and three or four calls: two orders that share an item and an invoice
for each, or an order with two invoices and a cancellation, fit in four calls.
Three at a time in `ice_races` puts a movement between two transactions. Alone
names kinds of call that an instance lets run only by themselves: in
`ice_concurrent` cancellations and inward movements, whose overlaps are known to
break its properties.

The mall runs have two orders and four calls beside the scheduler, a day of two
hours, the first of them the scheduler's. An order paid in the second hour is one
hour old at the next tick and three at the one after, so its age never equals a
term of one day exactly; that is why MaxAge is 3. Each order has a seller of its own,
with terms of one day and none, so a build makes two settlements. A call is served by
the first request not used yet (`NextCall`), as requests differ in nothing: it spares
the run the permutations of calls, where symmetry would not be sound for liveness.
Apart lists the pairs of kinds that do not overlap: builds with each other, with a
delivery and with a restart, and marking paid with whatever else saves the order. Their overlaps do harm: two builds, or a restart inside one, put an order into
two settlements; a delivery that read the order before it was stamped erases the
stamp, and one that read it before it was paid erases the payment; of two
handlers that mark one order paid, the second writes back the `updated_at` it read
before, and the next build takes the order before its term. That a stamp names a
settlement with the order in it, and that only paid orders are settled, needs none of
these restrictions: the theorems show both for any overlap and any restarts.

Fairness in `mall` (its own `FairSpec`): a handler that runs goes on, time
passes, and the scheduler ticks if again and again it could (strong fairness: the
server may be down on some days at three, not on all). Without requests nothing is
owed: PaidIsSettled starts from an order that is paid.

`licence` keeps apart handlers that save the same row and two screenshots submitted
together (`SameRow`): of two such, the second puts the first's columns back, so an
extension, a setting or a payment's status is lost. Without restarts, because one
between the extension and the payment's own save lets the payment extend again. Two
months make an extension start now or at the last one's end; four payments are one
of each route. `ws_races` has neither restriction: what is left is what the order of
the saves alone ensures.

`issuing` has three calls, two of them at a time, one schedule, one challan, two days,
and one upset: a restart, or a debit note beside an invoice on credit. That is enough
for a number to collide with the series, for a run to be repeated, and for two invoices
on credit, whose lines each just fit the limit, to pass it together. No harmful overlap
is left out. `Unrelated` spares the run states: an update of a challan shares no row with an
invoice by hand or a schedule, and a bill shares with them only the issue of an
invoice, which overlaps others of their kind and of its own. The lines, the charges and the limit are
one: an invoice on credit may then be above the limit by its charges, and any part of
what was added beside it would show.

`counter` has two bills, one of them on credit, two items with one unit of each, one
hub order, two pages and two handlers at once, three calls served and one loss, in a
shop that tracks stock. Kept apart are a sale and a sync (a bill queued while the
outbox is being sent is overwritten), a payment and a delete, two deletes, two
receipts of one order, a receipt and a patch of it, a restart inside a delete or a
receipt, and calls that write stock of the same item (each writes what it read, less
or more one).

`payroll` has two companies, one with two employees, and four calls that may all be
under way at once: enough to draw up, finalize, draw up from an old copy and finalize
again, or to finalize and pay twice. Salaries are two or nothing, so that a first slip
of nothing frees its number; payments are one or two.

No fairness is used but in `locked` and `mall`; nothing else in the code promises
that something happens in the end.

## Known behaviours

What the overlaps and failures that a run keeps apart really do, each seen in a trace
of TLC when the run's restriction is lifted, or read in the code while modelling it:

- An invoice on credit passes the customer's limit by its shipping and other charges,
  of which the check knows nothing (`sales.service.ts:325`, total at `:417`), and two
  invoices on credit at once pass it together, each having fitted alone.
- Payments of one invoice from two desks are both accepted although together they
  exceed it, and the later overwrites the earlier's `paid_amount`
  (`sales.service.ts:917`). A crash between the payment row and the invoice's update
  leaves a row that is in no balance.
- Two deletes of one receipt that overlap both take it off its invoices: the rows are
  read (`sales.service.ts:1099`) before the invoices are locked (`:1120`) and not again,
  so `paid_amount` may fall below what the receipts that stand brought in. The page says
  "The invoices go back to the amount due before that receipt."
  (`src/apps/website/app/(app)/sales/invoices/receive/page.tsx:306`).
- A PayU return for an invoice deleted after its checkout makes it paid. Two returns
  of a checkout that overlap both book it, and its pending row stays for ever when the
  gateway's own id is used as reference. `deleteReceipt` also takes off a pending row,
  which was never added.
- Cancelling an order while its invoice commits releases a reservation that was
  already taken (`sales.service.ts:1429`).
- Two updates of a challan to delivered, or one back to draft and delivered again,
  take its stock twice (`sales.service.ts:1641`). Deleting an invoice leaves its
  challans linked to it. Two bills of a challan together issue two invoices.
- A strict shop learns that stock is too little after the invoice is committed
  (`sales.service.ts:438`): some lines are taken, the invoice is not stamped, a
  deletion restores nothing, and a queued bill issues one more invoice at every sync.
  A shop that is not strict stamps an invoice whose lines were passed by, and a return
  puts back what was never taken.
- A lost reply, or a lost payment, queues the bill without its invoice's id, so the
  sync issues it again. `syncOutbox` saves the list it read before its awaits.
- Two receipts of one hub order, or a restart between the stock and the order, add
  its stock twice; a patch from an old copy may mark it not received.
- A PayU return twice at once, or again after a restart inside the first, extends a
  plan twice; an add-on whose server restarts between its two saves is paid for and
  not given.
- Two builds of settlements, or a restart inside one, put an order in two of them.
- A schedule whose frequency is not one of those known is issued at every run. A
  restart between an invoice and the schedule's next date issues it again. `setMonth`
  on the 31st skips a month, in schedules and in plans' ends.
- `generatePayroll` that found the month a draft, and replaces its lines after
  `finalizePayroll` committed, makes it a draft again (`hr.service.ts:646`): the lines
  forget their expenses, and the month cannot be finalized any more, because the
  numbers of its expenses are taken. If the first slip had come to nothing, its number
  is not taken; with another staff the numbers move, and a salary is booked twice.
- Two calls that draw up one month for different staff, the DELETE of one waiting for
  the other, leave the lines of both in the run. The second writes the status only if its save
  finds the run not a draft; `finalizePayroll` may book the first call's lines and
  commit just after that, and need not wait, as the second deleted none of them. The
  month then stands finalized with lines that are booked nowhere. So it does when the
  lines replaced beside `finalizePayroll` had all come to nothing: it locks none then.
- Two companies of a tenant cannot both finalize a month: the numbers of their
  expenses are the same and unique per tenant (`hr.service.ts:675`).
- The branches of `createInvoice` for ice-crest tenants after its early return are
  never reached.

## Proofs

Each component has its theorems in a module of its own, `<module>_proofs`, for any
values of the constants that meet the module's assumption. Most need nothing more: they
say what the code keeps up by itself, for any overlap and any crashes. Some need certain
handlers kept apart, and say so by a hypothesis that the run of the property meets:
CheckoutsBookOnce, LedgerIsImplemented, ReservedIsWhatIsHeld, OrdersEndWhenTaken,
StockBookIsImplemented, OrdersAreRipe and BillsAreKeptUntilPaid. The hypotheses are given
here with what goes wrong without them. What holds only where just the calls that
threaten it are kept from meeting is model-checked and not proved; the end of this
section lists it.

`SumTheorems` is about sums over finite sets, as FiniteSetsExt's `MapThenSumSet` adds
them up: of nothing, of one more element, of two functions that agree, that differ in
one element, or of which one is nowhere above the other. The library's induction over
finite sets takes an operator as a parameter and is of no use here; the lemmas are
proved by a smallest counterexample instead: were one false, take a set of the least
cardinality for which it is, remove an element, and it is no longer the least.

### Receivables_proofs

Without any hypothesis, for any overlap of the ten handlers and any crashes:

- TypeCorrect: `Spec => []TypeOK`. Not only a matter of types: that `paid` stays
  in Nat rests on TakeOff stopping at zero and on an amount never being negative.
- LockedRowsStay: `Spec => []LockedRowIsCurrent`. While a transaction holds an
  invoice FOR UPDATE the row is what it read, whatever unlocked handlers do.
- ReceiptsPostExactly: `Spec => ReceiptPostsExactly`, the action property, from
  the same invariant.
- ReceiptsAreWhole: `Spec => ReceiptAllOrNothing`, from `ShapeInv`: the payment rows
  of one receipt carry one reference each, and only a reversal that holds them all
  removes them.
- ReceiptsSettleRight: `Spec => ReceiptSettlesRight`. What the loop over the invoices
  found of one of them, that it is open and that its part is no more than is due, still
  stands when the last one is done (`LinesStand`): a note, whose row refers to the
  invoice, an edit and a delete all wait for the lock.

With the handlers that lock, and notes and returns, in any overlap and with any
crashes:

- LedgerIsImplemented: `Spec => ImplementsLedger`. A commit of a receipt is a Post, a
  commit of a reversal a Reverse, every other step a stutter. It needs
  `OnlyLockersAndNotes`, since the other handlers write what they worked out from a row
  read unlocked, and `ReversalsApart`, without which two deletes of one receipt refute it. Its
  invariant `BookedInv` says that a receipt has one row on an invoice, that paid is the
  sum of the rows, that the rows a reversal is to delete still stand, and that no two
  reversals have rows in common: from the last two a reversal takes off the invoice
  what it removes from the rows, and is never stopped at zero.

The invariant of the first three is `IInv`: TypeOK, LockedRowIsCurrent, and three parts
that make it inductive. `TransactionsHold` says which rows a transaction at each label
has locked: those of its receipt it no longer has to do; without it nothing ties
"line" to holding every lock. `ClubJobs` and `ReversalJobs` tie the kind of a job
to its labels and its hits to its invoices. The proof has a typing lemma per
action, frame lemmas (`OthersKeep`, `KeptJobs`, `Aside`) for the many actions that
leave the locked rows alone, and one step per action under `Inductive`.

CheckoutsBookOnce (GatewayPaidOnce) needs requests served one at a time (`Serial`:
MaxInFlight is one), with restarts between any two statements: two returns of one
checkout that overlap both look for its reference before either has written it.
`GatewayInv` says what a return knows of the rows from its earlier statements.

### IceCrestStock_proofs

Without any hypothesis, for any mix of handlers:

- StockTypeCorrect: `Spec => []TypeOK`.
- LockedStockStays, ReservationsStay: a transaction's copies of the stock row and
  of the order's reservation are current once the row is locked.
- OnlyHeldIsTaken, OnlyFreeIsSold: from those, what Enough found while locking is
  still true when the transaction commits.

The invariant says of each call that a row it has locked is not stale and still
passes Enough (`LocksHold`); that it has locked all its items but those to do, and
that the reservation of an item nobody changed since the snapshot is the one it
read (`SnapshotHolds`); and that an order exists only once its call has ended
(`OrderIsDone`), so no commit can meet its own order. One lemma (`OthersKeep`)
says when a step leaves the invariant to another call: it leaves its locals alone,
writes no row the other has locked, and marks what it writes stale.

With cancellations and movements that run alone (`OthersRunAlone`, what Alone says
in `ice_concurrent`) and finitely many requests, since the reservations of all orders
are added up:

- ReservedIsWhatIsHeld, OrdersEndWhenTaken: `ReservedIsHeld` and `InvoicedWhenTaken`,
  from `BooksInv`. That a row's reserved quantity is the sum of the holds is kept by
  the lemmas of SumTheorems for a sum of which one part changes.
- StockBookIsImplemented: `Spec => ImplementsStockBook`, the refinement, which also
  excludes outward movements (they deduct what is reserved). `EnoughForAll` carries
  the check made while locking to StockBook's guard, which adds up the promises.

### MallSettlement_proofs

Without any pair kept apart and with any number of restarts:

- MallTypeCorrect: `Spec => []TypeOK`.
- StampsAreRight: `Spec => []StampedIsIncluded`.
- SettledWasPaid: `Spec => []OnlyPaidIsSettled`.

A stamp is first a local variable of a build, then a column of its copy, then of
the row, and any other handler's copy of the row may carry it back there later. The
invariant therefore asks of all four what the property asks of the row
(`RowsIncluded`, `CopiesIncluded`, `StampsIncluded`), and of a row that shows a
payment, or an order collected, that it was once paid (`PaidWasPaid`,
`BatchWasPaid`). Each action has a lemma; most go through `SaveKeeps` or
`FinishKeeps`.

With marking paid kept apart from any other save of the order (`PaymentsAlone`, which
the run's `Conflicts` meets), since the second of two such saves puts back an older
`updated_at`:

- OrdersAreRipe: SettlesOnlyRipe; builds, deliveries and restarts may overlap anything
  else. `RipeInv`: the age of a row that shows a payment, and of every copy
  of it that a handler is about to save, is at most the time since the order was paid,
  so a row that is old enough belongs to an order that is.

### Workspace_proofs

For any handlers that overlap and any restarts: WorkspaceTypeCorrect, PaidPlansAreApplied
(PaidIsApplied) and AddonsWerePaid (AddonWasPaid). `IInv` is TypeOK, `Tables` (what
the two properties ask of the rows, and that nothing takes a paid status back) and
`Locals`: the same of every copy a handler is about to save and of every label from
which it goes on to do so. Whoever may come between, the extension of a plan was
written before the copy that says paid was made.

### Issuing_proofs

For any overlap and any restarts: IssuingTypeCorrect; SeriesOnlyGrow (`SeriesInv`: while
an issue holds the tenant's row, no invoice has the number it is about to give or a
later one; a list of numbers has its greatest because the counter after it has a least);
NoDateIsSkipped (`SchedulesInv`: a date before `next_run_at` was issued, and a run's
copy of a schedule is no later than the schedule).

ShownChallansAreLinked (ShownIsLinked): `ChallansInv` says of each call what it knows. A
bill has the row under its invoice before it marks the challan; an update's copy, which
its save may write back, showed an invoice that was linked when it was read, and no
row under an invoice is ever taken away.

CreditOverrunIsBounded (LimitExceededOnlyBy): `CreditInv` says that an invoice that passed
the check, and is not yet written, still has room for its lines once what was added
beside it (`added`) is set aside. A payment lowers the sum of what is owed and an
invoice, a note or an edit adds its own amount to it and to every `added`, by the lemmas
of SumTheorems.

### Counter_proofs

CounterTypeCorrect holds for any overlap and losses. `SeesAUnit` is part of its
invariant: a deduction was decided on a row that had a unit, which is what keeps
quantities in Nat. BillsAreKeptUntilPaid (KeptUntilPaid) needs a sale apart from a sync
(`SalesAndSyncsApart`: the sync overwrites the list a sale added to) and a payment
apart from a delete (`PaymentsAndDeletesApart`: the bill would be paid and erased).
`KeptInv` has a part for each place where a bill can be: the device (`DeviceInv`), the
request or answer on its way (`LinksInv`), and the handler that serves it (`ServerInv`).

### Payroll_proofs

Without any hypothesis, for any staff, companies, salaries and overlap:
PayrollTypeCorrect, SalaryIsPaidOnce (`Spec => []SalaryPaidOnce`) and FinalizedRunsAreBooked
(`Spec => FinalizesBooked`). All three come from one invariant, `IInv`:

- `Books`: a run that is a draft has a slip 1 (`DraftsHaveFirst`), and a booking no salary
  of which was passed over includes the expense numbered 1 (`FirstIsBooked`), of which
  the tenant has one; so there is one such booking a month (`OneBooking`). Slip 1 stands
  for all the others: how many slips there are may differ from one drawing up to the next.
- `Runs`: what a call that draws up or finalizes knows of the lines it copied
  (`GeneratesPay`, `BooksSlips`). `StillSame` is the heart of it: a line that is still
  there under the call that drew it up is the line that was read, or has been booked.
- `Payments`: what was handed out is what the expense shows, and a payment in progress
  fits what is left, because its row is locked.

The exemption in SalaryPaidOnce, a company a run of which was finalized with a salary of
nothing, is what the code does: the first slip then leaves its number free.

### Only model-checked

- Liveness (`EveryCallEnds`, `PaidIsSettled`): fairness is out of the prover's reach.
- `PaidMeansSettled`, `NoOverReceipt`, `DeletedHasNoMoney`,
  `StockRestoredOnce`, `SettledOnce`, `ImplementsLicence` and `StockIsCovered`.
  The code keeps them only while the very calls that threaten them do not overlap and
  are not cut short. A theorem would have to assume just that, so the runs show them,
  over every order of the calls they have, and Known behaviours says what the overlap
  does.

## Not modelled

Reports, search, audit, mail, AI answers, backups and most pages of the website and
the mobile client read and display. CRM, transport, attendance and salary setup, accounting, quotations,
authentication and onboarding change one row at a time, or run once on rows of their
own: there is nothing between two steps that could go wrong. The restaurant floor is
left out although tablets do share a table: whether a save of an order with an old list
of lines removes a line added meanwhile depends on TypeORM's cascade, which the code
does not settle. Transfers, production and measured stock, payments to vendors and
payouts of settlements are left for later.

## Plan

1. Inventory transfers and production; payouts of settlements; payments to vendors.
