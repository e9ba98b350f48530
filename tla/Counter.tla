------------------------------- MODULE Counter -------------------------------
(***************************************************************************)
(* A shop counter that keeps selling when the network is gone, and the     *)
(* stock its bills take.  A device posts a bill and then its payment; a    *)
(* bill whose post fails waits in the device's outbox, which is sent when  *)
(* the page opens or the network returns.  A request or its reply may be   *)
(* lost, a page may be closed and the server restarted.  Deliveries and    *)
(* supplier bills bring stock in, and a deleted bill puts it back.         *)
(*                                                                         *)
(* A definition may stand just after a faulty form of it, which no action  *)
(* uses: a slip of the code that must break a property.                    *)
(***************************************************************************)
EXTENDS Integers, Sequences, FiniteSets

CONSTANTS
  Bills,        \* carts rung up on the device
  OnCredit,     \* those that post no payment
  Items,
  Lines,        \* the items on each bill, one unit of each
  Stocked,      \* units of each item at the start
  Strict,       \* a shop that tracks stock: a bill with too little of it fails
  HubOrders,    \* wholesale orders of the shop
  Supply,       \* the item each of them brings
  Desks,        \* what runs in the device's pages
  Calls,        \* what runs in the server
  Apart,        \* bound: pairs of kinds (or a single kind) that never overlap
  Overlap,      \* bound: calls that write the stock of the same item may overlap
  MaxServed,    \* bound: calls served
  MaxLosses     \* bound: requests and replies lost, pages closed and restarts

DeskKinds == {"sale", "sync"}
CallKinds == {"invoice", "payment", "delete", "receive", "purchase", "patch"}

ASSUME CounterAssumption ==
  /\ OnCredit \subseteq Bills /\ Lines \in [Bills -> (SUBSET Items) \ {{}}]
  /\ Stocked \in [Items -> Nat] /\ Supply \in [HubOrders -> Items]
  /\ Strict \in BOOLEAN /\ Overlap \in BOOLEAN
  /\ Apart \subseteq SUBSET (DeskKinds \cup CallKinds \cup {"crash"})
  /\ MaxServed \in Nat /\ MaxLosses \in Nat

VARIABLES
  cart,      \* what became of each bill on the device
  outbox,    \* localStorage: bills waiting to be sent, with their invoice if known
  desk,      \* a sale or a sync in progress, and its local variables
  invoices,  \* sales_invoices, in the order they were inserted
  stock,     \* stock: the quantity of each item
  order,     \* hub_orders
  bought,    \* purchase_invoices that received stock, counted per item
  call,      \* a handler in progress, and its local variables
  served,
  losses

device == <<cart, outbox, desk>>
books == <<invoices, stock, order, bought>>
vars == <<device, books, call, served, losses>>

NoId == 0
Statuses == {"none", "waiting", "ready"}  \* ready: confirmed, packed, dispatched or delivered

Job == [bill: Bills, id: Nat]
Desk == [at: {"idle", "next", "send", "sent", "pay", "paying"}, kind: DeskKinds,
         job: SUBSET Job, id: Nat,           \* the bill in hand, and its invoice
         call: SUBSET Calls,                 \* the request it waits for
         pending: SUBSET Job, left: SUBSET Job]
Invoice == [bill: Bills, paid: BOOLEAN, deducted: BOOLEAN, deleted: BOOLEAN]
Order == [status: Statuses, received: BOOLEAN]
Call == [at: {"free", "insert", "take", "taking", "pay", "give", "giving", "patch", "ok",
              "error", "lost"},
         kind: CallKinds, bill: SUBSET Bills, id: Nat,
         items: SUBSET Items,                \* whose stock is still to be written
         item: SUBSET Items, seen: Nat,      \* the one read, and what it had
         order: SUBSET HubOrders, copy: Order]

Resting == [at |-> "idle", kind |-> "sale", job |-> {}, id |-> NoId, call |-> {},
            pending |-> {}, left |-> {}]
NewOrder == [status |-> "none", received |-> FALSE]
Free == [at |-> "free", kind |-> "invoice", bill |-> {}, id |-> NoId, items |-> {},
         item |-> {}, seen |-> 0, order |-> {}, copy |-> NewOrder]

Put(d, state) == desk' = [desk EXCEPT ![d] = state]
Set(c, state) == call' = [call EXCEPT ![c] = state]

Answered == {"ok", "error", "lost"}
Serving == {c \in Calls : call[c].at \notin {"free"} \cup Answered}
Awaited == UNION {desk[d].call : d \in Desks}

\* A call is taken up, to write the stock of these items.
Serve(c, items, state) ==
  /\ call[c].at = "free" /\ served < MaxServed
  /\ \A q \in Serving : /\ {state.kind, call[q].kind} \notin Apart
                        /\ Overlap \/ call[q].items \cap items = {}
  /\ Set(c, state)
  /\ served' = served + 1

-----------------------------------------------------------------------------
(* The device: pay of the two counter pages, and syncOutbox. *)

Open(d, kind) ==
  /\ desk[d].at = "idle"
  /\ \A e \in Desks : desk[e].at # "idle" => {kind, desk[e].kind} \notin Apart

QueueBill(b) ==
  /\ outbox' = outbox \cup {[bill |-> b, id |-> NoId]}
  /\ cart' = [cart EXCEPT ![b] = "queued"]

\* Offline, the bill is queued at once.
Pay(d) == \E b \in Bills :
  /\ Open(d, "sale") /\ cart[b] = "open"
  /\ \/ QueueBill(b) /\ UNCHANGED desk
     \/ /\ Put(d, [Resting EXCEPT !.at = "send", !.job = {[bill |-> b, id |-> NoId]}])
        /\ UNCHANGED <<cart, outbox>>
  /\ UNCHANGED <<books, call, losses, served>>

SyncOutbox(d) ==
  /\ Open(d, "sync") /\ outbox # {}
  /\ Put(d, [Resting EXCEPT !.at = "next", !.kind = "sync", !.pending = outbox])
  /\ UNCHANGED <<cart, outbox, books, call, losses, served>>

NextBill(d) == \E j \in desk[d].pending :
  /\ desk[d].at = "next"
  /\ Put(d, [desk[d] EXCEPT !.at = IF j.id = NoId THEN "send" ELSE "pay",
                            !.job = {j}, !.id = j.id, !.pending = @ \ {j}])
  /\ UNCHANGED <<cart, outbox, books, call, losses, served>>

EndSync(d) ==
  /\ desk[d].at = "next" /\ desk[d].pending = {}
  /\ outbox' = desk[d].left
  /\ Put(d, Resting)
  /\ UNCHANGED <<cart, books, call, losses, served>>

PostInvoice(d) == \E c \in Calls, j \in desk[d].job :
  /\ desk[d].at = "send"
  /\ Serve(c, Lines[j.bill], [Free EXCEPT !.at = "insert", !.bill = {j.bill}, !.items = Lines[j.bill]])
  /\ Put(d, [desk[d] EXCEPT !.at = "sent", !.call = {c}])
  /\ UNCHANGED <<cart, outbox, books, losses>>

PostPayment(d) == \E c \in Calls :
  /\ desk[d].at = "pay"
  /\ Serve(c, {}, [Free EXCEPT !.at = "pay", !.kind = "payment", !.id = desk[d].id])
  /\ Put(d, [desk[d] EXCEPT !.at = "paying", !.call = {c}])
  /\ UNCHANGED <<cart, outbox, books, losses>>

\* A sync drops the bill; a sale clears the cart.
Sent(d, j) ==
  IF desk[d].kind = "sync"
    THEN /\ Put(d, [desk[d] EXCEPT !.at = "next", !.job = {}, !.call = {}])
         /\ UNCHANGED <<cart, outbox>>
    ELSE /\ Put(d, Resting)
         /\ cart' = [cart EXCEPT ![j.bill] = "sold"]
         /\ UNCHANGED outbox

\* A sync leaves the bill for the next one.
Leave(d, j) ==
  /\ Put(d, [desk[d] EXCEPT !.at = "next", !.job = {}, !.call = {}, !.left = @ \cup {j}])
  /\ UNCHANGED <<cart, outbox>>

HearInvoice(d) == \E c \in desk[d].call, j \in desk[d].job :
  /\ desk[d].at = "sent" /\ call[c].at \in {"ok", "error"}
  /\ Set(c, Free)
  /\ \/ call[c].at = "ok" /\ j.bill \in OnCredit /\ Sent(d, j)
     \/ /\ call[c].at = "ok" /\ j.bill \notin OnCredit
        /\ Put(d, [desk[d] EXCEPT !.at = "pay", !.call = {}, !.id = call[c].id])
        /\ UNCHANGED <<cart, outbox>>
     \/ call[c].at = "error" /\ desk[d].kind = "sync" /\ Leave(d, j)
     \/ /\ call[c].at = "error" /\ desk[d].kind = "sale"
        /\ Put(d, Resting) /\ UNCHANGED <<cart, outbox>>
  /\ UNCHANGED <<books, losses, served>>

RefusedIsSent(d, j) == Sent(d, j)

\* A payment refused: a sync leaves the bill with its invoice; one page clears the cart,
\* the other keeps it.
PaymentRefused(d, j) ==
  IF desk[d].kind = "sync" THEN Leave(d, [j EXCEPT !.id = desk[d].id])
  ELSE /\ Put(d, Resting)
       /\ cart' \in {cart, [cart EXCEPT ![j.bill] = "sold"]}
       /\ UNCHANGED outbox

HearPayment(d) == \E c \in desk[d].call, j \in desk[d].job :
  /\ desk[d].at = "paying" /\ call[c].at \in {"ok", "error"}
  /\ Set(c, Free)
  /\ IF call[c].at = "ok" THEN Sent(d, j) ELSE PaymentRefused(d, j)
  /\ UNCHANGED <<books, losses, served>>

\* Nobody waits for the call any more: it goes on, or its answer is dropped.
Abandon(d) ==
  call' = [c \in Calls |-> IF c \in desk[d].call /\ call[c].at \in Answered THEN Free
                           ELSE call[c]]

\* fetch throws, for a request or a reply lost or a server gone: the bill is queued, or
\* left as the sync found it.
Lose(d) == \E j \in desk[d].job :
  /\ IF \E c \in desk[d].call : call[c].at = "lost" THEN UNCHANGED losses
     ELSE losses < MaxLosses /\ losses' = losses + 1
  /\ Abandon(d)
  /\ IF desk[d].kind = "sync" THEN Leave(d, j) ELSE QueueBill(j.bill) /\ Put(d, Resting)
  /\ UNCHANGED <<books, served>>

\* The cart goes with the page; the outbox stays.
ClosePage(d) ==
  /\ desk[d].at # "idle" /\ losses < MaxLosses
  /\ losses' = losses + 1
  /\ Abandon(d)
  /\ Put(d, Resting)
  /\ cart' = [b \in Bills |-> IF desk[d].kind = "sale" /\ \E j \in desk[d].job : j.bill = b
                               THEN "gone" ELSE cart[b]]
  /\ UNCHANGED <<outbox, books, served>>

-----------------------------------------------------------------------------
(* The server: createInvoice and recordPayment, as a counter calls them. *)

Reply(c, answer) == Set(c, IF c \in Awaited THEN [call[c] EXCEPT !.at = answer] ELSE Free)

\* Books may be closed, a customer gone or a subscription over.
InsertInvoice(c) == \E b \in call[c].bill :
  /\ call[c].at = "insert"
  /\ \/ /\ invoices' = Append(invoices, [bill |-> b, paid |-> FALSE, deducted |-> FALSE,
                                         deleted |-> FALSE])
        /\ Set(c, [call[c] EXCEPT !.at = "take", !.id = Len(invoices) + 1])
     \/ Reply(c, "error") /\ UNCHANGED invoices
  /\ UNCHANGED <<device, stock, order, bought, losses, served>>

BelowZero(i) == stock[i] < 0
TooFew(i) == stock[i] < 1

PassBy(c, i) == Set(c, [call[c] EXCEPT !.items = @ \ {i}])

\* Too little stock fails the call where stock is tracked, its invoice issued; elsewhere
\* the line is passed by.
TooLittle(c, i) == IF Strict THEN Reply(c, "error") ELSE PassBy(c, i)

ReadStock(c) == \E i \in call[c].items :
  /\ call[c].at = "take"
  /\ IF TooFew(i) THEN TooLittle(c, i)
     ELSE Set(c, [call[c] EXCEPT !.at = "taking", !.item = {i}, !.seen = stock[i]])
  /\ UNCHANGED <<device, books, losses, served>>

DeductStock(c) == \E i \in call[c].item :
  /\ call[c].at = "taking"
  /\ stock' = [stock EXCEPT ![i] = call[c].seen - 1]
  /\ Set(c, [call[c] EXCEPT !.at = "take", !.items = @ \ {i}, !.item = {}, !.seen = 0])
  /\ UNCHANGED <<device, invoices, order, bought, losses, served>>

StampInvoice(c) ==
  /\ call[c].at = "take" /\ call[c].items = {}
  /\ invoices' = [invoices EXCEPT ![call[c].id].deducted = TRUE]
  /\ Reply(c, "ok")
  /\ UNCHANGED <<device, stock, order, bought, losses, served>>

\* The total the page worked out may be more than the invoice's, or the books closed.
\* Where the page's rounding makes it a few paise less, the invoice takes the payment as
\* any other and is left partial: paid is that the bill's payment was recorded.
RecordPayment(c) ==
  /\ call[c].at = "pay"
  /\ \/ /\ ~invoices[call[c].id].paid /\ ~invoices[call[c].id].deleted
        /\ invoices' = [invoices EXCEPT ![call[c].id].paid = TRUE]
        /\ Reply(c, "ok")
     \/ Reply(c, "error") /\ UNCHANGED invoices
  /\ UNCHANGED <<device, stock, order, bought, losses, served>>

-----------------------------------------------------------------------------
(* What brings stock in: deleteInvoice, hub orders and supplier bills. *)

ReadForReceipt(c) == \E i \in call[c].items :
  /\ call[c].at = "give"
  /\ Set(c, [call[c] EXCEPT !.at = "giving", !.item = {i}, !.seen = stock[i]])
  /\ UNCHANGED <<device, books, losses, served>>

ReceiveStock(c) == \E i \in call[c].item :
  /\ call[c].at = "giving"
  /\ stock' = [stock EXCEPT ![i] = call[c].seen + 1]
  /\ Set(c, [call[c] EXCEPT !.at = "give", !.items = @ \ {i}, !.item = {}, !.seen = 0])
  /\ UNCHANGED <<device, invoices, order, bought, losses, served>>

Restorable(row) == IF row.deducted THEN Lines[row.bill] ELSE {}

DeleteInvoice(c) == \E k \in DOMAIN invoices :
  LET row == invoices[k] IN
  /\ ~row.deleted /\ ~row.paid
  /\ Serve(c, Lines[row.bill], [Free EXCEPT !.at = "give", !.kind = "delete", !.id = k,
                                           !.items = Restorable(row)])
  /\ UNCHANGED <<device, books, losses>>

\* The whole row is saved, as it was read.
EraseInvoice(c) ==
  /\ call[c].at = "give" /\ call[c].kind = "delete" /\ call[c].items = {}
  /\ invoices' = [invoices EXCEPT ![call[c].id] =
                    [@ EXCEPT !.paid = FALSE, !.deducted = FALSE, !.deleted = TRUE]]
  /\ Set(c, Free)
  /\ UNCHANGED <<device, stock, order, bought, losses, served>>

PlaceOrder(o) ==
  /\ order[o].status = "none"
  /\ order' = [order EXCEPT ![o].status = "waiting"]
  /\ UNCHANGED <<device, invoices, stock, bought, call, losses, served>>

\* The platform may set any status; the whole row is saved, as it was read.
PatchOrder(c) == \E o \in HubOrders, to \in Statuses \ {"none"} :
  /\ order[o].status # "none"
  /\ Serve(c, {}, [Free EXCEPT !.at = "patch", !.kind = "patch", !.order = {o},
                               !.copy = [order[o] EXCEPT !.status = to]])
  /\ UNCHANGED <<device, books, losses>>

SaveOrder(c) == \E o \in call[c].order :
  /\ call[c].at = "patch"
  /\ order' = [order EXCEPT ![o] = call[c].copy]
  /\ Set(c, Free)
  /\ UNCHANGED <<device, invoices, stock, bought, losses, served>>

OnItsWay(o) == order[o].status = "ready"
ToReceive(o) == OnItsWay(o) /\ ~order[o].received

ReceiveOrder(c) == \E o \in HubOrders :
  /\ ToReceive(o)
  /\ Serve(c, {Supply[o]}, [Free EXCEPT !.at = "give", !.kind = "receive", !.order = {o},
                                        !.items = {Supply[o]}])
  /\ UNCHANGED <<device, books, losses>>

CloseOrder(c) == \E o \in call[c].order :
  /\ call[c].at = "give" /\ call[c].kind = "receive" /\ call[c].items = {}
  /\ order' = [order EXCEPT ![o] = [status |-> "ready", received |-> TRUE]]
  /\ Set(c, Free)
  /\ UNCHANGED <<device, invoices, stock, bought, losses, served>>

\* createVendorInvoice saves the bill, marked received, before its lines.
CreateVendorInvoice(c) == \E i \in Items :
  /\ Serve(c, {i}, [Free EXCEPT !.at = "give", !.kind = "purchase", !.items = {i}])
  /\ bought' = [bought EXCEPT ![i] = @ + 1]
  /\ UNCHANGED <<device, invoices, stock, order, losses>>

EndVendorInvoice(c) ==
  /\ call[c].at = "give" /\ call[c].kind = "purchase" /\ call[c].items = {}
  /\ Set(c, Free)
  /\ UNCHANGED <<device, books, losses, served>>

-----------------------------------------------------------------------------

\* The server restarts: handlers are gone, and what they saved stays.
Crash ==
  /\ Serving # {} /\ losses < MaxLosses
  /\ \A c \in Serving : {"crash", call[c].kind} \notin Apart
  /\ losses' = losses + 1
  /\ call' = [c \in Calls |-> IF c \notin Serving THEN call[c]
                              ELSE IF c \in Awaited THEN [Free EXCEPT !.at = "lost"] ELSE Free]
  /\ UNCHANGED <<device, books, served>>

Init ==
  /\ cart = [b \in Bills |-> "open"] /\ outbox = {}
  /\ desk = [d \in Desks |-> Resting]
  /\ invoices = <<>> /\ stock = Stocked
  /\ order = [o \in HubOrders |-> NewOrder]
  /\ bought = [i \in Items |-> 0]
  /\ call = [c \in Calls |-> Free] /\ served = 0 /\ losses = 0

AtTheDesk(d) ==
  \/ Pay(d) \/ SyncOutbox(d) \/ NextBill(d) \/ EndSync(d) \/ PostInvoice(d) \/ PostPayment(d)
  \/ HearInvoice(d) \/ HearPayment(d) \/ Lose(d) \/ ClosePage(d)

InTheServer(c) ==
  \/ InsertInvoice(c) \/ ReadStock(c) \/ DeductStock(c) \/ StampInvoice(c) \/ RecordPayment(c)
  \/ DeleteInvoice(c) \/ EraseInvoice(c) \/ ReadForReceipt(c) \/ ReceiveStock(c)
  \/ PatchOrder(c) \/ SaveOrder(c) \/ ReceiveOrder(c) \/ CloseOrder(c)
  \/ CreateVendorInvoice(c) \/ EndVendorInvoice(c)

Next ==
  \/ \E d \in Desks : AtTheDesk(d)
  \/ \E c \in Calls : InTheServer(c)
  \/ \E o \in HubOrders : PlaceOrder(o)
  \/ Crash

Spec == Init /\ [][Next]_vars

-----------------------------------------------------------------------------
(* Properties. *)

TypeOK ==
  /\ cart \in [Bills -> {"open", "queued", "sold", "gone"}]
  /\ outbox \subseteq Job
  /\ desk \in [Desks -> Desk]
  /\ invoices \in Seq(Invoice)
  /\ stock \in [Items -> Nat] /\ bought \in [Items -> Nat]
  /\ order \in [HubOrders -> Order]
  /\ call \in [Calls -> Call] /\ served \in Nat /\ losses \in Nat

\* With no sale while the outbox is being sent, a bill the device promised to send is
\* in the outbox until an invoice of it is issued and, unless on credit, its payment is
\* recorded: whatever is lost, closed or restarted, and however many pages send the
\* outbox at once.
KeptUntilPaid ==
  \A b \in Bills : cart[b] = "queued" =>
    \/ \E j \in outbox : j.bill = b
    \/ \E k \in DOMAIN invoices : invoices[k].bill = b /\ (invoices[k].paid \/ b \in OnCredit)

Came(i) == bought[i] + Cardinality({o \in HubOrders : order[o].received /\ Supply[o] = i})
Went(i) == Cardinality({k \in DOMAIN invoices :
             invoices[k].deducted /\ i \in Lines[invoices[k].bill]})

\* Where stock is tracked, and the handlers in Apart are kept apart, with none at work the
\* stock is never more than the documents account for: a delivery is put in stock once,
\* and a bill that says its stock is taken has taken it.
StockIsCovered ==
  Serving = {} => \A i \in Items : stock[i] <= Stocked[i] + Came(i) - Went(i)
=============================================================================
