---------------------------- MODULE IceCrestStock ----------------------------
(***************************************************************************)
(* The stock of an ice plant.  A sales order reserves stock, an invoice    *)
(* takes it out, from the order's reservation or from what nobody has      *)
(* reserved, and cancelling an order releases what it still holds.  Orders *)
(* and invoices run SERIALIZABLE: a transaction reads the snapshot taken   *)
(* at its first query, and is rolled back when it comes to lock or write a *)
(* row that others changed since, or when what it read and wrote crosses   *)
(* with another serializable transaction.  Cancelling and the movements    *)
(* entered by hand run READ COMMITTED on the same rows.                    *)
(*                                                                         *)
(* A definition may stand just after a faulty form of it, which no action  *)
(* uses: a slip of the code that must break a property.                    *)
(***************************************************************************)
EXTENDS Integers, FiniteSets, FiniteSetsExt

CONSTANTS
  Items,
  Requests,     \* HTTP calls, each served at most once; an order is known by its call
  None,
  Kinds,        \* the handlers that may be called, a subset of AllKinds
  Quantities,   \* what a line may ask for
  Stocked,      \* Stocked[i]: the quantity of item i at the start
  MaxInFlight,  \* bound: handlers running at the same time
  Alone         \* bound: kinds of handler that run only by themselves

Transactional == {"order", "invoice", "orderInvoice"}
AllKinds == Transactional \cup {"cancel", "inward", "outward"}

ASSUME IceCrestAssumption ==
  /\ None \notin Requests /\ IsFiniteSet(Requests)
  /\ Items \cap Requests = {}
  /\ Kinds \subseteq AllKinds
  /\ Quantities \subseteq Nat \ {0}
  /\ Stocked \in [Items -> Nat]
  /\ MaxInFlight \in Nat
  /\ Alone \subseteq AllKinds

VARIABLES
  stock,    \* stock: quantity and reserved, one row per item
  holds,    \* stock_reservations, per order and item
  order,    \* sales_orders.status
  moved,    \* what the stock_movements of an item add up to
  lock,     \* the transaction holding a stock row FOR UPDATE
  pc,
  job,      \* a handler's request, and its local variables:
  mine,     \* stock rows it has read
  held,     \* its order's reservations as it read them
  todo,     \* items still to lock
  stale,    \* stock rows, and orders, others changed since its snapshot
  dirty     \* columns its save is to write

db     == <<stock, holds, order, moved>>
locals == <<job, mine, held, todo, dirty>>
vars   == <<stock, holds, order, moved, lock, pc, job, mine, held, todo, stale, dirty>>

Row   == [quantity: Int, reserved: Nat]
Hold  == [status: {"none", "active", "consumed", "released"}, qty: Nat, used: Nat]
Wants == [Items -> Nat]
Job   == [kind: AllKinds \cup {"none"}, of: Requests \cup {None}, want: Wants]

NoHold  == [status |-> "none", qty |-> 0, used |-> 0]
NoHolds == [i \in Items |-> NoHold]
NoWant  == [i \in Items |-> 0]
NoJob   == [kind |-> "none", of |-> None, want |-> NoWant]
NoRows  == [i \in Items |-> [quantity |-> 0, reserved |-> 0]]

Ended  == {"done", "rejected"}
Labels == Ended \cup {"idle", "lock", "save", "write", "movement"}

-----------------------------------------------------------------------------

Running(r) == pc[r] \notin Ended \cup {"idle"}
In(r)   == job[r].kind
Want(r) == job[r].want
Goto(r, label) == pc' = [pc EXCEPT ![r] = label]

Serializable(r) == Running(r) /\ In(r) \in Transactional

\* The handler is over, its locks go, and what it changed is no longer what the
\* serializable transactions still running have in their snapshots.
Finish(r, how, changed) ==
  /\ Goto(r, how)
  /\ lock'  = [i \in Items |-> IF lock[i] = r THEN None ELSE lock[i]]
  /\ job'   = [job EXCEPT ![r] = NoJob]
  /\ mine'  = [mine EXCEPT ![r] = NoRows]
  /\ held'  = [held EXCEPT ![r] = NoHolds]
  /\ todo'  = [todo EXCEPT ![r] = {}]
  /\ dirty' = [dirty EXCEPT ![r] = {}]
  /\ stale' = [q \in Requests |-> IF q # r /\ Serializable(q) THEN stale[q] \cup changed ELSE {}]

Abort(r) == Finish(r, "rejected", {}) /\ UNCHANGED db

Busy == {q \in Requests : Running(q)}

Call(r, kind) ==
  /\ kind \in Kinds /\ pc[r] = "idle"
  /\ Cardinality(Busy) < MaxInFlight
  /\ \A q \in Busy : {kind, In(q)} \cap Alone = {}

\* A transaction takes its snapshot, the reservations of its order among it.
Begin(r, kind, o, want, reservations, on) ==
  /\ Goto(r, "lock")
  /\ job'  = [job EXCEPT ![r] = [kind |-> kind, of |-> o, want |-> want]]
  /\ held' = [held EXCEPT ![r] = reservations]
  /\ todo' = [todo EXCEPT ![r] = on]
  /\ UNCHANGED <<db, lock, mine, stale, dirty>>

Orders == {o \in Requests : order[o] # "none"}
Asked  == {w \in [Items -> Quantities \cup {0}] : \E i \in Items : w[i] > 0}
Named(want) == {i \in Items : want[i] > 0}
Active(hs) == {i \in Items : hs[i].status = "active"}
Remaining(hold) == hold.qty - hold.used

-----------------------------------------------------------------------------
(* createIceCrestSalesOrderTransactional and                                  *)
(* createIceCrestInvoiceTransactional.                                        *)

PlaceOrder(r) == \E want \in Asked :
  Call(r, "order") /\ Begin(r, "order", None, want, NoHolds, Named(want))

Invoice(r) == \E want \in Asked :
  Call(r, "invoice") /\ Begin(r, "invoice", None, want, NoHolds, Named(want))

InvoiceOrder(r) == \E o \in Orders, want \in Asked :
  /\ Call(r, "orderInvoice")
  /\ IF order[o] = "cancelled"
       THEN Abort(r)
       ELSE Begin(r, "orderInvoice", o, want, holds[o], Named(want))

\* A line is served from its order's reservation, or from the stock nobody holds.
OnHand(r, i) == stock[i].quantity >= Want(r)[i]
Unreserved(r, i) == stock[i].quantity - stock[i].reserved >= Want(r)[i]
ReservedAtAll(r, i) == held[r][i].status = "active"
Reserved(r, i) == held[r][i].status = "active" /\ Remaining(held[r][i]) >= Want(r)[i]

Enough(r, i) == IF In(r) = "orderInvoice" THEN Reserved(r, i) ELSE Unreserved(r, i)

\* SELECT ... FOR UPDATE under SERIALIZABLE, and the check that follows it.
Fresh(r, i) == i \notin stale[r]

ReadStock(r) == \E i \in todo[r] :
  /\ pc[r] = "lock" /\ In(r) \in Transactional
  /\ IF Enough(r, i)
       THEN /\ mine' = [mine EXCEPT ![r][i] = stock[i]]
            /\ todo' = [todo EXCEPT ![r] = @ \ {i}]
            /\ UNCHANGED <<db, lock, pc, job, held, stale, dirty>>
       ELSE Abort(r)
LockStock(r) == \E i \in todo[r] :
  /\ pc[r] = "lock" /\ lock[i] = None
  /\ In(r) \in Transactional
  /\ IF Fresh(r, i) /\ Enough(r, i)
       THEN /\ lock' = [lock EXCEPT ![i] = r]
            /\ mine' = [mine EXCEPT ![r][i] = stock[i]]
            /\ todo' = [todo EXCEPT ![r] = @ \ {i}]
            /\ UNCHANGED <<db, pc, job, held, stale, dirty>>
       ELSE Abort(r)

AllLocked(r) == pc[r] = "lock" /\ todo[r] = {}
Lines(r) == Named(Want(r))

CommitOrder(r) ==
  /\ AllLocked(r) /\ In(r) = "order"
  /\ stock' = [i \in Items |-> IF i \notin Lines(r) THEN stock[i]
       ELSE [mine[r][i] EXCEPT !.reserved = @ + Want(r)[i]]]
  /\ holds' = [holds EXCEPT ![r] = [i \in Items |-> IF i \notin Lines(r) THEN NoHold
       ELSE [status |-> "active", qty |-> Want(r)[i], used |-> 0]]]
  /\ order' = [order EXCEPT ![r] = "confirmed"]
  /\ Finish(r, "done", Lines(r))
  /\ UNCHANGED moved

AsIs(n) == n
AtLeastZero(n) == IF n < 0 THEN 0 ELSE n

Out(row, n) == [row EXCEPT !.quantity = @ - n]
OutOfReserve(row, n) == [quantity |-> row.quantity - n, reserved |-> AtLeastZero(row.reserved - n)]

Consume(hold, n) ==
  [status |-> IF hold.used + n >= hold.qty THEN "consumed" ELSE hold.status,
   qty |-> hold.qty, used |-> hold.used + n]

AllTaken(hs) == \A i \in Items : hs[i].status # "active"

CommitInvoice(r) ==
  /\ AllLocked(r) /\ In(r) = "invoice"
  /\ stock' = [i \in Items |-> IF i \in Lines(r) THEN Out(mine[r][i], Want(r)[i]) ELSE stock[i]]
  /\ moved' = [i \in Items |-> moved[i] - Want(r)[i]]
  /\ Finish(r, "done", Lines(r))
  /\ UNCHANGED <<holds, order>>

\* The invoice counts the reservations of its order that are still active.  Had
\* another transaction written one of them since the snapshot, each would have
\* read what the other wrote, and this one, the later to commit, fails.
SkewAllowed(r) == TRUE
NoSkew(r) == job[r].of \notin stale[r]

CommitOrderInvoice(r) ==
  LET o == job[r].of
      after == [i \in Items |-> IF i \in Lines(r) THEN Consume(held[r][i], Want(r)[i])
                                                  ELSE held[r][i]]
  IN /\ AllLocked(r) /\ In(r) = "orderInvoice"
     /\ IF NoSkew(r)
          THEN /\ stock' = [i \in Items |-> IF i \in Lines(r)
                              THEN OutOfReserve(mine[r][i], Want(r)[i]) ELSE stock[i]]
               /\ moved' = [i \in Items |-> moved[i] - Want(r)[i]]
               /\ holds' = [holds EXCEPT ![o] =
                    [i \in Items |-> IF i \in Lines(r) THEN after[i] ELSE @[i]]]
               /\ order' = [order EXCEPT ![o] =
                    IF AllTaken(after) THEN "invoiced" ELSE @]
               /\ Finish(r, "done", Lines(r) \cup {o})
          ELSE Abort(r)

-----------------------------------------------------------------------------
(* updateSalesOrder with status 'cancelled': the reservations are read before *)
(* the transaction that releases them.                                        *)

\* With nothing to release the new status is never saved.
CancelOrder(r) == \E o \in Orders :
  /\ Call(r, "cancel")
  /\ IF Active(holds[o]) = {}
       THEN Finish(r, "done", {}) /\ UNCHANGED db
       ELSE Begin(r, "cancel", o, NoWant, holds[o], Active(holds[o]))

ReadHeld(r) == \E i \in todo[r] :
  /\ pc[r] = "lock" /\ In(r) = "cancel"
  /\ mine' = [mine EXCEPT ![r][i] = stock[i]]
  /\ todo' = [todo EXCEPT ![r] = @ \ {i}]
  /\ UNCHANGED <<db, lock, pc, job, held, stale, dirty>>
LockHeld(r) == \E i \in todo[r] :
  /\ pc[r] = "lock" /\ lock[i] = None
  /\ In(r) = "cancel"
  /\ lock' = [lock EXCEPT ![i] = r]
  /\ mine' = [mine EXCEPT ![r][i] = stock[i]]
  /\ todo' = [todo EXCEPT ![r] = @ \ {i}]
  /\ UNCHANGED <<db, pc, job, held, stale, dirty>>

ReleaseAll(row, n) == [row EXCEPT !.reserved = 0]
Release(row, n) == [row EXCEPT !.reserved = AtLeastZero(@ - n)]

\* The reservations are saved from the copies, columns that changed since included.
CommitCancel(r) ==
  LET o == job[r].of
  IN /\ AllLocked(r) /\ In(r) = "cancel"
     /\ stock' = [i \in Items |-> IF i \in Active(held[r])
          THEN Release(mine[r][i], Remaining(held[r][i])) ELSE stock[i]]
     /\ holds' = [holds EXCEPT ![o] = [i \in Items |-> IF i \in Active(held[r])
          THEN [held[r][i] EXCEPT !.status = "released"] ELSE @[i]]]
     /\ order' = [order EXCEPT ![o] = "cancelled"]
     /\ Finish(r, "done", Active(held[r]) \cup {o})
     /\ UNCHANGED moved

-----------------------------------------------------------------------------
(* recordMovement: receiveStock or deductStock, then the movement.            *)

Signed(r, i) == IF In(r) = "inward" THEN Want(r)[i] ELSE -Want(r)[i]

\* The row is read, and an outward movement checked against its quantity.
EnterMovement(r) == \E kind \in {"inward", "outward"}, i \in Items, n \in Quantities :
  /\ Call(r, kind)
  /\ IF kind = "outward" /\ stock[i].quantity < n
       THEN Abort(r)
       ELSE /\ Goto(r, "save")
            /\ job' = [job EXCEPT ![r] =
                 [kind |-> kind, of |-> None, want |-> [NoWant EXCEPT ![i] = n]]]
            /\ mine' = [mine EXCEPT ![r][i] = stock[i]]
            /\ UNCHANGED <<db, lock, held, todo, stale, dirty>>

\* save(row) reads the row again; it will write the quantity, and the reserved
\* column too when that is no longer what the handler read.
QuantityOnly(r, i) == {"quantity"}
Differing(r, i) ==
  {"quantity"} \cup (IF stock[i].reserved # mine[r][i].reserved THEN {"reserved"} ELSE {})

LoadForSave(r) == \E i \in Lines(r) :
  /\ pc[r] = "save"
  /\ dirty' = [dirty EXCEPT ![r] = Differing(r, i)]
  /\ Goto(r, "write")
  /\ UNCHANGED <<db, lock, job, mine, held, todo, stale>>

WriteStock(r) == \E i \in Lines(r) :
  /\ pc[r] = "write" /\ lock[i] = None
  /\ stock' = [stock EXCEPT ![i] =
       [quantity |-> mine[r][i].quantity + Signed(r, i),
        reserved |-> IF "reserved" \in dirty[r] THEN mine[r][i].reserved ELSE @.reserved]]
  /\ stale' = [q \in Requests |-> IF Serializable(q) THEN stale[q] \cup {i} ELSE {}]
  /\ Goto(r, "movement")
  /\ UNCHANGED <<holds, order, moved, lock, locals>>

RecordMovement(r) == \E i \in Lines(r) :
  /\ pc[r] = "movement"
  /\ moved' = [moved EXCEPT ![i] = @ + Signed(r, i)]
  /\ Finish(r, "done", {})
  /\ UNCHANGED <<stock, holds, order>>

-----------------------------------------------------------------------------

\* A transaction is rolled back: chosen to break a deadlock, refused as not
\* serializable for a reason of the database's own, or its process is lost.
RolledBack(r) == pc[r] = "lock" /\ Abort(r)

Start(r) ==
  PlaceOrder(r) \/ Invoice(r) \/ InvoiceOrder(r) \/ CancelOrder(r) \/ EnterMovement(r)

Step(r) ==
  \/ LockStock(r) \/ CommitOrder(r) \/ CommitInvoice(r) \/ CommitOrderInvoice(r)
  \/ LockHeld(r) \/ CommitCancel(r)
  \/ LoadForSave(r) \/ WriteStock(r) \/ RecordMovement(r)
  \/ RolledBack(r)

Over == (\A r \in Requests : ~Running(r)) /\ UNCHANGED vars

Init ==
  /\ stock = [i \in Items |-> [quantity |-> Stocked[i], reserved |-> 0]]
  /\ holds = [o \in Requests |-> NoHolds]
  /\ order = [o \in Requests |-> "none"]
  /\ moved = Stocked
  /\ lock  = [i \in Items |-> None]
  /\ pc    = [r \in Requests |-> "idle"]
  /\ job   = [r \in Requests |-> NoJob]
  /\ mine  = [r \in Requests |-> NoRows]
  /\ held  = [r \in Requests |-> NoHolds]
  /\ todo  = [r \in Requests |-> {}]
  /\ stale = [r \in Requests |-> {}]
  /\ dirty = [r \in Requests |-> {}]

Next == (\E r \in Requests : Start(r) \/ Step(r)) \/ Over

Spec == Init /\ [][Next]_vars

-----------------------------------------------------------------------------
(* Properties. *)

TypeOK ==
  /\ stock \in [Items -> Row]
  /\ holds \in [Requests -> [Items -> Hold]]
  /\ order \in [Requests -> {"none", "confirmed", "invoiced", "cancelled"}]
  /\ moved \in [Items -> Int]
  /\ lock \in [Items -> Requests \cup {None}]
  /\ pc \in [Requests -> Labels]
  /\ job \in [Requests -> Job]
  /\ mine \in [Requests -> [Items -> Row]]
  /\ held \in [Requests -> [Items -> Hold]]
  /\ todo \in [Requests -> SUBSET Items]
  /\ stale \in [Requests -> SUBSET (Items \cup Requests)]
  /\ dirty \in [Requests -> SUBSET {"quantity", "reserved"}]

Holding(o, i) == IF holds[o][i].status = "active" THEN Remaining(holds[o][i]) ELSE 0

\* A stock row locked by a transaction is the row it read, whatever is saved by hand
\* beside it.
LockedStockIsCurrent ==
  \A i \in Items, r \in Requests : lock[i] = r => mine[r][i] = stock[i]

\* An order's reservation is read from the snapshot, before the stock row is locked;
\* once the row is locked nobody has touched that reservation in between.
ReservationIsCurrent ==
  \A i \in Items, r \in Requests :
    lock[i] = r /\ In(r) = "orderInvoice" => held[r][i] = holds[job[r].of][i]

Commits(r) == pc[r] = "lock" /\ pc'[r] = "done"

\* An invoice for an order takes no more than the order holds when it commits.
TakesOnlyWhatIsHeld ==
  [][\A r \in Requests : Commits(r) /\ In(r) = "orderInvoice" =>
       \A i \in Lines(r) : Want(r)[i] <= Holding(job[r].of, i)]_vars

\* An order or a direct invoice takes no more than is free when it commits.
SellsOnlyWhatIsFree ==
  [][\A r \in Requests : Commits(r) /\ In(r) \in {"order", "invoice"} =>
       \A i \in Lines(r) : Want(r)[i] <= stock[i].quantity - stock[i].reserved]_vars

\* The reserved column is what the active reservations still hold, so the stock
\* shown as available is really there to sell.
ReservedIsHeld ==
  \A i \in Items : stock[i].reserved = MapThenSumSet(LAMBDA o : Holding(o, i), Requests)

\* An order leaves 'confirmed' with the invoice that takes the last of it, though
\* each invoice sees only its own part of the order change.
InvoicedWhenTaken ==
  \A o \in Requests :
    order[o] = "confirmed" <=> \E i \in Items : holds[o][i].status = "active"

\* Serializable transactions, however they overlap, act as one at a time on the
\* stock and what the orders hold of it.
Book == INSTANCE StockBook
          WITH Orders <- Requests,
               quantity <- [i \in Items |-> stock[i].quantity],
               promised <- [o \in Requests |-> [i \in Items |-> Holding(o, i)]]
ImplementsStockBook == Book!BookSpec
=============================================================================
