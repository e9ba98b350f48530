----------------------------- MODULE Receivables -----------------------------
(***************************************************************************)
(* What a tenant is owed: sales invoices, the payment rows under them, and *)
(* the credit and debit notes that move the amount due.  One request       *)
(* handler of the API is one process r; every await of the handler is one  *)
(* step, so between two steps any other handler may run.  Postgres runs    *)
(* READ COMMITTED: a plain read sees the last committed row, an UPDATE,    *)
(* a save or a foreign-key check waits for a row another transaction holds *)
(* FOR UPDATE, and a transaction's writes appear together at its commit.   *)
(* Money is in paise.                                                      *)
(*                                                                         *)
(* A definition may stand just after a faulty form of it, which no action  *)
(* uses: AboveNet before AboveDue, ReadRow before LockRow, ...  Each is a  *)
(* slip of the code that must break a property.                            *)
(***************************************************************************)
EXTENDS Integers, FiniteSets, FiniteSetsExt

CONSTANTS
  Invoices,     \* invoices already issued
  Requests,     \* HTTP calls, each served at most once
  None,         \* no request
  Kinds,        \* the handlers that may be called, a subset of AllKinds
  Amounts,      \* amounts a caller may ask for
  Total,        \* Total[i]: the bill amount invoice i was issued with
  Party,        \* Party[i]: the customer invoice i is billed to
  Days,         \* dates that occur: "old" falls in the month CloseBooks locks
  Deducted,     \* invoices whose stock was deducted when they were issued
  MaxInFlight,  \* bound: handlers running at the same time
  MaxCrashes,   \* bound: handlers lost half-way
  ReversalsApart, \* bound: no reversal reads rows that another is to delete
  PoolSize,     \* database connections in the pool
  GatewayIds,   \* checkouts whose return carries the gateway's own payment id
  AcceptPartial \* the tenant lets a payment link collect part of the balance

AllKinds == {"record", "club", "deleteReceipt", "checkout", "payuReturn",
             "credit", "debit", "counterReturn", "deleteInvoice", "updateInvoice"}
AllDays == {"old", "new"}
Statuses == {"issued", "partial", "paid", "deleted"}

ASSUME ReceivablesAssumption ==
  /\ Kinds \subseteq AllKinds
  /\ Days \subseteq AllDays
  /\ Amounts \subseteq Nat \ {0}
  /\ Total \in [Invoices -> Nat \ {0}]
  /\ Deducted \subseteq Invoices
  /\ None \notin Requests
  /\ GatewayIds \subseteq Requests
  /\ MaxInFlight \in Nat
  /\ MaxCrashes \in Nat
  /\ ReversalsApart \in BOOLEAN
  /\ PoolSize \in Nat
  /\ AcceptPartial \in BOOLEAN

VARIABLES
  invoice,    \* sales_invoices: the columns the handlers read and write
  rows,       \* invoice_payments
  notes,      \* per invoice, the sums of its issued credit and debit notes
  restored,   \* how often an invoice's stock was put back
  movements,  \* invoices with a 'sales_invoice_delete' stock movement
  lock,       \* the transaction holding the invoice row FOR UPDATE
  conns,      \* requests inside a transaction: each keeps one connection
  closed,     \* tenant.settings.period_lock covers the "old" month
  crashes,
  pc,
  job,        \* a handler's request, and its local variables:
  amt,        \* the amount asked for, per invoice
  seen,       \* invoice rows it has read
  owed,       \* net amounts it has worked out from the notes
  todo,       \* invoices of a receipt still to lock, or to check
  hits,       \* payment rows it is to delete
  dirty       \* columns its save is to write

db   == <<invoice, rows, notes, restored, movements>>
env  == <<closed, crashes>>
locals == <<job, amt, seen, owed, todo, hits, dirty>>
vars == <<invoice, rows, notes, restored, movements, lock, conns, closed, crashes, pc,
          job, amt, seen, owed, todo, hits, dirty>>

Columns == {"total", "paid", "status", "deducted", "day"}
Row == [total: Nat, paid: Nat, status: Statuses, deducted: BOOLEAN, day: AllDays]

\* A payment row.  by: the request that inserted it; all the rows of one club
\* receipt share it, as they share receipt_group.  settles, ref: the checkout
\* whose gateway payment it books, and which of the two ids the reference holds.
Payment == [by: Requests, inv: Invoices, amount: Nat, mode: {"taken", "payu_pending"},
            settles: Requests \cup {None}, ref: {"none", "txnid", "mihpayid"}, day: AllDays]

Job == [kind: AllKinds \cup {"none"}, on: SUBSET Invoices, day: AllDays,
        of: Requests \cup {None}, ref: {"none", "txnid", "mihpayid"}, stock: BOOLEAN]

JobOf(kind, on, day) ==
  [kind |-> kind, on |-> on, day |-> day, of |-> None, ref |-> "none", stock |-> FALSE]

\* What the local variables hold before they are set.
NoJob == JobOf("none", {}, "new")
Zero  == [i \in Invoices |-> 0]
Blank == [i \in Invoices |-> [total |-> 0, paid |-> 0, status |-> "issued",
                              deducted |-> FALSE, day |-> "new"]]

Ended == {"done", "rejected", "crashed"}
Labels == Ended \cup
  {"idle", "books", "notes", "insert", "update", "rowBooks", "lock", "line",
   "gatewayDup", "dropPending", "reread", "redup", "noteBooks", "noteRead",
   "noteInsert", "noteStatus", "noteNotes",
   "returnNotes", "restore", "movement", "save", "write",
   "retotal"}

-----------------------------------------------------------------------------
(* Money. *)

Slack == 5    \* "0.05": what still counts as settled
Rupee == 100

Standing(paid, net) == IF paid >= net - Slack THEN "paid" ELSE "partial"

\* The columns an UPDATE names; the others keep their values.
PaidRow(row, paid, status) == [row EXCEPT !.paid = paid, !.status = status]
StatusRow(row, status) == [row EXCEPT !.status = status]
TotalRow(row, total) == [row EXCEPT !.total = total]
RedatedRow(row, day) == [row EXCEPT !.day = day]
DeletedRow(row) == [row EXCEPT !.status = "deleted", !.deducted = FALSE]
Overwrite(row, copy, cols) ==
  [total |-> IF "total" \in cols THEN copy.total ELSE row.total,
   paid |-> IF "paid" \in cols THEN copy.paid ELSE row.paid,
   status |-> IF "status" \in cols THEN copy.status ELSE row.status,
   deducted |-> IF "deducted" \in cols THEN copy.deducted ELSE row.deducted,
   day |-> IF "day" \in cols THEN copy.day ELSE row.day]

\* What a note adds to the sums of its invoice.
WithCredit(sums, a) == [sums EXCEPT !.credit = @ + a]
WithDebit(sums, a)  == [sums EXCEPT !.debit = @ + a]

Net(i, total) == total + notes[i].debit - notes[i].credit

\* What a reversal leaves of a paid amount: Math.max(0, paid - part).
TakeOffBelowZero(paid, part) == paid - part
TakeOff(paid, part) == IF part >= paid THEN 0 ELSE paid - part

Pending(p) == p.mode = "payu_pending"

-----------------------------------------------------------------------------
(* What a step needs, and how it moves its handler on. *)

In(r) == job[r].kind

\* A statement outside a transaction borrows a pooled connection for its duration.
Free == Cardinality(conns) < PoolSize

\* No transaction holds the row FOR UPDATE: it can be written, or referenced by
\* a foreign key.
WritableAlways(i) == TRUE
Writable(i) == lock[i] = None

BooksClosed(day) == closed /\ day = "old"

At(r, label) == pc[r] = label
Goto(r, label) == pc' = [pc EXCEPT ![r] = label]
Finish(r, how) == /\ Goto(r, how)
                  /\ job'  = [job EXCEPT ![r] = NoJob]
                  /\ amt'  = [amt EXCEPT ![r] = Zero]
                  /\ seen' = [seen EXCEPT ![r] = Blank]
                  /\ owed' = [owed EXCEPT ![r] = Zero]
                  /\ todo' = [todo EXCEPT ![r] = {}]
                  /\ hits' = [hits EXCEPT ![r] = {}]
                  /\ dirty' = [dirty EXCEPT ![r] = {}]

\* The end of a transaction: its row locks go and its connection returns.
Release(r) == /\ lock' = [i \in Invoices |-> IF lock[i] = r THEN None ELSE lock[i]]
              /\ conns' = conns \ {r}

Running(r) == pc[r] \notin Ended \cup {"idle"}

Call(r) == /\ At(r, "idle")
           /\ Free
           /\ Cardinality({q \in Requests : Running(q)}) < MaxInFlight

Only(i, a) == [Zero EXCEPT ![i] = a]

Deleted(i) == invoice[i].status = "deleted"

\* A handler that starts by reading the invoice refuses a deleted one.
CallOn(r, i, j, a, label) ==
  /\ Call(r)
  /\ IF Deleted(i)
       THEN Finish(r, "rejected")
       ELSE /\ Goto(r, label)
            /\ job' = [job EXCEPT ![r] = j]
            /\ amt' = [amt EXCEPT ![r] = Only(i, a)]
            /\ seen' = [seen EXCEPT ![r][i] = invoice[i]]
            /\ UNCHANGED <<owed, todo, hits, dirty>>
  /\ UNCHANGED <<db, lock, conns, env>>

-----------------------------------------------------------------------------
(* recordPayment: one payment on one invoice, nothing locked. *)

RecordPayment(r) == \E i \in Invoices, a \in Amounts, d \in Days :
  CallOn(r, i, JobOf("record", {i}, d), a, "books")

\* What the handler read: money already on the invoice, notes against it, an
\* amount above what is still due, the paid amount it will write.
IgnorePayments(r, i) == FALSE
HasPayments(r, i) == seen[r][i].paid > 0

IgnoreNotes(i) == FALSE
HasNotes(i) == notes[i].credit > 0 \/ notes[i].debit > 0

DueLeft(r, i) == Net(i, seen[r][i].total) - seen[r][i].paid

AboveNet(r, i) == amt[r][i] > Net(i, seen[r][i].total)
AboveDue(r, i) == amt[r][i] > DueLeft(r, i)

NewPaid(r, i) == seen[r][i].paid + amt[r][i]

\* A gateway payment above the balance is booked up to the balance.
Uncapped(r, i) == amt[r][i]
Applied(r, i) == IF AboveDue(r, i) THEN DueLeft(r, i) ELSE amt[r][i]

\* assertBooksOpen, for the handlers that call it after reading the invoice.
\* An edit or a delete is refused on the invoice's own date, an edit on the date it
\* moves the invoice to, and both when the row read says something is paid.
CheckBooks(r) == \E i \in job[r].on :
  /\ At(r, "books") /\ Free
  /\ LET touches == In(r) \in {"deleteInvoice", "updateInvoice"}
         days == (IF In(r) = "deleteInvoice" THEN {} ELSE {job[r].day})
                   \cup (IF touches THEN {seen[r][i].day} ELSE {})
         shut == \E day \in days : BooksClosed(day)
     IN \/ /\ shut \/ (touches /\ HasPayments(r, i))
           /\ Finish(r, "rejected")
        \/ /\ ~shut
           /\ touches => ~HasPayments(r, i)
           /\ Goto(r, IF In(r) = "updateInvoice" THEN "save" ELSE "notes")
           /\ UNCHANGED locals
  /\ UNCHANGED <<db, lock, conns, env>>

\* noteTotals against the invoice read earlier.  A desk payment above the due
\* amount is refused; a gateway payment is cut down to it; an invoice with
\* notes is not deleted.
ReadNotes(r) == \E i \in job[r].on :
  /\ At(r, "notes") /\ Free
  /\ \/ /\ In(r) = "record" /\ AboveDue(r, i)
        /\ Finish(r, "rejected")
     \/ /\ In(r) = "record" /\ ~AboveDue(r, i)
        /\ Goto(r, "insert")
        /\ owed' = [owed EXCEPT ![r][i] = Net(i, seen[r][i].total)]
        /\ UNCHANGED <<job, amt, seen, todo, hits, dirty>>
     \/ /\ In(r) = "payuReturn" /\ DueLeft(r, i) <= 0
        /\ Finish(r, "done")
     \/ /\ In(r) = "payuReturn" /\ DueLeft(r, i) > 0
        /\ Goto(r, "insert")
        /\ owed' = [owed EXCEPT ![r][i] = Net(i, seen[r][i].total)]
        /\ amt' = [amt EXCEPT ![r][i] = Applied(r, i)]
        /\ UNCHANGED <<job, seen, todo, hits, dirty>>
     \/ /\ In(r) = "deleteInvoice" /\ HasNotes(i)
        /\ Finish(r, "rejected")
     \/ /\ In(r) = "deleteInvoice" /\ ~HasNotes(i)
        /\ Goto(r, IF job[r].stock THEN "restore" ELSE "save")
        /\ UNCHANGED locals
  /\ UNCHANGED <<db, lock, conns, env>>

\* The payment row: its foreign key needs a share lock on the invoice row.
InsertPayment(r) == \E i \in job[r].on :
  /\ At(r, "insert") /\ Free /\ Writable(i)
  /\ rows' = rows \cup
       {[by |-> r, inv |-> i, amount |-> amt[r][i],
         mode |-> IF In(r) = "checkout" THEN "payu_pending" ELSE "taken",
         settles |-> job[r].of, ref |-> job[r].ref, day |-> job[r].day]}
  /\ IF In(r) = "checkout"
       THEN Finish(r, "done")
       ELSE Goto(r, "update") /\ UNCHANGED locals
  /\ UNCHANGED <<invoice, notes, restored, movements, lock, conns, env>>

\* UPDATE sales_invoices with the sum worked out from the row read earlier.
UpdatePaid(r) == \E i \in job[r].on :
  /\ At(r, "update") /\ Free /\ Writable(i)
  /\ invoice' = [invoice EXCEPT ![i] =
                   PaidRow(@, NewPaid(r, i), Standing(NewPaid(r, i), owed[r][i]))]
  /\ Finish(r, "done")
  /\ UNCHANGED <<rows, notes, restored, movements, lock, conns, env>>

-----------------------------------------------------------------------------
(* receiveClubPayment and deleteReceipt: one transaction over the invoices of *)
(* a receipt, which it locks FOR UPDATE one by one.                           *)

StartReceipt(r, on, a, d) ==
  /\ Call(r)
  /\ IF BooksClosed(d)
       THEN Finish(r, "rejected") /\ UNCHANGED conns
       ELSE /\ Goto(r, "lock")
            /\ job' = [job EXCEPT ![r] = JobOf("club", on, d)]
            /\ amt' = [amt EXCEPT ![r] = [i \in Invoices |-> IF i \in on THEN a[i] ELSE 0]]
            /\ todo' = [todo EXCEPT ![r] = on]
            /\ conns' = conns \cup {r}
            /\ UNCHANGED <<seen, owed, hits, dirty>>
  /\ UNCHANGED <<db, lock, env>>

ReceiveClubPayment(r) == \E on \in (SUBSET Invoices) \ {{}}, d \in Days :
  \E a \in [on -> Amounts] : StartReceipt(r, on, a, d)

\* The rows of a receipt: the one with this id, or all with this receipt_group.
OneRow(q) == LET all == {p \in rows : p.by = q}
             IN IF all = {} THEN {} ELSE {CHOOSE p \in all : TRUE}
ReceiptRows(q) == {p \in rows : p.by = q}

\* The rows are read before any invoice is locked.
DeleteReceipt(r) == \E q \in Requests :
  LET rs == ReceiptRows(q)
      on == {p.inv : p \in rs}
  IN /\ Call(r)
     /\ ReversalsApart => \A p \in Requests : hits[p] \cap rs = {}
     /\ IF rs = {}
          THEN Finish(r, "rejected") /\ UNCHANGED conns
          ELSE /\ Goto(r, "rowBooks")
               /\ job' = [job EXCEPT ![r] = JobOf("deleteReceipt", on, "new")]
               /\ todo' = [todo EXCEPT ![r] = on]
               /\ hits' = [hits EXCEPT ![r] = rs]
               /\ conns' = conns \cup {r}
               /\ UNCHANGED <<amt, seen, owed, dirty>>
     /\ UNCHANGED <<db, lock, env>>

\* A throw inside the transaction rolls it back.
AbortKeepingLocks(r) == Finish(r, "rejected") /\ UNCHANGED <<lock, conns>>
Abort(r) == Finish(r, "rejected") /\ Release(r)

\* assertBooksOpen runs inside the transaction, on a second connection.
CheckRowBooks(r) ==
  /\ At(r, "rowBooks") /\ Free
  /\ IF \E p \in hits[r] : BooksClosed(p.day)
       THEN Abort(r)
       ELSE Goto(r, "lock") /\ UNCHANGED <<locals, lock, conns>>
  /\ UNCHANGED <<db, env>>

\* The same read without setLock('pessimistic_write').
ReadRow(r) == \E i \in todo[r] :
  /\ At(r, "lock")
  /\ seen' = [seen EXCEPT ![r][i] = invoice[i]]
  /\ todo' = [todo EXCEPT ![r] = @ \ {i}]
  /\ UNCHANGED <<db, lock, conns, env, pc, job, amt, owed, hits, dirty>>

\* SELECT ... FOR UPDATE: the row is read as it is when its lock is granted.
LockRow(r) == \E i \in todo[r] :
  /\ At(r, "lock") /\ Writable(i)
  /\ lock' = [lock EXCEPT ![i] = r]
  /\ seen' = [seen EXCEPT ![r][i] = invoice[i]]
  /\ todo' = [todo EXCEPT ![r] = @ \ {i}]
  /\ UNCHANGED <<db, conns, env, pc, job, amt, owed, hits, dirty>>

\* One receipt is for one customer.
AllLocked(r) ==
  /\ At(r, "lock") /\ todo[r] = {}
  /\ IF In(r) = "club" /\ Cardinality({Party[i] : i \in job[r].on}) > 1
       THEN Abort(r)
       ELSE /\ Goto(r, "line")
            /\ todo' = [todo EXCEPT ![r] = job[r].on]
            /\ UNCHANGED <<lock, conns, job, amt, seen, owed, hits, dirty>>
  /\ UNCHANGED <<db, env>>

\* Transactions waiting for each other's rows: Postgres aborts one of them.
DeadlockVictim(r) ==
  /\ \E S \in SUBSET Requests :
       /\ r \in S
       /\ \A q \in S : /\ At(q, "lock") /\ todo[q] # {}
                       /\ \A i \in todo[q] : lock[i] \in S \ {q}
  /\ Abort(r)
  /\ UNCHANGED <<db, env>>

\* noteTotals runs on a second connection and sees committed notes only.
CheckLine(r) == \E i \in todo[r] :
  /\ At(r, "line") /\ Free
  /\ IF In(r) = "club" /\ (seen[r][i].status = "deleted" \/ AboveDue(r, i))
       THEN Abort(r)
       ELSE /\ owed' = [owed EXCEPT ![r][i] = Net(i, seen[r][i].total)]
            /\ todo' = [todo EXCEPT ![r] = @ \ {i}]
            /\ UNCHANGED <<lock, conns, pc, job, amt, seen, hits, dirty>>
  /\ UNCHANGED <<db, env>>

\* The receipt's rows and the new paid amounts become visible together.
CommitReceipt(r) ==
  /\ At(r, "line") /\ todo[r] = {} /\ In(r) = "club"
  /\ rows' = rows \cup
       {[by |-> r, inv |-> i, amount |-> amt[r][i], mode |-> "taken",
         settles |-> None, ref |-> "none", day |-> job[r].day] : i \in job[r].on}
  /\ invoice' = [i \in Invoices |->
       IF i \notin job[r].on THEN invoice[i]
       ELSE PaidRow(invoice[i], NewPaid(r, i), Standing(NewPaid(r, i), owed[r][i]))]
  /\ Release(r) /\ Finish(r, "done")
  /\ UNCHANGED <<notes, restored, movements, env>>

\* byInvoice: a receipt has at most one row on an invoice.
Taken(r, i) == CHOOSE a \in {p.amount : p \in {q \in hits[r] : q.inv = i}} : TRUE

PaidAfter(r, i) == TakeOff(seen[r][i].paid, Taken(r, i))
StatusAfter(r, i) ==
  IF seen[r][i].status = "deleted" THEN "deleted"
  ELSE IF PaidAfter(r, i) <= Slack THEN "issued"
  ELSE Standing(PaidAfter(r, i), owed[r][i])

CommitReversal(r) ==
  /\ At(r, "line") /\ todo[r] = {} /\ In(r) = "deleteReceipt"
  /\ rows' = rows \ hits[r]
  /\ invoice' = [i \in Invoices |->
       IF i \notin job[r].on THEN invoice[i]
       ELSE PaidRow(invoice[i], PaidAfter(r, i), StatusAfter(r, i))]
  /\ Release(r) /\ Finish(r, "done")
  /\ UNCHANGED <<notes, restored, movements, env>>

-----------------------------------------------------------------------------
(* PayU: createCheckoutOrder leaves a payu_pending payment row, and the       *)
(* gateway's return, which may be delivered again, books the money.           *)

PayuJob(kind, i, checkout, ref) ==
  [kind |-> kind, on |-> {i}, day |-> "new", of |-> checkout, ref |-> ref, stock |-> FALSE]

\* The outstanding amount leaves the notes out, and at least a rupee is due.
CreateCheckout(r) == \E i \in Invoices, a \in Amounts :
  LET due == invoice[i].total - invoice[i].paid
  IN /\ Call(r)
     /\ IF \/ due < Rupee \/ a < Rupee
           \/ AcceptPartial /\ a > due
           \/ ~AcceptPartial /\ a \notin (due - Slack)..(due + Slack)
          THEN Finish(r, "rejected")
          ELSE /\ Goto(r, "insert")
               /\ job' = [job EXCEPT ![r] = PayuJob("checkout", i, r, "txnid")]
               /\ amt' = [amt EXCEPT ![r] = Only(i, a)]
               /\ UNCHANGED <<seen, owed, todo, hits, dirty>>
     /\ UNCHANGED <<db, lock, conns, env>>

\* handleReturn, verifyAndApplyInvoice: the pending row is found by its txnid and
\* the gateway confirms.  The reference booked is the gateway's own payment id
\* when the return carries one, the txnid otherwise.
PayuReturn(r) == \E p \in rows :
  /\ Call(r)
  /\ Pending(p)
  /\ Goto(r, "gatewayDup")
  /\ job' = [job EXCEPT ![r] =
       PayuJob("payuReturn", p.inv, p.by, IF p.by \in GatewayIds THEN "mihpayid" ELSE "txnid")]
  /\ amt' = [amt EXCEPT ![r] = Only(p.inv, p.amount)]
  /\ UNCHANGED <<db, lock, conns, env, seen, owed, todo, hits, dirty>>

NoReference(r) == {}
SameReference(r) == {p \in rows : p.settles = job[r].of /\ p.ref = job[r].ref}

\* applyCapturedPayment: any row with this reference; a booked one ends the call.
GatewayDup(r) ==
  /\ At(r, "gatewayDup") /\ Free
  /\ \/ /\ \E p \in SameReference(r) : ~Pending(p)
        /\ Finish(r, "done")
     \/ /\ SameReference(r) = {} \/ \E p \in SameReference(r) : Pending(p)
        /\ Goto(r, "dropPending")
        /\ UNCHANGED locals
  /\ UNCHANGED <<db, lock, conns, env>>

DropPending(r) ==
  /\ At(r, "dropPending") /\ Free
  /\ rows' = rows \ {p \in SameReference(r) : Pending(p)}
  /\ Goto(r, "reread")
  /\ UNCHANGED <<invoice, notes, restored, movements, lock, conns, env, locals>>

\* recordPaymentByInvoiceId: the invoice is read whatever its status.
Reread(r) == \E i \in job[r].on :
  /\ At(r, "reread") /\ Free
  /\ Goto(r, "redup")
  /\ seen' = [seen EXCEPT ![r][i] = invoice[i]]
  /\ UNCHANGED <<db, lock, conns, env, job, amt, owed, todo, hits, dirty>>

Redup(r) ==
  /\ At(r, "redup") /\ Free
  /\ IF SameReference(r) # {}
       THEN Finish(r, "done")
       ELSE Goto(r, "notes") /\ UNCHANGED locals
  /\ UNCHANGED <<db, lock, conns, env>>

-----------------------------------------------------------------------------
(* createCreditNote, createSalesDebitNote and counterReturn, which gives the  *)
(* whole bill back and puts its stock back.                                   *)

CreateNote(r) == \E k \in Kinds \cap {"credit", "debit"}, i \in Invoices, a \in Amounts, d \in Days :
  /\ Call(r)
  /\ Goto(r, "noteBooks")
  /\ job' = [job EXCEPT ![r] = JobOf(k, {i}, d)]
  /\ amt' = [amt EXCEPT ![r] = Only(i, a)]
  /\ UNCHANGED <<db, lock, conns, env, seen, owed, todo, hits, dirty>>

StockJob(kind, i) ==
  [kind |-> kind, on |-> {i}, day |-> "new", of |-> None, ref |-> "none",
   stock |-> invoice[i].deducted]

CounterReturn(r) == \E i \in Invoices :
  CallOn(r, i, StockJob("counterReturn", i), invoice[i].total, "returnNotes")

\* A bill that already carries a credit is not returned again.
CheckReturn(r) == \E i \in job[r].on :
  /\ At(r, "returnNotes") /\ Free
  /\ IF notes[i].credit > Slack
       THEN Finish(r, "rejected")
       ELSE Goto(r, "noteBooks") /\ UNCHANGED locals
  /\ UNCHANGED <<db, lock, conns, env>>

CheckNoteBooks(r) ==
  /\ At(r, "noteBooks") /\ Free
  /\ IF BooksClosed(job[r].day)
       THEN Finish(r, "rejected")
       ELSE Goto(r, "noteRead") /\ UNCHANGED locals
  /\ UNCHANGED <<db, lock, conns, env>>

ReadForNote(r) == \E i \in job[r].on :
  /\ At(r, "noteRead") /\ Free
  /\ IF Deleted(i)
       THEN Finish(r, "rejected")
       ELSE /\ Goto(r, IF In(r) = "debit" THEN "noteInsert" ELSE "noteNotes")
            /\ seen' = [seen EXCEPT ![r][i] = invoice[i]]
            /\ UNCHANGED <<job, amt, owed, todo, hits, dirty>>
  /\ UNCHANGED <<db, lock, conns, env>>

\* A credit note may not exceed the value still open, whatever has been paid.
ReadNotesForCredit(r) == \E i \in job[r].on :
  /\ At(r, "noteNotes") /\ Free /\ In(r) # "debit"
  /\ LET open == Net(i, seen[r][i].total)
     IN IF amt[r][i] > open + Slack
          THEN Finish(r, "rejected")
          ELSE /\ Goto(r, "noteInsert")
               /\ owed' = [owed EXCEPT ![r][i] = open - amt[r][i]]
               /\ UNCHANGED <<job, amt, seen, todo, hits, dirty>>
  /\ UNCHANGED <<db, lock, conns, env>>

InsertNote(r) == \E i \in job[r].on :
  /\ At(r, "noteInsert") /\ Free /\ Writable(i)
  /\ IF In(r) = "debit"
       THEN /\ notes' = [notes EXCEPT ![i] = WithDebit(@, amt[r][i])]
            /\ Goto(r, "noteNotes")
       ELSE /\ notes' = [notes EXCEPT ![i] = WithCredit(@, amt[r][i])]
            /\ Goto(r, "noteStatus")
  /\ UNCHANGED <<invoice, rows, restored, movements, lock, conns, env, locals>>

\* A debit note reads the notes after its own insert.
ReadNotesAfterDebit(r) == \E i \in job[r].on :
  /\ At(r, "noteNotes") /\ Free /\ In(r) = "debit"
  /\ owed' = [owed EXCEPT ![r][i] = Net(i, seen[r][i].total)]
  /\ Goto(r, "noteStatus")
  /\ UNCHANGED <<db, lock, conns, env, job, amt, seen, todo, hits, dirty>>

StatusKept(r, i) == seen[r][i].status
StatusAfterNote(r, i) ==
  LET paid == seen[r][i].paid
      net  == owed[r][i]
  IN IF paid >= net - Slack
       THEN IF In(r) = "debit" \/ paid > Slack \/ net <= Slack THEN "paid" ELSE seen[r][i].status
       ELSE IF paid > Slack THEN "partial" ELSE "issued"

UpdateNoteStatus(r) == \E i \in job[r].on :
  /\ At(r, "noteStatus") /\ Free /\ Writable(i)
  /\ invoice' = [invoice EXCEPT ![i] = StatusRow(@, StatusAfterNote(r, i))]
  /\ IF job[r].stock
       THEN Goto(r, "restore") /\ UNCHANGED locals
       ELSE Finish(r, "done")
  /\ UNCHANGED <<rows, notes, restored, movements, lock, conns, env>>

-----------------------------------------------------------------------------
(* deleteInvoice and updateInvoice: whole rows saved from an earlier read.    *)

DeleteInvoice(r) == \E i \in Invoices :
  CallOn(r, i, StockJob("deleteInvoice", i), 0, "books")

UpdateInvoice(r) == \E i \in Invoices, a \in Amounts, d \in Days :
  CallOn(r, i, JobOf("updateInvoice", {i}, d), a, "books")

\* restoreForSale, then the stock movement: two writes.  A movement is unique per
\* document and item, so a second delete of the same invoice fails on it, after
\* its stock was put back; a return refers to its own credit note and never does.
RestoreStock(r) == \E i \in job[r].on :
  /\ At(r, "restore") /\ Free
  /\ restored' = [restored EXCEPT ![i] = @ + 1]
  /\ Goto(r, "movement")
  /\ UNCHANGED <<invoice, rows, notes, movements, lock, conns, env, locals>>

RecordMovement(r) == \E i \in job[r].on :
  /\ At(r, "movement") /\ Free
  /\ \/ /\ In(r) = "counterReturn"
        /\ Finish(r, "done")
        /\ UNCHANGED movements
     \/ /\ In(r) = "deleteInvoice" /\ i \in movements
        /\ Finish(r, "rejected")
        /\ UNCHANGED movements
     \/ /\ In(r) = "deleteInvoice" /\ i \notin movements
        /\ Goto(r, "save")
        /\ movements' = movements \cup {i}
        /\ UNCHANGED locals
  /\ UNCHANGED <<invoice, rows, notes, restored, lock, conns, env>>

\* save(invoice) reads the row again and takes the columns on which the copy in
\* memory differs from it: those the handler assigned, and those others changed
\* since it read the invoice.
Copy(r, i) == IF In(r) = "deleteInvoice" THEN DeletedRow(seen[r][i])
              ELSE RedatedRow(seen[r][i], job[r].day)
Differing(row, copy) == {c \in Columns : row[c] # copy[c]}

LoadForSave(r) == \E i \in job[r].on :
  /\ At(r, "save") /\ Free
  /\ dirty' = [dirty EXCEPT ![r] = Differing(invoice[i], Copy(r, i))]
  /\ Goto(r, "write")
  /\ UNCHANGED <<db, lock, conns, env, job, amt, seen, owed, todo, hits>>

\* Then it writes those columns.  An edit without lines ends here.
SaveInvoice(r) == \E i \in job[r].on :
  /\ At(r, "write") /\ Free /\ Writable(i)
  /\ invoice' = [invoice EXCEPT ![i] = Overwrite(@, Copy(r, i), dirty[r])]
  /\ \/ Finish(r, "done")
     \/ In(r) = "updateInvoice" /\ Goto(r, "retotal") /\ UNCHANGED locals
  /\ UNCHANGED <<rows, notes, restored, movements, lock, conns, env>>

Retotal(r) == \E i \in job[r].on :
  /\ At(r, "retotal") /\ Free /\ Writable(i)
  /\ invoice' = [invoice EXCEPT ![i] = TotalRow(@, amt[r][i])]
  /\ Finish(r, "done")
  /\ UNCHANGED <<rows, notes, restored, movements, lock, conns, env>>

-----------------------------------------------------------------------------
(* The environment, and the whole system. *)

\* The platform admin closes the month of the "old" dates, or opens it again.
CloseBooks == /\ "old" \in Days
              /\ closed' = ~closed
              /\ UNCHANGED <<db, lock, conns, crashes, pc, locals>>

\* A handler dies between two awaits: its transaction, if any, rolls back.
Crash(r) == /\ crashes < MaxCrashes
            /\ Running(r)
            /\ Finish(r, "crashed") /\ Release(r)
            /\ crashes' = crashes + 1
            /\ UNCHANGED <<db, closed>>

Start(r) ==
  \/ "record" \in Kinds /\ RecordPayment(r)
  \/ "club" \in Kinds /\ ReceiveClubPayment(r)
  \/ "deleteReceipt" \in Kinds /\ DeleteReceipt(r)
  \/ "checkout" \in Kinds /\ CreateCheckout(r)
  \/ "payuReturn" \in Kinds /\ PayuReturn(r)
  \/ CreateNote(r)
  \/ "counterReturn" \in Kinds /\ CounterReturn(r)
  \/ "deleteInvoice" \in Kinds /\ DeleteInvoice(r)
  \/ "updateInvoice" \in Kinds /\ UpdateInvoice(r)

Step(r) ==
  \/ CheckBooks(r) \/ ReadNotes(r) \/ InsertPayment(r) \/ UpdatePaid(r)
  \/ CheckRowBooks(r) \/ LockRow(r) \/ AllLocked(r) \/ DeadlockVictim(r)
  \/ CheckLine(r) \/ CommitReceipt(r) \/ CommitReversal(r)
  \/ GatewayDup(r) \/ DropPending(r) \/ Reread(r) \/ Redup(r)
  \/ CheckReturn(r) \/ CheckNoteBooks(r) \/ ReadForNote(r) \/ ReadNotesForCredit(r)
  \/ InsertNote(r) \/ ReadNotesAfterDebit(r) \/ UpdateNoteStatus(r)
  \/ RestoreStock(r) \/ RecordMovement(r) \/ LoadForSave(r) \/ SaveInvoice(r)
  \/ Retotal(r)

\* Every call was served: the run is over.
Over == (\A r \in Requests : pc[r] \in Ended) /\ UNCHANGED vars

Init ==
  /\ \E d \in [Invoices -> Days] :
       invoice = [i \in Invoices |-> [total |-> Total[i], paid |-> 0, status |-> "issued",
                                      deducted |-> i \in Deducted, day |-> d[i]]]
  /\ rows = {}
  /\ notes = [i \in Invoices |-> [credit |-> 0, debit |-> 0]]
  /\ restored = [i \in Invoices |-> 0]
  /\ movements = {}
  /\ lock = [i \in Invoices |-> None]
  /\ conns = {}
  /\ closed = FALSE
  /\ crashes = 0
  /\ pc = [r \in Requests |-> "idle"]
  /\ job  = [r \in Requests |-> NoJob]
  /\ amt  = [r \in Requests |-> Zero]
  /\ seen = [r \in Requests |-> Blank]
  /\ owed = [r \in Requests |-> Zero]
  /\ todo = [r \in Requests |-> {}]
  /\ hits = [r \in Requests |-> {}]
  /\ dirty = [r \in Requests |-> {}]

Next == (\E r \in Requests : Start(r) \/ Step(r) \/ Crash(r)) \/ CloseBooks \/ Over

Spec == Init /\ [][Next]_vars

\* The runtime goes on with every handler it has started, and Postgres detects
\* deadlocks; calls, crashes and the admin owe nothing.
Fairness == \A r \in Requests : WF_vars(Step(r))
FairSpec == Spec /\ Fairness

-----------------------------------------------------------------------------
(* Properties. *)

TypeOK ==
  /\ invoice \in [Invoices -> Row]
  /\ rows \subseteq Payment
  /\ notes \in [Invoices -> [credit: Nat, debit: Nat]]
  /\ restored \in [Invoices -> Nat]
  /\ movements \subseteq Invoices
  /\ lock \in [Invoices -> Requests \cup {None}]
  /\ conns \subseteq Requests
  /\ closed \in BOOLEAN
  /\ crashes \in Nat
  /\ pc \in [Requests -> Labels]
  /\ job \in [Requests -> Job]
  /\ amt \in [Requests -> [Invoices -> Nat]]
  /\ seen \in [Requests -> [Invoices -> Row]]
  /\ owed \in [Requests -> [Invoices -> Int]]
  /\ todo \in [Requests -> SUBSET Invoices]
  /\ hits \in [Requests -> SUBSET Payment]
  /\ dirty \in [Requests -> SUBSET Columns]

\* Money that was received and posted: not a pending checkout, and not a row whose
\* handler has yet to update the invoice.
Posted(i) == {p \in rows : p.inv = i /\ ~Pending(p) /\ pc[p.by] # "update"}

\* The row a transaction read under its lock is still the row: whatever runs
\* unlocked beside receiveClubPayment and deleteReceipt (a desk payment, a note's
\* status update, a whole row saved) waits for them, so what they write at commit
\* is worked out from current values.
LockedRowIsCurrent ==
  \A i \in Invoices, r \in Requests :
    lock[i] = r => /\ seen[r][i] = invoice[i]
                   /\ r \in conns
                   /\ pc[r] \in {"lock", "line"}

\* A club receipt raises the paid amount of each of its invoices by exactly its
\* part, and touches no other, whatever handlers run beside it.
ReceiptPostsExactly ==
  [][\A r \in Requests : In(r) = "club" /\ pc[r] = "line" /\ pc'[r] = "done" =>
       \A i \in Invoices : invoice'[i].paid = invoice[i].paid + amt[r][i]]_vars

\* When a receipt or its reversal commits, what it checked and worked out still holds,
\* though notes, edits and deletes run beside it: no invoice is deleted or receives more
\* than is due by then, and the status written is the one its paid amount calls for.
ReceiptSettlesRight ==
  [][\A r \in Requests : pc[r] = "line" /\ pc'[r] = "done" =>
       \A i \in job[r].on :
         LET paid   == invoice'[i].paid
             status == invoice'[i].status
             due    == Net(i, invoice[i].total)
         IN /\ In(r) = "club" => status # "deleted" /\ paid <= due
            /\ status = "paid" => paid >= due - Slack
            /\ status = "partial" => paid < due - Slack]_vars

\* The rows of one receipt come together and go together: no abort, crash,
\* deadlock or reversal leaves a part of a receipt behind.
ReceiptAllOrNothing ==
  [][\A r \in Requests :
       LET was == {p \in rows : p.by = r}
           is  == {p \in rows' : p.by = r}
       IN was # is =>
            \/ is = {}
            \/ was = {} /\ {p.inv : p \in is} = job[r].on]_vars

\* A payment is booked only up to what is still due by then, also where a gateway's
\* answer comes long after the checkout, or again after it was cut short.
NoOverReceipt ==
  [][\A i \in Invoices :
       invoice'[i].paid > invoice[i].paid => invoice'[i].paid <= Net(i, invoice[i].total)']_vars

\* deleteInvoice is blocked while payments exist, and none is taken afterwards.
DeletedHasNoMoney ==
  \A i \in Invoices : invoice[i].status = "deleted" => Posted(i) = {}

\* A bill's stock goes back at most once, by a delete or by a counter return.
StockRestoredOnce == \A i \in Invoices : restored[i] <= (IF i \in Deducted THEN 1 ELSE 0)

\* Between requests an invoice marked paid has nothing due beyond the rounding.
PaidMeansSettled ==
  (\A r \in Requests : ~Running(r)) =>
    \A i \in Invoices : invoice[i].status = "paid" =>
      invoice[i].paid >= Net(i, invoice[i].total) - Slack

\* One checkout is booked once, however often its return is delivered.
GatewayPaidOnce ==
  \A c \in Requests : Cardinality({p \in rows : ~Pending(p) /\ p.settles = c}) <= 1

\* Every handler that was called ends: no row lock and no connection is waited
\* for forever.
EveryCallEnds == \A r \in Requests : Running(r) ~> pc[r] \in Ended

\* The receipts that stand, each with its part of every invoice.
StandingReceipts ==
  LET part(r, i) == MapThenSumSet(LAMBDA p : p.amount, {p \in Posted(i) : p.by = r})
  IN {[by |-> r, parts |-> [i \in Invoices |-> part(r, i)]] :
        r \in {p.by : p \in UNION {Posted(i) : i \in Invoices}}}

\* The payment rows and paid_amount implement a ledger of whole receipts.
Ledger == INSTANCE ReceiptLedger
            WITH balance <- [i \in Invoices |-> invoice[i].paid],
                 receipts <- StandingReceipts
ImplementsLedger == Ledger!LedgerSpec
=============================================================================
