---------------------------- MODULE Counter_proofs ----------------------------
(***************************************************************************)
(* Proofs about Counter, for any bills, items, orders, pages and calls,    *)
(* any overlap of them, and any losses and restarts.                       *)
(***************************************************************************)
EXTENDS Counter, FiniteSetTheorems, SequenceTheorems, TLAPS

-----------------------------------------------------------------------------
(* Types. *)

\* A call that is to take a unit has seen one.
SeesAUnit == \A c \in Calls : call[c].at = "taking" => call[c].seen # 0
TypeInv == TypeOK /\ SeesAUnit

LEMMA Blanks ==
  /\ Resting \in Desk /\ Free \in Call /\ NewOrder \in Order
  /\ Resting.at = "idle" /\ Resting.job = {} /\ Resting.call = {}
  /\ Free.at = "free"
BY DEF Resting, Desk, Free, Call, NewOrder, Order, DeskKinds, CallKinds, NoId, Statuses

LEMMA InvoiceTypes ==
  ASSUME TypeOK
  PROVE  /\ Len(invoices) \in Nat /\ DOMAIN invoices = 1 .. Len(invoices)
         /\ \A k \in DOMAIN invoices :
              /\ k \in Nat \ {0} /\ invoices[k] \in Invoice /\ invoices[k].bill \in Bills
<1>1. Len(invoices) \in Nat /\ DOMAIN invoices = 1 .. Len(invoices)
  BY LenProperties DEF TypeOK
<1>2. \A k \in DOMAIN invoices : invoices[k] \in Invoice
  BY <1>1, ElementOfSeq DEF TypeOK
<1> QED
  BY <1>1, <1>2 DEF Invoice

LEMMA DeskTypes ==
  ASSUME TypeOK, NEW d \in Desks
  PROVE  /\ desk[d] \in Desk
         /\ desk[d].kind \in DeskKinds /\ desk[d].job \subseteq Job /\ desk[d].id \in Nat
         /\ desk[d].call \subseteq Calls /\ desk[d].pending \subseteq Job
         /\ desk[d].left \subseteq Job
         /\ desk[d].at \in {"idle", "next", "send", "sent", "pay", "paying"}
<1>1. desk[d] \in Desk
  BY DEF TypeOK
<1> QED
  BY <1>1 DEF Desk

LEMMA CallTypes ==
  ASSUME TypeOK, NEW c \in Calls
  PROVE  /\ call[c] \in Call
         /\ call[c].kind \in CallKinds /\ call[c].bill \subseteq Bills /\ call[c].id \in Nat
         /\ call[c].items \subseteq Items /\ call[c].item \subseteq Items
         /\ call[c].seen \in Nat /\ call[c].order \subseteq HubOrders
         /\ call[c].copy \in Order
<1>1. call[c] \in Call
  BY DEF TypeOK
<1> QED
  BY <1>1 DEF Call

LEMMA JobTypes ==
  \A j \in Job : j.bill \in Bills /\ j.id \in Nat
BY DEF Job

\* A desk's state is replaced by another.
LEMMA PutTypes ==
  ASSUME TypeOK, NEW d \in Desks, NEW state \in Desk, Put(d, state)
  PROVE  desk' \in [Desks -> Desk]
BY DEF Put, TypeOK

LEMMA SetTypes ==
  ASSUME TypeInv, NEW c \in Calls, NEW state \in Call, Set(c, state),
         state.at = "taking" => state.seen # 0
  PROVE  call' \in [Calls -> Call] /\ SeesAUnit'
BY DEF Set, TypeInv, TypeOK, SeesAUnit

LEMMA SeesTheSame ==
  ASSUME SeesAUnit, UNCHANGED call
  PROVE  SeesAUnit'
BY DEF SeesAUnit

LEMMA ServeTypes ==
  ASSUME TypeInv, NEW c \in Calls, NEW items, NEW state \in Call, Serve(c, items, state),
         state.at # "taking"
  PROVE  call' \in [Calls -> Call] /\ SeesAUnit' /\ served' \in Nat
BY SetTypes DEF Serve, TypeInv, TypeOK

LEMMA ReplyTypes ==
  ASSUME TypeInv, NEW c \in Calls, NEW answer \in {"ok", "error"}, Reply(c, answer)
  PROVE  call' \in [Calls -> Call] /\ SeesAUnit'
<1> DEFINE state == IF c \in Awaited THEN [call[c] EXCEPT !.at = answer] ELSE Free
<1>1. state \in Call
  BY CallTypes, Blanks DEF Call, TypeInv
<1>2. state.at # "taking"
  <2>1. call[c] \in Call
    BY CallTypes DEF TypeInv
  <2>2. [call[c] EXCEPT !.at = answer].at = answer
    BY <2>1 DEF Call
  <2> QED
    BY <2>2, Blanks
<1>3. Set(c, state)
  BY DEF Reply
<1> HIDE DEF state
<1> QED
  BY <1>1, <1>2, <1>3, SetTypes

LEMMA AbandonTypes ==
  ASSUME TypeInv, NEW d \in Desks, Abandon(d)
  PROVE  call' \in [Calls -> Call] /\ SeesAUnit'
BY Blanks DEF Abandon, TypeInv, TypeOK, SeesAUnit

\* A row of an invoice is replaced, or none.
LEMMA RowTypes ==
  ASSUME TypeOK, NEW k \in Nat, NEW row,
         k \in DOMAIN invoices => row \in Invoice
  PROVE  [invoices EXCEPT ![k] = row] \in Seq(Invoice)
<1>1. CASE k \in DOMAIN invoices
  <2>1. k \in 1 .. Len(invoices) /\ invoices \in Seq(Invoice)
    BY <1>1, InvoiceTypes DEF TypeOK
  <2> QED
    BY <1>1, <2>1, ExceptSeq
<1>2. CASE k \notin DOMAIN invoices
  <2>1. invoices \in [1 .. Len(invoices) -> Invoice] /\ DOMAIN invoices = 1 .. Len(invoices)
    BY LenProperties DEF TypeOK
  <2>2. [invoices EXCEPT ![k] = row] = invoices
    BY <1>2, <2>1
  <2> QED
    BY <2>2 DEF TypeOK
<1> QED
  BY <1>1, <1>2

-----------------------------------------------------------------------------

LEMMA QueueTypes ==
  ASSUME TypeOK, NEW b \in Bills, QueueBill(b)
  PROVE  /\ outbox' \subseteq Job
         /\ cart' \in [Bills -> {"open", "queued", "sold", "gone"}]
BY DEF QueueBill, TypeOK, Job, NoId

LEMMA PayTypes ==
  ASSUME TypeInv, NEW d \in Desks, Pay(d)
  PROVE  TypeInv'
<1>1. PICK b \in Bills : Pay(d)!(b)
  BY DEF Pay
<1> DEFINE state == [Resting EXCEPT !.at = "send", !.job = {[bill |-> b, id |-> NoId]}]
<1>2. state \in Desk
  <2>1. {[bill |-> b, id |-> NoId]} \in SUBSET Job
    BY DEF Job, NoId
  <2> QED
    BY <2>1, Blanks DEF Desk
<1>3. \/ QueueBill(b) /\ UNCHANGED desk
      \/ Put(d, state) /\ UNCHANGED <<cart, outbox>>
  BY <1>1
<1>4. UNCHANGED <<books, call, losses, served>>
  BY <1>1
<1> HIDE DEF state
<1>5. desk' \in [Desks -> Desk]
  BY <1>2, <1>3, PutTypes DEF TypeInv, TypeOK
<1>6. outbox' \subseteq Job /\ cart' \in [Bills -> {"open", "queued", "sold", "gone"}]
  BY <1>3, QueueTypes DEF TypeInv, TypeOK
<1> QED
  BY <1>4, <1>5, <1>6, SeesTheSame DEF TypeInv, TypeOK, books

LEMMA SyncTypes ==
  ASSUME TypeInv, NEW d \in Desks, SyncOutbox(d) \/ NextBill(d) \/ EndSync(d)
  PROVE  TypeInv'
<1>1. CASE SyncOutbox(d)
  <2> DEFINE state == [Resting EXCEPT !.at = "next", !.kind = "sync", !.pending = outbox]
  <2>1. state \in Desk
    BY Blanks DEF Desk, TypeInv, TypeOK, DeskKinds
  <2>2. Put(d, state)
    BY <1>1 DEF SyncOutbox
  <2> HIDE DEF state
  <2>3. desk' \in [Desks -> Desk]
    BY <2>1, <2>2, PutTypes DEF TypeInv
  <2> QED
    BY <1>1, <2>3, SeesTheSame DEF SyncOutbox, TypeInv, TypeOK, books
<1>2. CASE NextBill(d)
  <2>1. PICK j \in desk[d].pending : NextBill(d)!(j)
    BY <1>2 DEF NextBill
  <2> DEFINE state == [desk[d] EXCEPT !.at = IF j.id = NoId THEN "send" ELSE "pay",
                                      !.job = {j}, !.id = j.id, !.pending = @ \ {j}]
  <2>2. j \in Job /\ j.id \in Nat
    BY DeskTypes, JobTypes DEF TypeInv
  <2>3. state \in Desk
    BY <2>2, DeskTypes DEF Desk, TypeInv
  <2>4. Put(d, state)
    BY <2>1
  <2> HIDE DEF state
  <2>5. desk' \in [Desks -> Desk]
    BY <2>3, <2>4, PutTypes DEF TypeInv
  <2> QED
    BY <2>1, <2>5, SeesTheSame DEF TypeInv, TypeOK, books
<1>3. CASE EndSync(d)
  <2>1. desk' \in [Desks -> Desk]
    BY <1>3, PutTypes, Blanks DEF EndSync, TypeInv
  <2> QED
    BY <1>3, <2>1, DeskTypes, SeesTheSame DEF EndSync, TypeInv, TypeOK, books
<1> QED
  BY <1>1, <1>2, <1>3

LEMMA PostTypes ==
  ASSUME CounterAssumption, TypeInv, NEW d \in Desks, PostInvoice(d) \/ PostPayment(d)
  PROVE  TypeInv'
<1>1. CASE PostInvoice(d)
  <2>1. PICK c \in Calls, j \in desk[d].job : PostInvoice(d)!(c, j)
    BY <1>1 DEF PostInvoice
  <2> DEFINE state == [Free EXCEPT !.at = "insert", !.bill = {j.bill}, !.items = Lines[j.bill]]
             at == [desk[d] EXCEPT !.at = "sent", !.call = {c}]
  <2>2. j.bill \in Bills /\ Lines[j.bill] \subseteq Items
    BY DeskTypes, JobTypes DEF TypeInv, CounterAssumption
  <2>3. state \in Call /\ state.at = "insert"
    BY <2>2, Blanks DEF Call, Free
  <2>4. at \in Desk
    BY DeskTypes DEF Desk, TypeInv
  <2>5. Serve(c, Lines[j.bill], state) /\ Put(d, at)
    BY <2>1
  <2> HIDE DEF state, at
  <2>6. call' \in [Calls -> Call] /\ SeesAUnit' /\ served' \in Nat
    BY <2>3, <2>5, ServeTypes
  <2>7. desk' \in [Desks -> Desk]
    BY <2>4, <2>5, PutTypes DEF TypeInv
  <2> QED
    BY <2>1, <2>6, <2>7 DEF TypeInv, TypeOK, books
<1>2. CASE PostPayment(d)
  <2>1. PICK c \in Calls : PostPayment(d)!(c)
    BY <1>2 DEF PostPayment
  <2> DEFINE state == [Free EXCEPT !.at = "pay", !.kind = "payment", !.id = desk[d].id]
             at == [desk[d] EXCEPT !.at = "paying", !.call = {c}]
  <2>2. state \in Call /\ state.at = "pay"
    BY DeskTypes, Blanks DEF Call, Free, CallKinds, TypeInv
  <2>3. at \in Desk
    BY DeskTypes DEF Desk, TypeInv
  <2>4. Serve(c, {}, state) /\ Put(d, at)
    BY <2>1
  <2> HIDE DEF state, at
  <2>5. call' \in [Calls -> Call] /\ SeesAUnit' /\ served' \in Nat
    BY <2>2, <2>4, ServeTypes
  <2>6. desk' \in [Desks -> Desk]
    BY <2>3, <2>4, PutTypes DEF TypeInv
  <2> QED
    BY <2>1, <2>5, <2>6 DEF TypeInv, TypeOK, books
<1> QED
  BY <1>1, <1>2

\* What the device keeps, typed.
DeviceTyped ==
  /\ cart' \in [Bills -> {"open", "queued", "sold", "gone"}] /\ outbox' \subseteq Job
  /\ desk' \in [Desks -> Desk]

LEMMA LeaveTypes ==
  ASSUME TypeOK, NEW d \in Desks, NEW j \in Job, Sent(d, j) \/ Leave(d, j)
  PROVE  DeviceTyped
<1> DEFINE sent == [desk[d] EXCEPT !.at = "next", !.job = {}, !.call = {}]
           left == [desk[d] EXCEPT !.at = "next", !.job = {}, !.call = {}, !.left = @ \cup {j}]
<1>1. sent \in Desk /\ left \in Desk
  BY DeskTypes DEF Desk
<1>2. Put(d, sent) \/ Put(d, left) \/ Put(d, Resting)
  BY DEF Sent, Leave
<1> HIDE DEF sent, left
<1>3. desk' \in [Desks -> Desk]
  BY <1>1, <1>2, PutTypes, Blanks
<1> QED
  BY <1>3, JobTypes DEF Sent, Leave, DeviceTyped, TypeOK

LEMMA HearInvoiceTypes ==
  ASSUME TypeInv, NEW d \in Desks, HearInvoice(d)
  PROVE  TypeInv'
<1>1. PICK c \in desk[d].call, j \in desk[d].job : HearInvoice(d)!(c, j)
  BY DEF HearInvoice
<1>2. c \in Calls /\ j \in Job
  BY DeskTypes DEF TypeInv
<1>3. call' \in [Calls -> Call] /\ SeesAUnit'
  BY <1>1, <1>2, SetTypes, Blanks
<1> DEFINE paying == [desk[d] EXCEPT !.at = "pay", !.call = {}, !.id = call[c].id]
<1>4. paying \in Desk
  BY <1>2, CallTypes, DeskTypes DEF Desk, TypeInv
<1>5. \/ Sent(d, j) \/ Leave(d, j)
      \/ Put(d, paying) /\ UNCHANGED <<cart, outbox>>
      \/ Put(d, Resting) /\ UNCHANGED <<cart, outbox>>
  BY <1>1
<1>6. UNCHANGED <<books, losses, served>>
  BY <1>1
<1> HIDE DEF paying
<1>7. DeviceTyped
  BY <1>2, <1>4, <1>5, LeaveTypes, PutTypes, Blanks DEF DeviceTyped, TypeInv, TypeOK
<1> QED
  BY <1>3, <1>6, <1>7 DEF TypeInv, TypeOK, DeviceTyped, books

LEMMA HearPaymentTypes ==
  ASSUME TypeInv, NEW d \in Desks, HearPayment(d)
  PROVE  TypeInv'
<1>1. PICK c \in desk[d].call, j \in desk[d].job : HearPayment(d)!(c, j)
  BY DEF HearPayment
<1>2. c \in Calls /\ j \in Job /\ desk[d].id \in Nat
  BY DeskTypes DEF TypeInv
<1>3. call' \in [Calls -> Call] /\ SeesAUnit'
  BY <1>1, <1>2, SetTypes, Blanks
<1> DEFINE known == [j EXCEPT !.id = desk[d].id]
<1>4. known \in Job
  BY <1>2 DEF Job
<1>5. \/ Sent(d, j) \/ Leave(d, known)
      \/ /\ Put(d, Resting) /\ UNCHANGED outbox
         /\ cart' \in {cart, [cart EXCEPT ![j.bill] = "sold"]}
  BY <1>1 DEF PaymentRefused
<1>6. UNCHANGED <<books, losses, served>>
  BY <1>1
<1> HIDE DEF known
<1>7. DeviceTyped
  BY <1>2, <1>4, <1>5, LeaveTypes, PutTypes, Blanks DEF DeviceTyped, TypeInv, TypeOK
<1> QED
  BY <1>3, <1>6, <1>7 DEF TypeInv, TypeOK, DeviceTyped, books

LEMMA LoseTypes ==
  ASSUME TypeInv, NEW d \in Desks, Lose(d) \/ ClosePage(d)
  PROVE  TypeInv'
<1>1. call' \in [Calls -> Call] /\ SeesAUnit'
  BY AbandonTypes DEF Lose, ClosePage
<1>2. losses' \in Nat /\ UNCHANGED <<books, served>>
  BY DEF Lose, ClosePage, TypeInv, TypeOK
<1>3. CASE Lose(d)
  <2>1. PICK j \in desk[d].job : IF desk[d].kind = "sync" THEN Leave(d, j)
                                 ELSE QueueBill(j.bill) /\ Put(d, Resting)
    BY <1>3 DEF Lose
  <2>2. j \in Job /\ j.bill \in Bills
    BY DeskTypes, JobTypes DEF TypeInv
  <2>3. DeviceTyped
    BY <2>1, <2>2, LeaveTypes, QueueTypes, PutTypes, Blanks DEF DeviceTyped, TypeInv
  <2> QED
    BY <1>1, <1>2, <2>3 DEF TypeInv, TypeOK, DeviceTyped, books
<1>4. CASE ClosePage(d)
  <2>1. desk' \in [Desks -> Desk]
    BY <1>4, PutTypes, Blanks DEF ClosePage, TypeInv
  <2> QED
    BY <1>1, <1>2, <1>4, <2>1 DEF ClosePage, TypeInv, TypeOK, books
<1> QED
  BY <1>3, <1>4

-----------------------------------------------------------------------------

LEMMA InsertTypes ==
  ASSUME TypeInv, NEW c \in Calls, InsertInvoice(c)
  PROVE  TypeInv'
<1>1. PICK b \in call[c].bill : InsertInvoice(c)!(b)
  BY DEF InsertInvoice
<1> DEFINE row == [bill |-> b, paid |-> FALSE, deducted |-> FALSE, deleted |-> FALSE]
           state == [call[c] EXCEPT !.at = "take", !.id = Len(invoices) + 1]
<1>2. row \in Invoice
  BY CallTypes DEF Invoice, TypeInv
<1>3. Len(invoices) + 1 \in Nat
  BY InvoiceTypes DEF TypeInv
<1>4. state \in Call /\ state.at = "take"
  BY <1>3, CallTypes DEF Call, TypeInv
<1>5. \/ invoices' = Append(invoices, row) /\ Set(c, state)
      \/ Reply(c, "error") /\ UNCHANGED invoices
  BY <1>1
<1>6. UNCHANGED <<device, stock, order, bought, losses, served>>
  BY <1>1
<1> HIDE DEF row, state
<1>7. invoices \in Seq(Invoice) /\ Append(invoices, row) \in Seq(Invoice)
  BY <1>2, AppendProperties DEF TypeInv, TypeOK
<1>8. call' \in [Calls -> Call] /\ SeesAUnit'
  BY <1>4, <1>5, SetTypes, ReplyTypes
<1>9. invoices' \in Seq(Invoice)
  BY <1>5, <1>7
<1> QED
  BY <1>6, <1>8, <1>9 DEF TypeInv, TypeOK, device

LEMMA ReadStockTypes ==
  ASSUME TypeInv, NEW c \in Calls, ReadStock(c)
  PROVE  TypeInv'
<1>1. PICK i \in call[c].items : ReadStock(c)!(i)
  BY DEF ReadStock
<1> DEFINE passed == [call[c] EXCEPT !.items = @ \ {i}]
           seen == [call[c] EXCEPT !.at = "taking", !.item = {i}, !.seen = stock[i]]
<1>2. i \in Items /\ stock[i] \in Nat /\ call[c] \in Call /\ call[c].at = "take"
  BY <1>1, CallTypes DEF TypeInv, TypeOK
<1>3. passed \in Call /\ passed.at = "take"
  BY <1>2, CallTypes DEF Call
<1>4. seen \in Call /\ seen.seen = stock[i]
  BY <1>2, CallTypes DEF Call
<1>5. Reply(c, "error") \/ Set(c, passed) \/ (Set(c, seen) /\ stock[i] # 0)
  <2>1. CASE TooFew(i)
    BY <1>1, <2>1 DEF TooLittle, PassBy
  <2>2. CASE ~TooFew(i)
    BY <1>1, <1>2, <2>2 DEF TooFew
  <2> QED
    BY <2>1, <2>2
<1>6. UNCHANGED <<device, books, losses, served>>
  BY <1>1
<1> HIDE DEF passed, seen
<1>7. call' \in [Calls -> Call] /\ SeesAUnit'
  BY <1>3, <1>4, <1>5, SetTypes, ReplyTypes
<1> QED
  BY <1>6, <1>7 DEF TypeInv, TypeOK, device, books

LEMMA WriteStockTypes ==
  ASSUME TypeInv, NEW c \in Calls, DeductStock(c) \/ ReceiveStock(c) \/ ReadForReceipt(c)
  PROVE  TypeInv'
<1>1. CASE ReadForReceipt(c)
  <2>1. PICK i \in call[c].items : ReadForReceipt(c)!(i)
    BY <1>1 DEF ReadForReceipt
  <2> DEFINE state == [call[c] EXCEPT !.at = "giving", !.item = {i}, !.seen = stock[i]]
  <2>2. i \in Items /\ stock[i] \in Nat
    BY CallTypes DEF TypeInv, TypeOK
  <2>3. state \in Call /\ state.at = "giving"
    BY <2>2, CallTypes DEF Call, TypeInv
  <2>4. Set(c, state)
    BY <2>1
  <2> HIDE DEF state
  <2>5. call' \in [Calls -> Call] /\ SeesAUnit'
    BY <2>3, <2>4, SetTypes
  <2> QED
    BY <2>1, <2>5 DEF TypeInv, TypeOK, device, books
<1>2. CASE DeductStock(c) \/ ReceiveStock(c)
  <2>1. PICK i \in call[c].item, next \in {"take", "give"}, n \in {call[c].seen - 1, call[c].seen + 1} :
          /\ n = call[c].seen - 1 => call[c].at = "taking"
          /\ stock' = [stock EXCEPT ![i] = n]
          /\ Set(c, [call[c] EXCEPT !.at = next, !.items = @ \ {i}, !.item = {}, !.seen = 0])
          /\ UNCHANGED <<device, invoices, order, bought, losses, served>>
    <3>1. call[c].seen - 1 # call[c].seen + 1
      BY CallTypes DEF TypeInv
    <3> QED
      BY <1>2, <3>1 DEF DeductStock, ReceiveStock
  <2> DEFINE state == [call[c] EXCEPT !.at = next, !.items = @ \ {i}, !.item = {}, !.seen = 0]
  <2>2. state \in Call /\ state.at = next
    BY CallTypes DEF Call, TypeInv
  <2>3. Set(c, state) /\ UNCHANGED <<device, invoices, order, bought, losses, served>>
    BY <2>1
  <2>4. n \in Nat
    <3>1. call[c].seen \in Nat
      BY CallTypes DEF TypeInv
    <3>2. call[c].at = "taking" => call[c].seen # 0
      BY DEF TypeInv, SeesAUnit
    <3> QED
      BY <2>1, <3>1, <3>2
  <2>5. stock' \in [Items -> Nat]
    BY <2>1, <2>4 DEF TypeInv, TypeOK
  <2> HIDE DEF state
  <2>6. call' \in [Calls -> Call] /\ SeesAUnit'
    BY <2>2, <2>3, SetTypes
  <2> QED
    BY <2>3, <2>5, <2>6 DEF TypeInv, TypeOK, device
<1> QED
  BY <1>1, <1>2

\* The rows that a call saves at its end.
LEMMA SaveInvoiceTypes ==
  ASSUME TypeInv, NEW c \in Calls, StampInvoice(c) \/ RecordPayment(c) \/ EraseInvoice(c)
  PROVE  TypeInv'
<1>1. PICK k \in Nat : k = call[c].id
  BY CallTypes DEF TypeInv
<1> DEFINE stamped == [invoices[k] EXCEPT !.deducted = TRUE]
           paid == [invoices[k] EXCEPT !.paid = TRUE]
           erased == [invoices[k] EXCEPT !.paid = FALSE, !.deducted = FALSE, !.deleted = TRUE]
<1>2. k \in DOMAIN invoices => stamped \in Invoice /\ paid \in Invoice /\ erased \in Invoice
  BY InvoiceTypes DEF Invoice, TypeInv
<1>3. \/ invoices' = [invoices EXCEPT ![k] = stamped] \/ invoices' = [invoices EXCEPT ![k] = paid]
      \/ invoices' = [invoices EXCEPT ![k] = erased] \/ invoices' = invoices
  BY <1>1 DEF StampInvoice, RecordPayment, EraseInvoice
<1> HIDE DEF stamped, paid, erased
<1>4. invoices' \in Seq(Invoice)
  BY <1>2, <1>3, RowTypes DEF TypeInv, TypeOK
<1>5. call' \in [Calls -> Call] /\ SeesAUnit'
  BY SetTypes, ReplyTypes, Blanks DEF StampInvoice, RecordPayment, EraseInvoice
<1>6. UNCHANGED <<device, stock, order, bought, losses, served>>
  BY DEF StampInvoice, RecordPayment, EraseInvoice
<1> QED
  BY <1>4, <1>5, <1>6 DEF TypeInv, TypeOK, device

LEMMA DeleteTypes ==
  ASSUME CounterAssumption, TypeInv, NEW c \in Calls, DeleteInvoice(c)
  PROVE  TypeInv'
<1>1. PICK k \in DOMAIN invoices :
        /\ Serve(c, Lines[invoices[k].bill],
                 [Free EXCEPT !.at = "give", !.kind = "delete", !.id = k,
                              !.items = Restorable(invoices[k])])
        /\ UNCHANGED <<device, books, losses>>
  BY DEF DeleteInvoice
<1> DEFINE state == [Free EXCEPT !.at = "give", !.kind = "delete", !.id = k,
                                 !.items = Restorable(invoices[k])]
<1>2. k \in Nat /\ Restorable(invoices[k]) \subseteq Items
  BY InvoiceTypes DEF Restorable, CounterAssumption, TypeInv
<1>3. state \in Call /\ state.at = "give"
  BY <1>2, Blanks DEF Call, Free, CallKinds
<1>4. Serve(c, Lines[invoices[k].bill], state)
  BY <1>1
<1> HIDE DEF state
<1>5. call' \in [Calls -> Call] /\ SeesAUnit' /\ served' \in Nat
  BY <1>3, <1>4, ServeTypes
<1> QED
  BY <1>1, <1>5 DEF TypeInv, TypeOK, device, books

LEMMA OrderTypes ==
  ASSUME CounterAssumption, TypeInv, NEW c \in Calls,
         PatchOrder(c) \/ SaveOrder(c) \/ ReceiveOrder(c) \/ CloseOrder(c)
  PROVE  TypeInv'
<1>1. CASE PatchOrder(c)
  <2>1. PICK o \in HubOrders, to \in Statuses \ {"none"} : PatchOrder(c)!(o, to)
    BY <1>1 DEF PatchOrder
  <2> DEFINE state == [Free EXCEPT !.at = "patch", !.kind = "patch", !.order = {o},
                                   !.copy = [order[o] EXCEPT !.status = to]]
  <2>2. [order[o] EXCEPT !.status = to] \in Order
    BY DEF TypeInv, TypeOK, Order
  <2>3. state \in Call /\ state.at = "patch"
    BY <2>2, Blanks DEF Call, Free, CallKinds
  <2>4. Serve(c, {}, state)
    BY <2>1
  <2> HIDE DEF state
  <2>5. call' \in [Calls -> Call] /\ SeesAUnit' /\ served' \in Nat
    BY <2>3, <2>4, ServeTypes
  <2> QED
    BY <2>1, <2>5 DEF TypeInv, TypeOK, device, books
<1>2. CASE SaveOrder(c) \/ CloseOrder(c)
  <2>1. call' \in [Calls -> Call] /\ SeesAUnit'
    BY <1>2, SetTypes, Blanks DEF SaveOrder, CloseOrder
  <2>2. [status |-> "ready", received |-> TRUE] \in Order
    BY DEF Order, Statuses
  <2>3. order' \in [HubOrders -> Order]
    BY <1>2, <2>2, CallTypes DEF SaveOrder, CloseOrder, TypeInv, TypeOK
  <2>4. UNCHANGED <<device, invoices, stock, bought, losses, served>>
    BY <1>2 DEF SaveOrder, CloseOrder
  <2> QED
    BY <2>1, <2>3, <2>4 DEF TypeInv, TypeOK, device
<1>3. CASE ReceiveOrder(c)
  <2>1. PICK o \in HubOrders : ReceiveOrder(c)!(o)
    BY <1>3 DEF ReceiveOrder
  <2> DEFINE state == [Free EXCEPT !.at = "give", !.kind = "receive", !.order = {o},
                                   !.items = {Supply[o]}]
  <2>2. Supply[o] \in Items
    BY DEF CounterAssumption
  <2>3. state \in Call /\ state.at = "give"
    BY <2>2, Blanks DEF Call, Free, CallKinds
  <2>4. Serve(c, {Supply[o]}, state)
    BY <2>1
  <2> HIDE DEF state
  <2>5. call' \in [Calls -> Call] /\ SeesAUnit' /\ served' \in Nat
    BY <2>3, <2>4, ServeTypes
  <2> QED
    BY <2>1, <2>5 DEF TypeInv, TypeOK, device, books
<1> QED
  BY <1>1, <1>2, <1>3

LEMMA PurchaseTypes ==
  ASSUME TypeInv, NEW c \in Calls, CreateVendorInvoice(c) \/ EndVendorInvoice(c)
  PROVE  TypeInv'
<1>1. CASE CreateVendorInvoice(c)
  <2>1. PICK i \in Items : CreateVendorInvoice(c)!(i)
    BY <1>1 DEF CreateVendorInvoice
  <2> DEFINE state == [Free EXCEPT !.at = "give", !.kind = "purchase", !.items = {i}]
  <2>2. state \in Call /\ state.at = "give"
    BY Blanks DEF Call, Free, CallKinds
  <2>3. Serve(c, {i}, state)
    BY <2>1
  <2>4. bought' \in [Items -> Nat]
    BY <2>1 DEF TypeInv, TypeOK
  <2> HIDE DEF state
  <2>5. call' \in [Calls -> Call] /\ SeesAUnit' /\ served' \in Nat
    BY <2>2, <2>3, ServeTypes
  <2> QED
    BY <2>1, <2>4, <2>5 DEF TypeInv, TypeOK, device
<1>2. CASE EndVendorInvoice(c)
  <2>1. call' \in [Calls -> Call] /\ SeesAUnit'
    BY <1>2, SetTypes, Blanks DEF EndVendorInvoice
  <2> QED
    BY <1>2, <2>1 DEF EndVendorInvoice, TypeInv, TypeOK, device, books
<1> QED
  BY <1>1, <1>2

LEMMA OutsideTypes ==
  ASSUME TypeInv, (\E o \in HubOrders : PlaceOrder(o)) \/ Crash \/ UNCHANGED vars
  PROVE  TypeInv'
<1>1. CASE \E o \in HubOrders : PlaceOrder(o)
  <2>1. PICK o \in HubOrders : PlaceOrder(o)
    BY <1>1
  <2>2. order' \in [HubOrders -> Order]
    BY <2>1 DEF PlaceOrder, TypeInv, TypeOK, Order, Statuses
  <2>3. UNCHANGED <<device, invoices, stock, bought, call, losses, served>>
    BY <2>1 DEF PlaceOrder
  <2>4. SeesAUnit'
    BY <2>3, SeesTheSame DEF TypeInv
  <2> QED
    BY <2>2, <2>3, <2>4 DEF TypeInv, TypeOK, device
<1>2. CASE Crash
  <2>1. [Free EXCEPT !.at = "lost"] \in Call /\ [Free EXCEPT !.at = "lost"].at = "lost"
    BY Blanks DEF Call, Free
  <2>2. call' \in [Calls -> Call] /\ SeesAUnit'
    <3> SUFFICES ASSUME NEW c \in Calls
                 PROVE  call'[c] \in Call /\ (call'[c].at = "taking" => call'[c].seen # 0)
      BY <1>2 DEF Crash, SeesAUnit
    <3>1. call'[c] \in {call[c], [Free EXCEPT !.at = "lost"], Free}
      BY <1>2 DEF Crash
    <3> QED
      BY <2>1, <3>1, Blanks, CallTypes DEF TypeInv, SeesAUnit
  <2>3. UNCHANGED <<device, books, served>> /\ losses' = losses + 1
    BY <1>2 DEF Crash
  <2>4. losses' \in Nat
    BY <2>3 DEF TypeInv, TypeOK
  <2> QED
    BY <2>2, <2>3, <2>4 DEF TypeInv, TypeOK, device, books
<1>3. CASE UNCHANGED vars
  BY <1>3 DEF vars, device, books, TypeInv, TypeOK, SeesAUnit
<1> QED
  BY <1>1, <1>2, <1>3

LEMMA TypeStep ==
  ASSUME CounterAssumption, TypeInv, [Next]_vars
  PROVE  TypeInv'
<1>1. ASSUME NEW d \in Desks, AtTheDesk(d)  PROVE TypeInv'
  BY <1>1, PayTypes, SyncTypes, PostTypes, HearInvoiceTypes, HearPaymentTypes, LoseTypes
     DEF AtTheDesk
<1>2. ASSUME NEW c \in Calls, InTheServer(c)  PROVE TypeInv'
  BY <1>2, InsertTypes, ReadStockTypes, WriteStockTypes, SaveInvoiceTypes, DeleteTypes, OrderTypes,
     PurchaseTypes DEF InTheServer
<1> QED
  BY <1>1, <1>2, OutsideTypes DEF Next

LEMMA InitTypes ==
  ASSUME CounterAssumption, Init
  PROVE  TypeInv
BY Blanks DEF Init, TypeInv, TypeOK, SeesAUnit, CounterAssumption

\* Every variable keeps its range; in particular the quantity of an item is never below
\* zero, for a call writes one less than a quantity it saw and found to be enough.
THEOREM CounterTypeCorrect == Spec => []TypeOK
<1>1. TypeInv /\ [Next]_vars => TypeInv'
  BY CounterAssumption, TypeStep
<1>2. Init => TypeInv
  BY CounterAssumption, InitTypes
<1>3. TypeInv => TypeOK
  BY DEF TypeInv
<1> QED
  BY <1>1, <1>2, <1>3, PTL DEF Spec

-----------------------------------------------------------------------------
(* KeptUntilPaid, where no sale is made while the outbox is sent and no payment is        *)
(* recorded while an invoice is deleted: the device and the server keep the books.        *)

SalesAndSyncsApart == {"sale", "sync"} \in Apart
PaymentsAndDeletesApart == {"payment", "delete"} \in Apart

\* A bill that may leave the device.
Safe(b) ==
  \E k \in DOMAIN invoices : invoices[k].bill = b /\ (invoices[k].paid \/ b \in OnCredit)

\* The invoice a job names is one of its bill.
Known(j) == j.id # NoId => j.id \in DOMAIN invoices /\ invoices[j.id].bill = j.bill

\* A desk has a bill in hand from its post to the answer, and then knows its invoice.
DeskOk(s) ==
  /\ s.at = "next" => s.kind = "sync"
  /\ s.at \in {"idle", "next"} => s.job = {}
  /\ s.at \notin {"idle", "next"} => \E j \in s.job : s.job = {j}
  /\ s.at \in {"pay", "paying"} =>
       s.id \in DOMAIN invoices /\ \A j \in s.job : invoices[s.id].bill = j.bill
  /\ \A j \in s.job \cup s.pending \cup s.left : Known(j)

\* A desk that sends the outbox has every bill that is not safe.
Carries(s) ==
  s.at # "idle" /\ s.kind = "sync" =>
    \A b \in Bills : cart[b] = "queued" =>
      Safe(b) \/ \E j \in s.job \cup s.pending \cup s.left : j.bill = b

\* What a desk waits for is the answer to what it asked.
Linked(s) ==
  /\ s.at \notin {"sent", "paying"} => s.call = {}
  /\ s.at = "sent" => \A c \in s.call :
       \/ call[c].at = "lost"
       \/ /\ call[c].at \in {"insert", "take", "taking", "ok", "error"}
          /\ call[c].kind = "invoice" /\ \A j \in s.job : call[c].bill = {j.bill}
  /\ s.at = "paying" => \A c \in s.call :
       \/ call[c].at = "lost"
       \/ /\ call[c].at \in {"pay", "ok", "error"}
          /\ call[c].kind = "payment" /\ call[c].id = s.id

\* A call knows the invoice it is about: issued from its bill, paid by it, or unpaid
\* while it is being deleted.
Deletes(q) == q.at \in {"give", "giving"} /\ q.kind = "delete"
CallOk(q) ==
  /\ q.at = "insert" => q.kind = "invoice" /\ \E b \in Bills : q.bill = {b}
  /\ q.at \in {"take", "taking"} => q.kind = "invoice"
  /\ q.at \in {"take", "taking", "ok"} /\ q.kind = "invoice" =>
       q.id \in DOMAIN invoices /\ q.bill = {invoices[q.id].bill}
  /\ q.at = "pay" => q.kind = "payment" /\ q.id \in DOMAIN invoices
  /\ q.at = "ok" /\ q.kind = "payment" => q.id \in DOMAIN invoices /\ invoices[q.id].paid
  /\ q.at \in {"give", "giving"} => q.kind \in {"delete", "receive", "purchase"}
  /\ Deletes(q) => q.id \in DOMAIN invoices /\ ~invoices[q.id].paid
  /\ q.at = "patch" => q.kind = "patch"

OneSide == \A d, e \in Desks :
  ~(/\ desk[d].at # "idle" /\ desk[d].kind = "sale"
    /\ desk[e].at # "idle" /\ desk[e].kind = "sync")
OwnCalls == \A d, e \in Desks : d # e => desk[d].call \cap desk[e].call = {}
NonePaidBesideDelete == \A c, q \in Calls : call[c].at = "pay" => ~Deletes(call[q])

DeviceInv ==
  /\ OneSide
  /\ \A j \in outbox : Known(j)
  /\ \A d \in Desks : DeskOk(desk[d]) /\ Carries(desk[d])
  /\ KeptUntilPaid
LinksInv == OwnCalls /\ \A d \in Desks : Linked(desk[d])
ServerInv == NonePaidBesideDelete /\ \A c \in Calls : CallOk(call[c])

KeptInv == TypeInv /\ DeviceInv /\ LinksInv /\ ServerInv

-----------------------------------------------------------------------------
(* Invoices are only added, keep their bill, and once paid stay paid. *)

Grows ==
  /\ DOMAIN invoices \subseteq DOMAIN invoices'
  /\ \A k \in DOMAIN invoices :
       /\ invoices'[k].bill = invoices[k].bill
       /\ invoices[k].paid => invoices'[k].paid

LEMMA SameGrow ==
  ASSUME UNCHANGED invoices
  PROVE  Grows
BY DEF Grows

LEMMA AppendGrows ==
  ASSUME TypeInv, NEW row \in Invoice, invoices' = Append(invoices, row)
  PROVE  /\ Grows
         /\ Len(invoices) + 1 \in DOMAIN invoices' /\ invoices'[Len(invoices) + 1] = row
         /\ \A k \in DOMAIN invoices : invoices'[k] = invoices[k]
<1>1. invoices \in Seq(Invoice) /\ Len(invoices) \in Nat /\ DOMAIN invoices = 1 .. Len(invoices)
  BY InvoiceTypes DEF TypeInv, TypeOK
<1>2. /\ invoices' \in Seq(Invoice) /\ Len(invoices') = Len(invoices) + 1
      /\ \A k \in 1 .. Len(invoices) : invoices'[k] = invoices[k]
      /\ invoices'[Len(invoices) + 1] = row
  BY <1>1, AppendProperties
<1>3. DOMAIN invoices' = 1 .. Len(invoices) + 1
  BY <1>2, LenProperties
<1> QED
  BY <1>1, <1>2, <1>3 DEF Grows

LEMMA RowGrows ==
  ASSUME TypeInv, NEW k \in DOMAIN invoices, NEW row,
         invoices' = [invoices EXCEPT ![k] = row],
         row.bill = invoices[k].bill, invoices[k].paid => row.paid
  PROVE  /\ Grows /\ DOMAIN invoices' = DOMAIN invoices /\ invoices'[k] = row
         /\ \A n \in DOMAIN invoices \ {k} : invoices'[n] = invoices[n]
<1>1. invoices \in [1 .. Len(invoices) -> Invoice] /\ DOMAIN invoices = 1 .. Len(invoices)
  BY LenProperties DEF TypeInv, TypeOK
<1> QED
  BY <1>1 DEF Grows

LEMMA KnownStays ==
  ASSUME Grows, NEW j, Known(j)
  PROVE  Known(j)'
BY DEF Grows, Known

LEMMA SafeStays ==
  ASSUME Grows, NEW b, Safe(b)
  PROVE  Safe(b)'
BY DEF Grows, Safe

LEMMA DeskOkStays ==
  ASSUME Grows, NEW s \in Desk, DeskOk(s)
  PROVE  DeskOk(s)'
BY KnownStays DEF DeskOk, Grows

\* The device is idle: what it knows stays true.
LEMMA DeviceStays ==
  ASSUME TypeInv, DeviceInv, Grows, UNCHANGED device
  PROVE  DeviceInv'
<1>1. UNCHANGED <<cart, outbox, desk>>
  BY DEF device
<1>2. OneSide'
  BY <1>1 DEF DeviceInv, OneSide
<1>3. (\A j \in outbox : Known(j))'
  BY <1>1, KnownStays DEF DeviceInv
<1>4. ASSUME NEW d \in Desks  PROVE (DeskOk(desk[d]) /\ Carries(desk[d]))'
  <2>1. PICK s \in Desk : s = desk[d]
    BY DeskTypes DEF TypeInv
  <2>2. s = desk'[d]
    BY <1>1, <2>1
  <2>3. DeskOk(s) /\ Carries(s)
    BY <2>1 DEF DeviceInv
  <2>4. DeskOk(s)'
    BY <2>3, DeskOkStays
  <2>5. Carries(s)'
    BY <1>1, <2>3, SafeStays DEF Carries
  <2> QED
    BY <2>2, <2>4, <2>5
<1>5. KeptUntilPaid'
  <2> SUFFICES ASSUME NEW b \in Bills, cart'[b] = "queued", ~\E j \in outbox' : j.bill = b
               PROVE  Safe(b)'
    BY DEF KeptUntilPaid, Safe
  <2>1. Safe(b)
    BY <1>1 DEF DeviceInv, KeptUntilPaid, Safe
  <2> QED
    BY <2>1, SafeStays
<1> QED
  BY <1>2, <1>3, <1>4, <1>5 DEF DeviceInv

-----------------------------------------------------------------------------
(* Calls. *)

\* One call moves: it knows its invoice, and the others still know theirs.
LEMMA CallMoves ==
  ASSUME TypeInv, ServerInv, Grows, NEW c \in Calls, NEW q \in Call, Set(c, q), CallOk(q)',
         \/ \A e \in Calls : ~Deletes(call[e])
         \/ \A k \in DOMAIN invoices : invoices'[k].paid => invoices[k].paid,
         q.at = "pay" => \A e \in Calls : ~Deletes(call[e]),
         Deletes(q) => \A e \in Calls \ {c} : call[e].at # "pay"
  PROVE  ServerInv'
<1>1. call'[c] = q /\ \A e \in Calls \ {c} : call'[e] = call[e]
  BY DEF Set, TypeInv, TypeOK
<1>2. NonePaidBesideDelete'
  <2> SUFFICES ASSUME NEW e \in Calls, NEW f \in Calls, call'[e].at = "pay", Deletes(call'[f])
               PROVE  FALSE
    BY DEF NonePaidBesideDelete, Deletes
  <2>1. e # f
    BY DEF Deletes
  <2> QED
    BY <1>1, <2>1 DEF ServerInv, NonePaidBesideDelete
<1>3. ASSUME NEW e \in Calls  PROVE CallOk(call[e])'
  <2>1. CASE e = c
    BY <1>1, <2>1
  <2>2. CASE e # c
    <3>1. PICK p \in Call : p = call[e]
      BY CallTypes DEF TypeInv
    <3>2. p = call'[e]
      BY <1>1, <2>2, <3>1
    <3>3. CallOk(p)
      BY <3>1 DEF ServerInv
    <3>4. Deletes(p) => p.id \in DOMAIN invoices' /\ ~invoices'[p.id].paid
      BY <3>1, <3>3 DEF CallOk, Grows
    <3>5. CallOk(p)'
      BY <3>3, <3>4 DEF CallOk, Grows, Deletes
    <3> QED
      BY <3>2, <3>5
  <2> QED
    BY <2>1, <2>2
<1> QED
  BY <1>2, <1>3 DEF ServerInv

\* Calls end.
LEMMA CallsEnd ==
  ASSUME TypeInv, ServerInv, UNCHANGED invoices,
         \A c \in Calls : call'[c] = call[c] \/ call'[c].at \in {"free", "lost"}
  PROVE  ServerInv'
<1>1. NonePaidBesideDelete'
  BY DEF ServerInv, NonePaidBesideDelete, Deletes
<1>2. ASSUME NEW c \in Calls  PROVE CallOk(call[c])'
  <2>1. CASE call'[c] = call[c]
    BY <2>1 DEF ServerInv, CallOk, Deletes
  <2>2. CASE call'[c].at \in {"free", "lost"}
    BY <2>2 DEF CallOk, Deletes
  <2> QED
    BY <2>1, <2>2
<1> QED
  BY <1>1, <1>2 DEF ServerInv

\* What a page waits for is at work, answered or lost.
LEMMA AwaitedCalls ==
  ASSUME LinksInv, NEW d \in Desks, NEW c \in desk[d].call
  PROVE  /\ c \in Awaited
         /\ \/ call[c].at = "lost"
            \/ /\ call[c].kind = "invoice" /\ desk[d].at = "sent"
               /\ call[c].at \in {"insert", "take", "taking", "ok", "error"}
               /\ \A j \in desk[d].job : call[c].bill = {j.bill}
            \/ /\ call[c].kind = "payment" /\ desk[d].at = "paying"
               /\ call[c].at \in {"pay", "ok", "error"} /\ call[c].id = desk[d].id
<1>1. Linked(desk[d])
  BY DEF LinksInv
<1> QED
  BY <1>1 DEF Linked, Awaited

\* A call that moves stays the answer to what was asked.
Follows(p, q) ==
  /\ q.kind = p.kind /\ q.bill = p.bill
  /\ q.kind = "invoice" => q.at \in {"insert", "take", "taking", "ok", "error"}
  /\ q.kind = "payment" => q.at \in {"pay", "ok", "error"} /\ q.id = p.id

LEMMA LinksFollow ==
  ASSUME TypeInv, LinksInv, UNCHANGED desk, NEW c \in Calls, NEW q \in Call, Set(c, q),
         call[c].at # "lost", c \in Awaited => Follows(call[c], q)
  PROVE  LinksInv'
<1>1. call'[c] = q /\ \A e \in Calls \ {c} : call'[e] = call[e]
  BY DEF Set, TypeInv, TypeOK
<1>2. OwnCalls'
  BY DEF LinksInv, OwnCalls
<1>3. ASSUME NEW d \in Desks  PROVE Linked(desk[d])'
  <2>1. Linked(desk[d]) /\ desk'[d] = desk[d] /\ desk[d].call \subseteq Calls
    BY DeskTypes DEF LinksInv, TypeInv
  <2>2. CASE c \notin desk[d].call
    BY <1>1, <2>1, <2>2 DEF Linked
  <2>3. CASE c \in desk[d].call
    <3>1. Follows(call[c], q)
      BY <2>3, AwaitedCalls
    <3> QED
      BY <1>1, <2>1, <3>1 DEF Linked, Follows
  <2> QED
    BY <2>2, <2>3
<1> QED
  BY <1>2, <1>3 DEF LinksInv

\* Nobody waits for a call that ends unheard.
LEMMA LinksStay ==
  ASSUME TypeInv, LinksInv, UNCHANGED desk,
         \A c \in Awaited : call'[c] = call[c] \/ call'[c].at = "lost"
  PROVE  LinksInv'
<1>1. OwnCalls'
  BY DEF LinksInv, OwnCalls
<1>2. ASSUME NEW d \in Desks  PROVE Linked(desk[d])'
  <2>1. Linked(desk[d]) /\ desk'[d] = desk[d]
    BY DEF LinksInv
  <2>2. \A c \in desk[d].call : call'[c] = call[c] \/ call'[c].at = "lost"
    BY AwaitedCalls
  <2> QED
    BY <2>1, <2>2 DEF Linked
<1> QED
  BY <1>1, <1>2 DEF LinksInv

\* A page stops waiting, or had not begun.
LEMMA LetGo ==
  ASSUME TypeInv, LinksInv, NEW d \in Desks, NEW s \in Desk, Put(d, s),
         s.call = {}, s.at \notin {"sent", "paying"},
         \A c \in Calls \ desk[d].call : call'[c] = call[c]
  PROVE  LinksInv'
<1>1. desk'[d] = s /\ \A e \in Desks \ {d} : desk'[e] = desk[e]
  BY DEF Put, TypeInv, TypeOK
<1>2. OwnCalls'
  BY <1>1 DEF LinksInv, OwnCalls
<1>3. ASSUME NEW e \in Desks  PROVE Linked(desk[e])'
  <2>1. CASE e = d
    BY <1>1, <2>1 DEF Linked
  <2>2. CASE e # d
    <3>1. Linked(desk[e]) /\ desk'[e] = desk[e] /\ desk[e].call \subseteq Calls
      BY <1>1, <2>2, DeskTypes DEF LinksInv, TypeInv
    <3>2. \A c \in desk[e].call : call'[c] = call[c]
      BY <2>2, <3>1 DEF LinksInv, OwnCalls
    <3> QED
      BY <3>1, <3>2 DEF Linked
  <2> QED
    BY <2>1, <2>2
<1> QED
  BY <1>2, <1>3 DEF LinksInv

\* A page asks.
LEMMA Asks ==
  ASSUME TypeInv, LinksInv, NEW d \in Desks, NEW s \in Desk, Put(d, s),
         NEW c \in Calls, NEW q \in Call, Set(c, q), call[c].at = "free", s.call = {c},
         Linked(s)'
  PROVE  LinksInv'
<1>1. desk'[d] = s /\ \A e \in Desks \ {d} : desk'[e] = desk[e]
  BY DEF Put, TypeInv, TypeOK
<1>2. \A e \in Calls \ {c} : call'[e] = call[e]
  BY DEF Set, TypeInv, TypeOK
<1>3. \A e \in Desks : c \notin desk[e].call
  BY AwaitedCalls
<1>4. OwnCalls'
  BY <1>1, <1>3 DEF LinksInv, OwnCalls
<1>5. ASSUME NEW e \in Desks  PROVE Linked(desk[e])'
  <2>1. CASE e = d
    BY <1>1, <2>1
  <2>2. CASE e # d
    <3>1. Linked(desk[e]) /\ desk'[e] = desk[e] /\ desk[e].call \subseteq Calls
      BY <1>1, <2>2, DeskTypes DEF LinksInv, TypeInv
    <3> QED
      BY <1>2, <1>3, <3>1 DEF Linked
  <2> QED
    BY <2>1, <2>2
<1> QED
  BY <1>4, <1>5 DEF LinksInv

-----------------------------------------------------------------------------
(* Desks. *)

Syncing(s) == s.at # "idle" /\ s.kind = "sync"

\* One desk moves.
LEMMA DeskMoves ==
  ASSUME TypeInv, DeviceInv, UNCHANGED invoices, NEW d \in Desks, NEW s \in Desk, Put(d, s),
         DeskOk(s), Carries(s)', OneSide', \A j \in outbox' : Known(j),
         \A b \in Bills : cart'[b] = "queued" =>
           cart[b] = "queued" \/ \A e \in Desks : ~Syncing(desk[e]),
         \A b \in Bills : cart'[b] = "queued" => Safe(b) \/ \E j \in outbox' : j.bill = b
  PROVE  DeviceInv'
<1>1. desk'[d] = s /\ \A e \in Desks \ {d} : desk'[e] = desk[e]
  BY DEF Put, TypeInv, TypeOK
<1>2. Grows
  BY SameGrow
<1>3. ASSUME NEW e \in Desks  PROVE (DeskOk(desk[e]) /\ Carries(desk[e]))'
  <2>1. CASE e = d
    BY <1>1, <1>2, <2>1, DeskOkStays
  <2>2. CASE e # d
    <3>1. PICK p \in Desk : p = desk[e]
      BY DeskTypes DEF TypeInv
    <3>2. p = desk'[e]
      BY <1>1, <2>2, <3>1
    <3>3. DeskOk(p) /\ Carries(p)
      BY <3>1 DEF DeviceInv
    <3>4. DeskOk(p)'
      BY <1>2, <3>3, DeskOkStays
    <3>5. Carries(p)'
      <4> SUFFICES ASSUME Syncing(p), NEW b \in Bills, cart'[b] = "queued"
                   PROVE  Safe(b)' \/ \E j \in p.job \cup p.pending \cup p.left : j.bill = b
        BY DEF Carries, Syncing
      <4>1. cart[b] = "queued"
        BY <3>1
      <4> QED
        BY <1>2, <3>3, <4>1, SafeStays DEF Carries, Syncing
    <3> QED
      BY <3>2, <3>4, <3>5
  <2> QED
    BY <2>1, <2>2
<1>4. (\A j \in outbox : Known(j))'
  BY <1>2, KnownStays
<1>5. KeptUntilPaid'
  <2> SUFFICES ASSUME NEW b \in Bills, cart'[b] = "queued", ~\E j \in outbox' : j.bill = b
               PROVE  Safe(b)'
    BY DEF KeptUntilPaid, Safe
  <2> QED
    BY <1>2, SafeStays
<1> QED
  BY <1>3, <1>4, <1>5 DEF DeviceInv

\* A desk that is at work goes on, or ends.
LEMMA OneSideStays ==
  ASSUME TypeInv, DeviceInv, NEW d \in Desks, NEW s \in Desk, Put(d, s),
         desk[d].at # "idle", s.at = "idle" \/ s.kind = desk[d].kind
  PROVE  OneSide'
BY DEF DeviceInv, OneSide, Put, TypeInv, TypeOK

\* A desk that opens finds none of the other kind at work.
LEMMA OneSideOpens ==
  ASSUME SalesAndSyncsApart, TypeInv, DeviceInv, NEW d \in Desks, NEW s \in Desk, Put(d, s),
         NEW kind \in DeskKinds, Open(d, kind), s.kind = kind
  PROVE  OneSide'
<1>1. \A e \in Desks : desk[e].at # "idle" => {kind, desk[e].kind} # {"sale", "sync"}
  BY DEF Open, SalesAndSyncsApart
<1>2. \A e \in Desks : desk[e].at # "idle" => desk[e].kind = kind
  <2>1. \A e \in Desks : desk[e].kind \in {"sale", "sync"}
    BY DeskTypes DEF TypeInv, DeskKinds
  <2> QED
    BY <1>1, <2>1 DEF DeskKinds
<1> QED
  BY <1>2 DEF OneSide, Put, TypeInv, TypeOK

LEMMA NoneSyncs ==
  ASSUME DeviceInv, NEW d \in Desks, desk[d].at # "idle", desk[d].kind = "sale"
  PROVE  \A e \in Desks : ~Syncing(desk[e])
BY DEF DeviceInv, OneSide, Syncing

LEMMA RestingOk ==
  /\ DeskOk(Resting) /\ ~Syncing(Resting)
  /\ Resting \in Desk /\ Resting.at = "idle" /\ Resting.kind = "sale" /\ Resting.call = {}
<1>1. /\ Resting.job = {} /\ Resting.pending = {} /\ Resting.left = {} /\ Resting.at = "idle"
      /\ Resting.kind = "sale" /\ Resting.call = {}
  BY DEF Resting
<1> QED
  BY <1>1, Blanks DEF DeskOk, Syncing

\* The device rests at one desk: its bills are in the outbox, or not promised.
LEMMA Rests ==
  ASSUME TypeInv, DeviceInv, LinksInv, UNCHANGED invoices, NEW d \in Desks, Put(d, Resting),
         \A c \in Calls \ desk[d].call : call'[c] = call[c],
         desk[d].at # "idle",
         \A j \in outbox' : Known(j),
         \A b \in Bills : cart'[b] = "queued" =>
           cart[b] = "queued" \/ \A e \in Desks : ~Syncing(desk[e]),
         \A b \in Bills : cart'[b] = "queued" => Safe(b) \/ \E j \in outbox' : j.bill = b
  PROVE  DeviceInv' /\ LinksInv'
<1>1. PICK s \in Desk : s = Resting
  BY RestingOk
<1>2. DeskOk(s) /\ ~Syncing(s) /\ s.at = "idle" /\ s.call = {} /\ Put(d, s)
  BY <1>1, RestingOk
<1>3. Carries(s)'
  BY <1>2 DEF Carries, Syncing
<1>4. OneSide'
  BY <1>2, OneSideStays
<1>5. DeviceInv'
  BY <1>2, <1>3, <1>4, DeskMoves
<1>6. LinksInv'
  BY <1>2, LetGo
<1> QED
  BY <1>5, <1>6

\* The outbox as it is keeps what was promised.
LEMMA StillKept ==
  ASSUME TypeInv, DeviceInv, UNCHANGED outbox,
         \A b \in Bills : cart'[b] = "queued" => cart[b] = "queued"
  PROVE  /\ \A j \in outbox' : Known(j)
         /\ \A b \in Bills : cart'[b] = "queued" => Safe(b) \/ \E j \in outbox' : j.bill = b
         /\ \A b \in Bills : cart'[b] = "queued" =>
              cart[b] = "queued" \/ \A e \in Desks : ~Syncing(desk[e])
BY DEF DeviceInv, KeptUntilPaid, Safe

\* A sync goes on with another record of what it has in hand.
LEMMA SyncGoesOn ==
  ASSUME TypeInv, DeviceInv, UNCHANGED <<invoices, cart, outbox>>,
         NEW d \in Desks, NEW s \in Desk, Put(d, s),
         desk[d].at # "idle", s.kind = desk[d].kind, DeskOk(s),
         \A j \in desk[d].job \cup desk[d].pending \cup desk[d].left :
           Safe(j.bill) \/ \E i \in s.job \cup s.pending \cup s.left : i.bill = j.bill
  PROVE  DeviceInv'
<1>1. Grows
  BY SameGrow
<1>2. Carries(s)'
  <2> SUFFICES ASSUME s.kind = "sync", NEW b \in Bills, cart'[b] = "queued"
               PROVE  Safe(b)' \/ \E i \in s.job \cup s.pending \cup s.left : i.bill = b
    BY DEF Carries
  <2>1. Safe(b) \/ \E j \in desk[d].job \cup desk[d].pending \cup desk[d].left : j.bill = b
    BY DEF DeviceInv, Carries
  <2> QED
    BY <1>1, <2>1, SafeStays
<1>3. OneSide'
  BY OneSideStays
<1> QED
  BY <1>2, <1>3, StillKept, DeskMoves

LEMMA SentKeeps ==
  ASSUME TypeInv, DeviceInv, LinksInv, UNCHANGED invoices, NEW d \in Desks,
         NEW j \in desk[d].job, desk[d].at # "idle", desk[d].job = {j}, Sent(d, j), Safe(j.bill),
         \A c \in Calls \ desk[d].call : call'[c] = call[c]
  PROVE  DeviceInv' /\ LinksInv'
<1>1. CASE desk[d].kind = "sync"
  <2> DEFINE state == [desk[d] EXCEPT !.at = "next", !.job = {}, !.call = {}]
  <2>1. Put(d, state) /\ UNCHANGED <<cart, outbox>>
    BY <1>1 DEF Sent
  <2>2. desk[d] \in Desk
    BY DeskTypes DEF TypeInv
  <2>3. /\ state \in Desk /\ state.at = "next" /\ state.job = {} /\ state.call = {}
        /\ state.kind = desk[d].kind /\ state.pending = desk[d].pending
        /\ state.left = desk[d].left
    BY <2>2 DEF Desk
  <2> HIDE DEF state
  <2>4. PICK s \in Desk : s = state
    BY <2>3
  <2>5. DeskOk(s)
    BY <1>1, <2>3, <2>4 DEF DeviceInv, DeskOk
  <2>6. DeviceInv'
    BY <2>1, <2>3, <2>4, <2>5, SyncGoesOn
  <2>7. LinksInv'
    BY <2>1, <2>3, <2>4, LetGo
  <2> QED
    BY <2>6, <2>7
<1>2. CASE desk[d].kind # "sync"
  <2>1. /\ Put(d, Resting) /\ UNCHANGED outbox
        /\ cart' = [cart EXCEPT ![j.bill] = "sold"]
    BY <1>2 DEF Sent
  <2>2. \A b \in Bills : cart'[b] = "queued" => cart[b] = "queued"
    BY <2>1 DEF TypeInv, TypeOK
  <2> QED
    BY <2>1, <2>2, StillKept, Rests
<1> QED
  BY <1>1, <1>2

LEMMA LeaveKeeps ==
  ASSUME TypeInv, DeviceInv, LinksInv, UNCHANGED invoices, NEW d \in Desks,
         NEW j \in desk[d].job, desk[d].at # "idle", desk[d].job = {j},
         NEW i \in Job, Known(i), i.bill = j.bill, desk[d].kind = "sync", Leave(d, i),
         \A c \in Calls \ desk[d].call : call'[c] = call[c]
  PROVE  DeviceInv' /\ LinksInv'
<1> DEFINE state == [desk[d] EXCEPT !.at = "next", !.job = {}, !.call = {}, !.left = @ \cup {i}]
<1>1. Put(d, state) /\ UNCHANGED <<cart, outbox>>
  BY DEF Leave
<1>2. desk[d] \in Desk
  BY DeskTypes DEF TypeInv
<1>3. /\ state \in Desk /\ state.at = "next" /\ state.job = {} /\ state.call = {}
      /\ state.kind = desk[d].kind /\ state.pending = desk[d].pending
      /\ state.left = desk[d].left \cup {i}
  BY <1>2 DEF Desk
<1> HIDE DEF state
<1>4. PICK s \in Desk : s = state
  BY <1>3
<1>5. DeskOk(s)
  BY <1>3, <1>4 DEF DeviceInv, DeskOk
<1>6. DeviceInv'
  BY <1>1, <1>3, <1>4, <1>5, SyncGoesOn
<1>7. LinksInv'
  BY <1>1, <1>3, <1>4, LetGo
<1> QED
  BY <1>6, <1>7

\* A sale ends with its bill in the outbox.
LEMMA QueueKeeps ==
  ASSUME TypeInv, DeviceInv, LinksInv, UNCHANGED invoices, NEW d \in Desks,
         NEW b \in Bills, desk[d].at # "idle", desk[d].kind = "sale",
         QueueBill(b), Put(d, Resting),
         \A c \in Calls \ desk[d].call : call'[c] = call[c]
  PROVE  DeviceInv' /\ LinksInv'
<1>1. \A e \in Desks : ~Syncing(desk[e])
  BY NoneSyncs
<1>2. \A j \in outbox' : Known(j)
  BY DEF QueueBill, DeviceInv, Known
<1>3. \A a \in Bills : cart'[a] = "queued" => Safe(a) \/ \E j \in outbox' : j.bill = a
  <2> SUFFICES ASSUME NEW a \in Bills, cart'[a] = "queued", ~Safe(a)
               PROVE  \E j \in outbox' : j.bill = a
    OBVIOUS
  <2>1. outbox \subseteq outbox' /\ [bill |-> b, id |-> NoId] \in outbox'
    BY DEF QueueBill
  <2>2. CASE a = b
    BY <2>1, <2>2
  <2>3. CASE a # b
    <3>1. cart[a] = "queued"
      BY <2>3 DEF QueueBill, TypeInv, TypeOK
    <3> QED
      BY <2>1, <3>1 DEF DeviceInv, KeptUntilPaid, Safe
  <2> QED
    BY <2>2, <2>3
<1> QED
  BY <1>1, <1>2, <1>3, Rests

-----------------------------------------------------------------------------
(* The steps of the device. *)

LEMMA PayKeeps ==
  ASSUME SalesAndSyncsApart, KeptInv, NEW d \in Desks, Pay(d)
  PROVE  DeviceInv' /\ LinksInv' /\ ServerInv'
<1>1. PICK b \in Bills : Pay(d)!(b)
  BY DEF Pay
<1> USE DEF KeptInv
<1>2. UNCHANGED <<invoices, call>> /\ Open(d, "sale")
  BY <1>1 DEF books
<1>3. ServerInv'
  BY <1>2, CallsEnd
<1>4. \A e \in Desks : ~Syncing(desk[e])
  <2>1. \A e \in Desks : desk[e].at # "idle" => {"sale", desk[e].kind} # {"sale", "sync"}
    BY <1>2 DEF Open, SalesAndSyncsApart
  <2> QED
    BY <2>1 DEF Syncing
<1>5. CASE QueueBill(b) /\ UNCHANGED desk
  <2>1. PICK s \in Desk : s = desk[d]
    BY DeskTypes DEF TypeInv
  <2>2. Put(d, s)
    BY <1>5, <2>1 DEF Put, TypeInv, TypeOK
  <2>3. DeskOk(s) /\ OneSide' /\ ~Syncing(s)
    BY <1>4, <1>5, <2>1 DEF DeviceInv, OneSide
  <2>4. Carries(s)'
    BY <2>3 DEF Carries, Syncing
  <2>5. \A j \in outbox' : Known(j)
    BY <1>5 DEF QueueBill, DeviceInv, Known
  <2>6. \A a \in Bills : cart'[a] = "queued" => Safe(a) \/ \E j \in outbox' : j.bill = a
    <3> SUFFICES ASSUME NEW a \in Bills, cart'[a] = "queued", ~Safe(a)
                 PROVE  \E j \in outbox' : j.bill = a
      OBVIOUS
    <3>1. outbox \subseteq outbox' /\ [bill |-> b, id |-> NoId] \in outbox'
      BY <1>5 DEF QueueBill
    <3>2. a # b => cart[a] = "queued"
      BY <1>5 DEF QueueBill, TypeInv, TypeOK
    <3> QED
      BY <3>1, <3>2 DEF DeviceInv, KeptUntilPaid, Safe
  <2>7. DeviceInv'
    BY <1>2, <1>4, <2>2, <2>3, <2>4, <2>5, <2>6, DeskMoves
  <2>8. LinksInv'
    BY <1>2, <1>5, LinksStay
  <2> QED
    BY <1>3, <2>7, <2>8
<1>6. CASE ~(QueueBill(b) /\ UNCHANGED desk)
  <2> DEFINE state == [Resting EXCEPT !.at = "send", !.job = {[bill |-> b, id |-> NoId]}]
  <2>1. Put(d, state) /\ UNCHANGED <<cart, outbox>>
    BY <1>1, <1>6
  <2>2. [bill |-> b, id |-> NoId] \in Job
    BY DEF Job, NoId
  <2>3. /\ state \in Desk /\ state.at = "send" /\ state.job = {[bill |-> b, id |-> NoId]}
        /\ state.kind = "sale" /\ state.call = {} /\ state.pending = {} /\ state.left = {}
    BY <2>2 DEF Resting, Desk, DeskKinds, NoId
  <2> HIDE DEF state
  <2>4. PICK s \in Desk : s = state
    BY <2>3
  <2>5. DeskOk(s) /\ ~Syncing(s)
    BY <2>2, <2>3, <2>4 DEF DeskOk, Known, Syncing
  <2>6. Carries(s)'
    BY <2>5 DEF Carries, Syncing
  <2>7. OneSide'
    BY <1>2, <2>1, <2>3, <2>4, OneSideOpens DEF DeskKinds
  <2>8. DeviceInv'
    BY <1>2, <2>1, <2>4, <2>5, <2>6, <2>7, StillKept, DeskMoves
  <2>9. LinksInv'
    BY <1>2, <2>1, <2>3, <2>4, LetGo
  <2> QED
    BY <1>3, <2>8, <2>9
<1> QED
  BY <1>5, <1>6

LEMMA SyncOutboxKeeps ==
  ASSUME SalesAndSyncsApart, KeptInv, NEW d \in Desks, SyncOutbox(d)
  PROVE  DeviceInv' /\ LinksInv' /\ ServerInv'
<1> USE DEF KeptInv
<1>1. /\ UNCHANGED <<invoices, call, cart, outbox>> /\ Open(d, "sync")
      /\ Put(d, [Resting EXCEPT !.at = "next", !.kind = "sync", !.pending = outbox])
  BY DEF SyncOutbox, books
<1> DEFINE state == [Resting EXCEPT !.at = "next", !.kind = "sync", !.pending = outbox]
<1>2. outbox \subseteq Job
  BY DEF TypeInv, TypeOK
<1>3. /\ state \in Desk /\ state.at = "next" /\ state.job = {} /\ state.kind = "sync"
      /\ state.call = {} /\ state.pending = outbox /\ state.left = {}
  BY <1>2 DEF Resting, Desk, DeskKinds, NoId
<1>4. Put(d, state)
  BY <1>1
<1> HIDE DEF state
<1>5. PICK s \in Desk : s = state
  BY <1>3
<1>6. DeskOk(s)
  BY <1>3, <1>5 DEF DeskOk, DeviceInv
<1>7. Carries(s)'
  BY <1>1, <1>3, <1>5 DEF Carries, DeviceInv, KeptUntilPaid, Safe
<1>8. OneSide'
  BY <1>1, <1>3, <1>4, <1>5, OneSideOpens DEF DeskKinds
<1>9. DeviceInv'
  BY <1>1, <1>4, <1>5, <1>6, <1>7, <1>8, StillKept, DeskMoves
<1>10. LinksInv'
  BY <1>1, <1>3, <1>4, <1>5, LetGo
<1>11. ServerInv'
  BY <1>1, CallsEnd
<1> QED
  BY <1>9, <1>10, <1>11

LEMMA NextBillKeeps ==
  ASSUME KeptInv, NEW d \in Desks, NextBill(d)
  PROVE  DeviceInv' /\ LinksInv' /\ ServerInv'
<1> USE DEF KeptInv
<1>1. PICK j \in desk[d].pending : NextBill(d)!(j)
  BY DEF NextBill
<1>2. UNCHANGED <<invoices, call, cart, outbox>> /\ desk[d].at = "next"
  BY <1>1 DEF books
<1> DEFINE state == [desk[d] EXCEPT !.at = IF j.id = NoId THEN "send" ELSE "pay",
                                    !.job = {j}, !.id = j.id, !.pending = @ \ {j}]
<1>3. desk[d] \in Desk /\ j \in Job /\ j.id \in Nat
  BY DeskTypes, JobTypes DEF TypeInv
<1>4. /\ state \in Desk /\ state.at = (IF j.id = NoId THEN "send" ELSE "pay")
      /\ state.job = {j} /\ state.id = j.id /\ state.pending = desk[d].pending \ {j}
      /\ state.kind = desk[d].kind /\ state.call = desk[d].call /\ state.left = desk[d].left
  BY <1>3 DEF Desk
<1>5. Put(d, state)
  BY <1>1
<1> HIDE DEF state
<1>6. PICK s \in Desk : s = state
  BY <1>4
<1>7. Known(j) /\ desk[d].call = {}
  BY <1>2 DEF DeviceInv, DeskOk, LinksInv, Linked
<1>8. DeskOk(s)
  <2>1. s.at \in {"send", "pay"} /\ (s.at = "pay" => j.id # NoId)
    BY <1>4, <1>6
  <2>2. \A i \in s.job \cup s.pending \cup s.left : Known(i)
    BY <1>4, <1>6 DEF DeviceInv, DeskOk
  <2> QED
    BY <1>4, <1>6, <1>7, <2>1, <2>2 DEF DeskOk, Known
<1>9. \A i \in desk[d].job \cup desk[d].pending \cup desk[d].left :
        i \in s.job \cup s.pending \cup s.left
  BY <1>2, <1>4, <1>6 DEF DeviceInv, DeskOk
<1>10. DeviceInv'
  BY <1>2, <1>4, <1>5, <1>6, <1>8, <1>9, SyncGoesOn
<1>11. s.at \notin {"sent", "paying"} /\ s.call = {}
  BY <1>4, <1>6, <1>7
<1>12. LinksInv'
  BY <1>2, <1>5, <1>6, <1>11, LetGo
<1>13. ServerInv'
  BY <1>2, CallsEnd
<1> QED
  BY <1>10, <1>12, <1>13

LEMMA EndSyncKeeps ==
  ASSUME KeptInv, NEW d \in Desks, EndSync(d)
  PROVE  DeviceInv' /\ LinksInv' /\ ServerInv'
<1> USE DEF KeptInv
<1>1. /\ UNCHANGED <<invoices, call, cart>> /\ outbox' = desk[d].left
      /\ desk[d].at = "next" /\ desk[d].pending = {} /\ Put(d, Resting)
  BY DEF EndSync, books
<1>2. DeskOk(desk[d]) /\ Carries(desk[d]) /\ desk[d].job = {}
  BY <1>1 DEF DeviceInv, DeskOk
<1>3. \A j \in outbox' : Known(j)
  BY <1>1, <1>2 DEF DeskOk
<1>4. \A b \in Bills : cart'[b] = "queued" => Safe(b) \/ \E j \in outbox' : j.bill = b
  BY <1>1, <1>2 DEF Carries, DeskOk
<1>5. DeviceInv' /\ LinksInv'
  BY <1>1, <1>3, <1>4, Rests
<1>6. ServerInv'
  BY <1>1, CallsEnd
<1> QED
  BY <1>5, <1>6

LEMMA FreeCall ==
  /\ Free \in Call /\ Free.at = "free" /\ Free.kind = "invoice"
  /\ CallOk(Free) /\ CallOk(Free)' /\ ~Deletes(Free)
<1>1. Free.at = "free" /\ Free.kind = "invoice"
  BY DEF Free
<1>2. Free' = Free
  BY DEF Free, NewOrder
<1> QED
  BY <1>1, <1>2, Blanks DEF CallOk, Deletes

\* An answer heard, or dropped, ends its call; a call in progress goes on.
LEMMA HeardEnds ==
  ASSUME TypeInv, NEW d \in Desks, NEW c \in desk[d].call, Set(c, Free)
  PROVE  /\ \A e \in Calls \ desk[d].call : call'[e] = call[e]
         /\ \A e \in Calls : call'[e] = call[e] \/ call'[e].at \in {"free", "lost"}
<1>1. c \in Calls
  BY DeskTypes DEF TypeInv
<1>2. call'[c] = Free /\ \A e \in Calls \ {c} : call'[e] = call[e]
  BY <1>1 DEF Set, TypeInv, TypeOK
<1> QED
  BY <1>1, <1>2, Blanks

LEMMA AbandonEnds ==
  ASSUME TypeInv, NEW d \in Desks, Abandon(d)
  PROVE  /\ \A e \in Calls \ desk[d].call : call'[e] = call[e]
         /\ \A e \in Calls : call'[e] = call[e] \/ call'[e].at \in {"free", "lost"}
BY Blanks DEF Abandon

\* A desk at work has one bill in hand.
LEMMA OneInHand ==
  ASSUME DeviceInv, NEW d \in Desks, NEW j \in desk[d].job
  PROVE  desk[d].at \notin {"idle", "next"} /\ desk[d].job = {j} /\ Known(j)
<1>1. DeskOk(desk[d])
  BY DEF DeviceInv
<1> QED
  BY <1>1 DEF DeskOk

LEMMA PostInvoiceKeeps ==
  ASSUME CounterAssumption, KeptInv, NEW d \in Desks, PostInvoice(d)
  PROVE  DeviceInv' /\ LinksInv' /\ ServerInv'
<1> USE DEF KeptInv
<1>1. PICK c \in Calls, j \in desk[d].job : PostInvoice(d)!(c, j)
  BY DEF PostInvoice
<1> DEFINE state == [desk[d] EXCEPT !.at = "sent", !.call = {c}]
           work == [Free EXCEPT !.at = "insert", !.bill = {j.bill}, !.items = Lines[j.bill]]
<1>2. /\ UNCHANGED <<invoices, cart, outbox>> /\ desk[d].at = "send"
      /\ Put(d, state) /\ Set(c, work) /\ call[c].at = "free"
  BY <1>1 DEF books, Serve
<1>3. desk[d] \in Desk /\ desk[d].job = {j} /\ j.bill \in Bills
  BY DeskTypes, JobTypes, OneInHand DEF TypeInv
<1>4. /\ state \in Desk /\ state.at = "sent" /\ state.call = {c} /\ state.job = desk[d].job
      /\ state.kind = desk[d].kind /\ state.pending = desk[d].pending
      /\ state.left = desk[d].left
  BY <1>3 DEF Desk
<1>5. call'[c] = work
  BY <1>2 DEF Set, TypeInv, TypeOK
<1>6. work.at = "insert" /\ work.kind = "invoice" /\ work.bill = {j.bill}
  BY DEF Free
<1>7. work \in Call
  BY <1>3, Blanks, CounterAssumption DEF Call, CounterAssumption
<1> HIDE DEF state, work
<1>8. PICK s \in Desk : s = state
  BY <1>4
<1>9. PICK q \in Call : q = work
  BY <1>7
<1>10. DeviceInv'
  <2>1. DeskOk(s)
    BY <1>2, <1>4, <1>8 DEF DeviceInv, DeskOk
  <2> QED
    BY <1>2, <1>4, <1>8, <2>1, SyncGoesOn
<1>11. Linked(s)'
  BY <1>3, <1>4, <1>5, <1>6, <1>8 DEF Linked
<1>12. LinksInv'
  BY <1>2, <1>4, <1>8, <1>9, <1>11, Asks
<1>13. CallOk(q)' /\ q.at # "pay" /\ ~Deletes(q)
  BY <1>3, <1>6, <1>9 DEF CallOk, Deletes
<1>14. ServerInv'
  BY <1>2, <1>9, <1>13, CallMoves, SameGrow
<1> QED
  BY <1>10, <1>12, <1>14

\* A payment taken up finds no delete at work, and a delete no payment.
LEMMA ServedApart ==
  ASSUME PaymentsAndDeletesApart, NEW c \in Calls, NEW items, NEW q, Serve(c, items, q)
  PROVE  /\ q.kind = "payment" => \A e \in Calls : ~Deletes(call[e])
         /\ ServerInv /\ q.kind = "delete" => \A e \in Calls : call[e].at # "pay"
<1>1. \A e \in Calls : call[e].at \in {"pay", "give", "giving"} => e \in Serving
  BY DEF Serving, Answered
<1>2. \A e \in Serving : {q.kind, call[e].kind} # {"payment", "delete"}
  BY DEF Serve, PaymentsAndDeletesApart
<1>3. ServerInv => \A e \in Calls : call[e].at = "pay" => call[e].kind = "payment"
  BY DEF ServerInv, CallOk
<1> QED
  BY <1>1, <1>2, <1>3 DEF Deletes

LEMMA PostPaymentKeeps ==
  ASSUME PaymentsAndDeletesApart, KeptInv, NEW d \in Desks, PostPayment(d)
  PROVE  DeviceInv' /\ LinksInv' /\ ServerInv'
<1> USE DEF KeptInv
<1>1. PICK c \in Calls : PostPayment(d)!(c)
  BY DEF PostPayment
<1> DEFINE state == [desk[d] EXCEPT !.at = "paying", !.call = {c}]
           work == [Free EXCEPT !.at = "pay", !.kind = "payment", !.id = desk[d].id]
<1>2. /\ UNCHANGED <<invoices, cart, outbox>> /\ desk[d].at = "pay" /\ Put(d, state)
      /\ Serve(c, {}, work)
  BY <1>1 DEF books
<1>3. desk[d] \in Desk /\ desk[d].id \in Nat /\ DeskOk(desk[d])
  BY DeskTypes DEF TypeInv, DeviceInv
<1>4. /\ state \in Desk /\ state.at = "paying" /\ state.call = {c} /\ state.job = desk[d].job
      /\ state.kind = desk[d].kind /\ state.pending = desk[d].pending
      /\ state.left = desk[d].left /\ state.id = desk[d].id
  BY <1>3 DEF Desk
<1>5. /\ work \in Call /\ work.at = "pay" /\ work.kind = "payment" /\ work.id = desk[d].id
  BY <1>3, Blanks DEF Free, Call, CallKinds
<1> HIDE DEF state, work
<1>6. call'[c] = work /\ Set(c, work) /\ call[c].at = "free"
  BY <1>2 DEF Serve, Set, TypeInv, TypeOK
<1>7. PICK s \in Desk : s = state
  BY <1>4
<1>8. PICK q \in Call : q = work
  BY <1>5
<1>9. DeskOk(s)
  BY <1>2, <1>3, <1>4, <1>7 DEF DeskOk
<1>10. DeviceInv'
  BY <1>2, <1>4, <1>7, <1>9, SyncGoesOn
<1>11. Linked(s)'
  BY <1>4, <1>5, <1>6, <1>7 DEF Linked
<1>12. LinksInv'
  BY <1>2, <1>4, <1>6, <1>7, <1>8, <1>11, Asks
<1>13. CallOk(q)' /\ ~Deletes(q)
  BY <1>2, <1>3, <1>5, <1>8 DEF CallOk, Deletes, DeskOk
<1>14. \A e \in Calls : ~Deletes(call[e])
  BY <1>2, <1>5, ServedApart
<1>15. ServerInv'
  BY <1>2, <1>6, <1>8, <1>13, <1>14, CallMoves, SameGrow
<1> QED
  BY <1>10, <1>12, <1>15

LEMMA HearInvoiceKeeps ==
  ASSUME KeptInv, NEW d \in Desks, HearInvoice(d)
  PROVE  DeviceInv' /\ LinksInv' /\ ServerInv'
<1> USE DEF KeptInv
<1>1. PICK c \in desk[d].call, j \in desk[d].job : HearInvoice(d)!(c, j)
  BY DEF HearInvoice
<1>2. /\ UNCHANGED invoices /\ Set(c, Free) /\ desk[d].at = "sent"
      /\ call[c].at \in {"ok", "error"}
  BY <1>1 DEF books
<1>3. /\ desk[d] \in Desk /\ desk[d].job = {j} /\ Known(j) /\ j \in Job /\ j.bill \in Bills
      /\ c \in Calls
  BY DeskTypes, JobTypes, OneInHand DEF TypeInv
<1>4. /\ \A e \in Calls \ desk[d].call : call'[e] = call[e]
      /\ \A e \in Calls : call'[e] = call[e] \/ call'[e].at \in {"free", "lost"}
  BY <1>2, HeardEnds
<1>5. ServerInv'
  BY <1>2, <1>4, CallsEnd
<1>6. call[c].kind = "invoice" /\ call[c].bill = {j.bill}
  BY <1>2, AwaitedCalls
<1>7. CallOk(call[c])
  BY <1>3 DEF ServerInv
<1>8. call[c].at = "ok" => call[c].id \in DOMAIN invoices /\ invoices[call[c].id].bill = j.bill
  BY <1>6, <1>7 DEF CallOk
<1>9. CASE call[c].at = "ok" /\ j.bill \in OnCredit /\ Sent(d, j)
  <2>1. Safe(j.bill)
    BY <1>8, <1>9 DEF Safe
  <2> QED
    BY <1>2, <1>3, <1>4, <1>5, <1>9, <2>1, SentKeeps
<1>10. CASE /\ call[c].at = "ok" /\ UNCHANGED <<cart, outbox>>
            /\ Put(d, [desk[d] EXCEPT !.at = "pay", !.call = {}, !.id = call[c].id])
  <2> DEFINE state == [desk[d] EXCEPT !.at = "pay", !.call = {}, !.id = call[c].id]
  <2>1. call[c].id \in Nat
    BY <1>3, CallTypes DEF TypeInv
  <2>2. /\ state \in Desk /\ state.at = "pay" /\ state.call = {} /\ state.job = desk[d].job
        /\ state.kind = desk[d].kind /\ state.pending = desk[d].pending
        /\ state.left = desk[d].left /\ state.id = call[c].id
    BY <1>3, <2>1 DEF Desk
  <2>3. Put(d, state)
    BY <1>10
  <2> HIDE DEF state
  <2>4. PICK s \in Desk : s = state
    BY <2>2
  <2>5. DeskOk(s)
    <3>1. DeskOk(desk[d])
      BY DEF DeviceInv
    <3> QED
      BY <1>2, <1>3, <1>8, <1>10, <2>2, <2>4, <3>1 DEF DeskOk
  <2>6. DeviceInv'
    BY <1>2, <1>10, <2>2, <2>3, <2>4, <2>5, SyncGoesOn
  <2>7. LinksInv'
    BY <1>4, <2>2, <2>3, <2>4, LetGo
  <2> QED
    BY <1>5, <2>6, <2>7
<1>11. CASE desk[d].kind = "sync" /\ Leave(d, j)
  BY <1>2, <1>3, <1>4, <1>5, <1>11, LeaveKeeps
<1>12. CASE Put(d, Resting) /\ UNCHANGED <<cart, outbox>>
  BY <1>2, <1>4, <1>5, <1>12, StillKept, Rests
<1> QED
  BY <1>1, <1>9, <1>10, <1>11, <1>12

LEMMA HearPaymentKeeps ==
  ASSUME KeptInv, NEW d \in Desks, HearPayment(d)
  PROVE  DeviceInv' /\ LinksInv' /\ ServerInv'
<1> USE DEF KeptInv
<1>1. PICK c \in desk[d].call, j \in desk[d].job : HearPayment(d)!(c, j)
  BY DEF HearPayment
<1>2. /\ UNCHANGED invoices /\ Set(c, Free) /\ desk[d].at = "paying"
      /\ call[c].at \in {"ok", "error"}
      /\ call[c].at = "ok" => Sent(d, j)
      /\ call[c].at # "ok" => PaymentRefused(d, j)
  BY <1>1 DEF books
<1>3. /\ desk[d] \in Desk /\ desk[d].job = {j} /\ Known(j) /\ j \in Job /\ j.bill \in Bills
      /\ c \in Calls /\ desk[d].id \in Nat
  BY DeskTypes, JobTypes, OneInHand DEF TypeInv
<1>4. /\ \A e \in Calls \ desk[d].call : call'[e] = call[e]
      /\ \A e \in Calls : call'[e] = call[e] \/ call'[e].at \in {"free", "lost"}
  BY <1>2, HeardEnds
<1>5. ServerInv'
  BY <1>2, <1>4, CallsEnd
<1>6. call[c].kind = "payment" /\ call[c].id = desk[d].id
  BY <1>2, AwaitedCalls
<1>7. desk[d].id \in DOMAIN invoices /\ invoices[desk[d].id].bill = j.bill
  BY <1>2 DEF DeviceInv, DeskOk
<1>8. CASE call[c].at = "ok"
  <2>1. CallOk(call[c])
    BY <1>3 DEF ServerInv
  <2>2. Safe(j.bill)
    BY <1>6, <1>7, <1>8, <2>1 DEF CallOk, Safe
  <2> QED
    BY <1>2, <1>3, <1>4, <1>5, <1>8, <2>2, SentKeeps
<1>9. CASE call[c].at # "ok" /\ desk[d].kind = "sync"
  <2> DEFINE job == [j EXCEPT !.id = desk[d].id]
  <2>1. job \in Job /\ job.id = desk[d].id /\ job.bill = j.bill
    BY <1>3 DEF Job
  <2>2. Leave(d, job)
    BY <1>2, <1>9 DEF PaymentRefused
  <2> HIDE DEF job
  <2>3. Known(job)
    BY <1>7, <2>1 DEF Known
  <2> QED
    BY <1>2, <1>3, <1>4, <1>5, <1>9, <2>1, <2>2, <2>3, LeaveKeeps
<1>10. CASE call[c].at # "ok" /\ desk[d].kind # "sync"
  <2>1. /\ Put(d, Resting) /\ UNCHANGED outbox
        /\ cart' \in {cart, [cart EXCEPT ![j.bill] = "sold"]}
    BY <1>2, <1>10 DEF PaymentRefused
  <2>2. \A b \in Bills : cart'[b] = "queued" => cart[b] = "queued"
    BY <2>1 DEF TypeInv, TypeOK
  <2> QED
    BY <1>2, <1>4, <1>5, <2>1, <2>2, StillKept, Rests
<1> QED
  BY <1>8, <1>9, <1>10

LEMMA LoseKeeps ==
  ASSUME KeptInv, NEW d \in Desks, Lose(d)
  PROVE  DeviceInv' /\ LinksInv' /\ ServerInv'
<1> USE DEF KeptInv
<1>1. PICK j \in desk[d].job : Lose(d)!(j)
  BY DEF Lose
<1>2. /\ UNCHANGED invoices /\ Abandon(d)
      /\ desk[d].kind = "sync" => Leave(d, j)
      /\ desk[d].kind # "sync" => QueueBill(j.bill) /\ Put(d, Resting)
  BY <1>1 DEF books
<1>3. /\ desk[d].job = {j} /\ Known(j) /\ j \in Job /\ j.bill \in Bills
      /\ desk[d].at # "idle" /\ desk[d].kind \in {"sale", "sync"}
  BY DeskTypes, JobTypes, OneInHand DEF TypeInv, DeskKinds
<1>4. /\ \A e \in Calls \ desk[d].call : call'[e] = call[e]
      /\ \A e \in Calls : call'[e] = call[e] \/ call'[e].at \in {"free", "lost"}
  BY <1>2, AbandonEnds
<1>5. ServerInv'
  BY <1>2, <1>4, CallsEnd
<1>6. CASE desk[d].kind = "sync"
  BY <1>2, <1>3, <1>4, <1>5, <1>6, LeaveKeeps
<1>7. CASE desk[d].kind = "sale"
  BY <1>2, <1>3, <1>4, <1>5, <1>7, QueueKeeps
<1> QED
  BY <1>3, <1>6, <1>7

LEMMA ClosePageKeeps ==
  ASSUME KeptInv, NEW d \in Desks, ClosePage(d)
  PROVE  DeviceInv' /\ LinksInv' /\ ServerInv'
<1> USE DEF KeptInv
<1>1. /\ UNCHANGED <<invoices, outbox>> /\ Abandon(d) /\ Put(d, Resting)
      /\ desk[d].at # "idle"
  BY DEF ClosePage, books
<1>2. \A b \in Bills : cart'[b] = "queued" => cart[b] = "queued"
  BY DEF ClosePage
<1>3. /\ \A e \in Calls \ desk[d].call : call'[e] = call[e]
      /\ \A e \in Calls : call'[e] = call[e] \/ call'[e].at \in {"free", "lost"}
  BY <1>1, AbandonEnds
<1> QED
  BY <1>1, <1>2, <1>3, StillKept, Rests, CallsEnd

-----------------------------------------------------------------------------
(* The steps of the server. *)

LEMMA ServerMoves ==
  ASSUME KeptInv, UNCHANGED device, Grows, NEW c \in Calls, NEW q \in Call, Set(c, q), CallOk(q)',
         call[c].at # "lost", c \in Awaited => Follows(call[c], q),
         \/ \A e \in Calls : ~Deletes(call[e])
         \/ \A k \in DOMAIN invoices : invoices'[k].paid => invoices[k].paid,
         q.at = "pay" => \A e \in Calls : ~Deletes(call[e]),
         Deletes(q) => \A e \in Calls \ {c} : call[e].at # "pay"
  PROVE  DeviceInv' /\ LinksInv' /\ ServerInv'
<1> USE DEF KeptInv
<1>1. DeviceInv'
  BY DeviceStays
<1>2. LinksInv'
  BY LinksFollow DEF device
<1>3. ServerInv'
  BY CallMoves
<1> QED
  BY <1>1, <1>2, <1>3

\* Who waits for a call waits for an invoice or a payment.
LEMMA AwaitedAt ==
  ASSUME LinksInv, NEW c \in Awaited
  PROVE  \/ call[c].at = "lost"
         \/ call[c].kind = "invoice" /\ call[c].at \in {"insert", "take", "taking", "ok", "error"}
         \/ call[c].kind = "payment" /\ call[c].at \in {"pay", "ok", "error"}
<1>1. PICK d \in Desks : c \in desk[d].call
  BY DEF Awaited
<1> QED
  BY <1>1, AwaitedCalls

\* A call answers: what it says of its invoice is true.
LEMMA ReplyKeeps ==
  ASSUME KeptInv, UNCHANGED device, Grows, NEW c \in Calls, NEW answer \in {"ok", "error"},
         Reply(c, answer), call[c].at # "lost",
         answer = "ok" /\ call[c].kind = "invoice" =>
           call[c].id \in DOMAIN invoices' /\ call[c].bill = {invoices'[call[c].id].bill},
         answer = "ok" /\ call[c].kind = "payment" =>
           call[c].id \in DOMAIN invoices' /\ invoices'[call[c].id].paid,
         \/ \A e \in Calls : ~Deletes(call[e])
         \/ \A k \in DOMAIN invoices : invoices'[k].paid => invoices[k].paid
  PROVE  DeviceInv' /\ LinksInv' /\ ServerInv'
<1>1. CASE c \in Awaited
  <2> DEFINE state == [call[c] EXCEPT !.at = answer]
  <2>1. Set(c, state)
    BY <1>1 DEF Reply
  <2>2. call[c] \in Call
    BY CallTypes DEF KeptInv, TypeInv
  <2>3. /\ state \in Call /\ state.at = answer /\ state.kind = call[c].kind
        /\ state.bill = call[c].bill /\ state.id = call[c].id
    BY <2>2 DEF Call
  <2> HIDE DEF state
  <2>4. PICK q \in Call : q = state
    BY <2>3
  <2>5. CallOk(q)'
    BY <2>3, <2>4 DEF CallOk, Deletes
  <2>6. Follows(call[c], q)
    BY <2>3, <2>4 DEF Follows
  <2>7. q.at # "pay" /\ ~Deletes(q)
    BY <2>3, <2>4 DEF Deletes
  <2> QED
    BY <2>1, <2>4, <2>5, <2>6, <2>7, ServerMoves
<1>2. CASE c \notin Awaited
  <2>1. PICK q \in Call : q = Free
    BY FreeCall
  <2>2. Set(c, q) /\ q.at = "free" /\ ~Deletes(q)
    BY <1>2, <2>1, FreeCall DEF Reply
  <2>3. CallOk(q)'
    BY <2>2 DEF CallOk, Deletes
  <2> QED
    BY <1>2, <2>2, <2>3, ServerMoves
<1> QED
  BY <1>1, <1>2

\* A call that nobody waits for moves, with no invoice touched.
LEMMA UnheardMoves ==
  ASSUME KeptInv, UNCHANGED <<device, invoices>>, NEW c \in Calls, NEW q \in Call, Set(c, q),
         CallOk(q), call[c].at \in {"free", "give", "giving", "patch"}, q.at # "pay",
         Deletes(q) => \A e \in Calls \ {c} : call[e].at # "pay"
  PROVE  DeviceInv' /\ LinksInv' /\ ServerInv'
<1>1. c \notin Awaited
  BY AwaitedAt DEF KeptInv
<1>2. CallOk(q)'
  BY DEF CallOk, Deletes
<1>3. Grows
  BY SameGrow
<1> QED
  BY <1>1, <1>2, <1>3, ServerMoves

\* A call for an invoice goes on with the same one.
LEMMA InvoiceMoves ==
  ASSUME KeptInv, UNCHANGED <<device, invoices>>, NEW c \in Calls, NEW q \in Call, Set(c, q),
         call[c].at \in {"take", "taking"}, q.at \in {"take", "taking"},
         q.kind = call[c].kind, q.bill = call[c].bill, q.id = call[c].id
  PROVE  DeviceInv' /\ LinksInv' /\ ServerInv'
<1>1. CallOk(call[c])
  BY DEF KeptInv, ServerInv
<1>2. CallOk(q)' /\ ~Deletes(q)
  BY <1>1 DEF CallOk, Deletes
<1>3. Follows(call[c], q)
  BY <1>1 DEF CallOk, Follows
<1>4. Grows
  BY SameGrow
<1> QED
  BY <1>2, <1>3, <1>4, ServerMoves

LEMMA InsertInvoiceKeeps ==
  ASSUME KeptInv, NEW c \in Calls, InsertInvoice(c)
  PROVE  DeviceInv' /\ LinksInv' /\ ServerInv'
<1>1. PICK b \in call[c].bill : InsertInvoice(c)!(b)
  BY DEF InsertInvoice
<1>2. UNCHANGED device /\ call[c].at = "insert"
  BY <1>1
<1>3. CallOk(call[c]) /\ call[c] \in Call /\ b \in Bills
  BY CallTypes DEF KeptInv, ServerInv, TypeInv
<1>4. call[c].kind = "invoice" /\ call[c].bill = {b}
  BY <1>2, <1>3 DEF CallOk
<1>5. CASE Reply(c, "error") /\ UNCHANGED invoices
  <2>1. Grows
    BY <1>5, SameGrow
  <2> QED
    BY <1>2, <1>5, <2>1, ReplyKeeps
<1>6. CASE ~(Reply(c, "error") /\ UNCHANGED invoices)
  <2> DEFINE row == [bill |-> b, paid |-> FALSE, deducted |-> FALSE, deleted |-> FALSE]
             state == [call[c] EXCEPT !.at = "take", !.id = Len(invoices) + 1]
  <2>1. invoices' = Append(invoices, row) /\ Set(c, state)
    BY <1>1, <1>6
  <2>2. row \in Invoice /\ row.bill = b
    BY <1>3 DEF Invoice
  <2>3. Len(invoices) + 1 \in Nat
    BY InvoiceTypes DEF KeptInv, TypeInv
  <2>4. /\ state \in Call /\ state.at = "take" /\ state.id = Len(invoices) + 1
        /\ state.kind = "invoice" /\ state.bill = {b}
    BY <1>3, <1>4, <2>3 DEF Call
  <2> HIDE DEF row, state
  <2>5. /\ Grows /\ Len(invoices) + 1 \in DOMAIN invoices'
        /\ invoices'[Len(invoices) + 1] = row
        /\ \A k \in DOMAIN invoices : invoices'[k] = invoices[k]
    BY <2>1, <2>2, AppendGrows DEF KeptInv
  <2>6. PICK q \in Call : q = state
    BY <2>4
  <2>7. q.id \in DOMAIN invoices' /\ invoices'[q.id].bill = b
    BY <2>2, <2>4, <2>5, <2>6
  <2>8. CallOk(q)' /\ ~Deletes(q) /\ Follows(call[c], q)
    BY <1>4, <2>4, <2>6, <2>7 DEF CallOk, Deletes, Follows
  <2> QED
    BY <1>2, <2>1, <2>4, <2>5, <2>6, <2>8, ServerMoves
<1> QED
  BY <1>5, <1>6

LEMMA TakeStockKeeps ==
  ASSUME KeptInv, NEW c \in Calls, ReadStock(c) \/ DeductStock(c)
  PROVE  DeviceInv' /\ LinksInv' /\ ServerInv'
<1>1. call[c] \in Call
  BY CallTypes DEF KeptInv, TypeInv
<1>2. CASE ReadStock(c)
  <2>1. PICK i \in call[c].items : ReadStock(c)!(i)
    BY <1>2 DEF ReadStock
  <2>2. UNCHANGED <<device, invoices>> /\ call[c].at = "take" /\ i \in Items
    BY <2>1, CallTypes DEF books, KeptInv, TypeInv
  <2>3. CASE Reply(c, "error")
    <3>1. Grows
      BY <2>2, SameGrow
    <3> QED
      BY <2>2, <2>3, <3>1, ReplyKeeps
  <2>4. CASE PassBy(c, i)
    <3> DEFINE state == [call[c] EXCEPT !.items = @ \ {i}]
    <3>1. /\ state \in Call /\ state.at = "take" /\ state.kind = call[c].kind
          /\ state.bill = call[c].bill /\ state.id = call[c].id
      BY <1>1, <2>2 DEF Call
    <3>2. Set(c, state)
      BY <2>4 DEF PassBy
    <3> HIDE DEF state
    <3> QED
      BY <2>2, <3>1, <3>2, InvoiceMoves
  <2>5. CASE Set(c, [call[c] EXCEPT !.at = "taking", !.item = {i}, !.seen = stock[i]])
    <3> DEFINE state == [call[c] EXCEPT !.at = "taking", !.item = {i}, !.seen = stock[i]]
    <3>1. stock[i] \in Nat
      BY <2>2 DEF KeptInv, TypeInv, TypeOK
    <3>2. /\ state \in Call /\ state.at = "taking" /\ state.kind = call[c].kind
          /\ state.bill = call[c].bill /\ state.id = call[c].id
      BY <1>1, <2>2, <3>1 DEF Call
    <3> HIDE DEF state
    <3>3. Set(c, state)
      BY <2>5 DEF state
    <3> QED
      BY <2>2, <3>2, <3>3, InvoiceMoves
  <2> QED
    BY <2>1, <2>3, <2>4, <2>5 DEF TooLittle
<1>3. CASE DeductStock(c)
  <2>1. PICK i \in call[c].item : DeductStock(c)!(i)
    BY <1>3 DEF DeductStock
  <2> DEFINE state == [call[c] EXCEPT !.at = "take", !.items = @ \ {i}, !.item = {}, !.seen = 0]
  <2>2. UNCHANGED <<device, invoices>> /\ call[c].at = "taking" /\ Set(c, state)
    BY <2>1
  <2>3. /\ state \in Call /\ state.at = "take" /\ state.kind = call[c].kind
        /\ state.bill = call[c].bill /\ state.id = call[c].id
    BY <1>1 DEF Call
  <2> HIDE DEF state
  <2> QED
    BY <2>2, <2>3, InvoiceMoves
<1> QED
  BY <1>2, <1>3

LEMMA StampInvoiceKeeps ==
  ASSUME KeptInv, NEW c \in Calls, StampInvoice(c)
  PROVE  DeviceInv' /\ LinksInv' /\ ServerInv'
<1>1. /\ UNCHANGED device /\ Reply(c, "ok") /\ call[c].at = "take"
      /\ invoices' = [invoices EXCEPT ![call[c].id].deducted = TRUE]
  BY DEF StampInvoice
<1>2. CallOk(call[c])
  BY DEF KeptInv, ServerInv
<1>3. PICK k \in DOMAIN invoices : k = call[c].id
  BY <1>1, <1>2 DEF CallOk
<1>4. call[c].kind = "invoice" /\ call[c].bill = {invoices[k].bill}
  BY <1>1, <1>2, <1>3 DEF CallOk
<1> DEFINE row == [invoices[k] EXCEPT !.deducted = TRUE]
<1>5. row.bill = invoices[k].bill /\ row.paid = invoices[k].paid
  BY InvoiceTypes DEF KeptInv, TypeInv, Invoice
<1>6. invoices' = [invoices EXCEPT ![k] = row]
  BY <1>1, <1>3
<1> HIDE DEF row
<1>7. /\ Grows /\ DOMAIN invoices' = DOMAIN invoices /\ invoices'[k] = row
      /\ \A n \in DOMAIN invoices \ {k} : invoices'[n] = invoices[n]
  BY <1>5, <1>6, RowGrows DEF KeptInv
<1>8. \A n \in DOMAIN invoices : invoices'[n].paid => invoices[n].paid
  BY <1>5, <1>7
<1> QED
  BY <1>1, <1>3, <1>4, <1>5, <1>7, <1>8, ReplyKeeps

LEMMA RecordPaymentKeeps ==
  ASSUME KeptInv, NEW c \in Calls, RecordPayment(c)
  PROVE  DeviceInv' /\ LinksInv' /\ ServerInv'
<1>1. UNCHANGED device /\ call[c].at = "pay"
  BY DEF RecordPayment
<1>2. CASE Reply(c, "error") /\ UNCHANGED invoices
  <2>1. Grows
    BY <1>2, SameGrow
  <2> QED
    BY <1>1, <1>2, <2>1, ReplyKeeps
<1>3. CASE /\ invoices' = [invoices EXCEPT ![call[c].id].paid = TRUE]
           /\ Reply(c, "ok")
  <2>1. CallOk(call[c]) /\ \A e \in Calls : ~Deletes(call[e])
    BY <1>1 DEF KeptInv, ServerInv, NonePaidBesideDelete
  <2>2. PICK k \in DOMAIN invoices : k = call[c].id
    BY <1>1, <2>1 DEF CallOk
  <2>3. call[c].kind = "payment"
    BY <1>1, <2>1 DEF CallOk
  <2> DEFINE row == [invoices[k] EXCEPT !.paid = TRUE]
  <2>4. row.bill = invoices[k].bill /\ row.paid
    BY InvoiceTypes DEF KeptInv, TypeInv, Invoice
  <2>5. invoices' = [invoices EXCEPT ![k] = row]
    BY <1>3, <2>2
  <2> HIDE DEF row
  <2>6. Grows /\ DOMAIN invoices' = DOMAIN invoices /\ invoices'[k] = row
    BY <2>4, <2>5, RowGrows DEF KeptInv
  <2> QED
    BY <1>1, <1>3, <2>1, <2>2, <2>3, <2>4, <2>6, ReplyKeeps
<1> QED
  BY <1>2, <1>3 DEF RecordPayment

LEMMA GiveStockKeeps ==
  ASSUME KeptInv, NEW c \in Calls, ReadForReceipt(c) \/ ReceiveStock(c)
  PROVE  DeviceInv' /\ LinksInv' /\ ServerInv'
<1>1. call[c] \in Call /\ CallOk(call[c])
  BY CallTypes DEF KeptInv, TypeInv, ServerInv
<1>2. ASSUME NEW state \in Call, Set(c, state), UNCHANGED <<device, invoices>>,
             call[c].at \in {"give", "giving"}, state.at \in {"give", "giving"},
             state.kind = call[c].kind, state.id = call[c].id
      PROVE  DeviceInv' /\ LinksInv' /\ ServerInv'
  <2>1. CallOk(state) /\ (Deletes(state) => Deletes(call[c]))
    BY <1>1, <1>2 DEF CallOk, Deletes
  <2>2. Deletes(state) => \A e \in Calls \ {c} : call[e].at # "pay"
    BY <2>1 DEF KeptInv, ServerInv, NonePaidBesideDelete
  <2> QED
    BY <1>2, <2>1, <2>2, UnheardMoves
<1>3. CASE ReadForReceipt(c)
  <2>1. PICK i \in call[c].items : ReadForReceipt(c)!(i)
    BY <1>3 DEF ReadForReceipt
  <2> DEFINE state == [call[c] EXCEPT !.at = "giving", !.item = {i}, !.seen = stock[i]]
  <2>2. UNCHANGED <<device, invoices>> /\ call[c].at = "give" /\ Set(c, state) /\ i \in Items
    BY <2>1, CallTypes DEF books, KeptInv, TypeInv
  <2>3. stock[i] \in Nat
    BY <2>2 DEF KeptInv, TypeInv, TypeOK
  <2>4. /\ state \in Call /\ state.at = "giving" /\ state.kind = call[c].kind
        /\ state.id = call[c].id
    BY <1>1, <2>2, <2>3 DEF Call
  <2> HIDE DEF state
  <2>5. PICK q \in Call : q = state
    BY <2>4
  <2> QED
    BY <1>2, <2>2, <2>4, <2>5
<1>4. CASE ReceiveStock(c)
  <2>1. PICK i \in call[c].item : ReceiveStock(c)!(i)
    BY <1>4 DEF ReceiveStock
  <2> DEFINE state == [call[c] EXCEPT !.at = "give", !.items = @ \ {i}, !.item = {}, !.seen = 0]
  <2>2. UNCHANGED <<device, invoices>> /\ call[c].at = "giving" /\ Set(c, state)
    BY <2>1
  <2>3. /\ state \in Call /\ state.at = "give" /\ state.kind = call[c].kind
        /\ state.id = call[c].id
    BY <1>1 DEF Call
  <2> HIDE DEF state
  <2>4. PICK q \in Call : q = state
    BY <2>3
  <2> QED
    BY <1>2, <2>2, <2>3, <2>4
<1> QED
  BY <1>3, <1>4

LEMMA DeleteInvoiceKeeps ==
  ASSUME CounterAssumption, PaymentsAndDeletesApart, KeptInv, NEW c \in Calls, DeleteInvoice(c)
  PROVE  DeviceInv' /\ LinksInv' /\ ServerInv'
<1>1. PICK k \in DOMAIN invoices : DeleteInvoice(c)!(k)
  BY DEF DeleteInvoice
<1> DEFINE row == invoices[k]
           state == [Free EXCEPT !.at = "give", !.kind = "delete", !.id = k,
                                 !.items = Restorable(row)]
<1>2. /\ UNCHANGED <<device, invoices>> /\ ~invoices[k].paid
      /\ Serve(c, Lines[row.bill], state)
  BY <1>1 DEF books
<1>3. k \in Nat /\ row \in Invoice /\ row.bill \in Bills
  BY InvoiceTypes DEF KeptInv, TypeInv
<1>4. Restorable(row) \subseteq Items
  BY <1>3 DEF Restorable, CounterAssumption
<1>5. /\ state \in Call /\ state.at = "give" /\ state.kind = "delete" /\ state.id = k
  BY <1>3, <1>4, Blanks DEF Free, Call, CallKinds
<1> HIDE DEF row, state
<1>6. call[c].at = "free" /\ Set(c, state)
  BY <1>2 DEF Serve
<1>7. \A e \in Calls : call[e].at # "pay"
  BY <1>2, <1>5, ServedApart DEF KeptInv
<1>8. PICK q \in Call : q = state
  BY <1>5
<1>9. CallOk(q) /\ q.at # "pay"
  BY <1>2, <1>5, <1>8 DEF CallOk, Deletes
<1> QED
  BY <1>2, <1>6, <1>7, <1>8, <1>9, UnheardMoves

LEMMA EraseInvoiceKeeps ==
  ASSUME KeptInv, NEW c \in Calls, EraseInvoice(c)
  PROVE  DeviceInv' /\ LinksInv' /\ ServerInv'
<1>1. /\ UNCHANGED device /\ call[c].at = "give" /\ call[c].kind = "delete" /\ Set(c, Free)
      /\ invoices' = [invoices EXCEPT ![call[c].id] =
                        [@ EXCEPT !.paid = FALSE, !.deducted = FALSE, !.deleted = TRUE]]
  BY DEF EraseInvoice
<1>2. CallOk(call[c])
  BY DEF KeptInv, ServerInv
<1>3. PICK k \in DOMAIN invoices : k = call[c].id /\ ~invoices[k].paid
  BY <1>1, <1>2 DEF CallOk, Deletes
<1> DEFINE row == [invoices[k] EXCEPT !.paid = FALSE, !.deducted = FALSE, !.deleted = TRUE]
<1>4. row.bill = invoices[k].bill /\ row.paid = FALSE
  BY InvoiceTypes DEF KeptInv, TypeInv, Invoice
<1>5. invoices' = [invoices EXCEPT ![k] = row]
  BY <1>1, <1>3
<1> HIDE DEF row
<1>6. /\ Grows /\ DOMAIN invoices' = DOMAIN invoices /\ invoices'[k] = row
      /\ \A n \in DOMAIN invoices \ {k} : invoices'[n] = invoices[n]
  BY <1>3, <1>4, <1>5, RowGrows DEF KeptInv
<1>7. \A n \in DOMAIN invoices : invoices'[n].paid => invoices[n].paid
  BY <1>4, <1>6
<1>8. PICK q \in Call : q = Free
  BY FreeCall
<1>9. q.at = "free" /\ ~Deletes(q)
  BY <1>8, FreeCall
<1>10. CallOk(q)'
  BY <1>9 DEF CallOk, Deletes
<1>11. c \notin Awaited
  BY <1>1, AwaitedAt DEF KeptInv
<1> QED
  BY <1>1, <1>6, <1>7, <1>8, <1>9, <1>10, <1>11, ServerMoves

\* Orders and supplier bills: what is served there is no payment and no delete.
LEMMA OtherKeeps ==
  ASSUME CounterAssumption, KeptInv, NEW c \in Calls,
         \/ PatchOrder(c) \/ SaveOrder(c) \/ ReceiveOrder(c) \/ CloseOrder(c)
         \/ CreateVendorInvoice(c) \/ EndVendorInvoice(c)
  PROVE  DeviceInv' /\ LinksInv' /\ ServerInv'
<1>1. ASSUME NEW state \in Call, Set(c, state), UNCHANGED <<device, invoices>>,
             call[c].at = "free", \/ state.at = "give" /\ state.kind \in {"receive", "purchase"}
                                  \/ state.at = "patch" /\ state.kind = "patch"
      PROVE  DeviceInv' /\ LinksInv' /\ ServerInv'
  <2>1. CallOk(state) /\ ~Deletes(state) /\ state.at # "pay"
    BY <1>1 DEF CallOk, Deletes
  <2> QED
    BY <1>1, <2>1, UnheardMoves
<1>2. ASSUME Set(c, Free), UNCHANGED <<device, invoices>>, call[c].at \in {"give", "patch"}
      PROVE  DeviceInv' /\ LinksInv' /\ ServerInv'
  <2>1. PICK q \in Call : q = Free
    BY FreeCall
  <2>2. CallOk(q) /\ ~Deletes(q) /\ q.at # "pay"
    BY <2>1, FreeCall
  <2> QED
    BY <1>2, <2>1, <2>2, UnheardMoves
<1>3. CASE PatchOrder(c)
  <2>1. PICK o \in HubOrders, to \in Statuses \ {"none"} : PatchOrder(c)!(o, to)
    BY <1>3 DEF PatchOrder
  <2> DEFINE state == [Free EXCEPT !.at = "patch", !.kind = "patch", !.order = {o},
                                   !.copy = [order[o] EXCEPT !.status = to]]
  <2>2. UNCHANGED <<device, invoices>> /\ call[c].at = "free" /\ Set(c, state)
    BY <2>1 DEF books, Serve
  <2>3. [order[o] EXCEPT !.status = to] \in Order
    BY DEF KeptInv, TypeInv, TypeOK, Order
  <2>4. state \in Call /\ state.at = "patch" /\ state.kind = "patch"
    BY <2>3, Blanks DEF Free, Call, CallKinds
  <2> HIDE DEF state
  <2>5. PICK q \in Call : q = state
    BY <2>4
  <2> QED
    BY <1>1, <2>2, <2>4, <2>5
<1>4. CASE ReceiveOrder(c)
  <2>1. PICK o \in HubOrders : ReceiveOrder(c)!(o)
    BY <1>4 DEF ReceiveOrder
  <2> DEFINE state == [Free EXCEPT !.at = "give", !.kind = "receive", !.order = {o},
                                   !.items = {Supply[o]}]
  <2>2. UNCHANGED <<device, invoices>> /\ call[c].at = "free" /\ Set(c, state)
    BY <2>1 DEF books, Serve
  <2>3. Supply[o] \in Items
    BY DEF CounterAssumption
  <2>4. state \in Call /\ state.at = "give" /\ state.kind = "receive"
    BY <2>3, Blanks DEF Free, Call, CallKinds
  <2> HIDE DEF state
  <2>5. PICK q \in Call : q = state
    BY <2>4
  <2> QED
    BY <1>1, <2>2, <2>4, <2>5
<1>5. CASE CreateVendorInvoice(c)
  <2>1. PICK i \in Items : CreateVendorInvoice(c)!(i)
    BY <1>5 DEF CreateVendorInvoice
  <2> DEFINE state == [Free EXCEPT !.at = "give", !.kind = "purchase", !.items = {i}]
  <2>2. UNCHANGED <<device, invoices>> /\ call[c].at = "free" /\ Set(c, state)
    BY <2>1 DEF Serve
  <2>3. state \in Call /\ state.at = "give" /\ state.kind = "purchase"
    BY Blanks DEF Free, Call, CallKinds
  <2> HIDE DEF state
  <2>4. PICK q \in Call : q = state
    BY <2>3
  <2> QED
    BY <1>1, <2>2, <2>3, <2>4
<1>6. CASE SaveOrder(c)
  BY <1>2, <1>6 DEF SaveOrder
<1>7. CASE CloseOrder(c)
  BY <1>2, <1>7 DEF CloseOrder
<1>8. CASE EndVendorInvoice(c)
  BY <1>2, <1>8 DEF EndVendorInvoice, books
<1> QED
  BY <1>3, <1>4, <1>5, <1>6, <1>7, <1>8

LEMMA OutsideKeeps ==
  ASSUME KeptInv, (\E o \in HubOrders : PlaceOrder(o)) \/ Crash \/ UNCHANGED vars
  PROVE  DeviceInv' /\ LinksInv' /\ ServerInv'
<1> USE DEF KeptInv
<1>1. UNCHANGED <<device, invoices, desk>>
  BY DEF PlaceOrder, Crash, vars, books, device
<1>2. /\ \A c \in Awaited : call'[c] = call[c] \/ call'[c].at = "lost"
      /\ \A c \in Calls : call'[c] = call[c] \/ call'[c].at \in {"free", "lost"}
  <2>1. CASE UNCHANGED call
    BY <2>1
  <2>2. CASE Crash
    <3>1. [Free EXCEPT !.at = "lost"].at = "lost" /\ Free.at = "free"
      BY DEF Free
    <3>2. Awaited \subseteq Calls
      BY DeskTypes DEF Awaited, TypeInv
    <3> QED
      BY <2>2, <3>1, <3>2 DEF Crash
  <2> QED
    BY <2>1, <2>2 DEF PlaceOrder, vars
<1>3. DeviceInv'
  BY <1>1, SameGrow, DeviceStays
<1>4. LinksInv'
  BY <1>1, <1>2, LinksStay
<1>5. ServerInv'
  BY <1>1, <1>2, CallsEnd
<1> QED
  BY <1>3, <1>4, <1>5

-----------------------------------------------------------------------------

LEMMA KeptStep ==
  ASSUME CounterAssumption, SalesAndSyncsApart, PaymentsAndDeletesApart, KeptInv, [Next]_vars
  PROVE  KeptInv'
<1>1. TypeInv'
  BY TypeStep DEF KeptInv
<1>2. ASSUME NEW d \in Desks, AtTheDesk(d)  PROVE DeviceInv' /\ LinksInv' /\ ServerInv'
  BY <1>2, PayKeeps, SyncOutboxKeeps, NextBillKeeps, EndSyncKeeps, PostInvoiceKeeps,
     PostPaymentKeeps, HearInvoiceKeeps, HearPaymentKeeps, LoseKeeps, ClosePageKeeps
     DEF AtTheDesk
<1>3. ASSUME NEW c \in Calls, InTheServer(c)  PROVE DeviceInv' /\ LinksInv' /\ ServerInv'
  BY <1>3, InsertInvoiceKeeps, TakeStockKeeps, StampInvoiceKeeps, RecordPaymentKeeps,
     GiveStockKeeps, DeleteInvoiceKeeps, EraseInvoiceKeeps, OtherKeeps DEF InTheServer
<1>4. DeviceInv' /\ LinksInv' /\ ServerInv'
  BY <1>2, <1>3, OutsideKeeps DEF Next
<1> QED
  BY <1>1, <1>4 DEF KeptInv

LEMMA InitKept ==
  ASSUME CounterAssumption, Init
  PROVE  KeptInv
<1>1. TypeInv
  BY InitTypes
<1>2. /\ \A b \in Bills : cart[b] = "open"
      /\ outbox = {} /\ \A d \in Desks : desk[d] = Resting
      /\ \A c \in Calls : call[c] = Free
  BY DEF Init
<1>3. OneSide
  BY <1>2, RestingOk DEF OneSide
<1>4. \A d \in Desks : DeskOk(desk[d]) /\ Carries(desk[d])
  BY <1>2, RestingOk DEF Carries
<1>5. DeviceInv
  BY <1>2, <1>3, <1>4 DEF DeviceInv, KeptUntilPaid
<1>6. LinksInv
  BY <1>2, RestingOk DEF LinksInv, OwnCalls, Linked
<1>7. ServerInv
  BY <1>2, FreeCall DEF ServerInv, NonePaidBesideDelete
<1> QED
  BY <1>1, <1>5, <1>6, <1>7 DEF KeptInv

THEOREM CounterInvariance ==
  ASSUME SalesAndSyncsApart, PaymentsAndDeletesApart
  PROVE  Spec => []KeptInv
<1>1. KeptInv /\ [Next]_vars => KeptInv'
  BY CounterAssumption, KeptStep
<1>2. Init => KeptInv
  BY CounterAssumption, InitKept
<1> QED
  BY <1>1, <1>2, PTL DEF Spec

\* A bill promised to be sent is in the outbox until an invoice of it is issued and,
\* unless on credit, its payment recorded: for any bills, pages and calls, and any losses, closed pages
\* and restarts, where no sale is made while the outbox is sent and no invoice is
\* deleted while a payment of one is recorded.
THEOREM BillsAreKeptUntilPaid ==
  ASSUME SalesAndSyncsApart, PaymentsAndDeletesApart
  PROVE  Spec => []KeptUntilPaid
<1>1. KeptInv => KeptUntilPaid
  BY DEF KeptInv, DeviceInv
<1> QED
  BY <1>1, CounterInvariance, PTL

=============================================================================
