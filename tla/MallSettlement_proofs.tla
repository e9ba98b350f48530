------------------------ MODULE MallSettlement_proofs ------------------------
(***************************************************************************)
(* Proofs about MallSettlement, for any orders, sellers, terms and calls,  *)
(* and any mix and overlap of handlers and restarts; OrdersAreRipe needs   *)
(* payments that are marked beside no other save: PaymentsAlone.           *)
(***************************************************************************)
EXTENDS MallSettlement, FiniteSetTheorems, TLAPS

-----------------------------------------------------------------------------
(* The inductive invariant beside TypeOK. *)

\* Settlement n, if it is one, adds up order o.
Includes(n, o) == n # 0 => n \in DOMAIN settlements /\ o \in settlements[n]

RowsIncluded == \A o \in Orders : Includes(order[o].settlement, o)

\* So is any copy that may yet be saved over a row, and what a build will stamp.
CopiesIncluded == \A r \in Callers, o \in Orders : Includes(copy[r][o].settlement, o)
StampsIncluded == \A r \in Callers : \A o \in todo[r] : Includes(into[r], o)

\* A row shows a payment only after one; so does what a build collects.
PaidWasPaid == \A o \in Orders : Paid(order[o]) => paidFor[o] # Never
BatchWasPaid == \A r \in Callers : \A o \in batch[r] : paidFor[o] # Never

Tables == RowsIncluded /\ PaidWasPaid /\ OnlyPaidIsSettled
Locals == CopiesIncluded /\ StampsIncluded /\ BatchWasPaid

IInv == TypeOK /\ Tables /\ Locals

-----------------------------------------------------------------------------
(* Types. *)

LEMMA Blanks ==
  /\ Unplaced \in Row /\ NoJob \in Job /\ NoCopies \in [Orders -> Row]
  /\ {"idle", "done"} \subseteq Labels
BY DEF Unplaced, NoJob, NoCopies, Row, Job, Labels

LEMMA RowTypes ==
  ASSUME NEW row \in Row, NEW n \in Nat
  PROVE  /\ [row EXCEPT !.txn = TRUE] \in Row
         /\ MarkedPaid(row) \in Row
         /\ [row EXCEPT !.status = "delivered"] \in Row
         /\ [row EXCEPT !.settlement = n] \in Row
         /\ [row EXCEPT !.age = n] \in Row
BY DEF Row, MarkedPaid

LEMMA WrittenType ==
  ASSUME NEW new \in Row, NEW old \in Row, NEW cols \in SUBSET Columns
  PROVE  Written(cols, new, old) \in Row
BY DEF Row, Written

LEMMA OlderType ==
  ASSUME MallAssumption, NEW n \in Nat
  PROVE  Older(n) \in Nat
BY DEF MallAssumption, Older

LEMMA FinishTypes ==
  ASSUME TypeOK, NEW r \in Callers, Finish(r)
  PROVE  /\ pc' \in [Callers -> Labels] /\ job' \in [Callers -> Job]
         /\ copy' \in [Callers -> [Orders -> Row]]
         /\ dirty' \in [Callers -> SUBSET Columns]
         /\ batch' \in [Callers -> SUBSET Orders]
         /\ todo' \in [Callers -> SUBSET Orders]
         /\ into' \in [Callers -> Nat]
BY Blanks DEF Finish, Goto, TypeOK

LEMMA SaveTypes ==
  ASSUME TypeOK, NEW r \in Callers, NEW kind \in AllKinds \cup {"tick", "none"},
         NEW o \in Orders, NEW row \in Row, Save(r, kind, o, row)
  PROVE  /\ pc' \in [Callers -> Labels] /\ job' \in [Callers -> Job]
         /\ copy' \in [Callers -> [Orders -> Row]]
         /\ dirty' \in [Callers -> SUBSET Columns]
         /\ batch' \in [Callers -> SUBSET Orders]
         /\ into' \in [Callers -> Nat]
<1>1. copy' \in [Callers -> [Orders -> Row]]
  BY DEF Save, TypeOK
<1>2. job' \in [Callers -> Job]
  BY DEF Save, OnJob, TypeOK, Job
<1> QED
  BY <1>1, <1>2 DEF Save, Goto, TypeOK, Labels

LEMMA PayTypes ==
  ASSUME TypeOK, NEW r \in Callers, NEW kind \in AllKinds, NEW o \in Orders,
         CreateMallPayuCheckout(r, kind, o)
  PROVE  TypeOK'
<1> DEFINE row == [order[o] EXCEPT !.txn = TRUE]
<1>1. row \in Row
  BY RowTypes DEF TypeOK
<1>2. CASE ~Paid(order[o]) /\ ~order[o].txn
  <2>1. Save(r, kind, o, row) /\ UNCHANGED <<forms, todo>>
    BY <1>2 DEF CreateMallPayuCheckout
  <2> HIDE DEF row
  <2> QED
    BY <1>1, <2>1, SaveTypes DEF CreateMallPayuCheckout, TypeOK
<1>3. CASE ~(~Paid(order[o]) /\ ~order[o].txn)
  <2>1. Finish(r) /\ forms' \subseteq Orders
    BY <1>3 DEF CreateMallPayuCheckout, TypeOK
  <2> QED
    BY <2>1, FinishTypes DEF CreateMallPayuCheckout, TypeOK
<1> QED
  BY <1>2, <1>3

LEMMA MarkPaidTypes ==
  ASSUME TypeOK, NEW r \in Callers, NEW kind \in AllKinds, NEW o \in Orders,
         MarkMallPaid(r, kind, o)
  PROVE  TypeOK'
<1> DEFINE row == MarkedPaid(order[o])
<1>1. row \in Row
  BY RowTypes DEF TypeOK
<1>2. CASE Paid(order[o])
  BY <1>2, FinishTypes DEF MarkMallPaid, TypeOK
<1>3. CASE ~Paid(order[o])
  <2>1. Save(r, kind, o, row) /\ UNCHANGED todo
    BY <1>3 DEF MarkMallPaid
  <2> HIDE DEF row
  <2> QED
    BY <1>1, <2>1, SaveTypes DEF MarkMallPaid, TypeOK
<1> QED
  BY <1>2, <1>3

LEMMA WriteTypes ==
  ASSUME MallAssumption, TypeOK, NEW r \in Callers, WriteOrder(r)
  PROVE  TypeOK'
<1>1. PICK o \in job[r].of :
        /\ order' = [order EXCEPT ![o] = Written(dirty[r], copy[r][o], order[o])]
        /\ paidFor' = [paidFor EXCEPT ![o] =
             IF Paid(Written(dirty[r], copy[r][o], order[o])) /\ @ = Never THEN 0 ELSE @]
        /\ IF In(r) \in Builds
             THEN /\ Goto(r, IF todo[r] = {} THEN "settle" ELSE "stamp")
                  /\ UNCHANGED <<forms, locals>>
             ELSE /\ forms' = IF In(r) \in {"checkout", "pay"} THEN forms \cup {o} ELSE forms
                  /\ Finish(r)
        /\ UNCHANGED <<jobs, settlements, hour, ran, crashes>>
  BY DEF WriteOrder
<1>2. o \in Orders
  BY <1>1 DEF TypeOK, Job
<1>3. Written(dirty[r], copy[r][o], order[o]) \in Row
  BY <1>2, WrittenType DEF TypeOK
<1>4. order' \in [Orders -> Row] /\ paidFor' \in [Orders -> Nat \cup {Never}]
  BY <1>1, <1>2, <1>3 DEF TypeOK
<1>5. CASE In(r) \in Builds
  BY <1>1, <1>4, <1>5 DEF TypeOK, Goto, locals, Labels
<1>6. CASE In(r) \notin Builds
  BY <1>1, <1>2, <1>4, <1>6, FinishTypes DEF TypeOK
<1> QED
  BY <1>5, <1>6

LEMMA CollectTypes ==
  ASSUME TypeOK, NEW r \in Callers, NEW kind \in Builds, Collect(r, kind), ran' \in BOOLEAN
  PROVE  TypeOK'
<1>1. copy' \in [Callers -> [Orders -> Row]] /\ batch' \in [Callers -> SUBSET Orders]
  BY DEF Collect, TypeOK
<1>2. job' \in [Callers -> Job]
  BY DEF Collect, TypeOK, Job, Builds, AllKinds
<1> QED
  BY <1>1, <1>2 DEF Collect, TypeOK, Goto, Labels

LEMMA SettleTypes ==
  ASSUME MallAssumption, TypeOK, NEW r \in Callers, SettleSeller(r)
  PROVE  TypeOK'
<1>1. PICK s \in Sellers : SettleSeller(r)!(s)
  BY DEF SettleSeller
<1>2. OfSeller(r, s) \in SUBSET Orders
  BY DEF OfSeller, TypeOK
<1>3. settlements' \in Seq(SUBSET Orders)
  BY <1>1, <1>2 DEF TypeOK
<1>4. Len(settlements) + 1 \in Nat
  BY DEF TypeOK
<1> QED
  BY <1>1, <1>2, <1>3, <1>4 DEF TypeOK, Goto, Labels, ToStamp

LEMMA StampTypes ==
  ASSUME TypeOK, NEW r \in Callers, StampOrder(r)
  PROVE  TypeOK'
<1>1. PICK o \in todo[r] : StampOrder(r)!(o)
  BY DEF StampOrder
<1> DEFINE row == [copy[r][o] EXCEPT !.settlement = into[r]]
<1>2. o \in Orders /\ In(r) \in AllKinds \cup {"tick", "none"}
  BY DEF TypeOK, Job, In
<1>4. copy[r][o] \in Row /\ into[r] \in Nat
  BY <1>2 DEF TypeOK
<1>5. row \in Row
  BY <1>4, RowTypes
<1>3. Save(r, In(r), o, row)
  BY <1>1
<1> HIDE DEF row
<1> QED
  BY <1>1, <1>2, <1>3, <1>5, SaveTypes DEF TypeOK

LEMMA HourTypes ==
  ASSUME MallAssumption, TypeOK, HourPasses
  PROVE  TypeOK'
<1>1. order' \in [Orders -> Row]
  <2> SUFFICES ASSUME NEW o \in Orders
               PROVE  [order[o] EXCEPT !.age = Older(@)] \in Row
    BY DEF HourPasses, TypeOK
  <2>1. order[o] \in Row /\ Older(order[o].age) \in Nat
    BY OlderType DEF TypeOK, Row
  <2> QED
    BY <2>1, RowTypes
<1>2. paidFor' \in [Orders -> Nat \cup {Never}]
  BY OlderType DEF HourPasses, TypeOK
<1>3. hour' \in 0 .. HoursPerDay - 1
  BY DEF HourPasses, TypeOK, MallAssumption
<1> QED
  BY <1>1, <1>2, <1>3 DEF HourPasses, TypeOK, locals

LEMMA CrashTypes ==
  ASSUME MallAssumption, TypeOK, Crash
  PROVE  TypeOK'
<1>1. pc' \in [Callers -> Labels]
  BY DEF Crash, TypeOK, Labels
<1>2. job' \in [Callers -> Job] /\ copy' \in [Callers -> [Orders -> Row]]
  BY Blanks DEF Crash
<1>3. /\ dirty' \in [Callers -> SUBSET Columns] /\ batch' \in [Callers -> SUBSET Orders]
      /\ todo' \in [Callers -> SUBSET Orders] /\ into' \in [Callers -> Nat]
  BY DEF Crash
<1>4. crashes' \in Nat
  <2>1. crashes' = crashes + 1 /\ crashes \in Nat
    BY DEF Crash, TypeOK
  <2> QED
    BY <2>1
<1>6. ran' \in BOOLEAN
  BY DEF Crash
<1>5. UNCHANGED <<order, jobs, forms, settlements, paidFor, hour>>
  BY DEF Crash
<1> QED
  BY <1>1, <1>2, <1>3, <1>4, <1>5, <1>6 DEF TypeOK

LEMMA TypeStep ==
  ASSUME MallAssumption, TypeOK, Next
  PROVE  TypeOK'
<1>0. Requests \subseteq Callers /\ Cron \in Callers /\ Placed \subseteq Orders
  BY DEF Callers, Placed
<1>1. ASSUME NEW r \in Requests, Checkout(r)  PROVE TypeOK'
  <2>1. PICK o \in Orders : Checkout(r)!(o)
    BY <1>1 DEF Checkout
  <2>2. [Unplaced EXCEPT !.status = "placed"] \in Row
    BY DEF Unplaced, Row
  <2>3. order' \in [Orders -> Row] /\ job' \in [Callers -> Job]
    BY <1>0, <2>1, <2>2 DEF TypeOK, OnJob, Job, AllKinds
  <2> QED
    BY <1>0, <2>1, <2>3 DEF TypeOK, Goto, Labels
<1>2. ASSUME NEW r \in Requests, Pay(r)  PROVE TypeOK'
  BY <1>0, <1>2, PayTypes DEF Pay, AllKinds
<1>3. ASSUME NEW r \in Requests, PayuReturn(r)  PROVE TypeOK'
  BY <1>0, <1>3, MarkPaidTypes DEF PayuReturn, AllKinds, TypeOK
<1>4. ASSUME NEW r \in Requests, MarkMallPaidById(r)  PROVE TypeOK'
  BY <1>0, <1>4, MarkPaidTypes DEF MarkMallPaidById, AllKinds
<1>5. ASSUME NEW r \in Requests, Deliver(r)  PROVE TypeOK'
  <2>1. PICK o \in jobs : Deliver(r)!(o)
    BY <1>5 DEF Deliver
  <2> DEFINE row == [order[o] EXCEPT !.status = "delivered"]
  <2>2. o \in Orders /\ row \in Row
    BY RowTypes DEF TypeOK
  <2>3. Save(r, "deliver", o, row)
    BY <2>1
  <2> HIDE DEF row
  <2> QED
    BY <1>0, <2>1, <2>2, <2>3, SaveTypes DEF TypeOK, AllKinds
<1>6. ASSUME NEW r \in Requests, BuildOpenSettlements(r)  PROVE TypeOK'
  BY <1>0, <1>6, CollectTypes DEF BuildOpenSettlements, Builds, TypeOK
<1>7. CASE Tick
  BY <1>0, <1>7, CollectTypes DEF Tick, Builds
<1>8. ASSUME NEW r \in Callers, InsertJob(r)  PROVE TypeOK'
  BY <1>8 DEF InsertJob, TypeOK, Job, Goto, Labels, locals
<1>9. ASSUME NEW r \in Callers, PayAfterCheckout(r)  PROVE TypeOK'
  <2>1. job[r].of \subseteq Orders
    BY DEF TypeOK, Job
  <2> QED
    BY <1>9, <2>1, PayTypes DEF PayAfterCheckout, AllKinds
<1>10. ASSUME NEW r \in Callers, LoadForSave(r)  PROVE TypeOK'
  BY <1>10 DEF LoadForSave, TypeOK, Differing, Goto, Labels
<1>11. ASSUME NEW r \in Callers, EndBuild(r)  PROVE TypeOK'
  BY <1>11, FinishTypes DEF EndBuild, TypeOK
<1> QED
  BY <1>1, <1>2, <1>3, <1>4, <1>5, <1>6, <1>7, <1>8, <1>9, <1>10, <1>11, WriteTypes,
     SettleTypes, StampTypes, HourTypes, CrashTypes DEF Next, Start, Step

-----------------------------------------------------------------------------
(* The invariant. *)

LEMMA TablesKept ==
  ASSUME Tables, UNCHANGED <<order, settlements, paidFor>>
  PROVE  Tables'
BY DEF Tables, RowsIncluded, PaidWasPaid, OnlyPaidIsSettled, Includes, Holding

LEMMA LocalsKept ==
  ASSUME TypeOK, Locals, UNCHANGED <<settlements, copy, batch, todo, into>>,
         \A o \in Orders : paidFor[o] # Never => paidFor'[o] # Never
  PROVE  Locals'
BY DEF TypeOK, Locals, CopiesIncluded, StampsIncluded, BatchWasPaid, Includes

LEMMA FinishKeeps ==
  ASSUME TypeOK, Locals, NEW r \in Callers, Finish(r), UNCHANGED settlements,
         \A o \in Orders : paidFor[o] # Never => paidFor'[o] # Never
  PROVE  Locals'
<1>1. CopiesIncluded'
  BY DEF TypeOK, Locals, CopiesIncluded, Includes, Finish, NoCopies, Unplaced
<1>2. StampsIncluded'
  BY DEF TypeOK, Locals, StampsIncluded, Includes, Finish
<1>3. BatchWasPaid'
  BY DEF TypeOK, Locals, BatchWasPaid, Finish
<1> QED
  BY <1>1, <1>2, <1>3 DEF Locals

LEMMA SaveKeeps ==
  ASSUME TypeOK, Locals, NEW r \in Callers, NEW kind, NEW o \in Orders, NEW row \in Row,
         Save(r, kind, o, row), Includes(row.settlement, o),
         \A q \in Callers : todo'[q] \subseteq todo[q], UNCHANGED <<settlements, paidFor>>
  PROVE  Locals'
<1>1. CopiesIncluded'
  <2> SUFFICES ASSUME NEW q \in Callers, NEW p \in Orders
               PROVE  Includes(copy'[q][p].settlement, p)
    BY DEF CopiesIncluded, Includes
  <2>1. CASE q = r /\ p = o
    BY <2>1 DEF Save, TypeOK
  <2>2. CASE ~(q = r /\ p = o)
    BY <2>2 DEF Save, TypeOK, Locals, CopiesIncluded
  <2> QED
    BY <2>1, <2>2
<1>2. StampsIncluded' /\ BatchWasPaid'
  BY DEF Save, Locals, StampsIncluded, BatchWasPaid, Includes
<1> QED
  BY <1>1, <1>2 DEF Locals

LEMMA PayKeeps ==
  ASSUME IInv, NEW r \in Callers, NEW kind, NEW o \in Orders,
         CreateMallPayuCheckout(r, kind, o)
  PROVE  Tables' /\ Locals'
<1> DEFINE row == [order[o] EXCEPT !.txn = TRUE]
<1>0. order[o] \in Row
  BY DEF IInv, TypeOK
<1>1. row \in Row /\ row.settlement = order[o].settlement
  BY <1>0, RowTypes DEF Row
<1>2. Includes(row.settlement, o)
  BY <1>1 DEF IInv, Tables, RowsIncluded
<1>3. CASE ~Paid(order[o]) /\ ~order[o].txn
  <2>1. Save(r, kind, o, row) /\ UNCHANGED <<forms, todo>>
    BY <1>3 DEF CreateMallPayuCheckout
  <2> HIDE DEF row
  <2> QED
    BY <1>1, <1>2, <2>1, SaveKeeps, TablesKept DEF CreateMallPayuCheckout, IInv
<1>4. CASE ~(~Paid(order[o]) /\ ~order[o].txn)
  BY <1>4, FinishKeeps, TablesKept DEF CreateMallPayuCheckout, IInv
<1> QED
  BY <1>3, <1>4

LEMMA MarkPaidKeeps ==
  ASSUME IInv, NEW r \in Callers, NEW kind, NEW o \in Orders, MarkMallPaid(r, kind, o)
  PROVE  Tables' /\ Locals'
<1> DEFINE row == MarkedPaid(order[o])
<1>0. order[o] \in Row
  BY DEF IInv, TypeOK
<1>1. row \in Row /\ row.settlement = order[o].settlement
  BY <1>0, RowTypes DEF Row, MarkedPaid
<1>2. Includes(row.settlement, o)
  BY <1>1 DEF IInv, Tables, RowsIncluded
<1>3. CASE Paid(order[o])
  BY <1>3, FinishKeeps, TablesKept DEF MarkMallPaid, IInv
<1>4. CASE ~Paid(order[o])
  <2>1. Save(r, kind, o, row) /\ UNCHANGED todo
    BY <1>4 DEF MarkMallPaid
  <2> HIDE DEF row
  <2> QED
    BY <1>1, <1>2, <2>1, SaveKeeps, TablesKept DEF MarkMallPaid, IInv
<1> QED
  BY <1>3, <1>4

LEMMA DeliverKeeps ==
  ASSUME IInv, NEW r \in Callers, Deliver(r)
  PROVE  Tables' /\ Locals'
<1>1. PICK o \in jobs : Deliver(r)!(o)
  BY DEF Deliver
<1> DEFINE row == [order[o] EXCEPT !.status = "delivered"]
<1>2. o \in Orders
  BY DEF IInv, TypeOK
<1>0. order[o] \in Row
  BY <1>2 DEF IInv, TypeOK
<1>3. row \in Row /\ row.settlement = order[o].settlement
  BY <1>0, RowTypes DEF Row
<1>4. Includes(row.settlement, o)
  BY <1>2, <1>3 DEF IInv, Tables, RowsIncluded
<1>5. Save(r, "deliver", o, row)
  BY <1>1
<1> HIDE DEF row
<1> QED
  BY <1>1, <1>2, <1>3, <1>4, <1>5, SaveKeeps, TablesKept DEF IInv

\* What is written is the settlement of the row or that of the copy, and the first
\* write of a payment is the moment the order is paid.
LEMMA WriteKeeps ==
  ASSUME MallAssumption, IInv, NEW r \in Callers, WriteOrder(r)
  PROVE  Tables' /\ Locals'
<1>1. PICK o \in job[r].of : WriteOrder(r)!(o)
  BY DEF WriteOrder
<1> DEFINE row == Written(dirty[r], copy[r][o], order[o])
<1>2. o \in Orders
  BY DEF IInv, TypeOK, Job
<1>3. row.settlement \in {copy[r][o].settlement, order[o].settlement}
  BY DEF Written
<1>4. /\ order' = [order EXCEPT ![o] = row]
      /\ paidFor' = [paidFor EXCEPT ![o] = IF Paid(row) /\ @ = Never THEN 0 ELSE @]
      /\ UNCHANGED settlements
  BY <1>1
<1>5. Includes(row.settlement, o)
  BY <1>2, <1>3 DEF IInv, Tables, Locals, RowsIncluded, CopiesIncluded
<1> HIDE DEF row
<1>6. \A p \in Orders : paidFor[p] # Never => paidFor'[p] # Never
  BY <1>4 DEF IInv, TypeOK
<1>7. Tables'
  <2>1. RowsIncluded'
    BY <1>2, <1>4, <1>5 DEF IInv, TypeOK, Tables, RowsIncluded, Includes
  <2>2. PaidWasPaid'
    BY <1>2, <1>4 DEF IInv, TypeOK, Tables, PaidWasPaid, Never
  <2>3. OnlyPaidIsSettled'
    BY <1>4, <1>6 DEF IInv, Tables, OnlyPaidIsSettled, Holding
  <2> QED
    BY <2>1, <2>2, <2>3 DEF Tables
<1>8. CASE In(r) \in Builds
  <2>1. UNCHANGED locals
    BY <1>1, <1>8
  <2> QED
    BY <1>4, <1>6, <1>7, <2>1, LocalsKept DEF IInv, locals
<1>9. CASE In(r) \notin Builds
  <2>1. Finish(r)
    BY <1>1, <1>9
  <2> QED
    BY <1>4, <1>6, <1>7, <2>1, FinishKeeps DEF IInv
<1> QED
  BY <1>7, <1>8, <1>9

LEMMA CollectKeeps ==
  ASSUME IInv, NEW r \in Callers, NEW kind, Collect(r, kind)
  PROVE  Tables' /\ Locals'
<1>1. CopiesIncluded'
  BY DEF IInv, TypeOK, Tables, Locals, CopiesIncluded, RowsIncluded, Includes, Collect
<1>2. StampsIncluded'
  BY DEF IInv, Locals, StampsIncluded, Includes, Collect
<1>3. BatchWasPaid'
  BY DEF IInv, TypeOK, Tables, Locals, BatchWasPaid, PaidWasPaid, Collect, Unsettled
<1> QED
  BY <1>1, <1>2, <1>3, TablesKept DEF IInv, Locals, Collect

\* A new settlement changes none of the old ones and adds up what was collected.
LEMMA SettleKeeps ==
  ASSUME MallAssumption, IInv, NEW r \in Callers, SettleSeller(r)
  PROVE  Tables' /\ Locals'
<1>1. PICK s \in Sellers : SettleSeller(r)!(s)
  BY DEF SettleSeller
<1> DEFINE mine == OfSeller(r, s)
           new  == Len(settlements) + 1
<1>2. mine \subseteq batch[r] /\ mine \subseteq Orders
  BY DEF OfSeller, IInv, TypeOK
<1>3. /\ settlements \in Seq(SUBSET Orders) /\ settlements' = Append(settlements, mine)
      /\ into' = [into EXCEPT ![r] = new] /\ todo' = [todo EXCEPT ![r] = mine]
      /\ batch' = [batch EXCEPT ![r] = @ \ mine]
      /\ UNCHANGED <<order, paidFor, copy>>
  BY <1>1 DEF IInv, TypeOK, ToStamp
<1>4. /\ DOMAIN settlements' = DOMAIN settlements \cup {new} /\ settlements'[new] = mine
      /\ new \notin DOMAIN settlements
      /\ \A k \in DOMAIN settlements : settlements'[k] = settlements[k]
  BY <1>2, <1>3
<1> HIDE DEF mine, new
<1>5. Tables'
  <2>1. RowsIncluded' /\ PaidWasPaid'
    BY <1>3, <1>4 DEF IInv, Tables, RowsIncluded, PaidWasPaid, Includes
  <2>2. \A o \in mine : paidFor[o] # Never
    BY <1>2 DEF IInv, Locals, BatchWasPaid
  <2>3. OnlyPaidIsSettled'
    BY <1>3, <1>4, <2>2 DEF IInv, Tables, OnlyPaidIsSettled, Holding
  <2> QED
    BY <2>1, <2>3 DEF Tables
<1>6. CopiesIncluded' /\ BatchWasPaid'
  BY <1>3, <1>4 DEF IInv, TypeOK, Locals, CopiesIncluded, BatchWasPaid, Includes
<1>7. StampsIncluded'
  BY <1>3, <1>4 DEF IInv, TypeOK, Locals, StampsIncluded, Includes
<1> QED
  BY <1>5, <1>6, <1>7 DEF Locals

LEMMA StampKeeps ==
  ASSUME IInv, NEW r \in Callers, StampOrder(r)
  PROVE  Tables' /\ Locals'
<1>1. PICK o \in todo[r] : StampOrder(r)!(o)
  BY DEF StampOrder
<1> DEFINE row == [copy[r][o] EXCEPT !.settlement = into[r]]
<1>2. o \in Orders /\ into[r] \in Nat
  BY DEF IInv, TypeOK
<1>3. copy[r][o] \in Row
  BY <1>2 DEF IInv, TypeOK
<1>4. row \in Row /\ row.settlement = into[r]
  BY <1>2, <1>3, RowTypes DEF Row
<1>5. Includes(row.settlement, o)
  BY <1>4 DEF IInv, Locals, StampsIncluded
<1>6. \A q \in Callers : todo'[q] \subseteq todo[q]
  BY <1>1 DEF IInv, TypeOK
<1>7. Save(r, In(r), o, row)
  BY <1>1
<1> HIDE DEF row
<1> QED
  BY <1>1, <1>2, <1>4, <1>5, <1>6, <1>7, SaveKeeps, TablesKept DEF IInv

LEMMA HourKeeps ==
  ASSUME MallAssumption, IInv, HourPasses
  PROVE  Tables' /\ Locals'
<1>1. \A o \in Orders : /\ order'[o].settlement = order[o].settlement
                        /\ Paid(order'[o]) <=> Paid(order[o])
  <2> SUFFICES ASSUME NEW o \in Orders
               PROVE  /\ order'[o].settlement = order[o].settlement
                      /\ Paid(order'[o]) <=> Paid(order[o])
    OBVIOUS
  <2>1. order[o] \in Row
    BY DEF IInv, TypeOK
  <2> QED
    BY <2>1 DEF HourPasses, Paid, Row
<1>2. \A o \in Orders : paidFor[o] # Never => paidFor'[o] # Never
  <2> SUFFICES ASSUME NEW o \in Orders, paidFor[o] # Never  PROVE paidFor'[o] # Never
    OBVIOUS
  <2>1. paidFor[o] \in Nat /\ paidFor'[o] = Older(paidFor[o])
    BY DEF IInv, TypeOK, HourPasses
  <2> QED
    BY <2>1, OlderType DEF Never
<1>3. UNCHANGED <<settlements, copy, batch, todo, into>>
  BY DEF HourPasses, locals
<1>4. Tables'
  BY <1>1, <1>2, <1>3 DEF IInv, Tables, RowsIncluded, PaidWasPaid, OnlyPaidIsSettled,
     Includes, Holding
<1>5. Locals'
  BY <1>2, <1>3 DEF IInv, TypeOK, Locals, CopiesIncluded, StampsIncluded, BatchWasPaid,
     Includes
<1> QED
  BY <1>4, <1>5

LEMMA CrashKeeps ==
  ASSUME IInv, Crash
  PROVE  Tables' /\ Locals'
<1>1. CopiesIncluded'
  BY DEF Crash, CopiesIncluded, Includes, NoCopies, Unplaced
<1>2. StampsIncluded' /\ BatchWasPaid'
  BY DEF Crash, StampsIncluded, BatchWasPaid
<1> QED
  BY <1>1, <1>2, TablesKept DEF IInv, Locals, Crash

LEMMA CheckoutKeeps ==
  ASSUME IInv, NEW r \in Callers, Checkout(r)
  PROVE  Tables' /\ Locals'
<1>1. PICK o \in Orders : Checkout(r)!(o)
  BY DEF Checkout
<1> DEFINE row == [Unplaced EXCEPT !.status = "placed"]
<1>2. row.settlement = 0 /\ ~Paid(row) /\ order' = [order EXCEPT ![o] = row]
  BY <1>1 DEF Unplaced, Paid
<1>3. UNCHANGED <<settlements, paidFor, copy, batch, todo, into>>
  BY <1>1
<1> HIDE DEF row
<1>4. Tables'
  BY <1>2, <1>3 DEF IInv, TypeOK, Tables, RowsIncluded, PaidWasPaid, OnlyPaidIsSettled,
     Includes, Holding
<1> QED
  BY <1>3, <1>4, LocalsKept DEF IInv

LEMMA Inductive ==
  ASSUME MallAssumption, IInv, [Next]_vars
  PROVE  IInv'
<1>0. Requests \subseteq Callers /\ Cron \in Callers /\ Placed \subseteq Orders
  BY DEF Callers, Placed
<1>1. CASE UNCHANGED vars
  <2>1. TypeOK'
    BY <1>1 DEF IInv, TypeOK, vars
  <2>2. UNCHANGED <<order, settlements, paidFor, copy, batch, todo, into>>
    BY <1>1 DEF vars
  <2> QED
    BY <2>1, <2>2, TablesKept, LocalsKept DEF IInv
<1>2. CASE Next
  <2>1. ASSUME NEW r \in Requests, Checkout(r)  PROVE Tables' /\ Locals'
    BY <1>0, <2>1, CheckoutKeeps
  <2>2. ASSUME NEW r \in Requests, Pay(r)  PROVE Tables' /\ Locals'
    BY <1>0, <2>2, PayKeeps DEF Pay
  <2>3. ASSUME NEW r \in Requests, PayuReturn(r)  PROVE Tables' /\ Locals'
    BY <1>0, <2>3, MarkPaidKeeps DEF PayuReturn, IInv, TypeOK
  <2>4. ASSUME NEW r \in Requests, MarkMallPaidById(r)  PROVE Tables' /\ Locals'
    BY <1>0, <2>4, MarkPaidKeeps DEF MarkMallPaidById
  <2>5. ASSUME NEW r \in Requests, Deliver(r)  PROVE Tables' /\ Locals'
    BY <1>0, <2>5, DeliverKeeps
  <2>6. ASSUME NEW r \in Requests, BuildOpenSettlements(r)  PROVE Tables' /\ Locals'
    BY <1>0, <2>6, CollectKeeps DEF BuildOpenSettlements
  <2>7. ASSUME Tick  PROVE Tables' /\ Locals'
    BY <1>0, <2>7, CollectKeeps DEF Tick
  <2>8. ASSUME NEW r \in Callers, InsertJob(r) \/ LoadForSave(r)  PROVE Tables' /\ Locals'
    <3>1. UNCHANGED <<order, settlements, paidFor, copy, batch, todo, into>>
      BY <2>8 DEF InsertJob, LoadForSave, locals
    <3> QED
      BY <3>1, TablesKept, LocalsKept DEF IInv
  <2>9. ASSUME NEW r \in Callers, PayAfterCheckout(r)  PROVE Tables' /\ Locals'
    <3>1. job[r].of \subseteq Orders
      BY DEF IInv, TypeOK, Job
    <3> QED
      BY <2>9, <3>1, PayKeeps DEF PayAfterCheckout
  <2>10. ASSUME NEW r \in Callers, EndBuild(r)  PROVE Tables' /\ Locals'
    <3>1. Finish(r) /\ UNCHANGED <<order, settlements, paidFor>>
      BY <2>10 DEF EndBuild
    <3> QED
      BY <3>1, FinishKeeps, TablesKept DEF IInv
  <2>11. Tables' /\ Locals'
    BY <1>2, <2>1, <2>2, <2>3, <2>4, <2>5, <2>6, <2>7, <2>8, <2>9, <2>10, WriteKeeps,
       SettleKeeps, StampKeeps, HourKeeps, CrashKeeps DEF Next, Start, Step
  <2> QED
    BY <1>2, <2>11, TypeStep DEF IInv
<1> QED
  BY <1>1, <1>2

LEMMA Initial ==
  ASSUME MallAssumption, Init
  PROVE  IInv
<1>1. TypeOK
  <2>1. order \in [Orders -> Row] /\ job \in [Callers -> Job]
        /\ copy \in [Callers -> [Orders -> Row]] /\ pc \in [Callers -> Labels]
    BY Blanks DEF Init
  <2>2. hour \in 0 .. HoursPerDay - 1
    BY DEF Init, MallAssumption
  <2>3. settlements \in Seq(SUBSET Orders) /\ paidFor \in [Orders -> Nat \cup {Never}]
    BY DEF Init
  <2>4. /\ dirty \in [Callers -> SUBSET Columns] /\ batch \in [Callers -> SUBSET Orders]
        /\ todo \in [Callers -> SUBSET Orders] /\ into \in [Callers -> Nat]
    BY DEF Init
  <2>5. jobs \subseteq Orders /\ forms \subseteq Orders /\ crashes \in Nat
    BY DEF Init
  <2>6. ran \in BOOLEAN
    BY DEF Init
  <2> QED
    BY <2>1, <2>2, <2>3, <2>4, <2>5, <2>6 DEF TypeOK
<1>2. Tables
  BY DEF Init, Tables, RowsIncluded, PaidWasPaid, OnlyPaidIsSettled, Includes, Holding,
     Unplaced, Paid
<1>3. Locals
  BY DEF Init, Locals, CopiesIncluded, StampsIncluded, BatchWasPaid, Includes, NoCopies,
     Unplaced
<1> QED
  BY <1>1, <1>2, <1>3 DEF IInv

\* Every state the handlers reach, whatever overlaps and however often the server
\* restarts, satisfies the invariant.
THEOREM Invariance == Spec => []IInv
<1> USE MallAssumption
<1> QED
  BY Initial, Inductive, PTL DEF Spec

\* The tables keep their types: settlement ids, ages and statuses, through every save
\* of an old copy.
THEOREM MallTypeCorrect == Spec => []TypeOK
BY Invariance, PTL DEF IInv

\* An order's settlement_id names a settlement that adds the order up, for any number
\* of builds and saves that overlap.
THEOREM StampsAreRight == Spec => []StampedIsIncluded
<1>1. IInv => StampedIsIncluded
  BY DEF IInv, Tables, RowsIncluded, Includes, StampedIsIncluded, Holding
<1> QED
  BY <1>1, Invariance, PTL

\* A settlement never adds up an order the platform has not been paid for.
THEOREM SettledWasPaid == Spec => []OnlyPaidIsSettled
BY Invariance, PTL DEF IInv, Tables

-----------------------------------------------------------------------------
(* What a handler under way knows, when payments keep apart.                 *)

PayCalls == {"checkout", "pay"}
Payers   == {"return", "markPaid"}

PaymentsAlone ==
  \A x \in Payers, y \in Payers \cup PayCalls \cup {"deliver"} : {x, y} \in Apart

\* r is saving order o, or is to stamp it.
Saving(r, o) == pc[r] \in {"load", "write"} /\ o \in job[r].of

Shape(r) ==
  /\ Running(r) <=> In(r) # "none"
  /\ pc[r] \in {"job", "pay"} => In(r) = "checkout"
  /\ pc[r] \in {"settle", "stamp"} => In(r) \in Builds
  /\ pc[r] \in {"job", "pay", "load", "write"} => \E o \in Orders : job[r].of = {o}
  /\ pc[r] = "settle" => todo[r] = {}
  /\ In(r) \notin Builds => todo[r] = {} /\ batch[r] = {}

\* Handlers work on orders that were placed.
Placing(r) ==
  /\ pc[r] \in {"job", "pay", "load", "write"} => job[r].of \subseteq Placed
  /\ \A o \in Orders : Saving(r, o) => copy[r][o].status # "none"
  /\ \A o \in batch[r] \cup todo[r] : o \in Placed /\ copy[r][o].status # "none"

AllApart == \A q, r \in Callers : q # r /\ Running(q) /\ Running(r) => {In(q), In(r)} \notin Apart

\* q keeps its local variables.
Same(q) == /\ pc'[q] = pc[q] /\ job'[q] = job[q] /\ copy'[q] = copy[q] /\ dirty'[q] = dirty[q]
           /\ batch'[q] = batch[q] /\ todo'[q] = todo[q] /\ into'[q] = into[q]

LEMMA SaveFrame ==
  ASSUME TypeOK, NEW r \in Callers, NEW kind, NEW o \in Orders, NEW row, Save(r, kind, o, row),
         todo' = todo \/ \E t : todo' = [todo EXCEPT ![r] = t]
  PROVE  /\ \A q \in Callers \ {r} : Same(q)
         /\ pc'[r] = "load" /\ job'[r] = [kind |-> kind, of |-> {o}] /\ copy'[r][o] = row
         /\ dirty'[r] = dirty[r] /\ batch'[r] = batch[r] /\ into'[r] = into[r]
         /\ \A p \in Orders \ {o} : copy'[r][p] = copy[r][p]
BY DEF TypeOK, Save, OnJob, Goto, Same

LEMMA FinishFrame ==
  ASSUME TypeOK, NEW r \in Callers, Finish(r)
  PROVE  /\ \A q \in Callers \ {r} : Same(q)
         /\ pc'[r] \in {"idle", "done"} /\ job'[r] = NoJob
         /\ batch'[r] = batch[r] /\ todo'[r] = todo[r]
BY DEF TypeOK, Finish, Goto, Same

\* A handler that leaves the tables alone, and takes up no kind that another excludes.
LEMMA OthersApart ==
  ASSUME TypeOK, AllApart, NEW r \in Callers, \A q \in Callers \ {r} : Same(q),
         Shape(r), Shape(r)',
         \/ In(r)' \in {In(r), "none"}
         \/ \A q \in Busy : {In(r)', In(q)} \notin Apart
  PROVE  AllApart'
<1>1. ASSUME NEW q \in Callers, q # r, Running(q)', Running(r)' PROVE {In(q)', In(r)'} \notin Apart
  <2>1. Running(q) /\ In(q)' = In(q)
    BY <1>1 DEF Same, Running, In
  <2>2. In(r)' # "none"
    BY <1>1 DEF Shape
  <2>3. CASE In(r)' = In(r)
    <3>1. Running(r)
      BY <2>2, <2>3 DEF Shape
    <3> QED
      BY <1>1, <2>1, <2>3, <3>1 DEF AllApart
  <2>4. CASE \A x \in Busy : {In(r)', In(x)} \notin Apart
    <3>1. {In(r)', In(q)} \notin Apart
      BY <2>1, <2>4 DEF Busy
    <3>2. {In(r)', In(q)} = {In(q), In(r)'}
      OBVIOUS
    <3> QED
      BY <2>1, <3>1, <3>2
  <2> QED
    BY <2>2, <2>3, <2>4
<1>2. ASSUME NEW q \in Callers, NEW x \in Callers, q # x, Running(q)', Running(x)'
      PROVE  {In(q)', In(x)'} \notin Apart
  <2>1. CASE x = r
    BY <1>1, <1>2, <2>1
  <2>2. CASE q = r
    <3>1. {In(x)', In(r)'} \notin Apart
      BY <1>1, <1>2, <2>2
    <3>2. {In(x)', In(r)'} = {In(r)', In(x)'}
      OBVIOUS
    <3> QED
      BY <2>2, <3>1, <3>2
  <2>3. CASE q # r /\ x # r
    <3>1. Running(q) /\ Running(x) /\ In(q)' = In(q) /\ In(x)' = In(x)
      BY <1>2, <2>3 DEF Same, Running, In
    <3> QED
      BY <1>2, <3>1 DEF AllApart
  <2> QED
    BY <2>1, <2>2, <2>3
<1> QED
  BY <1>2 DEF AllApart

-----------------------------------------------------------------------------
(* A settlement takes no order before its time, when payments keep apart.    *)

Known(r, o) == (Saving(r, o) /\ In(r) \in Builds) \/ o \in batch[r] \cup todo[r]

\* What a handler knows of the payment of an order it is saving, or is to stamp.
PaymentKnown(r, o) ==
  /\ Saving(r, o) /\ In(r) \in PayCalls => ~ Paid(order[o]) /\ ~ Paid(copy[r][o])
  /\ Saving(r, o) /\ In(r) \in Payers =>
       /\ ~ Paid(order[o]) /\ Paid(copy[r][o]) /\ copy[r][o].age = order[o].age
       /\ pc[r] = "write" => "payment" \in dirty[r] /\ "age" \notin dirty[r]
  /\ Saving(r, o) /\ In(r) = "deliver" => (Paid(copy[r][o]) <=> Paid(order[o]))
  /\ Known(r, o) => Paid(order[o]) /\ Paid(copy[r][o])

\* No copy of a paid order was touched before the payment, and a build collected it late
\* enough after.
AgeKnown(r, o) ==
  /\ o \in batch[r] => paidFor[o] >= Term(o)
  /\ Known(r, o) \/ (Saving(r, o) /\ In(r) \notin Payers) =>
       (Paid(copy[r][o]) => copy[r][o].age <= paidFor[o])

Ripe(r) == Shape(r) /\ Placing(r) /\ \A o \in Orders : PaymentKnown(r, o) /\ AgeKnown(r, o)

RowsRipe == \A o \in Orders : Paid(order[o]) => order[o].age <= paidFor[o]

\* An order not yet placed is a row nobody has touched.
PlacedRows == /\ forms \subseteq Placed /\ jobs \subseteq Placed
              /\ \A o \in Orders \ Placed : ~ Paid(order[o]) /\ order[o].age = 0

RipeInv == AllApart /\ RowsRipe /\ PlacedRows /\ \A r \in Callers : Ripe(r)

\* A handler at the tables of which nothing it relies on changes.
LEMMA RipeSame ==
  ASSUME MallAssumption, TypeOK, TypeOK', NEW q \in Callers, Ripe(q), Same(q),
         Placed \subseteq Placed',
         \A o \in Orders : paidFor[o] <= paidFor'[o],
         \A o \in Orders : (Saving(q, o) \/ o \in batch[q] \cup todo[q]) =>
           /\ Paid(order[o])' <=> Paid(order[o])
           /\ In(q) \in Payers => order'[o].age = order[o].age
  PROVE  Ripe(q)'
<1>1. Shape(q)' /\ Placing(q)'
  BY DEF Ripe, Shape, Placing, Same, Running, In, Saving
<1>2. ASSUME NEW o \in Orders PROVE PaymentKnown(q, o)'
  <2>1. PaymentKnown(q, o)
    BY DEF Ripe
  <2>2. /\ (Saving(q, o)' <=> Saving(q, o)) /\ (Known(q, o)' <=> Known(q, o)) /\ In(q)' = In(q)
        /\ (Paid(copy[q][o])' <=> Paid(copy[q][o]))
        /\ Known(q, o) => Saving(q, o) \/ o \in batch[q] \cup todo[q]
    BY DEF Same, Saving, Known, In, Paid
  <2> QED
    BY <2>1, <2>2 DEF PaymentKnown, Same
<1>3. ASSUME NEW o \in Orders PROVE AgeKnown(q, o)'
  <2>1. AgeKnown(q, o)
    BY DEF Ripe
  <2>2. /\ (Saving(q, o)' <=> Saving(q, o)) /\ (Known(q, o)' <=> Known(q, o)) /\ In(q)' = In(q)
        /\ (Paid(copy[q][o])' <=> Paid(copy[q][o]))
        /\ copy'[q][o].age = copy[q][o].age /\ batch'[q] = batch[q]
    BY DEF Same, Saving, Known, In, Paid
  <2>3. Term(o) \in Int /\ copy[q][o].age \in Int /\ paidFor[o] \in Int /\ paidFor'[o] \in Int
    BY DEF TypeOK, Row, Term, MallAssumption, Never
  <2>4. Term(o)' = Term(o) /\ paidFor[o] <= paidFor'[o]
    BY DEF Term
  <2> HIDE DEF Term
  <2> QED
    BY <2>1, <2>2, <2>3, <2>4 DEF AgeKnown
<1> QED
  BY <1>1, <1>2, <1>3 DEF Ripe

\* A step that writes no order.
LEMMA RipeQuiet ==
  ASSUME MallAssumption, TypeOK, TypeOK', RipeInv, NEW r \in Callers,
         \A q \in Callers \ {r} : Same(q), UNCHANGED <<order, paidFor>>, Ripe(r)',
         In(r)' \in {In(r), "none"} \/ \A q \in Busy : {In(r)', In(q)} \notin Apart,
         forms' \subseteq Placed, jobs' \subseteq Placed
  PROVE  RipeInv'
<1>0. Placed' = Placed
  BY DEF Placed
<1>1. AllApart'
  BY OthersApart DEF RipeInv, Ripe
<1>2. RowsRipe' /\ PlacedRows'
  BY <1>0 DEF RipeInv, RowsRipe, PlacedRows, Paid
<1>3. ASSUME NEW q \in Callers, q # r PROVE Ripe(q)'
  <2>1. \A o \in Orders : paidFor[o] <= paidFor'[o]
    <3>1. \A o \in Orders : paidFor[o] \in Int /\ paidFor'[o] = paidFor[o]
      BY DEF TypeOK, Never
    <3> QED
      BY <3>1
  <2>2. \A o \in Orders : (Paid(order[o])' <=> Paid(order[o])) /\ order'[o].age = order[o].age
    BY DEF Paid
  <2> QED
    BY <1>0, <1>3, <2>1, <2>2, RipeSame DEF RipeInv
<1> QED
  BY <1>1, <1>2, <1>3 DEF RipeInv

LEMMA RipeRest ==
  ASSUME RipeInv, NEW r \in Callers, NEW kind, Call(r, kind)
  PROVE  /\ In(r) = "none" /\ In(r) \notin Builds /\ \A q \in Busy : {kind, In(q)} \notin Apart
         /\ todo[r] = {}
BY DEF RipeInv, Ripe, Shape, Call, Running, Builds

LEMMA RipeSave ==
  ASSUME MallAssumption, TypeOK, TypeOK', RipeInv, NEW r \in Callers, NEW kind,
         NEW o \in Orders, NEW row \in Row,
         Save(r, kind, o, row), UNCHANGED <<order, jobs, forms, paidFor, todo>>,
         In(r) \notin Builds, o \in Placed, row.status # "none", kind \in PayCalls \cup Payers \cup {"deliver"},
         In(r) = kind \/ \A q \in Busy : {kind, In(q)} \notin Apart,
         row.age = order[o].age,
         kind \in PayCalls => ~ Paid(order[o]) /\ ~ Paid(row),
         kind \in Payers => ~ Paid(order[o]) /\ Paid(row),
         kind = "deliver" => (Paid(row) <=> Paid(order[o]))
  PROVE  RipeInv'
<1>1. /\ \A q \in Callers \ {r} : Same(q)
      /\ pc'[r] = "load" /\ job'[r] = [kind |-> kind, of |-> {o}] /\ copy'[r][o] = row
      /\ batch'[r] = batch[r] /\ todo'[r] = todo[r]
  BY SaveFrame
<1>2. batch'[r] = {} /\ todo'[r] = {} /\ In(r)' = kind
  BY <1>1 DEF RipeInv, Ripe, Shape, In
<1>3. kind \notin Builds /\ kind # "none"
  BY DEF PayCalls, Payers, Builds
<1>4. Shape(r)' /\ Placing(r)'
  BY <1>1, <1>2, <1>3 DEF Shape, Placing, Saving, Placed, Running
<1>5. ASSUME NEW p \in Orders PROVE PaymentKnown(r, p)' /\ AgeKnown(r, p)'
  <2>1. (Saving(r, p)' <=> p = o) /\ ~ Known(r, p)'
    BY <1>1, <1>2, <1>3 DEF Saving, Known
  <2>2. PaymentKnown(r, p)'
    BY <1>1, <1>2, <2>1 DEF PaymentKnown, Paid
  <2>3. AgeKnown(r, p)'
    BY <1>1, <1>2, <2>1 DEF AgeKnown, RipeInv, RowsRipe, Paid
  <2> QED
    BY <2>2, <2>3
<1>6. Ripe(r)'
  BY <1>4, <1>5 DEF Ripe
<1> QED
  BY <1>1, <1>2, <1>6, RipeQuiet DEF RipeInv, PlacedRows

LEMMA RipeFinish ==
  ASSUME TypeOK, NEW r \in Callers, Finish(r), batch[r] = {}, todo[r] = {}
  PROVE  Ripe(r)' /\ In(r)' = "none" /\ \A q \in Callers \ {r} : Same(q)
<1>1. /\ pc'[r] \in {"idle", "done"} /\ job'[r] = NoJob
      /\ batch'[r] = {} /\ todo'[r] = {} /\ \A q \in Callers \ {r} : Same(q)
  BY FinishFrame
<1>2. Shape(r)' /\ Placing(r)'
  BY <1>1 DEF Shape, Placing, Saving, Running, In, NoJob, Builds
<1>3. \A o \in Orders : PaymentKnown(r, o)' /\ AgeKnown(r, o)'
  BY <1>1 DEF PaymentKnown, AgeKnown, Known, Saving
<1> QED
  BY <1>1, <1>2, <1>3 DEF Ripe, In, NoJob

LEMMA RipeEnd ==
  ASSUME MallAssumption, TypeOK, TypeOK', RipeInv, NEW r \in Callers, Finish(r),
         UNCHANGED <<order, jobs, paidFor>>, batch[r] = {}, todo[r] = {}, forms' \subseteq Placed
  PROVE  RipeInv'
BY RipeFinish, RipeQuiet DEF RipeInv, PlacedRows

LEMMA RipePay ==
  ASSUME MallAssumption, TypeOK, TypeOK', RipeInv, NEW r \in Callers, NEW kind \in PayCalls,
         NEW o \in Placed, CreateMallPayuCheckout(r, kind, o), In(r) \notin Builds,
         In(r) = kind \/ \A q \in Busy : {kind, In(q)} \notin Apart
  PROVE  RipeInv'
<1> DEFINE row == [order[o] EXCEPT !.txn = TRUE]
<1>1. o \in Orders /\ order[o] \in Row
  BY DEF TypeOK, Placed
<1>2. row \in Row /\ row.age = order[o].age /\ (Paid(row) <=> Paid(order[o]))
      /\ row.status # "none"
  BY <1>1 DEF Row, Paid, Placed
<1>3. CASE ~Paid(order[o]) /\ ~order[o].txn
  <2>1. Save(r, kind, o, row) /\ UNCHANGED <<order, jobs, forms, paidFor, todo>>
    BY <1>3 DEF CreateMallPayuCheckout
  <2>2. kind \notin Payers /\ kind # "deliver"
    BY DEF PayCalls, Payers
  <2> HIDE DEF row
  <2> QED
    BY <1>1, <1>2, <1>3, <2>1, <2>2, RipeSave
<1>4. CASE ~(~Paid(order[o]) /\ ~order[o].txn)
  <2>1. Finish(r) /\ UNCHANGED <<order, jobs, paidFor>> /\ batch[r] = {} /\ todo[r] = {}
         /\ forms' \subseteq Placed
    BY <1>4 DEF CreateMallPayuCheckout, RipeInv, PlacedRows, Ripe, Shape
  <2> QED
    BY <2>1, RipeEnd
<1> QED
  BY <1>3, <1>4

LEMMA RipeMarkPaid ==
  ASSUME MallAssumption, TypeOK, TypeOK', RipeInv, NEW r \in Callers, NEW kind \in Payers,
         NEW o \in Placed, MarkMallPaid(r, kind, o), Call(r, kind)
  PROVE  RipeInv'
<1> DEFINE row == MarkedPaid(order[o])
<1>0. In(r) \notin Builds /\ \A q \in Busy : {kind, In(q)} \notin Apart
  BY RipeRest
<1>1. o \in Orders /\ order[o] \in Row
  BY DEF TypeOK, Placed
<1>2. row \in Row /\ row.age = order[o].age /\ Paid(row) /\ row.status # "none"
  BY <1>1 DEF Row, Paid, MarkedPaid
<1>3. CASE ~Paid(order[o])
  <2>1. Save(r, kind, o, row) /\ UNCHANGED <<order, jobs, forms, paidFor, todo>>
    BY <1>3 DEF MarkMallPaid
  <2>2. kind \notin PayCalls /\ kind # "deliver"
    BY DEF PayCalls, Payers
  <2> HIDE DEF row
  <2> QED
    BY <1>0, <1>1, <1>2, <1>3, <2>1, <2>2, RipeSave
<1>4. CASE Paid(order[o])
  <2>1. Finish(r) /\ UNCHANGED <<order, jobs, paidFor>> /\ batch[r] = {} /\ todo[r] = {}
         /\ forms' \subseteq Placed
    BY <1>0, <1>4 DEF MarkMallPaid, RipeInv, PlacedRows, Ripe, Shape
  <2> QED
    BY <2>1, RipeEnd
<1> QED
  BY <1>3, <1>4

LEMMA RipeDeliver ==
  ASSUME MallAssumption, TypeOK, TypeOK', RipeInv, NEW r \in Callers, Deliver(r)
  PROVE  RipeInv'
<1>1. PICK o \in jobs : Deliver(r)!(o)
  BY DEF Deliver
<1> DEFINE row == [order[o] EXCEPT !.status = "delivered"]
<1>2. o \in Orders /\ o \in Placed /\ order[o] \in Row
  BY DEF TypeOK, RipeInv, PlacedRows
<1>3. row \in Row /\ row.age = order[o].age /\ (Paid(row) <=> Paid(order[o]))
      /\ row.status # "none"
  BY <1>2 DEF Row, Paid
<1>4. Save(r, "deliver", o, row) /\ UNCHANGED <<order, jobs, forms, paidFor, todo>>
  BY <1>1
<1>5. Call(r, "deliver") /\ "deliver" \notin PayCalls \cup Payers
  BY <1>1 DEF Request, PayCalls, Payers
<1> HIDE DEF row
<1> QED
  BY <1>2, <1>3, <1>4, <1>5, RipeRest, RipeSave

LEMMA RipeLoad ==
  ASSUME MallAssumption, TypeOK, TypeOK', RipeInv, NEW r \in Callers, LoadForSave(r)
  PROVE  RipeInv'
<1>1. PICK o \in job[r].of : LoadForSave(r)!(o)
  BY DEF LoadForSave
<1>2. /\ Ripe(r) /\ pc[r] = "load" /\ pc'[r] = "write" /\ (\A q \in Callers \ {r} : Same(q))
      /\ dirty'[r] = Differing(r, o)
      /\ UNCHANGED <<order, jobs, forms, paidFor, job, copy, batch, todo, into>>
  BY <1>1 DEF Goto, TypeOK, RipeInv, Same
<1>3. job[r].of = {o} /\ In(r)' = In(r)
  BY <1>1, <1>2 DEF Ripe, Shape, In
<1>4. Shape(r)' /\ Placing(r)'
  BY <1>2 DEF Ripe, Shape, Placing, Saving, Placed, Running, In
<1>5. ASSUME NEW p \in Orders PROVE PaymentKnown(r, p)' /\ AgeKnown(r, p)'
  <2>1. /\ Saving(r, p)' <=> Saving(r, p)
        /\ Known(r, p)' <=> Known(r, p)
        /\ Saving(r, p) <=> p = o
    BY <1>2, <1>3 DEF Saving, Known, In
  <2>2. PaymentKnown(r, p) /\ AgeKnown(r, p)
    BY <1>2 DEF Ripe
  <2>3. ASSUME Saving(r, p), In(r) \in Payers
        PROVE  "payment" \in dirty'[r] /\ "age" \notin dirty'[r]
    <3>1. p = o /\ copy[r][o].age = order[o].age /\ copy[r][o].payment # order[o].payment
      BY <2>1, <2>2, <2>3 DEF PaymentKnown, Paid
    <3>2. dirty'[r] = {c \in Columns : copy[r][o][c] # order[o][c]}
      BY <1>2 DEF Differing
    <3>3. "payment" \in dirty'[r]
      BY <3>1, <3>2 DEF Columns
    <3>4. "age" \notin dirty'[r]
      BY <3>1, <3>2
    <3> QED
      BY <3>3, <3>4
  <2>4. PaymentKnown(r, p)'
    BY <1>2, <1>3, <2>1, <2>2, <2>3 DEF PaymentKnown, Paid
  <2>5. Term(p)' = Term(p)
    BY DEF Term
  <2>6. AgeKnown(r, p)'
    BY <1>2, <1>3, <2>1, <2>2, <2>5 DEF AgeKnown, Paid
  <2> QED
    BY <2>4, <2>6
<1>6. Ripe(r)'
  BY <1>4, <1>5 DEF Ripe
<1> QED
  BY <1>2, <1>3, <1>6, RipeQuiet DEF RipeInv, PlacedRows

LEMMA RipeCollect ==
  ASSUME MallAssumption, TypeOK, TypeOK', RipeInv, NEW r \in Callers, NEW kind \in Builds,
         Call(r, kind), Collect(r, kind)
  PROVE  RipeInv'
<1>1. /\ \A q \in Callers \ {r} : Same(q)
      /\ pc'[r] = "settle" /\ job'[r] = [kind |-> kind, of |-> {}] /\ copy'[r] = order
      /\ batch'[r] = {o \in Orders : Unsettled(order[o]) /\ Eligible(o)} /\ todo'[r] = {}
      /\ UNCHANGED <<order, jobs, forms, paidFor>>
  BY RipeRest DEF Collect, Goto, TypeOK, Same
<1>2. Shape(r)' /\ Placing(r)' /\ In(r)' = kind
  <2>1. Shape(r)' /\ In(r)' = kind
    BY <1>1 DEF Shape, Running, In, Builds
  <2>2. \A o \in batch'[r] : o \in Placed /\ copy'[r][o].status # "none"
    BY <1>1 DEF RipeInv, PlacedRows, Unsettled, Placed
  <2>3. Placing(r)'
    BY <1>1, <2>2 DEF Placing, Saving, Placed
  <2> QED
    BY <2>1, <2>3
<1>3. ASSUME NEW o \in Orders PROVE PaymentKnown(r, o)' /\ AgeKnown(r, o)'
  <2>1. ~ Saving(r, o)' /\ (Known(r, o)' <=> o \in batch'[r]) /\ copy'[r][o] = order[o]
        /\ order'[o] = order[o] /\ paidFor'[o] = paidFor[o]
    BY <1>1 DEF Saving, Known
  <2>2. ASSUME o \in batch'[r] PROVE Paid(order[o]) /\ order[o].age >= Term(o)
    BY <1>1, <2>2 DEF Unsettled, Eligible
  <2>3. PaymentKnown(r, o)'
    BY <2>1, <2>2 DEF PaymentKnown, Paid
  <2>4. Term(o) \in Int /\ order[o].age \in Int /\ paidFor[o] \in Int /\ Term(o)' = Term(o)
    BY DEF TypeOK, Row, Term, MallAssumption, Never
  <2>5. Paid(order[o]) => order[o].age <= paidFor[o]
    BY DEF RipeInv, RowsRipe
  <2> HIDE DEF Term
  <2>6. o \in batch'[r] => paidFor[o] >= Term(o)
    BY <2>2, <2>4, <2>5
  <2>7. AgeKnown(r, o)'
    BY <2>1, <2>4, <2>5, <2>6 DEF AgeKnown, Paid
  <2> QED
    BY <2>3, <2>7
<1>4. Ripe(r)'
  BY <1>2, <1>3 DEF Ripe
<1> QED
  BY <1>1, <1>2, <1>4, RipeRest, RipeQuiet DEF RipeInv, PlacedRows

LEMMA RipeSettle ==
  ASSUME MallAssumption, TypeOK, TypeOK', RipeInv, NEW r \in Callers, SettleSeller(r)
  PROVE  RipeInv'
<1>1. PICK s \in Sellers : SettleSeller(r)!(s)
  BY DEF SettleSeller
<1> DEFINE mine == OfSeller(r, s)
<1>2. /\ Ripe(r) /\ pc[r] = "settle" /\ pc'[r] = "stamp"
      /\ \A q \in Callers \ {r} : Same(q)
      /\ UNCHANGED <<order, jobs, forms, paidFor, job, copy, dirty>>
      /\ todo'[r] = mine /\ batch'[r] = batch[r] \ mine
  BY <1>1 DEF Goto, TypeOK, ToStamp, RipeInv, Same
<1>3. In(r) \in Builds /\ In(r) # "none" /\ In(r)' = In(r) /\ mine \subseteq batch[r]
  BY <1>2 DEF Ripe, Shape, Builds, In, OfSeller
<1> HIDE DEF mine
<1>4. Shape(r)' /\ Placing(r)'
  BY <1>2, <1>3 DEF Ripe, Shape, Placing, Saving, Placed, Running
<1>5. ASSUME NEW o \in Orders PROVE PaymentKnown(r, o)' /\ AgeKnown(r, o)'
  <2>1. ~ Saving(r, o)' /\ (Known(r, o)' => Known(r, o)) /\ Term(o)' = Term(o)
    BY <1>2, <1>3 DEF Saving, Known, Term
  <2>2. PaymentKnown(r, o) /\ AgeKnown(r, o)
    BY <1>2 DEF Ripe
  <2>3. PaymentKnown(r, o)'
    BY <1>2, <2>1, <2>2 DEF PaymentKnown, Paid
  <2>4. AgeKnown(r, o)'
    BY <1>2, <2>1, <2>2 DEF AgeKnown, Paid
  <2> QED
    BY <2>3, <2>4
<1>6. Ripe(r)'
  BY <1>4, <1>5 DEF Ripe
<1> QED
  BY <1>2, <1>3, <1>6, RipeQuiet DEF RipeInv, PlacedRows

LEMMA RipeStamp ==
  ASSUME MallAssumption, TypeOK, TypeOK', RipeInv, NEW r \in Callers, StampOrder(r)
  PROVE  RipeInv'
<1>1. PICK o \in todo[r] : StampOrder(r)!(o)
  BY DEF StampOrder
<1> DEFINE row == [copy[r][o] EXCEPT !.settlement = into[r]]
<1>2. /\ Ripe(r) /\ pc[r] = "stamp" /\ In(r) \in Builds /\ In(r) # "none"
      /\ o \in Orders /\ copy[r][o] \in Row
  BY <1>1 DEF RipeInv, Ripe, Shape, TypeOK, Builds
<1>3. row.age = copy[r][o].age /\ row.status = copy[r][o].status /\ (Paid(row) <=> Paid(copy[r][o]))
  BY <1>2 DEF Row, Paid
<1>4. /\ Save(r, In(r), o, row) /\ todo' = [todo EXCEPT ![r] = todo[r] \ {o}]
      /\ UNCHANGED <<order, jobs, forms, paidFor>>
  BY <1>1
<1> HIDE DEF row
<1>5. /\ \A q \in Callers \ {r} : Same(q)
      /\ pc'[r] = "load" /\ job'[r] = [kind |-> In(r), of |-> {o}] /\ copy'[r][o] = row
      /\ batch'[r] = batch[r] /\ todo'[r] = todo[r] \ {o}
      /\ \A p \in Orders \ {o} : copy'[r][p] = copy[r][p]
  BY <1>2, <1>4 DEF TypeOK, Save, OnJob, Goto, Same
<1>6. In(r)' = In(r) /\ In(r) \notin PayCalls \cup Payers \cup {"deliver"}
  BY <1>2, <1>5 DEF In, Builds, PayCalls, Payers
<1>7. Shape(r)' /\ Placing(r)'
  <2>1. Shape(r)'
    BY <1>2, <1>5, <1>6 DEF Ripe, Shape, Running
  <2>2. Placing(r)'
    BY <1>2, <1>3, <1>4, <1>5 DEF Ripe, Placing, Saving, Placed, TypeOK
  <2> QED
    BY <2>1, <2>2
<1>8. ASSUME NEW p \in Orders PROVE PaymentKnown(r, p)' /\ AgeKnown(r, p)'
  <2>1. (Known(r, p)' => Known(r, p)) /\ (Saving(r, p)' => Known(r, p)) /\ Term(p)' = Term(p)
    BY <1>1, <1>2, <1>5, <1>6 DEF Saving, Known, Term
  <2>2. PaymentKnown(r, p) /\ AgeKnown(r, p)
    BY <1>2 DEF Ripe
  <2>3. copy'[r][p].age = copy[r][p].age /\ (Paid(copy[r][p])' <=> Paid(copy[r][p]))
    BY <1>3, <1>5 DEF Paid
  <2>4. PaymentKnown(r, p)'
    BY <1>4, <1>6, <2>1, <2>2, <2>3 DEF PaymentKnown, Paid
  <2>5. AgeKnown(r, p)'
    BY <1>4, <1>5, <1>6, <2>1, <2>2, <2>3 DEF AgeKnown
  <2> QED
    BY <2>4, <2>5
<1>9. Ripe(r)'
  BY <1>7, <1>8 DEF Ripe
<1> QED
  BY <1>4, <1>5, <1>6, <1>9, RipeQuiet DEF RipeInv, PlacedRows

LEMMA RipeInsertJob ==
  ASSUME MallAssumption, TypeOK, TypeOK', RipeInv, NEW r \in Callers, InsertJob(r)
  PROVE  RipeInv'
<1>1. Ripe(r) /\ pc[r] = "job" /\ pc'[r] = "pay" /\ (\A q \in Callers \ {r} : Same(q))
      /\ UNCHANGED <<order, forms, paidFor, job, copy, dirty, batch, todo, into>>
  BY DEF InsertJob, locals, Goto, TypeOK, RipeInv, Same
<1>2. Shape(r)' /\ Placing(r)' /\ In(r)' = In(r)
  BY <1>1 DEF Ripe, Shape, Placing, Running, In, Saving, Placed
<1>3. \A o \in Orders : PaymentKnown(r, o)' /\ AgeKnown(r, o)'
  BY <1>1, <1>2 DEF Ripe, Shape, PaymentKnown, AgeKnown, Saving, Known, Builds
<1>4. forms' \subseteq Placed /\ jobs' \subseteq Placed
  BY <1>1 DEF InsertJob, RipeInv, PlacedRows, Ripe, Placing
<1>5. Ripe(r)'
  BY <1>2, <1>3 DEF Ripe
<1> QED
  BY <1>1, <1>2, <1>4, <1>5, RipeQuiet

LEMMA RipeCheckout ==
  ASSUME MallAssumption, TypeOK, TypeOK', RipeInv, NEW r \in Callers, Checkout(r)
  PROVE  RipeInv'
<1>1. PICK o \in Orders \ Placed : Checkout(r)!(o)
  BY DEF Checkout
<1>2. /\ pc'[r] \in {"job", "pay"} /\ job'[r] = [kind |-> "checkout", of |-> {o}]
      /\ UNCHANGED <<jobs, forms, copy, dirty, batch, todo, into, paidFor>>
      /\ \A q \in Callers \ {r} : Same(q)
  BY <1>1 DEF OnJob, Goto, TypeOK, Same
<1>3. /\ order'[o] = [Unplaced EXCEPT !.status = "placed"]
      /\ \A p \in Orders \ {o} : order'[p] = order[p]
  BY <1>1 DEF TypeOK
<1>4. order'[o].status = "placed" /\ ~ Paid(order[o])' /\ order'[o].age = 0
  BY <1>3 DEF Unplaced, Paid
<1>5. Placed \subseteq Placed' /\ o \in Placed' /\ Placed' \subseteq Placed \cup {o}
  BY <1>3, <1>4 DEF Placed
<1>6. ~ Paid(order[o]) /\ order[o].age = 0
  BY <1>1 DEF RipeInv, PlacedRows
<1>7. \A p \in Orders : order'[p].age = order[p].age /\ (Paid(order[p])' <=> Paid(order[p]))
  BY <1>3, <1>4, <1>6 DEF Paid
<1>8. /\ In(r) = "none" /\ In(r) \notin Builds /\ todo[r] = {}
      /\ \A q \in Busy : {"checkout", In(q)} \notin Apart
  BY <1>1, RipeRest DEF Request
<1>9. \A p \in Orders : paidFor[p] \in Int /\ paidFor'[p] = paidFor[p]
  BY <1>2 DEF TypeOK, Never
<1>10. ASSUME NEW q \in Callers, q # r PROVE Ripe(q)'
  <2>1. \A p \in Orders : paidFor[p] <= paidFor'[p]
    BY <1>9
  <2> QED
    BY <1>2, <1>5, <1>7, <1>10, <2>1, RipeSame DEF RipeInv
<1>11. todo'[r] = {} /\ batch'[r] = {} /\ In(r)' = "checkout"
  BY <1>2, <1>8 DEF RipeInv, Ripe, Shape, In
<1>12. Ripe(r)'
  <2>1. Shape(r)'
    BY <1>2, <1>11 DEF Shape, Running
  <2>2. Placing(r)'
    BY <1>2, <1>5, <1>11 DEF Placing, Saving
  <2>3. \A p \in Orders : PaymentKnown(r, p)' /\ AgeKnown(r, p)'
    BY <1>2, <1>11 DEF PaymentKnown, AgeKnown, Saving, Known
  <2> QED
    BY <2>1, <2>2, <2>3 DEF Ripe
<1>13. AllApart'
  BY <1>2, <1>8, <1>11, <1>12, OthersApart DEF RipeInv, Ripe
<1>14. RowsRipe'
  BY <1>2, <1>7 DEF RipeInv, RowsRipe
<1>15. PlacedRows'
  BY <1>2, <1>5, <1>7 DEF RipeInv, PlacedRows
<1> QED
  BY <1>10, <1>12, <1>13, <1>14, <1>15 DEF RipeInv

\* What a save leaves in the row, of the payment and of the time it was last touched.
LEMMA RipeWritten ==
  ASSUME TypeOK, RipeInv, NEW r \in Callers, NEW o \in Orders, pc[r] = "write", o \in job[r].of
  PROVE  LET row == Written(dirty[r], copy[r][o], order[o]) IN
         /\ row.status # "none"
         /\ In(r) \in Builds => Paid(order[o]) /\ Paid(row)
         /\ In(r) \in PayCalls \cup {"deliver"} => (Paid(row) <=> Paid(order[o]))
         /\ In(r) \in Payers => ~ Paid(order[o]) /\ row.age = 0
         /\ In(r) \notin Payers =>
              (Paid(row) => Paid(order[o]) /\ (row.age <= paidFor[o] \/ row.age = 0))
<1> DEFINE row == Written(dirty[r], copy[r][o], order[o])
<1>1. Saving(r, o) /\ Placing(r) /\ PaymentKnown(r, o) /\ AgeKnown(r, o)
      /\ In(r) \in PayCalls \cup Payers \cup {"deliver"} \cup Builds
  BY DEF Saving, RipeInv, Ripe, Shape, Running, TypeOK, Job, In, AllKinds, PayCalls, Payers, Builds
<1>2. /\ row.status \in {copy[r][o].status, order[o].status}
      /\ row.payment \in {copy[r][o].payment, order[o].payment}
      /\ row.age \in {copy[r][o].age, order[o].age, 0}
      /\ dirty[r] # {} /\ "age" \notin dirty[r] => row.age = 0
  BY DEF Written
<1>3. Paid(order[o]) => order[o].age <= paidFor[o]
  BY DEF RipeInv, RowsRipe
<1> HIDE DEF row
<1>4. row.status # "none"
  BY <1>1, <1>2 DEF Placing, Placed, Saving
<1>5. ASSUME In(r) \in Builds
      PROVE Paid(order[o]) /\ Paid(row) /\ (row.age <= paidFor[o] \/ row.age = 0)
  <2>1. Known(r, o) /\ Paid(order[o]) /\ Paid(copy[r][o])
    BY <1>1, <1>5 DEF Known, PaymentKnown
  <2> QED
    BY <1>1, <1>2, <1>3, <2>1 DEF AgeKnown, Paid
<1>6. ASSUME In(r) \in PayCalls PROVE ~ Paid(row) /\ ~ Paid(order[o])
  BY <1>1, <1>2, <1>6 DEF PaymentKnown, Paid
<1>7. ASSUME In(r) = "deliver" PROVE Paid(row) <=> Paid(order[o])
  BY <1>1, <1>2, <1>7 DEF PaymentKnown, Paid
<1>8. ASSUME In(r) = "deliver", Paid(row) PROVE row.age <= paidFor[o] \/ row.age = 0
  <2>1. Paid(order[o]) /\ Paid(copy[r][o]) /\ In(r) \notin Payers
    BY <1>1, <1>7, <1>8 DEF PaymentKnown, Payers
  <2> QED
    BY <1>1, <1>2, <1>3, <2>1 DEF AgeKnown
<1>9. ASSUME In(r) \in Payers PROVE ~ Paid(order[o]) /\ row.age = 0
  BY <1>1, <1>2, <1>9 DEF PaymentKnown, Saving
<1> QED
  BY <1>1, <1>4, <1>5, <1>6, <1>7, <1>8, <1>9 DEF row, Payers, PayCalls, Builds

\* While one handler saves an order, what the others know of its payment stays so.
LEMMA RipeSpares ==
  ASSUME TypeOK, PaymentsAlone, RipeInv, NEW r \in Callers, NEW o \in Orders,
         pc[r] = "write", o \in job[r].of, NEW q \in Callers, q # r,
         Saving(q, o) \/ o \in batch[q] \cup todo[q]
  PROVE  In(r) \notin Payers /\ In(q) \notin Payers
<1>1. /\ Running(r) /\ In(r) \in PayCalls \cup Payers \cup {"deliver"} \cup Builds
      /\ Running(q) /\ In(q) \in PayCalls \cup Payers \cup {"deliver"} \cup Builds
  <2>1. Running(r) /\ In(r) # "none" /\ In(r) \in AllKinds \cup {"tick", "none"}
    BY DEF Running, RipeInv, Ripe, Shape, TypeOK, Job, In
  <2>2. Running(q) /\ In(q) # "none" /\ In(q) \in AllKinds \cup {"tick", "none"}
    BY DEF Running, RipeInv, Ripe, Shape, TypeOK, Job, In, Saving, Builds
  <2> QED
    BY <2>1, <2>2 DEF AllKinds, PayCalls, Payers, Builds
<1>2. {In(r), In(q)} \notin Apart /\ {In(q), In(r)} \notin Apart
  BY <1>1 DEF RipeInv, AllApart
<1>3. Saving(r, o) /\ PaymentKnown(r, o) /\ PaymentKnown(q, o)
      /\ (In(q) \in Builds => Known(q, o)) /\ (In(r) \in Builds => Known(r, o))
  BY DEF Saving, Known, RipeInv, Ripe
<1>4. ASSUME In(r) \in Payers PROVE FALSE
  <2>1. In(q) \in Builds
    BY <1>1, <1>2, <1>4 DEF PaymentsAlone
  <2> QED
    BY <1>3, <1>4, <2>1 DEF PaymentKnown
<1>5. ASSUME In(q) \in Payers PROVE FALSE
  <2>1. In(r) \in Builds /\ Saving(q, o)
    BY <1>1, <1>2, <1>5 DEF PaymentsAlone, RipeInv, Ripe, Shape, Payers, Builds
  <2> QED
    BY <1>3, <1>5, <2>1 DEF PaymentKnown
<1> QED
  BY <1>4, <1>5

LEMMA RipeWrite ==
  ASSUME MallAssumption, TypeOK, TypeOK', PaidWasPaid, PaymentsAlone, RipeInv,
         NEW r \in Callers, WriteOrder(r)
  PROVE  RipeInv'
<1>1. PICK o \in job[r].of : WriteOrder(r)!(o)
  BY DEF WriteOrder
<1> DEFINE row == Written(dirty[r], copy[r][o], order[o])
<1>2. o \in Orders /\ pc[r] = "write" /\ o \in Placed /\ Ripe(r) /\ job[r].of = {o}
  BY <1>1 DEF TypeOK, Job, RipeInv, Ripe, Placing, Shape
<1>3. /\ order'[o] = row /\ \A p \in Orders \ {o} : order'[p] = order[p]
      /\ jobs' = jobs /\ \A p \in Orders \ {o} : paidFor'[p] = paidFor[p]
      /\ paidFor'[o] = IF Paid(row) /\ paidFor[o] = Never THEN 0 ELSE paidFor[o]
  BY <1>1, <1>2 DEF TypeOK
<1>4. /\ row.status # "none"
      /\ In(r) \in Builds => Paid(order[o]) /\ Paid(row)
      /\ In(r) \in PayCalls \cup {"deliver"} => (Paid(row) <=> Paid(order[o]))
      /\ In(r) \in Payers => ~ Paid(order[o]) /\ row.age = 0
      /\ In(r) \notin Payers =>
           (Paid(row) => Paid(order[o]) /\ (row.age <= paidFor[o] \/ row.age = 0))
  BY <1>2, RipeWritten
<1> HIDE DEF row
<1>5. Placed' = Placed
  BY <1>2, <1>3, <1>4 DEF Placed
<1>6. In(r) \in PayCalls \cup Payers \cup {"deliver"} \cup Builds
  BY <1>2 DEF Ripe, Shape, Running, TypeOK, Job, In, AllKinds, PayCalls, Payers, Builds
<1>7. \A p \in Orders : paidFor[p] \in Int /\ paidFor[p] >= -1 /\ (paidFor[p] # Never => paidFor[p] >= 0)
  BY DEF TypeOK, Never
<1>8. \A p \in Orders : paidFor[p] <= paidFor'[p]
  BY <1>3, <1>7 DEF Never
<1>9. \A q \in Callers \ {r} : Same(q)
  <2>1. CASE In(r) \in Builds
    BY <1>1, <2>1 DEF Goto, locals, TypeOK, Same
  <2>2. CASE In(r) \notin Builds
    BY <1>1, <2>2, FinishFrame
  <2> QED
    BY <2>1, <2>2
<1>10. ASSUME NEW q \in Callers, q # r PROVE Ripe(q)'
  <2>1. ASSUME NEW p \in Orders, Saving(q, p) \/ p \in batch[q] \cup todo[q]
        PROVE  /\ Paid(order[p])' <=> Paid(order[p])
               /\ In(q) \in Payers => order'[p].age = order[p].age
    <3>1. CASE p = o
      <4>1. In(r) \notin Payers /\ In(q) \notin Payers
        BY <1>2, <1>10, <2>1, <3>1, RipeSpares
      <4>2. Paid(row) <=> Paid(order[o])
        BY <1>4, <1>6, <4>1
      <4> QED
        BY <1>3, <3>1, <4>1, <4>2 DEF Paid
    <3>2. CASE p # o
      BY <1>3, <3>2 DEF Paid
    <3> QED
      BY <3>1, <3>2
  <2>2. Placed \subseteq Placed' /\ Same(q) /\ Ripe(q)
    BY <1>5, <1>9, <1>10 DEF RipeInv
  <2> QED
    BY <1>8, <2>1, <2>2, RipeSame
<1>11. Ripe(r)' /\ In(r)' \in {In(r), "none"}
  <2>1. CASE In(r) \notin Builds
    <3>1. Finish(r) /\ batch[r] = {} /\ todo[r] = {}
      BY <1>1, <1>2, <2>1 DEF Ripe, Shape
    <3> QED
      BY <3>1, RipeFinish
  <2>2. CASE In(r) \in Builds
    <3>1. /\ pc'[r] = IF todo[r] = {} THEN "settle" ELSE "stamp"
          /\ UNCHANGED <<job, copy, dirty, batch, todo, into>>
      BY <1>1, <2>2 DEF Goto, TypeOK, locals
    <3>2. In(r)' = In(r) /\ In(r) # "none"
      BY <2>2, <3>1 DEF In, Builds
    <3>3. Shape(r)'
      BY <2>2, <3>1, <3>2 DEF Shape, Running
    <3>4. Placing(r)'
      BY <1>2, <1>5, <3>1 DEF Ripe, Placing, Saving
    <3>5. ASSUME NEW p \in Orders PROVE PaymentKnown(r, p)' /\ AgeKnown(r, p)'
      <4>1. ~ Saving(r, p)' /\ (Known(r, p)' => Known(r, p)) /\ Term(p)' = Term(p)
        BY <3>1 DEF Saving, Known, Term
      <4>2. PaymentKnown(r, p) /\ AgeKnown(r, p)
        BY <1>2 DEF Ripe
      <4>3. Paid(order[p]) => Paid(order[p])'
        BY <1>3, <1>4, <2>2 DEF Paid
      <4>4. PaymentKnown(r, p)'
        BY <3>1, <4>1, <4>2, <4>3 DEF PaymentKnown, Paid
      <4>5. Term(p) \in Int /\ copy[r][p].age \in Int /\ paidFor[p] \in Int /\ paidFor'[p] \in Int
            /\ paidFor[p] <= paidFor'[p]
        <5>1. Term(p) \in Int
          BY DEF Term, MallAssumption
        <5>2. copy[r][p].age \in Int
          BY DEF TypeOK, Row
        <5>3. paidFor'[p] \in Int
          BY DEF TypeOK, Never
        <5> QED
          BY <1>7, <1>8, <5>1, <5>2, <5>3
      <4> HIDE DEF Term
      <4>6. AgeKnown(r, p)'
        BY <3>1, <4>1, <4>2, <4>5 DEF AgeKnown, Paid
      <4> QED
        BY <4>4, <4>6
    <3> QED
      BY <3>2, <3>3, <3>4, <3>5 DEF Ripe
  <2> QED
    BY <2>1, <2>2
<1>12. AllApart'
  BY <1>2, <1>9, <1>11, OthersApart DEF RipeInv, Ripe
<1>13. RowsRipe'
  <2> SUFFICES ASSUME NEW p \in Orders, Paid(order[p])' PROVE order'[p].age <= paidFor'[p]
    BY DEF RowsRipe
  <2>1. CASE p # o
    BY <1>3, <2>1 DEF RipeInv, RowsRipe, Paid
  <2>2. CASE p = o
    <3>1. Paid(row)
      BY <1>3, <2>2 DEF Paid
    <3>2. paidFor'[o] >= 0
      BY <1>3, <1>7, <3>1, <1>2 DEF Never
    <3>3. CASE row.age = 0
      BY <1>3, <2>2, <3>2, <3>3
    <3>4. CASE row.age # 0
      <4>1. Paid(order[o]) /\ row.age <= paidFor[o]
        BY <1>4, <3>1, <3>4
      <4>2. paidFor'[o] = paidFor[o]
        BY <1>2, <1>3, <4>1 DEF PaidWasPaid
      <4> QED
        BY <1>3, <2>2, <4>1, <4>2
    <3> QED
      BY <3>3, <3>4
  <2> QED
    BY <2>1, <2>2
<1>14. PlacedRows'
  <2>1. forms' \subseteq Placed
    BY <1>1, <1>2 DEF RipeInv, PlacedRows, Finish, locals
  <2>2. \A p \in Orders \ Placed : ~ Paid(order[p])' /\ order'[p].age = 0
    BY <1>2, <1>3 DEF RipeInv, PlacedRows, Paid
  <2> QED
    BY <1>3, <1>5, <2>1, <2>2 DEF RipeInv, PlacedRows
<1> QED
  BY <1>10, <1>11, <1>12, <1>13, <1>14 DEF RipeInv

LEMMA RipeEndBuild ==
  ASSUME MallAssumption, TypeOK, TypeOK', RipeInv, NEW r \in Callers, EndBuild(r)
  PROVE  RipeInv'
<1>1. /\ Finish(r) /\ batch[r] = {} /\ todo[r] = {} /\ forms' \subseteq Placed
      /\ UNCHANGED <<order, jobs, paidFor>>
  BY DEF EndBuild, RipeInv, PlacedRows, Ripe, Shape
<1> QED
  BY <1>1, RipeEnd

LEMMA RipeHour ==
  ASSUME MallAssumption, TypeOK, TypeOK', RipeInv, HourPasses
  PROVE  RipeInv'
<1>1. /\ \A q \in Callers : Same(q) /\ ~ Running(q)
      /\ UNCHANGED <<jobs, forms>>
  BY DEF HourPasses, locals, Same, Busy
<1>2. ASSUME NEW p \in Orders
      PROVE  /\ order'[p].payment = order[p].payment /\ order'[p].status = order[p].status
             /\ order'[p].age = IF p \in Placed THEN Older(order[p].age) ELSE order[p].age
  <2>1. order[p] \in Row
    BY DEF TypeOK
  <2>2. order'[p] = IF p \in Placed THEN [order[p] EXCEPT !.age = Older(@)] ELSE order[p]
    BY DEF HourPasses
  <2> QED
    BY <2>1, <2>2 DEF Row
<1>3. Placed' = Placed
  BY <1>2 DEF Placed
<1>4. ASSUME NEW q \in Callers PROVE Ripe(q)'
  <2>0. Shape(q) /\ pc[q] \in {"idle", "done"}
    BY <1>1 DEF RipeInv, Ripe, Running
  <2>3. In(q) = "none" /\ batch[q] = {} /\ todo[q] = {}
    BY <1>1, <2>0 DEF Shape, Builds
  <2>1. /\ pc'[q] \in {"idle", "done"} /\ In(q)' = "none"
        /\ batch'[q] = {} /\ todo'[q] = {}
    BY <1>1, <2>0, <2>3 DEF Same, In
  <2>2. Shape(q)' /\ Placing(q)'
    BY <2>1 DEF Shape, Placing, Running, Saving, Builds
  <2>4. \A o \in Orders : PaymentKnown(q, o)' /\ AgeKnown(q, o)'
    BY <2>1 DEF PaymentKnown, AgeKnown, Saving, Known
  <2> QED
    BY <2>2, <2>4 DEF Ripe
<1>5. AllApart'
  BY <1>1 DEF AllApart, Same, Running
<1>6. RowsRipe'
  <2> SUFFICES ASSUME NEW p \in Orders, Paid(order[p])' PROVE order'[p].age <= paidFor'[p]
    BY DEF RowsRipe
  <2>1. /\ p \in Placed /\ order[p].age <= paidFor[p]
        /\ order'[p].age = Older(order[p].age)
    BY <1>2 DEF Paid, RipeInv, RowsRipe, PlacedRows
  <2>2. order[p].age \in Nat /\ paidFor[p] \in Int /\ MaxAge \in Nat
    BY DEF TypeOK, Row, Never, MallAssumption
  <2>3. paidFor[p] # Never /\ paidFor'[p] = Older(paidFor[p])
    BY <2>1, <2>2 DEF HourPasses, Never
  <2> QED
    BY <2>1, <2>2, <2>3 DEF Older
<1>7. PlacedRows'
  BY <1>1, <1>2, <1>3 DEF RipeInv, PlacedRows, Paid
<1> QED
  BY <1>4, <1>5, <1>6, <1>7 DEF RipeInv

LEMMA RipeCrash ==
  ASSUME MallAssumption, TypeOK, TypeOK', RipeInv, Crash
  PROVE  RipeInv'
<1>1. /\ UNCHANGED <<order, jobs, forms, paidFor>>
      /\ \A q \in Callers : /\ pc'[q] \in {"idle", "done"} /\ job'[q] = NoJob
                            /\ batch'[q] = {} /\ todo'[q] = {}
  BY DEF Crash, Running
<1>2. ASSUME NEW q \in Callers PROVE Ripe(q)'
  <2>1. pc'[q] \in {"idle", "done"} /\ job'[q] = NoJob /\ batch'[q] = {} /\ todo'[q] = {}
    BY <1>1
  <2>2. Shape(q)' /\ Placing(q)'
    BY <2>1 DEF Shape, Placing, Running, In, NoJob, Saving, Builds
  <2>3. \A o \in Orders : PaymentKnown(q, o)' /\ AgeKnown(q, o)'
    BY <2>1 DEF PaymentKnown, AgeKnown, Saving, Known
  <2> QED
    BY <2>2, <2>3 DEF Ripe
<1>3. AllApart'
  BY <1>1 DEF AllApart, Running
<1>4. RowsRipe' /\ PlacedRows'
  BY <1>1 DEF RipeInv, RowsRipe, PlacedRows, Paid, Placed
<1> QED
  BY <1>2, <1>3, <1>4 DEF RipeInv

LEMMA RipeStep ==
  ASSUME MallAssumption, PaymentsAlone, IInv, TypeOK', RipeInv, [Next]_vars
  PROVE  RipeInv'
<1>0. Requests \subseteq Callers /\ Cron \in Callers /\ TypeOK /\ PaidWasPaid
  BY DEF Callers, IInv, Tables
<1>1. CASE UNCHANGED vars
  BY <1>1 DEF vars, RipeInv, Ripe, Shape, Placing, PaymentKnown, AgeKnown, RowsRipe, PlacedRows,
     AllApart, Known, Saving, Running, In, Placed, Paid, Term
<1>2. ASSUME NEW r \in Requests, Start(r) PROVE RipeInv'
  <2>1. CASE Pay(r)
    <3>1. PICK o \in Placed : Request(r, "pay") /\ CreateMallPayuCheckout(r, "pay", o)
      BY <2>1 DEF Pay
    <3>2. Call(r, "pay") /\ "pay" \in PayCalls
      BY <3>1 DEF Request, PayCalls
    <3> QED
      BY <1>0, <3>1, <3>2, RipeRest, RipePay
  <2>2. CASE PayuReturn(r)
    <3>1. PICK o \in forms : Request(r, "return") /\ MarkMallPaid(r, "return", o)
      BY <2>2 DEF PayuReturn
    <3>2. Call(r, "return") /\ "return" \in Payers /\ o \in Placed
      BY <3>1 DEF Request, Payers, RipeInv, PlacedRows
    <3> QED
      BY <1>0, <3>1, <3>2, RipeMarkPaid
  <2>3. CASE MarkMallPaidById(r)
    <3>1. PICK o \in Placed : Request(r, "markPaid") /\ MarkMallPaid(r, "markPaid", o)
      BY <2>3 DEF MarkMallPaidById
    <3>2. Call(r, "markPaid") /\ "markPaid" \in Payers
      BY <3>1 DEF Request, Payers
    <3> QED
      BY <1>0, <3>1, <3>2, RipeMarkPaid
  <2>4. CASE BuildOpenSettlements(r)
    <3>1. PICK kind \in {"build", "runNow"} : Request(r, kind) /\ Collect(r, kind)
      BY <2>4 DEF BuildOpenSettlements
    <3>2. Call(r, kind) /\ kind \in Builds
      BY <3>1 DEF Request, Builds
    <3> QED
      BY <1>0, <3>1, <3>2, RipeCollect
  <2> QED
    BY <1>0, <1>2, <2>1, <2>2, <2>3, <2>4, RipeCheckout, RipeDeliver DEF Start
<1>3. ASSUME NEW r \in Callers, PayAfterCheckout(r) PROVE RipeInv'
  <2>1. PICK o \in job[r].of : pc[r] = "pay" /\ CreateMallPayuCheckout(r, "checkout", o)
    BY <1>3 DEF PayAfterCheckout
  <2>2. In(r) = "checkout" /\ o \in Placed
    BY <2>1 DEF RipeInv, Ripe, Shape, Placing
  <2> QED
    BY <1>0, <2>1, <2>2, RipePay DEF PayCalls, Builds
<1>4. ASSUME NEW r \in Callers, Step(r) PROVE RipeInv'
  BY <1>0, <1>3, <1>4, RipeInsertJob, RipeLoad, RipeWrite, RipeSettle, RipeStamp, RipeEndBuild
  DEF Step
<1>5. CASE Tick
  BY <1>0, <1>5, RipeCollect DEF Tick, Builds
<1> QED
  BY <1>0, <1>1, <1>2, <1>4, <1>5, RipeHour, RipeCrash DEF Next

LEMMA RipeInit ==
  ASSUME MallAssumption, Init
  PROVE  RipeInv
<1>1. \A q \in Callers : pc[q] = "idle" /\ job[q] = NoJob /\ batch[q] = {} /\ todo[q] = {}
  BY DEF Init
<1>2. \A o \in Orders : ~ Paid(order[o]) /\ order[o].age = 0
  BY DEF Init, Unplaced, Paid
<1>3. ASSUME NEW q \in Callers PROVE Ripe(q)
  <2>1. Shape(q) /\ Placing(q)
    BY <1>1 DEF Shape, Placing, Running, In, NoJob, Saving, Builds
  <2>2. \A o \in Orders : PaymentKnown(q, o) /\ AgeKnown(q, o)
    BY <1>1 DEF PaymentKnown, AgeKnown, Saving, Known
  <2> QED
    BY <2>1, <2>2 DEF Ripe
<1>4. AllApart
  BY <1>1 DEF AllApart, Running
<1>5. RowsRipe /\ PlacedRows
  BY <1>2 DEF RowsRipe, PlacedRows, Init
<1> QED
  BY <1>3, <1>4, <1>5 DEF RipeInv

\* The orders a step settles were all paid long enough ago.
LEMMA RipeNow ==
  ASSUME TypeOK, RipeInv, [Next]_vars
  PROVE  \A k \in DOMAIN settlements' \ DOMAIN settlements :
           \A o \in settlements'[k] : paidFor[o] >= Term(o)
<1>1. ASSUME NEW r \in Callers, SettleSeller(r)
      PROVE  \A k \in DOMAIN settlements' \ DOMAIN settlements :
               \A o \in settlements'[k] : paidFor[o] >= Term(o)
  <2>1. PICK s \in Sellers : SettleSeller(r)!(s)
    BY <1>1 DEF SettleSeller
  <2> DEFINE mine == OfSeller(r, s)
  <2>2. settlements' = Append(settlements, mine) /\ mine \subseteq batch[r]
    BY <2>1 DEF OfSeller
  <2>3. batch[r] \subseteq Orders /\ mine \in SUBSET Orders
    BY <2>2 DEF TypeOK
  <2> HIDE DEF mine
  <2>4. \A k \in DOMAIN settlements' \ DOMAIN settlements : settlements'[k] = mine
    BY <2>2, <2>3 DEF TypeOK
  <2>5. \A o \in batch[r] : paidFor[o] >= Term(o)
    BY <2>3 DEF RipeInv, Ripe, AgeKnown
  <2> QED
    BY <2>2, <2>4, <2>5
<1>2. CASE UNCHANGED settlements
  BY <1>2
<1>3. UNCHANGED settlements \/ \E r \in Callers : SettleSeller(r)
  BY DEF Next, vars, Start, Step, Checkout, Pay, PayuReturn, MarkMallPaidById, Deliver,
     BuildOpenSettlements, Collect, CreateMallPayuCheckout, MarkMallPaid, InsertJob,
     PayAfterCheckout, LoadForSave, WriteOrder, StampOrder, EndBuild, Tick, HourPasses, Crash
<1> QED
  BY <1>1, <1>2, <1>3

\* A seller is settled with only once settle_days have passed since the order was paid,
\* though a build looks at when the row was last touched, which a save of an old copy sets
\* back: a payment must be marked beside no other save of an order.
THEOREM OrdersAreRipe ==
  ASSUME PaymentsAlone
  PROVE  Spec => SettlesOnlyRipe
<1> USE MallAssumption
<1> DEFINE RipeNext == \A k \in DOMAIN settlements' \ DOMAIN settlements :
                         \A o \in settlements'[k] : paidFor[o] >= Term(o)
<1>1. IInv /\ IInv' /\ RipeInv /\ [Next]_vars => RipeInv'
  BY RipeStep DEF IInv
<1>2. IInv /\ RipeInv /\ [Next]_vars => [RipeNext]_vars
  BY RipeNow DEF IInv
<1>3. Spec => [][RipeNext]_vars
  BY <1>1, <1>2, RipeInit, Invariance, PTL DEF Spec
<1> QED
  BY <1>3 DEF SettlesOnlyRipe
=============================================================================
