------------------------- MODULE IceCrestStock_proofs -------------------------
(***************************************************************************)
(* Proofs about IceCrestStock, for any number of items and requests and    *)
(* any mix of handlers.                                                    *)
(***************************************************************************)
EXTENDS IceCrestStock, SumTheorems, TLAPS

-----------------------------------------------------------------------------
(* The inductive invariant beside TypeOK, one part per request. *)

\* The items a transaction locks.
Touched(r) == IF In(r) = "cancel" THEN Active(held[r]) ELSE Lines(r)

\* A lock belongs to a transaction that named the item; the row is as it was read,
\* nobody has changed it since the snapshot, and what was checked of it still holds.
LocksHold(r) ==
  \A i \in Items : lock[i] = r =>
    /\ pc[r] = "lock" /\ i \in Touched(r)
    /\ mine[r][i] = stock[i]
    /\ In(r) \in Transactional => i \notin stale[r] /\ Enough(r, i)

\* A transaction has locked all its items but those still to do, and an item others
\* have not changed since the snapshot has kept its reservation.
SnapshotHolds(r) ==
  pc[r] = "lock" =>
    /\ In(r) \in Transactional \cup {"cancel"}
    /\ todo[r] \subseteq Touched(r)
    /\ \A i \in Touched(r) \ todo[r] : lock[i] = r
    /\ In(r) \in {"orderInvoice", "cancel"} => job[r].of \in Orders
    /\ In(r) = "orderInvoice" =>
         \A i \in Items \ stale[r] : held[r][i] = holds[job[r].of][i]

\* An order appears when the call that places it ends.
OrderIsDone(r) == order[r] # "none" => pc[r] = "done"

Holds(r) == LocksHold(r) /\ SnapshotHolds(r) /\ OrderIsDone(r)

IInv == TypeOK /\ \A r \in Requests : Holds(r)

-----------------------------------------------------------------------------
(* Types. *)

LEMMA Blanks ==
  /\ NoHold \in Hold /\ NoHolds \in [Items -> Hold]
  /\ NoWant \in Wants /\ NoJob \in Job
  /\ NoRows \in [Items -> Row]
BY DEF NoHold, NoHolds, NoWant, NoJob, NoRows, Hold, Wants, Job, Row

LEMMA RowTypes ==
  ASSUME NEW row \in Row, NEW n \in Nat
  PROVE  /\ Out(row, n) \in Row /\ OutOfReserve(row, n) \in Row
         /\ Release(row, n) \in Row
         /\ [row EXCEPT !.reserved = @ + n] \in Row
         /\ row.quantity + n \in Int /\ row.quantity - n \in Int
<1>1. row.quantity - n \in Int /\ row.quantity + n \in Int
      /\ AtLeastZero(row.reserved - n) \in Nat /\ row.reserved + n \in Nat
  BY DEF Row, AtLeastZero
<1> QED
  BY <1>1 DEF Row, Out, OutOfReserve, Release

LEMMA HoldTypes ==
  ASSUME NEW hold \in Hold, NEW n \in Nat
  PROVE  /\ Consume(hold, n) \in Hold
         /\ [hold EXCEPT !.status = "released"] \in Hold
<1>1. hold.used + n \in Nat
  BY DEF Hold
<1> QED
  BY <1>1 DEF Hold, Consume

LEMMA FinishTypes ==
  ASSUME IceCrestAssumption, TypeOK, NEW r \in Requests, NEW how \in Labels,
         NEW changed \in SUBSET (Items \cup Requests), Finish(r, how, changed)
  PROVE  /\ lock' \in [Items -> Requests \cup {None}]
         /\ pc' \in [Requests -> Labels]
         /\ job' \in [Requests -> Job]
         /\ mine' \in [Requests -> [Items -> Row]]
         /\ held' \in [Requests -> [Items -> Hold]]
         /\ todo' \in [Requests -> SUBSET Items]
         /\ stale' \in [Requests -> SUBSET (Items \cup Requests)]
         /\ dirty' \in [Requests -> SUBSET {"quantity", "reserved"}]
<1>1. pc' \in [Requests -> Labels] /\ lock' \in [Items -> Requests \cup {None}]
  BY DEF Finish, Goto, TypeOK
<1>2. job' \in [Requests -> Job] /\ mine' \in [Requests -> [Items -> Row]]
  BY Blanks DEF Finish, TypeOK
<1>3. held' \in [Requests -> [Items -> Hold]] /\ todo' \in [Requests -> SUBSET Items]
  BY Blanks DEF Finish, TypeOK
<1>4. stale' \in [Requests -> SUBSET (Items \cup Requests)]
  BY DEF Finish, TypeOK
<1>5. dirty' \in [Requests -> SUBSET {"quantity", "reserved"}]
  BY DEF Finish, TypeOK
<1> QED
  BY <1>1, <1>2, <1>3, <1>4, <1>5

LEMMA AbortTypes ==
  ASSUME IceCrestAssumption, TypeOK, NEW r \in Requests, Abort(r)
  PROVE  TypeOK'
<1>1. "rejected" \in Labels
  BY DEF Labels, Ended
<1>2. Finish(r, "rejected", {}) /\ UNCHANGED db
  BY DEF Abort
<1> QED
  BY <1>1, <1>2, FinishTypes DEF TypeOK, db

LEMMA BeginTypes ==
  ASSUME TypeOK, NEW r \in Requests, NEW kind \in AllKinds, NEW o \in Requests \cup {None},
         NEW want \in Wants, NEW reservations \in [Items -> Hold], NEW on \in SUBSET Items,
         Begin(r, kind, o, want, reservations, on)
  PROVE  TypeOK'
<1>1. "lock" \in Labels /\ [kind |-> kind, of |-> o, want |-> want] \in Job
  BY DEF Labels, Job
<1>2. pc' \in [Requests -> Labels] /\ job' \in [Requests -> Job]
  BY <1>1 DEF Begin, Goto, TypeOK
<1>3. held' \in [Requests -> [Items -> Hold]] /\ todo' \in [Requests -> SUBSET Items]
  BY DEF Begin, TypeOK
<1> QED
  BY <1>2, <1>3 DEF Begin, TypeOK, db

LEMMA AskedTypes ==
  ASSUME IceCrestAssumption, NEW want \in Asked
  PROVE  want \in Wants /\ Named(want) \subseteq Items
<1>1. want \in [Items -> Quantities \cup {0}] /\ Quantities \cup {0} \subseteq Nat
  BY DEF IceCrestAssumption, Asked
<1> QED
  BY <1>1 DEF Wants, Named

LEMMA ReadTypes ==
  ASSUME TypeOK, NEW r \in Requests, NEW i \in Items,
         mine' = [mine EXCEPT ![r][i] = stock[i]]
  PROVE  mine' \in [Requests -> [Items -> Row]]
<1>1. mine \in [Requests -> [Items -> Row]] /\ stock[i] \in Row
  BY DEF TypeOK
<1>2. [mine[r] EXCEPT ![i] = stock[i]] \in [Items -> Row]
  BY <1>1
<1>3. mine' = [mine EXCEPT ![r] = [mine[r] EXCEPT ![i] = stock[i]]]
  OBVIOUS
<1> QED
  BY <1>1, <1>2, <1>3

LEMMA JobTypes ==
  ASSUME TypeOK, NEW r \in Requests
  PROVE  /\ job[r] \in Job /\ Want(r) \in Wants
         /\ Lines(r) \subseteq Items
         /\ Active(held[r]) \subseteq Items
         /\ \A i \in Items : /\ mine[r][i] \in Row /\ held[r][i] \in Hold
                            /\ stock[i] \in Row /\ Want(r)[i] \in Nat
BY DEF TypeOK, Job, Wants, Want, Lines, Named, Active

LEMMA StartTypes ==
  ASSUME IceCrestAssumption, TypeOK, NEW r \in Requests, Start(r)
  PROVE  TypeOK'
<1>1. CASE PlaceOrder(r)
  <2>1. PICK want \in Asked : Begin(r, "order", None, want, NoHolds, Named(want))
    BY <1>1 DEF PlaceOrder
  <2> QED
    BY <2>1, AskedTypes, Blanks, BeginTypes DEF AllKinds, Transactional
<1>2. CASE Invoice(r)
  <2>1. PICK want \in Asked : Begin(r, "invoice", None, want, NoHolds, Named(want))
    BY <1>2 DEF Invoice
  <2> QED
    BY <2>1, AskedTypes, Blanks, BeginTypes DEF AllKinds, Transactional
<1>3. CASE InvoiceOrder(r)
  <2>1. PICK o \in Orders, want \in Asked :
          IF order[o] = "cancelled" THEN Abort(r)
          ELSE Begin(r, "orderInvoice", o, want, holds[o], Named(want))
    BY <1>3 DEF InvoiceOrder
  <2>2. o \in Requests /\ holds[o] \in [Items -> Hold]
    BY DEF Orders, TypeOK
  <2>3. "orderInvoice" \in AllKinds
    BY DEF AllKinds, Transactional
  <2>4. want \in Wants /\ Named(want) \subseteq Items
    BY AskedTypes
  <2> QED
    BY <2>1, <2>2, <2>3, <2>4, BeginTypes, AbortTypes
<1>4. CASE CancelOrder(r)
  <2>1. PICK o \in Orders :
          IF Active(holds[o]) = {}
            THEN Finish(r, "done", {}) /\ UNCHANGED db
            ELSE Begin(r, "cancel", o, NoWant, holds[o], Active(holds[o]))
    BY <1>4 DEF CancelOrder
  <2>2. o \in Requests /\ holds[o] \in [Items -> Hold] /\ Active(holds[o]) \subseteq Items
    BY DEF Orders, Active, TypeOK
  <2>3. "cancel" \in AllKinds /\ "done" \in Labels
    BY DEF AllKinds, Labels, Ended
  <2>4. CASE Active(holds[o]) = {}
    <3>1. Finish(r, "done", {}) /\ UNCHANGED db
      BY <2>1, <2>4
    <3> QED
      BY <3>1, <2>3, FinishTypes DEF TypeOK, db
  <2>5. CASE Active(holds[o]) # {}
    BY <2>1, <2>2, <2>3, <2>5, Blanks, BeginTypes
  <2> QED
    BY <2>4, <2>5
<1>5. CASE EnterMovement(r)
  <2>1. PICK kind \in {"inward", "outward"}, i \in Items, n \in Quantities :
          \/ Abort(r)
          \/ /\ Goto(r, "save")
             /\ job' = [job EXCEPT ![r] =
                  [kind |-> kind, of |-> None, want |-> [NoWant EXCEPT ![i] = n]]]
             /\ mine' = [mine EXCEPT ![r][i] = stock[i]]
             /\ UNCHANGED <<db, lock, held, todo, stale, dirty>>
    BY <1>5 DEF EnterMovement
  <2>2. kind \in AllKinds /\ n \in Nat
    BY DEF AllKinds, IceCrestAssumption
  <2>3. [NoWant EXCEPT ![i] = n] \in Wants
    BY <2>2 DEF NoWant, Wants
  <2>4. [kind |-> kind, of |-> None, want |-> [NoWant EXCEPT ![i] = n]] \in Job
    BY <2>2, <2>3 DEF Job
  <2>5. CASE Abort(r)
    BY <2>5, AbortTypes
  <2>6. CASE ~ Abort(r)
    <3> DEFINE entered == [kind |-> kind, of |-> None, want |-> [NoWant EXCEPT ![i] = n]]
    <3>1. /\ Goto(r, "save") /\ job' = [job EXCEPT ![r] = entered]
          /\ mine' = [mine EXCEPT ![r][i] = stock[i]]
          /\ UNCHANGED <<db, lock, held, todo, stale, dirty>>
      BY <2>1, <2>6
    <3>2. entered \in Job
      BY <2>4
    <3> HIDE DEF entered
    <3>3. job' \in [Requests -> Job] /\ pc' \in [Requests -> Labels]
      BY <3>1, <3>2 DEF Goto, TypeOK, Labels
    <3> QED
      BY <3>1, <3>3, ReadTypes DEF TypeOK, db
  <2> QED
    BY <2>5, <2>6
<1> QED
  BY <1>1, <1>2, <1>3, <1>4, <1>5 DEF Start

LEMMA LockTypes ==
  ASSUME IceCrestAssumption, TypeOK, NEW r \in Requests, LockStock(r) \/ LockHeld(r)
  PROVE  TypeOK'
<1>1. CASE Abort(r)
  BY <1>1, AbortTypes
<1>2. CASE ~ Abort(r)
  <2>1. PICK i \in todo[r] : /\ lock' = [lock EXCEPT ![i] = r]
                            /\ mine' = [mine EXCEPT ![r][i] = stock[i]]
                            /\ todo' = [todo EXCEPT ![r] = @ \ {i}]
                            /\ UNCHANGED <<db, pc, job, held, stale, dirty>>
    BY <1>2 DEF LockStock, LockHeld
  <2>2. i \in Items
    BY DEF TypeOK
  <2>3. mine' \in [Requests -> [Items -> Row]]
    BY <2>1, <2>2, ReadTypes
  <2>4. lock' \in [Items -> Requests \cup {None}] /\ todo' \in [Requests -> SUBSET Items]
    BY <2>1, <2>2 DEF TypeOK
  <2> QED
    BY <2>1, <2>3, <2>4 DEF TypeOK, db
<1> QED
  BY <1>1, <1>2

LEMMA CommitTypes ==
  ASSUME IceCrestAssumption, TypeOK, NEW r \in Requests,
         In(r) # "order" => job[r].of \in Requests,
         CommitOrder(r) \/ CommitOrderInvoice(r) \/ CommitCancel(r)
  PROVE  TypeOK'
<1> DEFINE o == job[r].of
           want == Want(r)
           lines == Lines(r)
<1>1. /\ want \in Wants /\ lines \subseteq Items /\ Active(held[r]) \subseteq Items
      /\ \A i \in Items : /\ mine[r][i] \in Row /\ held[r][i] \in Hold
                         /\ stock[i] \in Row /\ want[i] \in Nat
  BY JobTypes
<1>2. "done" \in Labels
  BY DEF Labels, Ended
<1>3. CASE CommitOrder(r)
  <2>1. /\ Finish(r, "done", lines)
        /\ stock' = [i \in Items |-> IF i \notin lines THEN stock[i]
             ELSE [mine[r][i] EXCEPT !.reserved = @ + want[i]]]
        /\ holds' = [holds EXCEPT ![r] = [i \in Items |-> IF i \notin lines THEN NoHold
             ELSE [status |-> "active", qty |-> want[i], used |-> 0]]]
        /\ order' = [order EXCEPT ![r] = "confirmed"]
        /\ UNCHANGED moved
    BY <1>3 DEF CommitOrder
  <2> HIDE DEF want, lines
  <2>2. \A i \in Items : [mine[r][i] EXCEPT !.reserved = @ + want[i]] \in Row
    BY <1>1, RowTypes
  <2>3. stock' \in [Items -> Row]
    BY <1>1, <2>1, <2>2
  <2>4. \A i \in Items : [status |-> "active", qty |-> want[i], used |-> 0] \in Hold
    BY <1>1 DEF Hold
  <2>5. holds' \in [Requests -> [Items -> Hold]]
    BY <2>1, <2>4, Blanks DEF TypeOK
  <2> QED
    BY <1>1, <1>2, <2>1, <2>3, <2>5, FinishTypes DEF TypeOK
<1>4. CASE CommitOrderInvoice(r) /\ ~ Abort(r)
  <2> DEFINE after == [i \in Items |-> IF i \in lines THEN Consume(held[r][i], want[i])
                                                     ELSE held[r][i]]
             taken == [i \in Items |-> IF i \in lines THEN after[i] ELSE holds[o][i]]
             status == IF AllTaken(after) THEN "invoiced" ELSE order[o]
  <2>1. /\ Finish(r, "done", lines \cup {o})
        /\ stock' = [i \in Items |-> IF i \in lines THEN OutOfReserve(mine[r][i], want[i])
                                                    ELSE stock[i]]
        /\ moved' = [i \in Items |-> moved[i] - want[i]]
        /\ holds' = [holds EXCEPT ![o] = taken]
        /\ order' = [order EXCEPT ![o] = status]
    BY <1>4 DEF CommitOrderInvoice
  <2>2. o \in Requests
    BY <1>4 DEF CommitOrderInvoice
  <2> HIDE DEF want, lines, o
  <2>3. \A i \in Items : OutOfReserve(mine[r][i], want[i]) \in Row
    BY <1>1, RowTypes
  <2>4. stock' \in [Items -> Row]
    BY <1>1, <2>1, <2>3
  <2>5. \A i \in Items : Consume(held[r][i], want[i]) \in Hold
    BY <1>1, HoldTypes
  <2>6. taken \in [Items -> Hold]
    BY <1>1, <2>2, <2>5 DEF TypeOK
  <2>7. status \in {"none", "confirmed", "invoiced", "cancelled"}
    BY <2>2 DEF TypeOK
  <2> HIDE DEF taken, status
  <2>8. holds' \in [Requests -> [Items -> Hold]]
    BY <2>1, <2>6 DEF TypeOK
  <2>9. order' \in [Requests -> {"none", "confirmed", "invoiced", "cancelled"}]
    BY <2>1, <2>7 DEF TypeOK
  <2>10. moved' \in [Items -> Int]
    BY <1>1, <2>1 DEF TypeOK
  <2>11. lines \cup {o} \subseteq Items \cup Requests
    BY <1>1, <2>2
  <2> QED
    BY <1>2, <2>1, <2>4, <2>8, <2>9, <2>10, <2>11, FinishTypes DEF TypeOK
<1>5. CASE CommitCancel(r)
  <2> DEFINE on == Active(held[r])
             given == [i \in Items |-> IF i \in on THEN [held[r][i] EXCEPT !.status = "released"]
                                                 ELSE holds[o][i]]
  <2>1. /\ Finish(r, "done", on \cup {o})
        /\ stock' = [i \in Items |-> IF i \in on
             THEN Release(mine[r][i], Remaining(held[r][i])) ELSE stock[i]]
        /\ holds' = [holds EXCEPT ![o] = given]
        /\ order' = [order EXCEPT ![o] = "cancelled"]
        /\ UNCHANGED moved
    BY <1>5 DEF CommitCancel
  <2>2. o \in Requests
    BY <1>5 DEF CommitCancel
  <2> HIDE DEF on, o
  <2>3. \A i \in Items : Release(mine[r][i], Remaining(held[r][i])) \in Row
    <3> SUFFICES ASSUME NEW i \in Items
                 PROVE  Release(mine[r][i], Remaining(held[r][i])) \in Row
      OBVIOUS
    <3>1. mine[r][i] \in Row /\ Remaining(held[r][i]) \in Int
      BY <1>1 DEF Hold, Remaining
    <3> QED
      BY <3>1 DEF Row, Release, AtLeastZero
  <2>4. stock' \in [Items -> Row]
    BY <1>1, <2>1, <2>3
  <2>5. \A i \in Items : [held[r][i] EXCEPT !.status = "released"] \in Hold
    BY <1>1, HoldTypes
  <2>6. given \in [Items -> Hold]
    BY <1>1, <2>2, <2>5 DEF TypeOK
  <2> HIDE DEF given
  <2>7. holds' \in [Requests -> [Items -> Hold]]
    BY <2>1, <2>6 DEF TypeOK
  <2>8. order' \in [Requests -> {"none", "confirmed", "invoiced", "cancelled"}]
    BY <2>1 DEF TypeOK
  <2>9. on \cup {o} \subseteq Items \cup Requests
    BY <1>1, <2>2 DEF on
  <2> QED
    BY <1>2, <2>1, <2>4, <2>7, <2>8, <2>9, FinishTypes DEF TypeOK
<1>6. CASE Abort(r)
  BY <1>6, AbortTypes
<1> QED
  BY <1>3, <1>4, <1>5, <1>6

LEMMA InvoiceTypes ==
  ASSUME IceCrestAssumption, TypeOK, NEW r \in Requests, CommitInvoice(r)
  PROVE  TypeOK'
<1>1. /\ Lines(r) \subseteq Items
      /\ \A i \in Items : mine[r][i] \in Row /\ stock[i] \in Row /\ Want(r)[i] \in Nat
  BY JobTypes
<1>2. /\ Finish(r, "done", Lines(r))
      /\ stock' = [i \in Items |-> IF i \in Lines(r) THEN Out(mine[r][i], Want(r)[i])
                                                     ELSE stock[i]]
      /\ moved' = [i \in Items |-> moved[i] - Want(r)[i]]
      /\ UNCHANGED <<holds, order>>
  BY DEF CommitInvoice
<1>3. \A i \in Items : Out(mine[r][i], Want(r)[i]) \in Row
  BY <1>1, RowTypes
<1>4. stock' \in [Items -> Row] /\ moved' \in [Items -> Int]
  BY <1>1, <1>2, <1>3 DEF TypeOK
<1>5. "done" \in Labels
  BY DEF Labels, Ended
<1> QED
  BY <1>1, <1>2, <1>4, <1>5, FinishTypes DEF TypeOK

LEMMA MovementTypes ==
  ASSUME IceCrestAssumption, TypeOK, NEW r \in Requests,
         LoadForSave(r) \/ WriteStock(r) \/ RecordMovement(r)
  PROVE  TypeOK'
<1>1. /\ Lines(r) \subseteq Items
      /\ \A i \in Items : /\ mine[r][i] \in Row /\ stock[i] \in Row
                         /\ Want(r)[i] \in Nat /\ Signed(r, i) \in Int
  BY JobTypes DEF Signed
<1>2. {"write", "movement", "done"} \subseteq Labels
  BY DEF Labels, Ended
<1>3. CASE LoadForSave(r)
  <2>1. PICK i \in Lines(r) : dirty' = [dirty EXCEPT ![r] = Differing(r, i)]
    BY <1>3 DEF LoadForSave
  <2>2. Differing(r, i) \subseteq {"quantity", "reserved"}
    BY DEF Differing
  <2>3. dirty' \in [Requests -> SUBSET {"quantity", "reserved"}]
    BY <2>1, <2>2 DEF TypeOK
  <2>4. pc' \in [Requests -> Labels]
    BY <1>2, <1>3 DEF LoadForSave, Goto, TypeOK
  <2> QED
    BY <1>3, <2>3, <2>4 DEF LoadForSave, TypeOK, db
<1>4. CASE WriteStock(r)
  <2>1. PICK i \in Lines(r) :
          /\ stock' = [stock EXCEPT ![i] =
               [quantity |-> mine[r][i].quantity + Signed(r, i),
                reserved |-> IF "reserved" \in dirty[r] THEN mine[r][i].reserved ELSE @.reserved]]
          /\ stale' = [q \in Requests |-> IF Serializable(q) THEN stale[q] \cup {i} ELSE {}]
          /\ Goto(r, "movement")
          /\ UNCHANGED <<holds, order, moved, lock, locals>>
    BY <1>4 DEF WriteStock
  <2> DEFINE written == [quantity |-> mine[r][i].quantity + Signed(r, i),
                         reserved |-> IF "reserved" \in dirty[r] THEN mine[r][i].reserved
                                                                 ELSE stock[i].reserved]
  <2>2. written \in Row
    BY <1>1 DEF Row
  <2>3. stock' = [stock EXCEPT ![i] = written]
    BY <2>1
  <2> HIDE DEF written
  <2>4. stock' \in [Items -> Row]
    BY <1>1, <2>2, <2>3 DEF TypeOK
  <2>5. stale' \in [Requests -> SUBSET (Items \cup Requests)]
    BY <1>1, <2>1 DEF TypeOK
  <2>6. pc' \in [Requests -> Labels]
    BY <1>2, <2>1 DEF Goto, TypeOK
  <2> QED
    BY <2>1, <2>4, <2>5, <2>6 DEF TypeOK, locals
<1>5. CASE RecordMovement(r)
  <2>1. PICK i \in Lines(r) : /\ moved' = [moved EXCEPT ![i] = @ + Signed(r, i)]
                              /\ Finish(r, "done", {})
                              /\ UNCHANGED <<stock, holds, order>>
    BY <1>5 DEF RecordMovement
  <2>2. moved' \in [Items -> Int]
    BY <1>1, <2>1 DEF TypeOK
  <2> QED
    BY <1>2, <2>1, <2>2, FinishTypes DEF TypeOK
<1> QED
  BY <1>3, <1>4, <1>5

-----------------------------------------------------------------------------
(* What a handler's step leaves of the invariant of the others. *)

\* What a step of another handler does to q: none of its locals; none of the rows it
\* has locked; and what has changed of the rest is marked stale.
Beside(q, changed) ==
  /\ pc'[q] = pc[q] /\ job'[q] = job[q] /\ mine'[q] = mine[q]
  /\ held'[q] = held[q] /\ todo'[q] = todo[q]
  /\ \A i \in Items : lock'[i] = q <=> lock[i] = q
  /\ Serializable(q) => stale'[q] = stale[q] \cup changed

\* What a step does to the rows and the orders when only those of changed change.
Within(changed) ==
  /\ \A i \in Items \ changed : stock'[i] = stock[i]
  /\ \A o \in Orders : /\ o \in Orders'
                       /\ \A i \in Items \ changed : holds'[o][i] = holds[o][i]

LEMMA OthersKeep ==
  ASSUME IInv, NEW q \in Requests, NEW changed,
         Beside(q, changed), Within(changed),
         \A i \in Items : i \in changed => lock[i] # q,
         q \in Orders' => q \in Orders
  PROVE  Holds(q)'
<1>1. Holds(q) /\ pc[q] \in Labels
  BY DEF IInv, TypeOK
<1>2. /\ In(q)' = In(q) /\ Lines(q)' = Lines(q) /\ Active(held[q])' = Active(held[q])
      /\ Touched(q)' = Touched(q)
  BY DEF Beside, In, Lines, Want, Active, Touched
<1>3. LocksHold(q)'
  <2> SUFFICES ASSUME NEW i \in Items, lock'[i] = q
               PROVE  /\ pc'[q] = "lock" /\ i \in Touched(q)'
                      /\ mine'[q][i] = stock'[i]
                      /\ In(q)' \in Transactional => i \notin stale'[q] /\ Enough(q, i)'
    BY DEF LocksHold
  <2>1. lock[i] = q /\ i \notin changed /\ stock'[i] = stock[i]
    BY DEF Beside, Within
  <2>2. /\ pc[q] = "lock" /\ i \in Touched(q) /\ mine[q][i] = stock[i]
        /\ In(q) \in Transactional => i \notin stale[q] /\ Enough(q, i)
    BY <1>1, <2>1 DEF Holds, LocksHold
  <2>3. Enough(q, i)' <=> Enough(q, i)
    BY <2>1 DEF Beside, Enough, Reserved, Unreserved, Want, In
  <2>4. In(q) \in Transactional => Serializable(q)
    BY <2>2 DEF Serializable, Running, Ended
  <2> QED
    BY <1>2, <2>1, <2>2, <2>3, <2>4 DEF Beside
<1>4. SnapshotHolds(q)'
  <2> SUFFICES ASSUME pc[q] = "lock"
               PROVE  SnapshotHolds(q)'
    BY DEF SnapshotHolds, Beside
  <2>1. /\ In(q) \in Transactional \cup {"cancel"}
        /\ todo[q] \subseteq Touched(q)
        /\ \A i \in Touched(q) \ todo[q] : lock[i] = q
        /\ In(q) \in {"orderInvoice", "cancel"} => job[q].of \in Orders
        /\ In(q) = "orderInvoice" =>
             \A i \in Items \ stale[q] : held[q][i] = holds[job[q].of][i]
    BY <1>1 DEF Holds, SnapshotHolds
  <2>2. Touched(q) \subseteq Items
    BY DEF Touched, Active, Lines, Named
  <2>3. \A i \in Touched(q)' \ todo'[q] : lock'[i] = q
    BY <1>2, <2>1, <2>2 DEF Beside
  <2>4. In(q) \in {"orderInvoice", "cancel"} => job[q].of \in Orders'
    BY <2>1 DEF Within
  <2>5. In(q) = "orderInvoice" =>
          \A i \in Items \ stale'[q] : held[q][i] = holds'[job[q].of][i]
    <3> SUFFICES ASSUME In(q) = "orderInvoice", NEW i \in Items \ stale'[q]
                 PROVE  held[q][i] = holds'[job[q].of][i]
      OBVIOUS
    <3>1. i \notin stale[q] /\ i \notin changed
      BY DEF Beside, Serializable, Running, Ended, Transactional
    <3> QED
      BY <2>1, <3>1 DEF Within
  <2> QED
    BY <1>2, <2>1, <2>3, <2>4, <2>5 DEF Beside, SnapshotHolds
<1>5. OrderIsDone(q)'
  BY <1>1 DEF Holds, OrderIsDone, Orders, Beside
<1> QED
  BY <1>3, <1>4, <1>5 DEF Holds

\* A handler that ends leaves the invariant to the others, as long as it wrote only
\* rows it had locked.
LEMMA FinishKeeps ==
  ASSUME IceCrestAssumption, IInv, NEW r \in Requests, NEW how \in Ended, NEW changed,
         Finish(r, how, changed), Within(changed),
         \A i \in Items : i \in changed => lock[i] = r,
         Orders' \subseteq Orders \cup {r},
         r \in Orders' => how = "done"
  PROVE  \A q \in Requests : Holds(q)'
<1>1. pc'[r] = how /\ how # "lock" /\ \A i \in Items : lock'[i] # r
  BY DEF Finish, Goto, IInv, TypeOK, Ended, IceCrestAssumption
<1>2. Holds(r)'
  BY <1>1 DEF Holds, LocksHold, SnapshotHolds, OrderIsDone, Orders
<1>3. ASSUME NEW q \in Requests, q # r PROVE Holds(q)'
  <2>1. Beside(q, changed)
    BY <1>3 DEF Finish, Goto, IInv, TypeOK, Beside, IceCrestAssumption
  <2> QED
    BY <1>3, <2>1, OthersKeep
<1> QED
  BY <1>2, <1>3

LEMMA AbortKeeps ==
  ASSUME IceCrestAssumption, IInv, NEW r \in Requests, Abort(r),
         pc[r] # "done"
  PROVE  \A q \in Requests : Holds(q)'
<1>1. Finish(r, "rejected", {}) /\ UNCHANGED db
  BY DEF Abort
<1>2. Within({}) /\ Orders' = Orders
  BY <1>1 DEF Within, Orders, db
<1>3. r \notin Orders
  BY DEF IInv, Holds, OrderIsDone, Orders
<1> QED
  BY <1>1, <1>2, <1>3, FinishKeeps DEF Ended

LEMMA BeginKeeps ==
  ASSUME IceCrestAssumption, IInv, NEW r \in Requests, pc[r] = "idle",
         NEW kind \in Transactional \cup {"cancel"}, NEW o, NEW want,
         NEW reservations, NEW on,
         Begin(r, kind, o, want, reservations, on),
         on = IF kind = "cancel" THEN Active(reservations) ELSE Named(want),
         kind \in {"orderInvoice", "cancel"} => o \in Orders,
         kind = "orderInvoice" => reservations = holds[o]
  PROVE  \A q \in Requests : Holds(q)'
<1>1. /\ pc'[r] = "lock" /\ held'[r] = reservations /\ todo'[r] = on
      /\ job'[r] = [kind |-> kind, of |-> o, want |-> want]
      /\ UNCHANGED <<db, lock, mine, stale, dirty>>
  BY DEF Begin, Goto, IInv, TypeOK
<1>2. Within({}) /\ Orders' = Orders
  BY <1>1 DEF Within, Orders, db
<1>3. ASSUME NEW q \in Requests, q # r PROVE Holds(q)'
  <2>1. Beside(q, {})
    BY <1>3 DEF Begin, Goto, IInv, TypeOK, Beside
  <2> QED
    BY <1>2, <1>3, <2>1, OthersKeep
<1>4. Holds(r)'
  <2>1. \A i \in Items : lock'[i] # r
    BY <1>1 DEF IInv, Holds, LocksHold
  <2>2. In(r)' = kind /\ Touched(r)' = on
    BY <1>1 DEF In, Touched, Lines, Want
  <2>3. SnapshotHolds(r)'
    BY <1>1, <1>2, <2>2 DEF SnapshotHolds, db
  <2>4. OrderIsDone(r)'
    BY <1>1 DEF IInv, Holds, OrderIsDone, db
  <2> QED
    BY <2>1, <2>3, <2>4 DEF Holds, LocksHold
<1> QED
  BY <1>3, <1>4

LEMMA StartKeeps ==
  ASSUME IceCrestAssumption, IInv, NEW r \in Requests, Start(r)
  PROVE  \A q \in Requests : Holds(q)'
<1>1. pc[r] = "idle"
  BY DEF Start, PlaceOrder, Invoice, InvoiceOrder, CancelOrder, EnterMovement, Call
<1>2. CASE PlaceOrder(r)
  <2>1. PICK want \in Asked : Begin(r, "order", None, want, NoHolds, Named(want))
    BY <1>2 DEF PlaceOrder
  <2> QED
    BY <1>1, <2>1, BeginKeeps DEF Transactional
<1>3. CASE Invoice(r)
  <2>1. PICK want \in Asked : Begin(r, "invoice", None, want, NoHolds, Named(want))
    BY <1>3 DEF Invoice
  <2> QED
    BY <1>1, <2>1, BeginKeeps DEF Transactional
<1>4. CASE InvoiceOrder(r)
  <2>1. PICK o \in Orders, want \in Asked :
          IF order[o] = "cancelled" THEN Abort(r)
          ELSE Begin(r, "orderInvoice", o, want, holds[o], Named(want))
    BY <1>4 DEF InvoiceOrder
  <2>2. CASE order[o] = "cancelled"
    BY <1>1, <2>1, <2>2, AbortKeeps
  <2>3. CASE order[o] # "cancelled"
    BY <1>1, <2>1, <2>3, BeginKeeps DEF Transactional
  <2> QED
    BY <2>2, <2>3
<1>5. CASE CancelOrder(r)
  <2>1. PICK o \in Orders :
          IF Active(holds[o]) = {}
            THEN Finish(r, "done", {}) /\ UNCHANGED db
            ELSE Begin(r, "cancel", o, NoWant, holds[o], Active(holds[o]))
    BY <1>5 DEF CancelOrder
  <2>2. CASE Active(holds[o]) = {}
    <3>1. Within({}) /\ Orders' = Orders
      BY <2>1, <2>2 DEF Within, Orders, db
    <3>2. Finish(r, "done", {})
      BY <2>1, <2>2
    <3> QED
      BY <3>1, <3>2, FinishKeeps DEF Ended
  <2>3. CASE Active(holds[o]) # {}
    BY <1>1, <2>1, <2>3, BeginKeeps DEF Transactional
  <2> QED
    BY <2>2, <2>3
<1>6. CASE EnterMovement(r) /\ ~ Abort(r)
  <2>1. /\ pc' = [pc EXCEPT ![r] = "save"]
        /\ \A q \in Requests \ {r} : job'[q] = job[q] /\ mine'[q] = mine[q]
        /\ UNCHANGED <<db, lock, held, todo, stale, dirty>>
    BY <1>6 DEF EnterMovement, Goto, IInv, TypeOK
  <2>2. Within({}) /\ Orders' = Orders
    BY <2>1 DEF Within, Orders, db
  <2>3. ASSUME NEW q \in Requests, q # r PROVE Holds(q)'
    <3>1. Beside(q, {})
      BY <2>1, <2>3 DEF IInv, TypeOK, Beside
    <3> QED
      BY <2>2, <2>3, <3>1, OthersKeep
  <2>4. Holds(r)'
    <3>1. pc'[r] = "save" /\ \A i \in Items : lock'[i] # r
      BY <1>1, <2>1 DEF IInv, TypeOK, Holds, LocksHold
    <3> QED
      BY <1>1, <2>1, <3>1 DEF IInv, Holds, LocksHold, SnapshotHolds, OrderIsDone, db
  <2> QED
    BY <2>3, <2>4
<1>7. CASE Abort(r)
  BY <1>1, <1>7, AbortKeeps
<1> QED
  BY <1>2, <1>3, <1>4, <1>5, <1>6, <1>7 DEF Start

LEMMA LockKeeps ==
  ASSUME IceCrestAssumption, IInv, NEW r \in Requests, LockStock(r) \/ LockHeld(r)
  PROVE  \A q \in Requests : Holds(q)'
<1>1. pc[r] = "lock"
  BY DEF LockStock, LockHeld
<1>2. CASE Abort(r)
  BY <1>1, <1>2, AbortKeeps
<1>3. CASE ~ Abort(r)
  <2>1. PICK i \in todo[r] :
          /\ lock[i] = None
          /\ lock' = [lock EXCEPT ![i] = r]
          /\ mine' = [mine EXCEPT ![r][i] = stock[i]]
          /\ todo' = [todo EXCEPT ![r] = @ \ {i}]
          /\ UNCHANGED <<db, pc, job, held, stale, dirty>>
          /\ \/ In(r) \in Transactional /\ i \notin stale[r] /\ Enough(r, i)
             \/ In(r) = "cancel"
    BY <1>3 DEF LockStock, LockHeld, Fresh
  <2>2. i \in Items /\ Holds(r)
    BY DEF IInv, TypeOK
  <2>3. Within({}) /\ Orders' = Orders
    BY <2>1 DEF Within, Orders, db
  <2>4. ASSUME NEW q \in Requests, q # r PROVE Holds(q)'
    <3>1. Beside(q, {})
      BY <2>1, <2>2, <2>4 DEF IInv, TypeOK, Beside, IceCrestAssumption
    <3> QED
      BY <2>3, <2>4, <3>1, OthersKeep
  <2>5. /\ In(r)' = In(r) /\ Touched(r)' = Touched(r)
        /\ \A j \in Items : Enough(r, j)' <=> Enough(r, j)
    BY <2>1 DEF In, Touched, Active, Lines, Want, Enough, Reserved, Unreserved, db
  <2>6. todo[r] \subseteq Touched(r) /\ \A j \in Touched(r) \ todo[r] : lock[j] = r
    BY <1>1, <2>2 DEF Holds, SnapshotHolds
  <2>7. Touched(r) \subseteq Items
    BY DEF Touched, Active, Lines, Named
  <2>8. mine'[r][i] = stock[i] /\ \A j \in Items \ {i} : mine'[r][j] = mine[r][j]
    BY <2>1, <2>2 DEF IInv, TypeOK
  <2>9. todo'[r] = todo[r] \ {i}
    BY <2>1 DEF IInv, TypeOK
  <2>10. LocksHold(r)'
    <3> SUFFICES ASSUME NEW j \in Items, lock'[j] = r
                 PROVE  /\ pc'[r] = "lock" /\ j \in Touched(r)'
                        /\ mine'[r][j] = stock'[j]
                        /\ In(r)' \in Transactional => j \notin stale'[r] /\ Enough(r, j)'
      BY DEF LocksHold
    <3>1. CASE j = i
      BY <1>1, <2>1, <2>2, <2>5, <2>6, <2>8, <3>1 DEF db, Transactional
    <3>2. CASE j # i
      <4>1. lock[j] = r
        BY <2>1, <2>2, <3>2 DEF IInv, TypeOK
      <4> QED
        BY <2>1, <2>2, <2>5, <2>8, <3>2, <4>1 DEF Holds, LocksHold, db
    <3> QED
      BY <3>1, <3>2
  <2>11. \A j \in Touched(r) \ todo'[r] : lock'[j] = r
    BY <2>1, <2>2, <2>6, <2>7, <2>9 DEF IInv, TypeOK
  <2>12. SnapshotHolds(r)'
    BY <1>1, <2>1, <2>2, <2>3, <2>5, <2>6, <2>9, <2>11 DEF Holds, SnapshotHolds, db
  <2>13. OrderIsDone(r)'
    BY <2>1, <2>2 DEF Holds, OrderIsDone, db
  <2> QED
    BY <2>4, <2>10, <2>12, <2>13 DEF Holds
<1> QED
  BY <1>2, <1>3

\* With all its items locked, a transaction commits against the rows it read.
LEMMA AllAreLocked ==
  ASSUME IInv, NEW r \in Requests, AllLocked(r)
  PROVE  /\ Touched(r) \subseteq Items
         /\ \A i \in Touched(r) : lock[i] = r
         /\ In(r) \in Transactional => \A i \in Touched(r) : i \notin stale[r] /\ Enough(r, i)
         /\ In(r) \in {"orderInvoice", "cancel"} => job[r].of \in Orders
         /\ In(r) = "orderInvoice" => \A i \in Lines(r) : held[r][i] = holds[job[r].of][i]
<1>1. pc[r] = "lock" /\ todo[r] = {} /\ Holds(r)
  BY DEF AllLocked, IInv
<1>2. Touched(r) \subseteq Items
  BY DEF Touched, Active, Lines, Named
<1>3. \A i \in Touched(r) : lock[i] = r
  BY <1>1 DEF Holds, SnapshotHolds
<1>4. In(r) \in Transactional => \A i \in Touched(r) : i \notin stale[r] /\ Enough(r, i)
  BY <1>1, <1>2, <1>3 DEF Holds, LocksHold
<1>5. In(r) = "orderInvoice" => Touched(r) = Lines(r) /\ In(r) \in Transactional
  BY DEF Touched, Transactional
<1> QED
  BY <1>1, <1>2, <1>3, <1>4, <1>5 DEF Holds, SnapshotHolds

LEMMA CommitKeeps ==
  ASSUME IceCrestAssumption, IInv, NEW r \in Requests,
         CommitOrder(r) \/ CommitInvoice(r) \/ CommitOrderInvoice(r) \/ CommitCancel(r)
  PROVE  \A q \in Requests : Holds(q)'
<1>1. AllLocked(r) /\ pc[r] = "lock"
  BY DEF AllLocked, CommitOrder, CommitInvoice, CommitOrderInvoice, CommitCancel
<1>2. /\ r \notin Orders
      /\ Orders \subseteq Requests
  BY <1>1 DEF IInv, Holds, OrderIsDone, Orders
<1>3. /\ Touched(r) \subseteq Items
      /\ \A i \in Touched(r) : lock[i] = r
      /\ In(r) \in {"orderInvoice", "cancel"} => job[r].of \in Orders
  BY <1>1, AllAreLocked
<1>4. CASE CommitOrder(r)
  <2>1. /\ Touched(r) = Lines(r)
        /\ Finish(r, "done", Lines(r))
        /\ \A i \in Items \ Lines(r) : stock'[i] = stock[i]
        /\ \A o \in Orders : holds'[o] = holds[o]
        /\ order' = [order EXCEPT ![r] = "confirmed"]
    BY <1>2, <1>4 DEF CommitOrder, Touched, IInv, TypeOK
  <2>2. Within(Lines(r)) /\ Orders' \subseteq Orders \cup {r}
    BY <1>2, <2>1 DEF Within, Orders, IInv, TypeOK
  <2> QED
    BY <1>3, <2>1, <2>2, FinishKeeps DEF Ended
<1>5. CASE CommitInvoice(r)
  <2>1. /\ Touched(r) = Lines(r)
        /\ Finish(r, "done", Lines(r))
        /\ \A i \in Items \ Lines(r) : stock'[i] = stock[i]
        /\ UNCHANGED <<holds, order>>
    BY <1>5 DEF CommitInvoice, Touched
  <2>2. Within(Lines(r)) /\ Orders' \subseteq Orders \cup {r}
    BY <2>1 DEF Within, Orders
  <2> QED
    BY <1>3, <2>1, <2>2, FinishKeeps DEF Ended
<1>6. CASE CommitOrderInvoice(r) /\ ~ Abort(r)
  <2> DEFINE changed == Lines(r) \cup {job[r].of}
  <2>1. /\ Touched(r) = Lines(r) /\ In(r) = "orderInvoice"
        /\ Finish(r, "done", changed)
        /\ \A i \in Items \ changed : stock'[i] = stock[i]
        /\ holds' = [holds EXCEPT ![job[r].of] =
             [i \in Items |-> IF i \in Lines(r) THEN Consume(held[r][i], Want(r)[i]) ELSE @[i]]]
    BY <1>6 DEF CommitOrderInvoice, Touched
  <2>2. /\ job[r].of \in Orders
        /\ \A o \in Orders, i \in Items \ changed : holds'[o][i] = holds[o][i]
    BY <1>2, <1>3, <2>1 DEF IInv, TypeOK
  <2>3. \A o \in Requests : order'[o] = order[o] \/ (o = job[r].of /\ order'[o] \in {order[o], "invoiced"})
    BY <1>2, <1>6, <2>2 DEF CommitOrderInvoice, IInv, TypeOK
  <2>4. Orders' = Orders
    BY <1>2, <2>2, <2>3 DEF Orders
  <2>5. Within(changed)
    BY <2>1, <2>2, <2>4 DEF Within
  <2>6. \A i \in Items : i \in changed => lock[i] = r
    BY <1>2, <1>3, <2>1, <2>2 DEF IceCrestAssumption
  <2> HIDE DEF changed
  <2> QED
    BY <2>1, <2>4, <2>5, <2>6, FinishKeeps DEF Ended
<1>7. CASE CommitCancel(r)
  <2> DEFINE changed == Active(held[r]) \cup {job[r].of}
  <2>1. /\ Touched(r) = Active(held[r]) /\ In(r) = "cancel"
        /\ Finish(r, "done", changed)
        /\ \A i \in Items \ changed : stock'[i] = stock[i]
        /\ \A o \in Orders, i \in Items \ changed : holds'[o][i] = holds[o][i]
        /\ order' = [order EXCEPT ![job[r].of] = "cancelled"]
    BY <1>2, <1>7 DEF CommitCancel, Touched, IInv, TypeOK
  <2>2. job[r].of \in Orders
    BY <1>3, <2>1
  <2>3. Orders' = Orders
    BY <1>2, <2>1, <2>2 DEF Orders, IInv, TypeOK
  <2>4. Within(changed)
    BY <2>1, <2>3 DEF Within
  <2>5. \A i \in Items : i \in changed => lock[i] = r
    BY <1>2, <1>3, <2>1, <2>2 DEF IceCrestAssumption
  <2> HIDE DEF changed
  <2> QED
    BY <2>1, <2>3, <2>4, <2>5, FinishKeeps DEF Ended
<1>8. CASE Abort(r)
  BY <1>1, <1>8, AbortKeeps
<1> QED
  BY <1>4, <1>5, <1>6, <1>7, <1>8

\* A movement writes a row nobody has locked, and marks it stale for every snapshot.
LEMMA MovementKeeps ==
  ASSUME IceCrestAssumption, IInv, NEW r \in Requests,
         LoadForSave(r) \/ WriteStock(r) \/ RecordMovement(r)
  PROVE  \A q \in Requests : Holds(q)'
<1>1. pc[r] \in {"save", "write", "movement"} /\ r \notin Orders /\ Lines(r) \subseteq Items
  BY DEF LoadForSave, WriteStock, RecordMovement, IInv, Holds, OrderIsDone, Orders, Lines, Named
<1>2. \A i \in Items : lock[i] # r
  BY <1>1 DEF IInv, Holds, LocksHold
<1>3. CASE RecordMovement(r)
  <2>1. Finish(r, "done", {}) /\ UNCHANGED <<stock, holds, order>>
    BY <1>3 DEF RecordMovement
  <2>2. Within({}) /\ Orders' = Orders
    BY <2>1 DEF Within, Orders
  <2> QED
    BY <2>1, <2>2, FinishKeeps DEF Ended
<1>4. CASE LoadForSave(r) \/ WriteStock(r)
  <2>1. PICK changed \in SUBSET Items :
          /\ \A i \in changed : lock[i] = None
          /\ \A i \in Items \ changed : stock'[i] = stock[i]
          /\ \A q \in Requests : Serializable(q) => stale'[q] = stale[q] \cup changed
    <3>1. CASE LoadForSave(r)
      <4>1. stock' = stock /\ stale' = stale /\ {} \in SUBSET Items
        BY <3>1 DEF LoadForSave, db
      <4> QED
        BY <4>1
    <3>2. CASE WriteStock(r)
      <4>1. PICK i \in Lines(r) :
              /\ lock[i] = None
              /\ \A j \in Items \ {i} : stock'[j] = stock[j]
              /\ \A q \in Requests : Serializable(q) => stale'[q] = stale[q] \cup {i}
        BY <3>2 DEF WriteStock, IInv, TypeOK
      <4>2. {i} \in SUBSET Items
        BY <1>1
      <4> QED
        BY <4>1, <4>2
    <3> QED
      BY <1>4, <3>1, <3>2
  <2>2. /\ pc'[r] # "lock" /\ \A q \in Requests \ {r} : pc'[q] = pc[q]
        /\ UNCHANGED <<holds, order, lock, job, mine, held, todo>>
    BY <1>4 DEF LoadForSave, WriteStock, Goto, db, locals, IInv, TypeOK
  <2>3. Within(changed) /\ Orders' = Orders
    BY <2>1, <2>2 DEF Within, Orders
  <2>4. ASSUME NEW q \in Requests, q # r PROVE Holds(q)'
    <3>1. Beside(q, changed)
      BY <2>1, <2>2, <2>4 DEF Beside
    <3>2. \A i \in Items : i \in changed => lock[i] # q
      BY <2>1 DEF IceCrestAssumption
    <3> QED
      BY <2>3, <2>4, <3>1, <3>2, OthersKeep
  <2>5. Holds(r)'
    BY <1>1, <1>2, <2>2 DEF Holds, LocksHold, SnapshotHolds, OrderIsDone, Orders
  <2> QED
    BY <2>4, <2>5
<1> QED
  BY <1>3, <1>4

-----------------------------------------------------------------------------
(* The invariant is inductive. *)

LEMMA Initially ==
  ASSUME IceCrestAssumption, Init
  PROVE  IInv
<1>1. stock \in [Items -> Row] /\ moved \in [Items -> Int]
  BY DEF Init, IceCrestAssumption, Row
<1>2. /\ holds \in [Requests -> [Items -> Hold]] /\ held \in [Requests -> [Items -> Hold]]
      /\ mine \in [Requests -> [Items -> Row]] /\ job \in [Requests -> Job]
  BY Blanks DEF Init
<1>3. TypeOK
  BY <1>1, <1>2 DEF Init, TypeOK, Labels
<1>4. \A r \in Requests : Holds(r)
  BY DEF Init, Holds, LocksHold, SnapshotHolds, OrderIsDone, IceCrestAssumption
<1> QED
  BY <1>3, <1>4 DEF IInv

LEMMA Stutters ==
  ASSUME IInv, UNCHANGED vars
  PROVE  IInv'
<1>1. TypeOK'
  BY DEF IInv, TypeOK, vars
<1>2. ASSUME NEW q \in Requests PROVE Holds(q)'
  <2>1. Beside(q, {}) /\ Within({}) /\ Orders' = Orders
    BY DEF Beside, Within, Orders, vars
  <2> QED
    BY <2>1, OthersKeep
<1> QED
  BY <1>1, <1>2 DEF IInv

LEMMA Inductive ==
  ASSUME IceCrestAssumption, IInv, [Next]_vars
  PROVE  IInv'
<1>1. CASE UNCHANGED vars
  BY <1>1, Stutters
<1>2. ASSUME NEW r \in Requests, Start(r) PROVE IInv'
  BY <1>2, StartTypes, StartKeeps DEF IInv
<1>3. ASSUME NEW r \in Requests, Step(r) PROVE IInv'
  <2>1. CASE LockStock(r) \/ LockHeld(r)
    BY <2>1, LockTypes, LockKeeps DEF IInv
  <2>2. CASE CommitOrder(r) \/ CommitOrderInvoice(r) \/ CommitCancel(r)
    <3>1. In(r) # "order" => job[r].of \in Requests
      BY <2>2, AllAreLocked DEF CommitOrder, CommitOrderInvoice, CommitCancel, Orders
    <3> QED
      BY <2>2, <3>1, CommitTypes, CommitKeeps DEF IInv
  <2>3. CASE CommitInvoice(r)
    BY <2>3, InvoiceTypes, CommitKeeps DEF IInv
  <2>4. CASE LoadForSave(r) \/ WriteStock(r) \/ RecordMovement(r)
    BY <2>4, MovementTypes, MovementKeeps DEF IInv
  <2>5. CASE RolledBack(r)
    BY <2>5, AbortTypes, AbortKeeps DEF RolledBack, IInv
  <2> QED
    BY <1>3, <2>1, <2>2, <2>3, <2>4, <2>5 DEF Step
<1> QED
  BY <1>1, <1>2, <1>3 DEF Next, Over

\* The invariant holds in every reachable state: whatever overlaps it, a transaction
\* commits against stock rows and reservations that are still as it read them.
THEOREM Invariance == Spec => []IInv
<1>1. IceCrestAssumption
  BY IceCrestAssumption
<1>2. Init => IInv
  BY <1>1, Initially
<1>3. IInv /\ [Next]_vars => IInv'
  BY <1>1, Inductive
<1> QED
  BY <1>2, <1>3, PTL DEF Spec

-----------------------------------------------------------------------------
(* What follows from it. *)

\* Every variable keeps its type: a row's reserved quantity never falls below zero.
THEOREM StockTypeCorrect == Spec => []TypeOK
<1>1. IInv => TypeOK
  BY DEF IInv
<1> QED
  BY <1>1, Invariance, PTL

\* While an order, an invoice or a cancellation has a stock row locked, the row is
\* the one it read, whatever the movements by hand write.
THEOREM LockedStockStays == Spec => []LockedStockIsCurrent
<1>1. IInv => LockedStockIsCurrent
  BY DEF IInv, Holds, LocksHold, LockedStockIsCurrent
<1> QED
  BY <1>1, Invariance, PTL

\* An invoice's copy of a reservation, older than its lock on the stock row, is still
\* the reservation once the row is locked.
THEOREM ReservationsStay == Spec => []ReservationIsCurrent
<1>1. ASSUME IInv PROVE ReservationIsCurrent
  <2> SUFFICES ASSUME NEW i \in Items, NEW r \in Requests, lock[i] = r, In(r) = "orderInvoice"
               PROVE  held[r][i] = holds[job[r].of][i]
    BY DEF ReservationIsCurrent
  <2>1. pc[r] = "lock" /\ i \notin stale[r]
    BY <1>1 DEF IInv, Holds, LocksHold, Transactional
  <2> QED
    BY <1>1, <2>1 DEF IInv, Holds, SnapshotHolds
<1> QED
  BY <1>1, Invariance, PTL

\* Only the four commits end a transaction well, and each has all its rows locked.
LEMMA CommitsAreLocked ==
  ASSUME IceCrestAssumption, IInv, [Next]_vars, NEW r \in Requests, Commits(r)
  PROVE  AllLocked(r)
<1>1. pc[r] = "lock" /\ pc'[r] = "done" /\ pc \in [Requests -> Labels]
  BY DEF Commits, IInv, TypeOK
<1>2. ~ UNCHANGED vars
  BY <1>1 DEF vars
<1>3. PICK q \in Requests : Start(q) \/ Step(q)
  BY <1>2 DEF Next, Over
<1>4. ASSUME NEW how, Finish(q, how, {}) PROVE pc'[r] = pc[r] \/ (q = r /\ pc'[r] = how)
  BY <1>1, <1>4 DEF Finish, Goto
<1>5. ~ Abort(q)
  BY <1>1, <1>4 DEF Abort
<1>6. CASE Start(q)
  <2>1. pc[q] = "idle" /\ q # r
    BY <1>1, <1>6 DEF Start, PlaceOrder, Invoice, InvoiceOrder, CancelOrder, EnterMovement, Call
  <2>2. \A label : pc' = [pc EXCEPT ![q] = label] => pc'[r] = pc[r]
    BY <1>1, <2>1
  <2> QED
    BY <1>1, <1>5, <1>6, <2>2 DEF Start, PlaceOrder, Invoice, InvoiceOrder, CancelOrder,
       EnterMovement, Begin, Finish, Goto
<1>7. CASE Step(q)
  <2>1. CASE LockStock(q) \/ LockHeld(q)
    BY <1>1, <1>5, <2>1 DEF LockStock, LockHeld
  <2>2. CASE LoadForSave(q) \/ WriteStock(q) \/ RecordMovement(q)
    <3>1. pc[q] # "lock" /\ \E label : pc' = [pc EXCEPT ![q] = label]
      BY <2>2 DEF LoadForSave, WriteStock, RecordMovement, Finish, Goto
    <3> QED
      BY <1>1, <3>1
  <2>3. CASE CommitOrder(q) \/ CommitInvoice(q) \/ CommitOrderInvoice(q) \/ CommitCancel(q)
    <3>1. AllLocked(q) /\ \E label : pc' = [pc EXCEPT ![q] = label]
      BY <1>5, <2>3 DEF CommitOrder, CommitInvoice, CommitOrderInvoice, CommitCancel, Finish, Goto
    <3> QED
      BY <1>1, <3>1
  <2> QED
    BY <1>5, <1>7, <2>1, <2>2, <2>3 DEF Step, RolledBack
<1> QED
  BY <1>3, <1>6, <1>7

\* An invoice for an order takes, of each item, no more than the order holds at the
\* moment it commits, whatever other invoices and cancellations do to the order.
THEOREM OnlyHeldIsTaken == Spec => TakesOnlyWhatIsHeld
<1>1. ASSUME IceCrestAssumption, IInv, [Next]_vars
      PROVE  \A r \in Requests : Commits(r) /\ In(r) = "orderInvoice" =>
               \A i \in Lines(r) : Want(r)[i] <= Holding(job[r].of, i)
  <2> SUFFICES ASSUME NEW r \in Requests, Commits(r), In(r) = "orderInvoice", NEW i \in Lines(r)
               PROVE  Want(r)[i] <= Holding(job[r].of, i)
    OBVIOUS
  <2>1. AllLocked(r) /\ Touched(r) = Lines(r)
    BY <1>1, CommitsAreLocked DEF Touched
  <2>2. Enough(r, i) /\ held[r][i] = holds[job[r].of][i] /\ i \in Items
    BY <1>1, <2>1, AllAreLocked DEF Transactional
  <2>3. Remaining(held[r][i]) \in Int /\ Want(r)[i] \in Nat
    BY <1>1, <2>2, JobTypes DEF IInv, Remaining, Hold
  <2> QED
    BY <2>2, <2>3 DEF Enough, Reserved, Holding
<1>2. IceCrestAssumption
  BY IceCrestAssumption
<1> QED
  BY <1>1, <1>2, Invariance, PTL DEF Spec, TakesOnlyWhatIsHeld

\* An order or a direct invoice takes no more than is free at the moment it commits.
THEOREM OnlyFreeIsSold == Spec => SellsOnlyWhatIsFree
<1>1. ASSUME IceCrestAssumption, IInv, [Next]_vars
      PROVE  \A r \in Requests : Commits(r) /\ In(r) \in {"order", "invoice"} =>
               \A i \in Lines(r) : Want(r)[i] <= stock[i].quantity - stock[i].reserved
  <2> SUFFICES ASSUME NEW r \in Requests, Commits(r), In(r) \in {"order", "invoice"},
                      NEW i \in Lines(r)
               PROVE  Want(r)[i] <= stock[i].quantity - stock[i].reserved
    OBVIOUS
  <2>1. AllLocked(r) /\ Touched(r) = Lines(r)
    BY <1>1, CommitsAreLocked DEF Touched
  <2>2. Enough(r, i) /\ i \in Items
    BY <1>1, <2>1, AllAreLocked DEF Transactional
  <2>3. stock[i] \in Row /\ Want(r)[i] \in Nat
    BY <1>1, <2>2, JobTypes DEF IInv
  <2> QED
    BY <2>2, <2>3 DEF Enough, Unreserved, Row
<1>2. IceCrestAssumption
  BY IceCrestAssumption
<1> QED
  BY <1>1, <1>2, Invariance, PTL DEF Spec, SellsOnlyWhatIsFree

-----------------------------------------------------------------------------
(* What keeps the books in step where handlers that do not run SERIALIZABLE   *)
(* run by themselves.                                                         *)

OthersRunAlone == Kinds \ Transactional \subseteq Alone

\* A handler outside the serializable transactions has nobody beside it.
RunsApart(r) ==
  Running(r) =>
    /\ In(r) \in Kinds
    /\ In(r) \notin Transactional => \A q \in Requests : Running(q) => q = r

\* A transaction's copies: an invoice's of its order's reservations, unless another
\* wrote one of them; a cancellation's; a movement's of its stock row.
CopiesHold(r) ==
  /\ pc[r] = "lock" /\ In(r) = "order" => Lines(r) # {}
  /\ pc[r] = "lock" /\ In(r) = "orderInvoice" =>
       (job[r].of \notin stale[r] => held[r] = holds[job[r].of])
  /\ pc[r] = "lock" /\ In(r) = "cancel" => held[r] = holds[job[r].of]
  /\ pc[r] \in {"save", "write", "movement"} => In(r) \in {"inward", "outward"}
  /\ pc[r] \in {"save", "write"} => \A i \in Lines(r) : mine[r][i] = stock[i]

\* What order o holds of item i in h, and what all hold.
Parts(h, i) ==
  [o \in Requests |-> IF h[o][i].status = "active" THEN Remaining(h[o][i]) ELSE 0]

\* A reservation belongs to an order, and an active one has something left.
HoldsAreOrders ==
  \A o \in Requests :
    /\ order[o] = "none" => holds[o] = NoHolds
    /\ \A i \in Items : holds[o][i].status = "active" => holds[o][i].used < holds[o][i].qty

ReservedAddsUp == \A i \in Items : stock[i].reserved = Sum(Parts(holds, i), Requests)

BooksInv ==
  /\ \A r \in Requests : RunsApart(r) /\ CopiesHold(r)
  /\ HoldsAreOrders /\ ReservedAddsUp /\ InvoicedWhenTaken

\* Without outward movements no stock is promised that is not there.
EnoughForAll == \A i \in Items : stock[i].reserved <= stock[i].quantity
-----------------------------------------------------------------------------
(* Handlers that run by themselves. *)

\* A step of a running handler leaves the others apart and their copies good.
LEMMA OthersApart ==
  ASSUME IInv, BooksInv, NEW r \in Requests, NEW q \in Requests, q # r, Running(r),
         NEW changed, Beside(q, changed), \A o \in Orders \ changed : holds'[o] = holds[o]
  PROVE  RunsApart(q)' /\ CopiesHold(q)'
<1>1. RunsApart(q) /\ CopiesHold(q) /\ Holds(q)
  BY DEF BooksInv, IInv
<1>2. /\ Running(q)' = Running(q) /\ In(q)' = In(q) /\ Lines(q)' = Lines(q)
      /\ pc'[q] = pc[q] /\ job'[q] = job[q] /\ held'[q] = held[q]
  BY DEF Beside, Running, In, Lines, Want
<1>3. Running(q) => In(q) \in Kinds \cap Transactional
  BY <1>1 DEF RunsApart
<1>4. RunsApart(q)'
  BY <1>2, <1>3 DEF RunsApart
<1>5. pc[q] = "lock" \/ pc[q] \in {"save", "write", "movement"} => Running(q)
  BY DEF Running, Ended
<1>6. ASSUME pc[q] = "lock", In(q) = "orderInvoice", job[q].of \notin stale'[q]
      PROVE  held[q] = holds'[job[q].of]
  <2>1. Serializable(q) /\ job[q].of \in Orders
    BY <1>1, <1>5, <1>6 DEF Serializable, Transactional, Holds, SnapshotHolds
  <2>2. job[q].of \notin stale[q] /\ job[q].of \notin changed
    BY <1>6, <2>1 DEF Beside
  <2> QED
    BY <1>1, <1>6, <2>1, <2>2 DEF CopiesHold
<1>7. CopiesHold(q)'
  <2>1. In(q) # "cancel" \/ pc[q] # "lock"
    BY <1>3, <1>5 DEF Transactional
  <2>2. pc[q] \notin {"save", "write", "movement"}
    BY <1>1, <1>3, <1>5 DEF CopiesHold, Transactional
  <2> QED
    BY <1>1, <1>2, <1>6, <2>1, <2>2 DEF CopiesHold
<1> QED
  BY <1>4, <1>7

\* So does the end of a handler, of its own too.
LEMMA FinishApart ==
  ASSUME IceCrestAssumption, IInv, BooksInv, NEW r \in Requests, NEW how \in Ended,
         NEW changed, Finish(r, how, changed), Running(r),
         \A o \in Orders \ changed : holds'[o] = holds[o]
  PROVE  \A q \in Requests : RunsApart(q)' /\ CopiesHold(q)'
<1>1. pc'[r] = how /\ how \in {"done", "rejected"}
  BY DEF Finish, Goto, IInv, TypeOK, Ended
<1>2. RunsApart(r)' /\ CopiesHold(r)'
  BY <1>1 DEF RunsApart, CopiesHold, Running, Ended
<1>3. ASSUME NEW q \in Requests, q # r PROVE Beside(q, changed)
  BY <1>3 DEF Finish, Goto, IInv, TypeOK, Beside, IceCrestAssumption
<1> QED
  BY <1>2, <1>3, OthersApart

LEMMA AbortApart ==
  ASSUME IceCrestAssumption, IInv, BooksInv, NEW r \in Requests, Abort(r), Running(r)
  PROVE  \A q \in Requests : RunsApart(q)' /\ CopiesHold(q)'
<1>1. Finish(r, "rejected", {}) /\ holds' = holds
  BY DEF Abort, db
<1> QED
  BY <1>1, FinishApart DEF Ended

\* A handler that ends before it has begun changes nothing.
LEMMA EndedAtOnce ==
  ASSUME IceCrestAssumption, IInv, BooksInv, NEW r \in Requests, NEW how \in Ended,
         Finish(r, how, {}), UNCHANGED db, ~Running(r)
  PROVE  \A q \in Requests : RunsApart(q)' /\ CopiesHold(q)'
<1>1. pc'[r] = how /\ how \in {"done", "rejected"}
  BY DEF Finish, Goto, IInv, TypeOK, Ended
<1>2. ~Running(r)' /\ RunsApart(r)' /\ CopiesHold(r)'
  BY <1>1 DEF RunsApart, CopiesHold, Running, Ended
<1>3. ASSUME NEW q \in Requests, q # r
      PROVE  Beside(q, {})
  BY <1>3 DEF Finish, Goto, IInv, TypeOK, Beside, IceCrestAssumption
<1>4. \A q \in Requests : Running(q)' => Running(q)
  BY <1>2, <1>3 DEF Beside, Running
<1>5. ASSUME NEW q \in Requests, q # r
      PROVE  RunsApart(q)' /\ CopiesHold(q)'
  <2>1. RunsApart(q) /\ CopiesHold(q)
    BY DEF BooksInv
  <2>2. /\ Running(q)' = Running(q) /\ In(q)' = In(q) /\ Lines(q)' = Lines(q)
        /\ pc'[q] = pc[q] /\ job'[q] = job[q] /\ held'[q] = held[q] /\ mine'[q] = mine[q]
        /\ holds' = holds /\ stock' = stock
    BY <1>3, <1>5 DEF Beside, Running, In, Lines, Want, db
  <2>3. In(q) = "orderInvoice" /\ pc[q] = "lock" => stale'[q] = stale[q]
    BY <1>3, <1>5 DEF Beside, Serializable, Running, Ended, Transactional
  <2>4. RunsApart(q)'
    BY <1>4, <2>1, <2>2 DEF RunsApart
  <2> QED
    BY <2>1, <2>2, <2>3, <2>4 DEF CopiesHold
<1> QED
  BY <1>2, <1>5

\* A handler begins: beside transactions if it is one, alone otherwise.
LEMMA CallApart ==
  ASSUME OthersRunAlone, IInv, BooksInv, NEW r \in Requests, NEW kind \in AllKinds, Call(r, kind),
         \A q \in Requests \ {r} : pc'[q] = pc[q] /\ job'[q] = job[q],
         In(r)' = kind
  PROVE  \A q \in Requests : RunsApart(q)'
<1>1. /\ pc[r] = "idle" /\ kind \in Kinds
      /\ \A q \in Requests : Running(q) => {kind, In(q)} \cap Alone = {}
  BY DEF Call, Busy
<1>2. ~Running(r)
  BY <1>1 DEF Running
<1>3. ASSUME NEW q \in Requests, Running(q) PROVE {kind, In(q)} \subseteq Kinds \cap Transactional
  BY <1>1, <1>3 DEF BooksInv, RunsApart, OthersRunAlone
<1>4. \A q \in Requests \ {r} : Running(q)' = Running(q) /\ In(q)' = In(q)
  BY DEF Running, In
<1>5. ASSUME NEW q \in Requests, q # r PROVE RunsApart(q)'
  BY <1>3, <1>4, <1>5 DEF RunsApart
<1>6. RunsApart(r)'
  BY <1>1, <1>3, <1>4 DEF RunsApart
<1> QED
  BY <1>5, <1>6

LEMMA StartApart ==
  ASSUME IceCrestAssumption, OthersRunAlone, IInv, BooksInv, NEW r \in Requests, Start(r)
  PROVE  \A q \in Requests : RunsApart(q)' /\ CopiesHold(q)'
<1>1. pc[r] = "idle" /\ ~Running(r)
  BY DEF Start, PlaceOrder, Invoice, InvoiceOrder, CancelOrder, EnterMovement, Call, Running
<1>2. ASSUME NEW kind \in Transactional \cup {"cancel"}, NEW o, NEW want, NEW reservations, NEW on,
             Call(r, kind), Begin(r, kind, o, want, reservations, on),
             kind = "order" => want \in Asked,
             kind \in {"orderInvoice", "cancel"} => reservations = holds[o]
      PROVE  \A q \in Requests : RunsApart(q)' /\ CopiesHold(q)'
  <2>1. /\ pc'[r] = "lock" /\ held'[r] = reservations
        /\ job'[r] = [kind |-> kind, of |-> o, want |-> want]
        /\ \A q \in Requests \ {r} : pc'[q] = pc[q] /\ job'[q] = job[q] /\ held'[q] = held[q]
        /\ UNCHANGED <<stock, holds, mine, stale>>
    BY <1>2 DEF Begin, Goto, IInv, TypeOK, db
  <2>2. In(r)' = kind /\ kind \in AllKinds /\ Lines(r)' = Named(want)
    BY <2>1 DEF In, AllKinds, Lines, Want
  <2>3. \A q \in Requests : RunsApart(q)'
    BY <1>2, <2>1, <2>2, CallApart
  <2>4. ASSUME NEW q \in Requests, q # r PROVE CopiesHold(q)'
    <3>1. In(q)' = In(q) /\ Lines(q)' = Lines(q)
      BY <2>1, <2>4 DEF In, Lines, Want
    <3> QED
      BY <2>1, <2>4, <3>1 DEF BooksInv, CopiesHold
  <2>5. kind = "order" => Named(want) # {}
    BY <1>2 DEF Asked, Named
  <2>6. CopiesHold(r)'
    BY <1>2, <2>1, <2>2, <2>5 DEF CopiesHold
  <2> QED
    BY <2>3, <2>4, <2>6
<1>3. CASE PlaceOrder(r)
  <2>1. PICK want \in Asked : Call(r, "order") /\ Begin(r, "order", None, want, NoHolds, Named(want))
    BY <1>3 DEF PlaceOrder
  <2> QED
    BY <1>2, <2>1 DEF Transactional
<1>4. CASE Invoice(r)
  <2>1. PICK want \in Asked :
          Call(r, "invoice") /\ Begin(r, "invoice", None, want, NoHolds, Named(want))
    BY <1>4 DEF Invoice
  <2> QED
    BY <1>2, <2>1 DEF Transactional
<1>5. CASE InvoiceOrder(r) /\ ~ Abort(r)
  <2>1. PICK o \in Orders, want \in Asked :
          /\ Call(r, "orderInvoice")
          /\ Begin(r, "orderInvoice", o, want, holds[o], Named(want))
    BY <1>5 DEF InvoiceOrder
  <2> QED
    BY <1>2, <2>1 DEF Transactional
<1>6. CASE CancelOrder(r)
  <2>1. PICK o \in Orders :
          /\ Call(r, "cancel")
          /\ IF Active(holds[o]) = {}
               THEN Finish(r, "done", {}) /\ UNCHANGED db
               ELSE Begin(r, "cancel", o, NoWant, holds[o], Active(holds[o]))
    BY <1>6 DEF CancelOrder
  <2>2. CASE Active(holds[o]) = {}
    <3>1. Finish(r, "done", {}) /\ UNCHANGED db
      BY <2>1, <2>2
    <3> QED
      BY <1>1, <3>1, EndedAtOnce DEF Ended
  <2>3. CASE Active(holds[o]) # {}
    BY <1>2, <2>1, <2>3 DEF Transactional
  <2> QED
    BY <2>2, <2>3
<1>7. CASE EnterMovement(r) /\ ~ Abort(r)
  <2>1. PICK kind \in {"inward", "outward"}, i \in Items, n \in Quantities :
          /\ Call(r, kind)
          /\ Goto(r, "save")
          /\ job' = [job EXCEPT ![r] =
               [kind |-> kind, of |-> None, want |-> [NoWant EXCEPT ![i] = n]]]
          /\ mine' = [mine EXCEPT ![r][i] = stock[i]]
          /\ UNCHANGED <<db, lock, held, todo, stale, dirty>>
    BY <1>7 DEF EnterMovement
  <2>2. /\ pc'[r] = "save" /\ job'[r].kind = kind /\ mine'[r][i] = stock[i]
        /\ job'[r].want = [NoWant EXCEPT ![i] = n]
        /\ \A q \in Requests \ {r} : pc'[q] = pc[q] /\ job'[q] = job[q] /\ mine'[q] = mine[q]
        /\ UNCHANGED <<stock, holds, held, stale>>
    BY <2>1 DEF Goto, IInv, TypeOK, db
  <2>3. In(r)' = kind /\ kind \in AllKinds /\ Lines(r)' \subseteq {i}
    BY <2>2 DEF In, AllKinds, Lines, Want, Named, NoWant
  <2>4. \A q \in Requests : RunsApart(q)'
    BY <2>1, <2>2, <2>3, CallApart
  <2>5. ASSUME NEW q \in Requests, q # r PROVE CopiesHold(q)'
    <3>1. In(q)' = In(q) /\ Lines(q)' = Lines(q)
      BY <2>2, <2>5 DEF In, Lines, Want
    <3> QED
      BY <2>2, <2>5, <3>1 DEF BooksInv, CopiesHold
  <2>6. CopiesHold(r)'
    BY <2>2, <2>3 DEF CopiesHold
  <2> QED
    BY <2>4, <2>5, <2>6
<1>8. CASE Abort(r)
  BY <1>1, <1>8, EndedAtOnce DEF Abort, Ended
<1> QED
  BY <1>3, <1>4, <1>5, <1>6, <1>7, <1>8 DEF Start
LEMMA LockApart ==
  ASSUME IceCrestAssumption, IInv, BooksInv, NEW r \in Requests, LockStock(r) \/ LockHeld(r)
  PROVE  \A q \in Requests : RunsApart(q)' /\ CopiesHold(q)'
<1>1. pc[r] = "lock" /\ Running(r)
  BY DEF LockStock, LockHeld, Running, Ended
<1>2. CASE Abort(r)
  BY <1>1, <1>2, AbortApart
<1>3. CASE ~ Abort(r)
  <2>1. PICK i \in todo[r] :
          /\ lock[i] = None
          /\ lock' = [lock EXCEPT ![i] = r]
          /\ mine' = [mine EXCEPT ![r][i] = stock[i]]
          /\ todo' = [todo EXCEPT ![r] = @ \ {i}]
          /\ UNCHANGED <<db, pc, job, held, stale, dirty>>
    BY <1>3 DEF LockStock, LockHeld, Fresh
  <2>2. i \in Items
    BY DEF IInv, TypeOK
  <2>3. ASSUME NEW q \in Requests, q # r PROVE RunsApart(q)' /\ CopiesHold(q)'
    <3>1. Beside(q, {}) /\ holds' = holds
      BY <2>1, <2>2, <2>3 DEF IInv, TypeOK, Beside, IceCrestAssumption, db
    <3> QED
      BY <1>1, <2>3, <3>1, OthersApart
  <2>4. /\ \A q \in Requests : Running(q)' = Running(q)
        /\ In(r)' = In(r) /\ Lines(r)' = Lines(r)
        /\ UNCHANGED <<holds, pc, job, held, stale>>
    BY <2>1 DEF Running, In, Lines, Want, db
  <2>5. RunsApart(r)' /\ CopiesHold(r)'
    BY <1>1, <2>4 DEF BooksInv, RunsApart, CopiesHold
  <2> QED
    BY <2>3, <2>5
<1> QED
  BY <1>2, <1>3

\* What a movement does to the books: it moves the quantity of one row.
LEMMA MovementEffect ==
  ASSUME IceCrestAssumption, IInv, BooksInv, NEW r \in Requests, WriteStock(r)
  PROVE  /\ In(r) \in Kinds \cap {"inward", "outward"}
         /\ \E i \in Items, n \in Nat :
              /\ stock'[i].reserved = stock[i].reserved
              /\ stock'[i].quantity = IF In(r) = "inward" THEN stock[i].quantity + n
                                                          ELSE stock[i].quantity - n
              /\ \A j \in Items \ {i} : stock'[j] = stock[j]
         /\ UNCHANGED <<holds, order>>
<1>1. PICK i \in Lines(r) :
        /\ stock' = [stock EXCEPT ![i] =
             [quantity |-> mine[r][i].quantity + Signed(r, i),
              reserved |-> IF "reserved" \in dirty[r] THEN mine[r][i].reserved ELSE @.reserved]]
        /\ UNCHANGED <<holds, order>>
  BY DEF WriteStock
<1>2. pc[r] = "write" /\ Running(r)
  BY DEF WriteStock, Running, Ended
<1>3. In(r) \in Kinds \cap {"inward", "outward"} /\ mine[r][i] = stock[i]
  BY <1>2 DEF BooksInv, RunsApart, CopiesHold
<1>4. i \in Items /\ stock[i] \in Row /\ Want(r)[i] \in Nat
  BY JobTypes DEF IInv
<1>5. /\ stock'[i].reserved = stock[i].reserved
      /\ stock'[i].quantity = stock[i].quantity + Signed(r, i)
      /\ \A j \in Items \ {i} : stock'[j] = stock[j]
  BY <1>1, <1>3, <1>4 DEF IInv, TypeOK
<1>6. /\ In(r) = "inward" => stock'[i].quantity = stock[i].quantity + Want(r)[i]
      /\ In(r) # "inward" => stock'[i].quantity = stock[i].quantity - Want(r)[i]
  BY <1>4, <1>5 DEF Signed, Row
<1> QED
  BY <1>1, <1>3, <1>4, <1>5, <1>6

LEMMA MovementApart ==
  ASSUME IceCrestAssumption, IInv, BooksInv, NEW r \in Requests,
         LoadForSave(r) \/ WriteStock(r) \/ RecordMovement(r)
  PROVE  \A q \in Requests : RunsApart(q)' /\ CopiesHold(q)'
<1>1. pc[r] \in {"save", "write", "movement"} /\ Running(r)
  BY DEF LoadForSave, WriteStock, RecordMovement, Running, Ended
<1>2. /\ In(r) \in {"inward", "outward"} /\ In(r) \in Kinds
      /\ \A q \in Requests : Running(q) => q = r
  BY <1>1 DEF BooksInv, RunsApart, CopiesHold, Transactional
<1>3. CASE RecordMovement(r)
  <2>1. Finish(r, "done", {}) /\ holds' = holds
    BY <1>3 DEF RecordMovement
  <2> QED
    BY <1>1, <2>1, FinishApart DEF Ended
<1>4. CASE LoadForSave(r) \/ WriteStock(r)
  <2>1. /\ pc'[r] \in {"write", "movement"} /\ \A q \in Requests \ {r} : pc'[q] = pc[q]
        /\ UNCHANGED <<holds, job, mine, held>>
        /\ pc'[r] = "write" => pc[r] = "save" /\ stock' = stock
    BY <1>4 DEF LoadForSave, WriteStock, Goto, db, locals, IInv, TypeOK
  <2>2. \A q \in Requests : ~ Running(q) \/ q = r
    BY <1>2
  <2>3. ASSUME NEW q \in Requests, q # r PROVE RunsApart(q)' /\ CopiesHold(q)'
    <3>1. ~Running(q)' /\ pc'[q] = pc[q]
      BY <2>1, <2>2, <2>3 DEF Running
    <3> QED
      BY <3>1 DEF RunsApart, CopiesHold, Running, Ended
  <2>4. \A q \in Requests : Running(q)' => q = r
    BY <2>1, <2>2 DEF Running
  <2>5. In(r)' = In(r) /\ Lines(r)' = Lines(r)
    BY <2>1 DEF In, Lines, Want
  <2>6. RunsApart(r)'
    BY <1>2, <2>4, <2>5 DEF RunsApart
  <2>7. CopiesHold(r)'
    BY <1>2, <2>1, <2>5 DEF BooksInv, CopiesHold
  <2> QED
    BY <2>3, <2>6, <2>7
<1> QED
  BY <1>3, <1>4

-----------------------------------------------------------------------------
(* What the commits do to the books. *)

LEMMA PartType ==
  ASSUME NEW h, NEW o \in Requests, NEW i \in Items, h[o][i] \in Hold,
         h[o][i].status = "active" => h[o][i].used < h[o][i].qty
  PROVE  Parts(h, i)[o] \in Nat
<1>1. h[o][i].qty \in Nat /\ h[o][i].used \in Nat
  BY DEF Hold
<1>2. h[o][i].status = "active" => Remaining(h[o][i]) \in Nat
  BY <1>1 DEF Remaining
<1> QED
  BY <1>2 DEF Parts

LEMMA HoldingTypes ==
  ASSUME TypeOK, HoldsAreOrders, NEW o \in Requests, NEW i \in Items
  PROVE  Holding(o, i) \in Nat /\ Holding(o, i) = Parts(holds, i)[o]
<1>1. Holding(o, i) = Parts(holds, i)[o]
  BY DEF Holding, Parts
<1>2. holds[o][i] \in Hold
  BY DEF TypeOK
<1>3. Parts(holds, i)[o] \in Nat
  BY <1>2, PartType DEF HoldsAreOrders
<1> QED
  BY <1>1, <1>3

\* No order holds more of an item than is reserved of it.
LEMMA HeldIsReserved ==
  ASSUME IceCrestAssumption, TypeOK, BooksInv, NEW o \in Requests, NEW i \in Items
  PROVE  Holding(o, i) <= stock[i].reserved
<1>1. \A p \in Requests : Parts(holds, i)[p] \in Nat
  BY HoldingTypes DEF BooksInv
<1>2. Parts(holds, i)[o] <= Sum(Parts(holds, i), Requests)
  BY <1>1, PartOfSum DEF IceCrestAssumption
<1> QED
  BY <1>2, HoldingTypes DEF BooksInv, ReservedAddsUp

\* When one order's reservation changes, what all hold changes by as much.
LEMMA HeldChange ==
  ASSUME IceCrestAssumption, TypeOK, HoldsAreOrders, TypeOK', HoldsAreOrders',
         NEW o \in Requests, NEW i \in Items,
         \A p \in Requests \ {o} : holds'[p] = holds[p]
  PROVE  Sum(Parts(holds', i), Requests)
           = Sum(Parts(holds, i), Requests) + Holding(o, i)' - Holding(o, i)
<1> DEFINE old == Parts(holds, i)
           new == Parts(holds', i)
<1>1. \A p \in Requests : old[p] \in Int /\ new[p] \in Int
  <2>1. \A p \in Requests : old[p] \in Nat
    BY HoldingTypes
  <2>2. ASSUME NEW p \in Requests PROVE new[p] \in Nat
    <3>1. holds'[p][i] \in Hold
      BY DEF TypeOK
    <3>2. holds'[p][i].status = "active" => holds'[p][i].used < holds'[p][i].qty
      BY DEF HoldsAreOrders
    <3> QED
      BY <3>1, <3>2, PartType
  <2> QED
    BY <2>1, <2>2
<1>2. \A p \in Requests \ {o} : new[p] = old[p]
  BY DEF Parts
<1>3. old[o] = Holding(o, i) /\ new[o] = Holding(o, i)'
  BY DEF Holding, Parts
<1> HIDE DEF old, new
<1>4. Sum(new, Requests) = Sum(old, Requests) + new[o] - old[o]
  BY <1>1, <1>2, SumChange DEF IceCrestAssumption
<1> QED
  BY <1>3, <1>4 DEF old, new
\* An order reserves what it asks for, out of what is free, and held nothing before.
LEMMA OrderEffect ==
  ASSUME IceCrestAssumption, IInv, BooksInv, NEW r \in Requests, CommitOrder(r)
  PROVE  /\ order[r] = "none" /\ holds[r] = NoHolds /\ order' = [order EXCEPT ![r] = "confirmed"]
         /\ \A o \in Requests \ {r} : holds'[o] = holds[o]
         /\ \A i \in Items :
              /\ holds'[r][i].status = "active" <=> i \in Lines(r)
              /\ holds'[r][i].status = "active" => holds'[r][i].used < holds'[r][i].qty
              /\ Holding(r, i) = 0 /\ Holding(r, i)' = Want(r)[i]
              /\ stock'[i].reserved = stock[i].reserved + Want(r)[i]
              /\ stock'[i].quantity = stock[i].quantity
              /\ i \in Lines(r) => Want(r)[i] <= stock[i].quantity - stock[i].reserved
              /\ i \notin Lines(r) => Want(r)[i] = 0
         /\ Lines(r) # {} /\ Lines(r) \subseteq Items
<1>1. /\ AllLocked(r) /\ In(r) = "order" /\ pc[r] = "lock"
      /\ stock' = [i \in Items |-> IF i \notin Lines(r) THEN stock[i]
           ELSE [mine[r][i] EXCEPT !.reserved = @ + Want(r)[i]]]
      /\ holds' = [holds EXCEPT ![r] = [i \in Items |-> IF i \notin Lines(r) THEN NoHold
           ELSE [status |-> "active", qty |-> Want(r)[i], used |-> 0]]]
      /\ order' = [order EXCEPT ![r] = "confirmed"]
  BY DEF CommitOrder, AllLocked
<1>2. order[r] = "none" /\ holds[r] = NoHolds /\ Lines(r) # {} /\ Lines(r) \subseteq Items
  BY <1>1, JobTypes DEF IInv, Holds, OrderIsDone, BooksInv, HoldsAreOrders, CopiesHold
<1>3. \A i \in Lines(r) : mine[r][i] = stock[i] /\ Enough(r, i)
  BY <1>1, <1>2, AllAreLocked DEF Touched, Transactional, IInv, Holds, LocksHold
<1>4. \A i \in Items : stock[i] \in Row /\ Want(r)[i] \in Nat
  BY JobTypes DEF IInv
<1>5. ASSUME NEW i \in Items
      PROVE  /\ holds'[r][i] = IF i \notin Lines(r) THEN NoHold
                               ELSE [status |-> "active", qty |-> Want(r)[i], used |-> 0]
             /\ holds[r][i] = NoHold
  BY <1>1, <1>2 DEF IInv, TypeOK, NoHolds
<1>6. ASSUME NEW i \in Items
      PROVE  i \notin Lines(r) => Want(r)[i] = 0
  BY <1>4, <1>6 DEF Lines, Named
<1>7. ASSUME NEW i \in Items
      PROVE  /\ stock'[i].reserved = stock[i].reserved + Want(r)[i]
             /\ stock'[i].quantity = stock[i].quantity
             /\ i \in Lines(r) => Want(r)[i] <= stock[i].quantity - stock[i].reserved
  <2>1. CASE i \in Lines(r)
    <3>1. stock'[i] = [stock[i] EXCEPT !.reserved = @ + Want(r)[i]]
      BY <1>1, <1>3, <2>1
    <3>2. Want(r)[i] <= stock[i].quantity - stock[i].reserved
      BY <1>1, <1>3, <1>4, <2>1 DEF Enough, Unreserved, Row
    <3> QED
      BY <1>4, <3>1, <3>2 DEF Row
  <2>2. CASE i \notin Lines(r)
    <3>1. stock'[i] = stock[i] /\ Want(r)[i] = 0
      BY <1>1, <1>6, <2>2
    <3> QED
      BY <1>4, <2>2, <3>1 DEF Row
  <2> QED
    BY <2>1, <2>2
<1>8. ASSUME NEW i \in Items
      PROVE  /\ holds'[r][i].status = "active" <=> i \in Lines(r)
             /\ holds'[r][i].status = "active" => holds'[r][i].used < holds'[r][i].qty
             /\ Holding(r, i) = 0 /\ Holding(r, i)' = Want(r)[i]
  <2>0. holds[r][i] = NoHold
    BY <1>5
  <2>1. holds[r][i].status = "none" /\ Holding(r, i) = 0
    BY <2>0 DEF Holding, NoHold
  <2>2. CASE i \in Lines(r)
    <3>1. holds'[r][i] = [status |-> "active", qty |-> Want(r)[i], used |-> 0] /\ Want(r)[i] > 0
      BY <1>5, <2>2 DEF Lines, Named
    <3>2. Holding(r, i)' = Want(r)[i] - 0
      BY <3>1 DEF Holding, Remaining
    <3> QED
      BY <1>4, <2>1, <2>2, <3>1, <3>2
  <2>3. CASE i \notin Lines(r)
    <3>1. holds'[r][i] = NoHold /\ Want(r)[i] = 0
      BY <1>5, <1>6, <2>3
    <3>2. holds'[r][i].status = "none" /\ Holding(r, i)' = 0
      BY <3>1 DEF Holding, NoHold
    <3> QED
      BY <2>1, <2>3, <3>1, <3>2
  <2> QED
    BY <2>2, <2>3
<1>9. \A o \in Requests \ {r} : holds'[o] = holds[o]
  BY <1>1
<1> QED
  BY <1>1, <1>2, <1>6, <1>7, <1>8, <1>9

\* A direct invoice takes what is free.
LEMMA InvoiceEffect ==
  ASSUME IceCrestAssumption, IInv, NEW r \in Requests, CommitInvoice(r)
  PROVE  /\ UNCHANGED <<holds, order>>
         /\ \A i \in Items :
              /\ stock'[i].reserved = stock[i].reserved
              /\ stock'[i].quantity = stock[i].quantity - Want(r)[i]
              /\ i \in Lines(r) => Want(r)[i] <= stock[i].quantity - stock[i].reserved
              /\ i \notin Lines(r) => Want(r)[i] = 0
<1>1. /\ AllLocked(r) /\ In(r) = "invoice"
      /\ stock' = [i \in Items |-> IF i \in Lines(r) THEN Out(mine[r][i], Want(r)[i])
                                                    ELSE stock[i]]
      /\ UNCHANGED <<holds, order>>
  BY DEF CommitInvoice
<1>2. \A i \in Lines(r) : mine[r][i] = stock[i] /\ Enough(r, i)
  BY <1>1, AllAreLocked DEF Touched, Transactional, IInv, Holds, LocksHold
<1>3. \A i \in Items : stock[i] \in Row /\ Want(r)[i] \in Nat
  BY JobTypes DEF IInv
<1>4. ASSUME NEW i \in Items
      PROVE  /\ stock'[i].reserved = stock[i].reserved
             /\ stock'[i].quantity = stock[i].quantity - Want(r)[i]
             /\ i \in Lines(r) => Want(r)[i] <= stock[i].quantity - stock[i].reserved
             /\ i \notin Lines(r) => Want(r)[i] = 0
  <2>1. CASE i \in Lines(r)
    <3>1. stock'[i] = Out(stock[i], Want(r)[i])
      BY <1>1, <1>2, <2>1
    <3>2. Want(r)[i] <= stock[i].quantity - stock[i].reserved
      BY <1>1, <1>2, <1>3, <2>1 DEF Enough, Unreserved, Row
    <3> QED
      BY <1>3, <2>1, <3>1, <3>2 DEF Row, Out
  <2>2. CASE i \notin Lines(r)
    <3>1. stock'[i] = stock[i] /\ Want(r)[i] = 0
      BY <1>1, <1>3, <2>2 DEF Lines, Named
    <3> QED
      BY <1>3, <2>2, <3>1 DEF Row
  <2> QED
    BY <2>1, <2>2
<1> QED
  BY <1>1, <1>4

\* An invoice for an order takes from what the order holds, and leaves it confirmed
\* as long as it holds anything.
LEMMA OrderInvoiceEffect ==
  ASSUME IceCrestAssumption, IInv, BooksInv, NEW r \in Requests,
         CommitOrderInvoice(r), ~ Abort(r)
  PROVE  \E o \in Orders :
           /\ \A p \in Requests \ {o} : holds'[p] = holds[p] /\ order'[p] = order[p]
           /\ order'[o] = IF AllTaken(holds'[o]) THEN "invoiced" ELSE order[o]
           /\ \A i \in Items :
                /\ holds'[o][i].status = "active" =>
                     holds[o][i].status = "active" /\ holds'[o][i].used < holds'[o][i].qty
                /\ Holding(o, i)' = Holding(o, i) - Want(r)[i]
                /\ Want(r)[i] <= Holding(o, i)
                /\ stock'[i].reserved = stock[i].reserved - Want(r)[i]
                /\ stock'[i].quantity = stock[i].quantity - Want(r)[i]
<1>0. PICK o \in Orders : o = job[r].of
  BY AllAreLocked DEF CommitOrderInvoice, AllLocked
<1> DEFINE after == [i \in Items |-> IF i \in Lines(r) THEN Consume(held[r][i], Want(r)[i])
                                                       ELSE held[r][i]]
<1>1. /\ AllLocked(r) /\ In(r) = "orderInvoice" /\ pc[r] = "lock"
      /\ o \notin stale[r]
      /\ stock' = [i \in Items |-> IF i \in Lines(r)
                     THEN OutOfReserve(mine[r][i], Want(r)[i]) ELSE stock[i]]
      /\ holds' = [holds EXCEPT ![o] = [i \in Items |-> IF i \in Lines(r) THEN after[i] ELSE @[i]]]
      /\ order' = [order EXCEPT ![o] = IF AllTaken(after) THEN "invoiced" ELSE @]
  BY <1>0 DEF CommitOrderInvoice, AllLocked, NoSkew
<1>2. o \in Orders /\ o \in Requests /\ held[r] = holds[o]
  BY <1>0, <1>1 DEF Orders, BooksInv, CopiesHold
<1>3. \A i \in Lines(r) : mine[r][i] = stock[i] /\ Enough(r, i)
  BY <1>1, AllAreLocked DEF Touched, Transactional, IInv, Holds, LocksHold
<1>4. \A i \in Items : stock[i] \in Row /\ Want(r)[i] \in Nat /\ holds[o][i] \in Hold
  BY <1>2, JobTypes DEF IInv, TypeOK
<1>5. after \in [Items -> Hold]
  <2>1. \A i \in Items : Consume(held[r][i], Want(r)[i]) \in Hold /\ held[r][i] \in Hold
    BY JobTypes, HoldTypes DEF IInv
  <2> QED
    BY <2>1
<1>6. holds'[o] = after
  <2>1. holds'[o] = [i \in Items |-> IF i \in Lines(r) THEN after[i] ELSE holds[o][i]]
    BY <1>1, <1>2 DEF IInv, TypeOK
  <2>2. \A i \in Items \ Lines(r) : after[i] = holds[o][i]
    BY <1>2
  <2> QED
    BY <2>1, <2>2, <1>5
<1>7. order'[o] = IF AllTaken(holds'[o]) THEN "invoiced" ELSE order[o]
  BY <1>1, <1>2, <1>6 DEF IInv, TypeOK
<1>8. \A p \in Requests \ {o} : holds'[p] = holds[p] /\ order'[p] = order[p]
  BY <1>1, <1>2 DEF IInv, TypeOK
<1>9. ASSUME NEW i \in Items
      PROVE  /\ holds'[o][i].status = "active" =>
                  holds[o][i].status = "active" /\ holds'[o][i].used < holds'[o][i].qty
             /\ Holding(o, i)' = Holding(o, i) - Want(r)[i]
             /\ Want(r)[i] <= Holding(o, i)
             /\ stock'[i].reserved = stock[i].reserved - Want(r)[i]
             /\ stock'[i].quantity = stock[i].quantity - Want(r)[i]
  <2> DEFINE n == Want(r)[i]
             h == holds[o][i]
  <2>1. /\ n \in Nat /\ h.qty \in Nat /\ h.used \in Nat
        /\ stock[i].reserved \in Nat /\ stock[i].quantity \in Int
    BY <1>4 DEF Hold, Row
  <2>2. CASE i \in Lines(r)
    <3>1. /\ holds'[o][i] = Consume(h, n) /\ h.status = "active" /\ h.qty - h.used >= n
          /\ stock'[i] = OutOfReserve(stock[i], n)
      BY <1>1, <1>2, <1>3, <1>6, <2>2 DEF Enough, Reserved, Remaining
    <3>2. Holding(o, i) = h.qty - h.used
      BY <3>1 DEF Holding, Remaining
    <3>3. h.qty - h.used <= stock[i].reserved
      BY <1>2, <3>2, HeldIsReserved DEF IInv
    <3>4. /\ stock'[i].quantity = stock[i].quantity - n
          /\ stock'[i].reserved = AtLeastZero(stock[i].reserved - n)
      BY <3>1 DEF OutOfReserve
    <3>5. stock'[i].reserved = stock[i].reserved - n
      BY <2>1, <3>1, <3>3, <3>4 DEF AtLeastZero
    <3>6. /\ holds'[o][i].status = IF h.used + n >= h.qty THEN "consumed" ELSE "active"
          /\ holds'[o][i].qty = h.qty /\ holds'[o][i].used = h.used + n
      BY <3>1 DEF Consume
    <3>7. Holding(o, i)' = IF h.used + n >= h.qty THEN 0 ELSE h.qty - (h.used + n)
      BY <3>6 DEF Holding, Remaining
    <3>8. Holding(o, i)' = (h.qty - h.used) - n
      <4> HIDE DEF n, h
      <4> QED
        BY <2>1, <3>1, <3>7
    <3>9. holds'[o][i].status = "active" => holds'[o][i].used < holds'[o][i].qty
      <4> HIDE DEF n, h
      <4> QED
        BY <2>1, <3>6
    <3> QED
      BY <3>1, <3>2, <3>4, <3>5, <3>8, <3>9
  <2>3. CASE i \notin Lines(r)
    <3>1. n = 0 /\ stock'[i] = stock[i] /\ holds'[o][i] = h
      BY <1>1, <1>2, <1>6, <2>1, <2>3 DEF Lines, Named
    <3>2. Holding(o, i)' = Holding(o, i) /\ Holding(o, i) \in Nat
      BY <1>2, <3>1, HoldingTypes DEF Holding, BooksInv, IInv
    <3>3. h.status = "active" => h.used < h.qty
      BY <1>2 DEF BooksInv, HoldsAreOrders
    <3> QED
      BY <2>1, <3>1, <3>2, <3>3
  <2> QED
    BY <2>2, <2>3
<1> QED
  BY <1>2, <1>7, <1>8, <1>9

\* A cancellation gives up all the order holds.
LEMMA CancelEffect ==
  ASSUME IceCrestAssumption, IInv, BooksInv, NEW r \in Requests, CommitCancel(r)
  PROVE  \E o \in Orders :
           /\ \A p \in Requests \ {o} : holds'[p] = holds[p] /\ order'[p] = order[p]
           /\ order'[o] = "cancelled"
           /\ \A i \in Items :
                /\ holds'[o][i].status # "active" /\ Holding(o, i)' = 0
                /\ stock'[i].reserved = stock[i].reserved - Holding(o, i)
                /\ stock'[i].quantity = stock[i].quantity
<1>0. PICK o \in Orders : o = job[r].of
  BY AllAreLocked DEF CommitCancel, AllLocked
<1>1. /\ AllLocked(r) /\ In(r) = "cancel" /\ pc[r] = "lock"
      /\ stock' = [i \in Items |-> IF i \in Active(held[r])
           THEN Release(mine[r][i], Remaining(held[r][i])) ELSE stock[i]]
      /\ holds' = [holds EXCEPT ![o] = [i \in Items |-> IF i \in Active(held[r])
           THEN [held[r][i] EXCEPT !.status = "released"] ELSE @[i]]]
      /\ order' = [order EXCEPT ![o] = "cancelled"]
  BY <1>0 DEF CommitCancel, AllLocked
<1>2. o \in Orders /\ o \in Requests /\ held[r] = holds[o]
  BY <1>0, <1>1 DEF Orders, BooksInv, CopiesHold
<1>3. \A i \in Active(held[r]) : mine[r][i] = stock[i]
  BY <1>1, AllAreLocked DEF Touched, IInv, Holds, LocksHold
<1>4. /\ order'[o] = "cancelled"
      /\ \A p \in Requests \ {o} : holds'[p] = holds[p] /\ order'[p] = order[p]
  BY <1>1, <1>2 DEF IInv, TypeOK
<1>5. ASSUME NEW i \in Items
      PROVE  /\ holds'[o][i].status # "active" /\ Holding(o, i)' = 0
             /\ stock'[i].reserved = stock[i].reserved - Holding(o, i)
             /\ stock'[i].quantity = stock[i].quantity
  <2>1. /\ holds[o][i] \in Hold /\ stock[i] \in Row
        /\ Holding(o, i) \in Nat /\ Holding(o, i) <= stock[i].reserved
    BY <1>2, HoldingTypes, HeldIsReserved DEF IInv, TypeOK, BooksInv
  <2>2. stock[i].reserved \in Nat /\ stock[i].quantity \in Int
    BY <2>1 DEF Row
  <2>3. CASE i \in Active(held[r])
    <3>1. /\ holds'[o][i] = [holds[o][i] EXCEPT !.status = "released"]
          /\ holds[o][i].status = "active"
          /\ stock'[i] = Release(stock[i], Remaining(holds[o][i]))
      BY <1>1, <1>2, <1>3, <2>3 DEF IInv, TypeOK, Active
    <3>2. holds'[o][i].status = "released"
      BY <2>1, <3>1 DEF Hold
    <3>3. Holding(o, i) = Remaining(holds[o][i]) /\ Holding(o, i)' = 0
      BY <3>1, <3>2 DEF Holding
    <3>4. /\ stock'[i].quantity = stock[i].quantity
          /\ stock'[i].reserved = AtLeastZero(stock[i].reserved - Holding(o, i))
      BY <2>1, <3>1, <3>3 DEF Release, Row
    <3> QED
      BY <2>1, <2>2, <3>2, <3>3, <3>4 DEF AtLeastZero
  <2>4. CASE i \notin Active(held[r])
    <3>1. holds'[o][i] = holds[o][i] /\ holds[o][i].status # "active" /\ stock'[i] = stock[i]
      BY <1>1, <1>2, <2>4 DEF IInv, TypeOK, Active
    <3> QED
      BY <2>2, <3>1 DEF Holding
  <2> QED
    BY <2>3, <2>4
<1> QED
  BY <1>2, <1>4, <1>5
-----------------------------------------------------------------------------
(* The books stay in step. *)

BooksAgree == HoldsAreOrders /\ ReservedAddsUp /\ InvoicedWhenTaken

LEMMA BooksUntouched ==
  ASSUME BooksAgree, UNCHANGED <<holds, order>>,
         \A i \in Items : stock'[i].reserved = stock[i].reserved
  PROVE  BooksAgree'
<1>1. HoldsAreOrders' /\ InvoicedWhenTaken'
  BY DEF BooksAgree, HoldsAreOrders, InvoicedWhenTaken
<1>2. \A i \in Items : stock[i].reserved = Sum(Parts(holds, i), Requests)
  BY DEF BooksAgree, ReservedAddsUp
<1>3. holds' = holds
  OBVIOUS
<1>4. \A i \in Items : stock'[i].reserved = Sum(Parts(holds', i), Requests)
  BY <1>2, <1>3
<1> QED
  BY <1>1, <1>4 DEF BooksAgree, ReservedAddsUp

\* One order's reservation changes, and the reserved columns with it.
LEMMA OneOrderMoves ==
  ASSUME IceCrestAssumption, TypeOK, TypeOK', HoldsAreOrders, ReservedAddsUp, HoldsAreOrders',
         NEW o \in Requests, \A p \in Requests \ {o} : holds'[p] = holds[p],
         \A i \in Items :
           stock'[i].reserved = stock[i].reserved + Holding(o, i)' - Holding(o, i)
  PROVE  ReservedAddsUp'
<1> SUFFICES ASSUME NEW i \in Items
             PROVE  stock'[i].reserved = Sum(Parts(holds', i), Requests)
  BY DEF ReservedAddsUp
<1>1. Sum(Parts(holds', i), Requests)
        = Sum(Parts(holds, i), Requests) + Holding(o, i)' - Holding(o, i)
  BY HeldChange
<1>2. stock[i].reserved = Sum(Parts(holds, i), Requests)
  BY DEF ReservedAddsUp
<1>3. stock'[i].reserved = stock[i].reserved + Holding(o, i)' - Holding(o, i)
  OBVIOUS
<1> QED
  BY <1>1, <1>2, <1>3

LEMMA CommitBooks ==
  ASSUME IceCrestAssumption, IInv, BooksInv, TypeOK', NEW r \in Requests,
         CommitOrder(r) \/ CommitInvoice(r) \/ CommitOrderInvoice(r) \/ CommitCancel(r)
  PROVE  BooksAgree'
<1>0. TypeOK /\ BooksAgree /\ HoldsAreOrders /\ ReservedAddsUp /\ InvoicedWhenTaken
  BY DEF IInv, BooksInv, BooksAgree
<1>1. \A o \in Requests, i \in Items :
        /\ Holding(o, i) \in Nat
        /\ stock[i].reserved \in Nat /\ Want(r)[i] \in Nat
  BY <1>0, HoldingTypes, JobTypes DEF Row
<1>2. CASE CommitOrder(r)
  <2>1. /\ order' = [order EXCEPT ![r] = "confirmed"]
        /\ \A o \in Requests \ {r} : holds'[o] = holds[o]
        /\ \A i \in Items :
             /\ holds'[r][i].status = "active" <=> i \in Lines(r)
             /\ holds'[r][i].status = "active" => holds'[r][i].used < holds'[r][i].qty
        /\ Lines(r) # {} /\ Lines(r) \subseteq Items
    BY <1>2, OrderEffect
  <2>2. order'[r] = "confirmed" /\ \A o \in Requests \ {r} : order'[o] = order[o]
    BY <1>0, <2>1 DEF TypeOK
  <2>3. HoldsAreOrders'
    BY <1>0, <2>1, <2>2 DEF HoldsAreOrders
  <2>4. InvoicedWhenTaken'
    BY <1>0, <2>1, <2>2 DEF InvoicedWhenTaken
  <2>5. ASSUME NEW i \in Items
        PROVE  stock'[i].reserved = stock[i].reserved + Holding(r, i)' - Holding(r, i)
    <3>1. /\ Holding(r, i) = 0 /\ Holding(r, i)' = Want(r)[i]
          /\ stock'[i].reserved = stock[i].reserved + Want(r)[i]
      BY <1>2, OrderEffect
    <3> QED
      BY <1>1, <3>1
  <2>6. ReservedAddsUp'
    BY <1>0, <2>1, <2>3, <2>5, OneOrderMoves
  <2> QED
    BY <2>3, <2>4, <2>6 DEF BooksAgree
<1>3. CASE CommitInvoice(r)
  BY <1>0, <1>3, InvoiceEffect, BooksUntouched
<1>4. CASE CommitOrderInvoice(r) /\ ~ Abort(r)
  <2>1. PICK o \in Orders :
           /\ \A p \in Requests \ {o} : holds'[p] = holds[p] /\ order'[p] = order[p]
           /\ order'[o] = IF AllTaken(holds'[o]) THEN "invoiced" ELSE order[o]
           /\ \A i \in Items :
                /\ holds'[o][i].status = "active" =>
                     holds[o][i].status = "active" /\ holds'[o][i].used < holds'[o][i].qty
                /\ Holding(o, i)' = Holding(o, i) - Want(r)[i]
                /\ stock'[i].reserved = stock[i].reserved - Want(r)[i]
    BY <1>4, OrderInvoiceEffect
  <2>2. o \in Requests /\ order[o] # "none" /\ order'[o] # "none"
    BY <2>1 DEF Orders
  <2>3. HoldsAreOrders'
    BY <1>0, <2>1, <2>2 DEF HoldsAreOrders
  <2>4. order'[o] = "confirmed" <=> \E i \in Items : holds'[o][i].status = "active"
    <3>1. CASE AllTaken(holds'[o])
      BY <2>1, <3>1 DEF AllTaken
    <3>2. CASE ~ AllTaken(holds'[o])
      <4>1. PICK i \in Items : holds'[o][i].status = "active"
        BY <3>2 DEF AllTaken
      <4>2. order[o] = "confirmed"
        BY <1>0, <2>1, <2>2, <4>1 DEF InvoicedWhenTaken
      <4> QED
        BY <2>1, <3>2, <4>1, <4>2
    <3> QED
      BY <3>1, <3>2
  <2>5. InvoicedWhenTaken'
    BY <1>0, <2>1, <2>4 DEF InvoicedWhenTaken
  <2>6. ASSUME NEW i \in Items
        PROVE  stock'[i].reserved = stock[i].reserved + Holding(o, i)' - Holding(o, i)
    <3>1. /\ Holding(o, i)' = Holding(o, i) - Want(r)[i]
          /\ stock'[i].reserved = stock[i].reserved - Want(r)[i]
      BY <2>1
    <3> QED
      BY <1>1, <2>2, <3>1
  <2>7. ReservedAddsUp'
    BY <1>0, <2>1, <2>2, <2>3, <2>6, OneOrderMoves
  <2> QED
    BY <2>3, <2>5, <2>7 DEF BooksAgree
<1>5. CASE CommitCancel(r)
  <2>1. PICK o \in Orders :
           /\ \A p \in Requests \ {o} : holds'[p] = holds[p] /\ order'[p] = order[p]
           /\ order'[o] = "cancelled"
           /\ \A i \in Items :
                /\ holds'[o][i].status # "active" /\ Holding(o, i)' = 0
                /\ stock'[i].reserved = stock[i].reserved - Holding(o, i)
    BY <1>5, CancelEffect
  <2>2. o \in Requests
    BY DEF Orders
  <2>3. HoldsAreOrders'
    BY <1>0, <2>1, <2>2 DEF HoldsAreOrders
  <2>4. InvoicedWhenTaken'
    BY <1>0, <2>1, <2>2 DEF InvoicedWhenTaken
  <2>5. ASSUME NEW i \in Items
        PROVE  stock'[i].reserved = stock[i].reserved + Holding(o, i)' - Holding(o, i)
    <3>1. /\ Holding(o, i)' = 0
          /\ stock'[i].reserved = stock[i].reserved - Holding(o, i)
      BY <2>1
    <3> QED
      BY <1>1, <2>2, <3>1
  <2>6. ReservedAddsUp'
    BY <1>0, <2>1, <2>2, <2>3, <2>5, OneOrderMoves
  <2> QED
    BY <2>3, <2>4, <2>6 DEF BooksAgree
<1>6. CASE Abort(r)
  BY <1>0, <1>6, BooksUntouched DEF Abort, db
<1> QED
  BY <1>2, <1>3, <1>4, <1>5, <1>6

LEMMA CommitApart ==
  ASSUME IceCrestAssumption, IInv, BooksInv, NEW r \in Requests,
         CommitOrder(r) \/ CommitInvoice(r) \/ CommitOrderInvoice(r) \/ CommitCancel(r)
  PROVE  \A q \in Requests : RunsApart(q)' /\ CopiesHold(q)'
<1>1. AllLocked(r) /\ Running(r) /\ r \notin Orders
  BY DEF AllLocked, CommitOrder, CommitInvoice, CommitOrderInvoice, CommitCancel, Running, Ended,
         IInv, Holds, OrderIsDone, Orders
<1>2. In(r) \in {"orderInvoice", "cancel"} => job[r].of \in Requests
  BY <1>1, AllAreLocked DEF Orders
<1>3. CASE CommitOrder(r)
  <2>1. Finish(r, "done", Lines(r)) /\ \A o \in Orders \ Lines(r) : holds'[o] = holds[o]
    BY <1>1, <1>3, OrderEffect DEF CommitOrder, Orders
  <2> QED
    BY <1>1, <2>1, FinishApart DEF Ended
<1>4. CASE CommitInvoice(r)
  <2>1. Finish(r, "done", Lines(r)) /\ holds' = holds
    BY <1>4 DEF CommitInvoice
  <2> QED
    BY <1>1, <2>1, FinishApart DEF Ended
<1>5. CASE CommitOrderInvoice(r) /\ ~ Abort(r)
  <2>1. /\ Finish(r, "done", Lines(r) \cup {job[r].of})
        /\ \A o \in Requests \ {job[r].of} : holds'[o] = holds[o]
    BY <1>2, <1>5 DEF CommitOrderInvoice, IInv, TypeOK
  <2>2. \A o \in Orders \ (Lines(r) \cup {job[r].of}) : holds'[o] = holds[o]
    BY <2>1 DEF Orders
  <2> QED
    BY <1>1, <2>1, <2>2, FinishApart DEF Ended
<1>6. CASE CommitCancel(r)
  <2>1. /\ Finish(r, "done", Active(held[r]) \cup {job[r].of})
        /\ \A o \in Requests \ {job[r].of} : holds'[o] = holds[o]
    BY <1>2, <1>6 DEF CommitCancel, IInv, TypeOK
  <2>2. \A o \in Orders \ (Active(held[r]) \cup {job[r].of}) : holds'[o] = holds[o]
    BY <2>1 DEF Orders
  <2> QED
    BY <1>1, <2>1, <2>2, FinishApart DEF Ended
<1>7. CASE Abort(r)
  BY <1>1, <1>7, AbortApart
<1> QED
  BY <1>3, <1>4, <1>5, <1>6, <1>7

\* Steps that leave the books alone.
LEMMA StillBooks ==
  ASSUME BooksInv, NEW r \in Requests,
         \/ Start(r) \/ LockStock(r) \/ LockHeld(r) \/ LoadForSave(r) \/ RecordMovement(r)
         \/ RolledBack(r)
  PROVE  BooksAgree' /\ UNCHANGED <<stock, holds, order>>
<1>1. UNCHANGED <<stock, holds, order>>
  BY DEF Start, PlaceOrder, Invoice, InvoiceOrder, CancelOrder, EnterMovement, Begin, Abort,
         LockStock, LockHeld, LoadForSave, RecordMovement, RolledBack, db
<1> QED
  BY <1>1, BooksUntouched DEF BooksInv, BooksAgree

LEMMA BooksInductive ==
  ASSUME IceCrestAssumption, OthersRunAlone, IInv, TypeOK', BooksInv, [Next]_vars
  PROVE  BooksInv'
<1> SUFFICES (\A q \in Requests : RunsApart(q)' /\ CopiesHold(q)') /\ BooksAgree'
  BY DEF BooksInv, BooksAgree
<1>1. CASE UNCHANGED vars
  <2>1. \A q \in Requests : RunsApart(q)' /\ CopiesHold(q)'
    BY <1>1 DEF BooksInv, RunsApart, CopiesHold, Running, In, Lines, Want, vars
  <2> QED
    BY <1>1, <2>1, BooksUntouched DEF vars, BooksInv, BooksAgree
<1>2. ASSUME NEW r \in Requests, Start(r)
      PROVE  (\A q \in Requests : RunsApart(q)' /\ CopiesHold(q)') /\ BooksAgree'
  BY <1>2, StartApart, StillBooks
<1>3. ASSUME NEW r \in Requests, Step(r)
      PROVE  (\A q \in Requests : RunsApart(q)' /\ CopiesHold(q)') /\ BooksAgree'
  <2>1. CASE LockStock(r) \/ LockHeld(r)
    BY <2>1, LockApart, StillBooks
  <2>2. CASE CommitOrder(r) \/ CommitInvoice(r) \/ CommitOrderInvoice(r) \/ CommitCancel(r)
    BY <2>2, CommitApart, CommitBooks
  <2>3. CASE LoadForSave(r) \/ RecordMovement(r)
    BY <2>3, MovementApart, StillBooks
  <2>4. CASE WriteStock(r)
    <3>1. UNCHANGED <<holds, order>> /\ \A i \in Items : stock'[i].reserved = stock[i].reserved
      BY <2>4, MovementEffect
    <3> QED
      BY <2>4, <3>1, MovementApart, BooksUntouched DEF BooksInv, BooksAgree
  <2>5. CASE RolledBack(r)
    <3>1. Abort(r) /\ Running(r)
      BY <2>5 DEF RolledBack, Running, Ended
    <3> QED
      BY <2>5, <3>1, AbortApart, StillBooks
  <2> QED
    BY <1>3, <2>1, <2>2, <2>3, <2>4, <2>5 DEF Step
<1> QED
  BY <1>1, <1>2, <1>3 DEF Next, Over

LEMMA BooksInitially ==
  ASSUME IceCrestAssumption, Init
  PROVE  BooksInv
<1>1. \A r \in Requests : RunsApart(r) /\ CopiesHold(r)
  BY DEF Init, RunsApart, CopiesHold, Running
<1>2. ASSUME NEW o \in Requests, NEW i \in Items
      PROVE  holds[o] = NoHolds /\ holds[o][i].status = "none" /\ order[o] = "none"
  BY DEF Init, NoHolds, NoHold
<1>3. HoldsAreOrders /\ InvoicedWhenTaken
  <2>1. HoldsAreOrders
    BY <1>2 DEF HoldsAreOrders, Init
  <2>2. \A o \in Requests : order[o] # "confirmed"
    BY DEF Init
  <2>3. \A o \in Requests, i \in Items : holds[o][i].status # "active"
    BY <1>2
  <2> QED
    BY <2>1, <2>2, <2>3 DEF InvoicedWhenTaken
<1>4. ASSUME NEW i \in Items PROVE stock[i].reserved = Sum(Parts(holds, i), Requests)
  <2>1. \A o \in Requests : Parts(holds, i)[o] = 0
    BY <1>2 DEF Parts
  <2>2. Sum(Parts(holds, i), Requests) = 0
    BY <2>1, SumOfNothing DEF IceCrestAssumption
  <2> QED
    BY <2>2 DEF Init
<1> QED
  BY <1>1, <1>3, <1>4 DEF BooksInv, ReservedAddsUp

\* Where cancellations and movements run by themselves the books agree, in every
\* reachable state, with any number of orders and invoices overlapping.
THEOREM BooksInvariance ==
  ASSUME OthersRunAlone
  PROVE  Spec => []BooksInv
<1>1. Init => BooksInv
  BY IceCrestAssumption, BooksInitially
<1>2. IInv /\ IInv' /\ BooksInv /\ [Next]_vars => BooksInv'
  BY IceCrestAssumption, BooksInductive DEF IInv
<1> QED
  BY <1>1, <1>2, Invariance, PTL DEF Spec

\* The sum of the property is the sum of the theorems about sums.
LEMMA HeldSum ==
  ASSUME IceCrestAssumption, NEW i \in Items
  PROVE  MapThenSumSet(LAMBDA o : Holding(o, i), Requests) = Sum(Parts(holds, i), Requests)
<1> DEFINE val == Parts(holds, i)
           IsFold(g) == g = [s \in SUBSET Requests |->
             IF s = {} THEN 0
             ELSE Holding(CHOOSE x \in s : TRUE, i) + g[s \ {CHOOSE x \in s : TRUE}]]
           fold == CHOOSE g : IsFold(g)
<1>1. MapThenSumSet(LAMBDA o : Holding(o, i), Requests) = fold[Requests]
  BY DEF MapThenSumSet, MapThenFoldSet
<1>2. ASSUME NEW g PROVE IsFold(g) <=> AddsUp(val, Requests, g)
  <2>1. ASSUME NEW s \in SUBSET Requests, s # {}
        PROVE  val[CHOOSE x \in s : TRUE] = Holding(CHOOSE x \in s : TRUE, i)
    <3>1. (CHOOSE x \in s : TRUE) \in Requests
      BY <2>1
    <3> QED
      BY <3>1 DEF Parts, Holding
  <2> HIDE DEF val
  <2> QED
    BY <2>1 DEF AddsUp, Pick
<1>3. IsFiniteSet(Requests)
  BY DEF IceCrestAssumption
<1>4. AddsUp(val, Requests, Partial(val, Requests))
  BY <1>3, PartialAddsUp
<1> HIDE DEF IsFold, val
<1>5. IsFold(fold)
  BY <1>2, <1>4
<1>6. AddsUp(val, Requests, fold)
  BY <1>2, <1>5
<1> HIDE DEF fold
<1>7. fold[Requests] = Partial(val, Requests)[Requests]
  BY <1>3, <1>4, <1>6, AddsUpOnce
<1> QED
  BY <1>1, <1>7 DEF Sum, val

\* The reserved column of each item is what the active reservations still hold of it,
\* for any number of overlapping orders and invoices: no reservation is lost, released
\* twice or left behind by a rollback.
THEOREM ReservedIsWhatIsHeld ==
  ASSUME OthersRunAlone
  PROVE  Spec => []ReservedIsHeld
<1>1. ASSUME IceCrestAssumption, BooksInv PROVE ReservedIsHeld
  BY <1>1, HeldSum DEF BooksInv, ReservedAddsUp, ReservedIsHeld
<1>2. IceCrestAssumption
  BY IceCrestAssumption
<1> QED
  BY <1>1, <1>2, BooksInvariance, PTL

\* An order is confirmed exactly as long as it has an active reservation, though each
\* of its invoices decides from the reservations it read.
THEOREM OrdersEndWhenTaken ==
  ASSUME OthersRunAlone
  PROVE  Spec => []InvoicedWhenTaken
<1>1. BooksInv => InvoicedWhenTaken
  BY DEF BooksInv
<1> QED
  BY <1>1, BooksInvariance, PTL
-----------------------------------------------------------------------------
(* Orders and invoices, however they overlap, implement StockBook, where no   *)
(* stock goes out by hand.                                                    *)

\* The steps that change what StockBook sees.
Writes(r) ==
  CommitOrder(r) \/ CommitInvoice(r) \/ (CommitOrderInvoice(r) /\ ~Abort(r)) \/ CommitCancel(r)
    \/ WriteStock(r)

LEMMA WritersOnly ==
  ASSUME [Next]_vars
  PROVE  UNCHANGED <<stock, holds, order>> \/ \E r \in Requests : Writes(r)
<1>1. CASE UNCHANGED vars
  BY <1>1 DEF vars
<1>2. ASSUME NEW r \in Requests, Start(r) \/ Step(r), ~Writes(r)
      PROVE  UNCHANGED <<stock, holds, order>>
  <2>1. CASE Start(r)
    BY <2>1 DEF Start, PlaceOrder, Invoice, InvoiceOrder, CancelOrder, EnterMovement, Begin,
       Abort, db
  <2>2. CASE Step(r)
    BY <1>2, <2>2 DEF Step, Writes, Abort, LockStock, LockHeld, LoadForSave, RecordMovement,
       RolledBack, db
  <2> QED
    BY <1>2, <2>1, <2>2
<1> QED
  BY <1>1, <1>2 DEF Next, Over

LEMMA EnoughInductive ==
  ASSUME IceCrestAssumption, "outward" \notin Kinds, IInv, BooksInv, EnoughForAll, [Next]_vars
  PROVE  EnoughForAll'
<1>1. CASE UNCHANGED <<stock, holds, order>>
  BY <1>1 DEF EnoughForAll
<1>2. ASSUME NEW r \in Requests, Writes(r) PROVE EnoughForAll'
  <2> SUFFICES ASSUME NEW i \in Items PROVE stock'[i].reserved <= stock'[i].quantity
    BY DEF EnoughForAll
  <2>1. /\ stock[i].reserved <= stock[i].quantity
        /\ stock[i].reserved \in Nat /\ stock[i].quantity \in Int /\ Want(r)[i] \in Nat
    BY JobTypes DEF EnoughForAll, IInv, Row
  <2>2. CASE CommitOrder(r)
    <3>1. /\ stock'[i].reserved = stock[i].reserved + Want(r)[i]
          /\ stock'[i].quantity = stock[i].quantity
          /\ i \in Lines(r) => Want(r)[i] <= stock[i].quantity - stock[i].reserved
          /\ i \notin Lines(r) => Want(r)[i] = 0
      BY <2>2, OrderEffect
    <3> QED
      BY <2>1, <3>1
  <2>3. CASE CommitInvoice(r)
    <3>1. /\ stock'[i].reserved = stock[i].reserved
          /\ stock'[i].quantity = stock[i].quantity - Want(r)[i]
          /\ i \in Lines(r) => Want(r)[i] <= stock[i].quantity - stock[i].reserved
          /\ i \notin Lines(r) => Want(r)[i] = 0
      BY <2>3, InvoiceEffect
    <3> QED
      BY <2>1, <3>1
  <2>4. CASE CommitOrderInvoice(r) /\ ~ Abort(r)
    <3>1. /\ stock'[i].reserved = stock[i].reserved - Want(r)[i]
          /\ stock'[i].quantity = stock[i].quantity - Want(r)[i]
      BY <2>4, OrderInvoiceEffect
    <3> QED
      BY <2>1, <3>1
  <2>5. CASE CommitCancel(r)
    <3>1. PICK o \in Orders : /\ stock'[i].reserved = stock[i].reserved - Holding(o, i)
                              /\ stock'[i].quantity = stock[i].quantity
      BY <2>5, CancelEffect
    <3>2. Holding(o, i) \in Nat
      BY HoldingTypes DEF Orders, IInv, BooksInv
    <3> QED
      BY <2>1, <3>1, <3>2
  <2>6. CASE WriteStock(r)
    <3>1. PICK j \in Items, n \in Nat :
              /\ stock'[j].reserved = stock[j].reserved
              /\ stock'[j].quantity = stock[j].quantity + n
              /\ \A k \in Items \ {j} : stock'[k] = stock[k]
      BY <2>6, MovementEffect
    <3>2. stock[j].quantity \in Int /\ stock[j].reserved <= stock[j].quantity
          /\ stock[j].reserved \in Nat
      BY JobTypes DEF EnoughForAll, IInv, Row
    <3>3. CASE i = j
      BY <3>1, <3>2, <3>3
    <3>4. CASE i # j
      BY <2>1, <3>1, <3>4
    <3> QED
      BY <3>3, <3>4
  <2> QED
    BY <1>2, <2>2, <2>3, <2>4, <2>5, <2>6 DEF Writes
<1> QED
  BY <1>1, <1>2, WritersOnly

\* What StockBook sees.
Quantity == [i \in Items |-> stock[i].quantity]
Promised == [o \in Requests |-> [i \in Items |-> Holding(o, i)]]

LEMMA FreeIsUnreserved ==
  ASSUME IceCrestAssumption, ReservedAddsUp, NEW i \in Items
  PROVE  Book!Free(i) = stock[i].quantity - stock[i].reserved
<1> DEFINE val == Parts(holds, i)
           IsFold(g) == g = [s \in SUBSET Requests |->
             IF s = {} THEN 0
             ELSE Promised[CHOOSE x \in s : TRUE][i] + g[s \ {CHOOSE x \in s : TRUE}]]
           fold == CHOOSE g : IsFold(g)
<1>1. Book!Free(i) = Quantity[i] - fold[Requests]
  BY DEF Book!Free, Book!MapThenSumSet, Book!MapThenFoldSet, Quantity, Promised
<1>2. ASSUME NEW g PROVE IsFold(g) <=> AddsUp(val, Requests, g)
  <2>1. ASSUME NEW s \in SUBSET Requests, s # {}
        PROVE  val[CHOOSE x \in s : TRUE] = Promised[CHOOSE x \in s : TRUE][i]
    <3>1. (CHOOSE x \in s : TRUE) \in Requests
      BY <2>1
    <3> QED
      BY <3>1 DEF Parts, Promised, Holding
  <2> HIDE DEF val
  <2> QED
    BY <2>1 DEF AddsUp, Pick
<1>3. IsFiniteSet(Requests)
  BY DEF IceCrestAssumption
<1>4. AddsUp(val, Requests, Partial(val, Requests))
  BY <1>3, PartialAddsUp
<1> HIDE DEF IsFold, val
<1>5. IsFold(fold)
  BY <1>2, <1>4
<1>6. AddsUp(val, Requests, fold)
  BY <1>2, <1>5
<1> HIDE DEF fold
<1>7. fold[Requests] = Partial(val, Requests)[Requests]
  BY <1>3, <1>4, <1>6, AddsUpOnce
<1>8. stock[i].reserved = fold[Requests]
  BY <1>7 DEF ReservedAddsUp, Sum, val
<1> QED
  BY <1>1, <1>8 DEF Quantity

LEMMA StepsAreBookSteps ==
  ASSUME IceCrestAssumption, "outward" \notin Kinds, IInv, TypeOK', BooksInv, BooksInv',
         EnoughForAll, [Next]_vars
  PROVE  [Book!BookNext]_(Book!bookVars)
<1>1. CASE UNCHANGED <<stock, holds, order>>
  <2>1. Book!bookVars' = Book!bookVars
    BY <1>1 DEF Book!bookVars, Holding
  <2> QED
    BY <2>1
<1>2. ASSUME NEW r \in Requests, Writes(r) PROVE Book!BookNext
  <2>1. ASSUME NEW i \in Items
        PROVE  /\ Book!Free(i) = stock[i].quantity - stock[i].reserved
               /\ stock[i].quantity \in Int /\ stock[i].reserved \in Nat
               /\ stock[i].reserved <= stock[i].quantity /\ Want(r)[i] \in Nat
               /\ \A o \in Requests : Holding(o, i) \in Nat
    BY FreeIsUnreserved, JobTypes, HoldingTypes DEF BooksInv, EnoughForAll, IInv, Row
  <2>2. /\ \A i \in Items : Quantity[i] = stock[i].quantity /\ Quantity'[i] = stock'[i].quantity
        /\ \A o \in Requests, i \in Items :
             Promised[o][i] = Holding(o, i) /\ Promised'[o][i] = Holding(o, i)'
    BY DEF Quantity, Promised
  <2>3. ASSUME NEW o \in Requests, \A x \in Requests \ {o} : holds'[x] = holds[x]
        PROVE  Promised' = [Promised EXCEPT ![o] = Promised'[o]]
    BY <2>3 DEF Promised, Holding
  <2>4. \A o \in Requests : Promised[o] = [i \in Items |-> Holding(o, i)]
    BY DEF Promised
  <2>5. CASE CommitOrder(r)
    <3>1. /\ holds[r] = NoHolds
          /\ \A o \in Requests \ {r} : holds'[o] = holds[o]
          /\ \A i \in Items :
               /\ Holding(r, i) = 0 /\ Holding(r, i)' = Want(r)[i]
               /\ stock'[i].quantity = stock[i].quantity
               /\ i \in Lines(r) => Want(r)[i] <= stock[i].quantity - stock[i].reserved
               /\ i \notin Lines(r) => Want(r)[i] = 0
      BY <2>5, OrderEffect
    <3>2. Promised[r] = Book!Nothing
      <4>1. [i \in Items |-> Holding(r, i)] = [i \in Items |-> 0]
        BY <3>1
      <4> QED
        BY <2>4, <4>1 DEF Book!Nothing
    <3>3. \A i \in Items : Promised'[r][i] \in 0..Book!Free(i)
      BY <2>1, <2>2, <3>1
    <3>4. Quantity' = Quantity
      BY <3>1 DEF Quantity
    <3>5. Book!Promise(r)
      BY <2>3, <3>1, <3>2, <3>3, <3>4 DEF Book!Promise, Quantity, Promised
    <3> QED
      BY <3>5 DEF Book!BookNext
  <2>6. CASE CommitInvoice(r)
    <3>1. /\ holds' = holds
          /\ \A i \in Items :
               /\ stock'[i].quantity = stock[i].quantity - Want(r)[i]
               /\ i \in Lines(r) => Want(r)[i] <= stock[i].quantity - stock[i].reserved
               /\ i \notin Lines(r) => Want(r)[i] = 0
      BY <2>6, InvoiceEffect
    <3>2. \A i \in Items : Quantity[i] - Quantity'[i] \in 0..Book!Free(i)
      BY <2>1, <2>2, <3>1
    <3>3. Promised' = Promised
      BY <3>1 DEF Promised, Holding
    <3>4. Book!SellFree
      BY <3>2, <3>3 DEF Book!SellFree, Quantity, Promised
    <3> QED
      BY <3>4 DEF Book!BookNext
  <2>7. CASE CommitOrderInvoice(r) /\ ~ Abort(r)
    <3>1. PICK o \in Orders :
            /\ \A x \in Requests \ {o} : holds'[x] = holds[x]
            /\ \A i \in Items :
                 /\ Holding(o, i)' = Holding(o, i) - Want(r)[i]
                 /\ Want(r)[i] <= Holding(o, i)
                 /\ stock'[i].quantity = stock[i].quantity - Want(r)[i]
      BY <2>7, OrderInvoiceEffect
    <3>2. o \in Requests
      BY DEF Orders
    <3>3. ASSUME NEW i \in Items
          PROVE  /\ Promised'[o][i] \in 0..Promised[o][i]
                 /\ Quantity[i] - Quantity'[i] = Promised[o][i] - Promised'[o][i]
      BY <2>1, <2>2, <3>1, <3>2
    <3>4. Book!SellPromised(o)
      BY <2>3, <3>1, <3>2, <3>3 DEF Book!SellPromised, Quantity, Promised
    <3> QED
      BY <3>2, <3>4 DEF Book!BookNext
  <2>8. CASE CommitCancel(r)
    <3>1. PICK o \in Orders :
            /\ \A x \in Requests \ {o} : holds'[x] = holds[x]
            /\ \A i \in Items : /\ Holding(o, i)' = 0
                                /\ stock'[i].quantity = stock[i].quantity
      BY <2>8, CancelEffect
    <3>2. o \in Requests
      BY DEF Orders
    <3>3. Promised'[o] = Book!Nothing
      BY <3>1, <3>2 DEF Promised, Book!Nothing
    <3>4. Quantity' = Quantity
      BY <3>1 DEF Quantity
    <3>5. Promised' = [Promised EXCEPT ![o] = Book!Nothing]
      BY <2>3, <3>1, <3>2, <3>3
    <3>6. Book!GiveUp(o)
      BY <3>4, <3>5 DEF Book!GiveUp, Quantity, Promised
    <3> QED
      BY <3>2, <3>6 DEF Book!BookNext
  <2>9. CASE WriteStock(r)
    <3>1. holds' = holds
      BY <2>9, MovementEffect
    <3>2. PICK j \in Items, n \in Nat :
              /\ stock'[j].quantity = stock[j].quantity + n
              /\ \A k \in Items \ {j} : stock'[k] = stock[k]
      BY <2>9, MovementEffect
    <3>3. Promised' = Promised
      BY <3>1 DEF Promised, Holding
    <3>4. ASSUME NEW i \in Items PROVE Quantity'[i] >= Quantity[i]
      <4>1. stock[j].quantity \in Int /\ stock[i].quantity \in Int
        BY <2>1
      <4>2. CASE i = j
        BY <2>2, <3>2, <4>1, <4>2
      <4>3. CASE i # j
        BY <2>2, <3>2, <4>1, <4>3
      <4> QED
        BY <4>2, <4>3
    <3>5. Book!Receive
      BY <3>3, <3>4 DEF Book!Receive, Quantity, Promised
    <3> QED
      BY <3>5 DEF Book!BookNext
  <2> QED
    BY <1>2, <2>5, <2>6, <2>7, <2>8, <2>9 DEF Writes
<1> QED
  BY <1>1, <1>2, WritersOnly

\* Orders and invoices that overlap, where cancellations and stock coming in run by
\* themselves and nothing is taken out by hand, act on the stock as if one at a time: each
\* step promises only what is free, sells only what is free or promised, or gives a
\* promise up.
THEOREM StockBookIsImplemented ==
  ASSUME OthersRunAlone, "outward" \notin Kinds
  PROVE  Spec => ImplementsStockBook
<1>1. ASSUME Init PROVE Book!BookInit
  <2>1. \A i \in Items : stock[i].quantity = Stocked[i]
    BY <1>1 DEF Init
  <2>2. \A o \in Requests, i \in Items : Holding(o, i) = 0
    BY <1>1 DEF Init, NoHolds, NoHold, Holding
  <2>3. Quantity = Stocked
    BY <2>1, IceCrestAssumption DEF Quantity, IceCrestAssumption
  <2>4. Promised = [o \in Requests |-> Book!Nothing]
    BY <2>2 DEF Promised, Book!Nothing
  <2> QED
    BY <2>3, <2>4 DEF Book!BookInit, Quantity, Promised
<1>2. Init => EnoughForAll
  BY IceCrestAssumption DEF Init, EnoughForAll, IceCrestAssumption
<1>3. IInv /\ BooksInv /\ EnoughForAll /\ [Next]_vars => EnoughForAll'
  BY IceCrestAssumption, EnoughInductive
<1>4. IInv /\ IInv' /\ BooksInv /\ BooksInv' /\ EnoughForAll /\ [Next]_vars
        => [Book!BookNext]_(Book!bookVars)
  BY IceCrestAssumption, StepsAreBookSteps DEF IInv
<1> QED
  BY <1>1, <1>2, <1>3, <1>4, Invariance, BooksInvariance, PTL
     DEF Spec, ImplementsStockBook, Book!BookSpec
=============================================================================
