---------------------------- MODULE Issuing_proofs ----------------------------
(***************************************************************************)
(* Proofs about Issuing, for any schedules, challans and calls, any mix    *)
(* and overlap of handlers, and restarts at any moment.                    *)
(***************************************************************************)
EXTENDS Issuing, SumTheorems, FiniteSetTheorems, SequenceTheorems, WellFoundedInduction, TLAPS

-----------------------------------------------------------------------------
(* The next number of a series. *)

\* A set of numbers has a least one.
LEMMA LeastNumber ==
  ASSUME NEW S \in SUBSET Nat, S # {}
  PROVE  \E n \in S : \A m \in S : n <= m
<1>1. \E n \in S : \A m \in S : ~(<<m, n>> \in OpToRel(<, Nat))
  BY NatLessThanWellFounded, WFMin
<1>2. PICK n \in S : \A m \in S : ~(<<m, n>> \in OpToRel(<, Nat))
  BY <1>1
<1>3. ASSUME NEW m \in S  PROVE n <= m
  <2>1. m \in Nat /\ n \in Nat
    OBVIOUS
  <2>2. ~(m < n)
    BY <1>2, <2>1 DEF OpToRel
  <2> QED
    BY <2>1, <2>2
<1> QED
  BY <1>3

LEMMA InvoiceTypes ==
  ASSUME TypeOK
  PROVE  /\ Len(invoices) \in Nat /\ DOMAIN invoices = 1 .. Len(invoices)
         /\ \A i \in DOMAIN invoices : /\ invoices[i] \in Invoice /\ invoices[i].number \in Nat
                                       /\ invoices[i].due \in Nat
<1>1. Len(invoices) \in Nat /\ DOMAIN invoices = 1 .. Len(invoices)
  BY LenProperties DEF TypeOK
<1>2. \A i \in DOMAIN invoices : invoices[i] \in Invoice
  BY <1>1, ElementOfSeq DEF TypeOK
<1> QED
  BY <1>1, <1>2 DEF Invoice

\* The numbers on a list of invoices are bounded: the least prefix without a bound has
\* one more than a prefix with one.
LEMMA NumbersAreBounded ==
  ASSUME TypeOK
  PROVE  \E b \in Nat : \A i \in DOMAIN invoices : invoices[i].number <= b
<1> DEFINE Bounds(k, b) == \A i \in DOMAIN invoices : i <= k => invoices[i].number <= b
           Unbounded == {k \in 0 .. Len(invoices) : ~\E b \in Nat : Bounds(k, b)}
<1>1. Len(invoices) \in Nat /\ DOMAIN invoices = 1 .. Len(invoices)
  BY InvoiceTypes
<1>2. \A i \in DOMAIN invoices : invoices[i].number \in Nat
  BY InvoiceTypes
<1>3. Unbounded = {}
  <2> SUFFICES ASSUME Unbounded # {}  PROVE FALSE
    OBVIOUS
  <2>1. Unbounded \in SUBSET Nat
    BY <1>1
  <2>2. PICK k \in Unbounded : \A m \in Unbounded : k <= m
    BY <2>1, LeastNumber
  <2>3. Bounds(0, 0)
    BY <1>1
  <2>4. k # 0 /\ k \in 1 .. Len(invoices)
    BY <2>3, <1>1
  <2>5. k - 1 \in 0 .. Len(invoices) /\ ~(k <= k - 1)
    BY <2>4, <1>1
  <2>6. PICK b \in Nat : Bounds(k - 1, b)
    BY <2>2, <2>5
  <2>7. PICK n \in Nat : n = invoices[k].number
    BY <1>1, <1>2, <2>4
  <2> HIDE DEF Bounds, Unbounded
  <2>8. ASSUME NEW i \in DOMAIN invoices, i <= k  PROVE invoices[i].number <= b + n
    <3>1. i \in Nat /\ k \in Nat
      BY <1>1, <2>4
    <3>2. PICK m \in Nat : m = invoices[i].number
      BY <1>2
    <3>3. CASE i = k
      <4>1. m = n
        BY <2>7, <3>2, <3>3
      <4> QED
        BY <3>2, <4>1
    <3>4. CASE i # k
      <4>1. i <= k - 1
        BY <2>8, <3>1, <3>4
      <4>2. m <= b
        BY <2>6, <3>2, <4>1 DEF Bounds
      <4> QED
        BY <3>2, <4>2
    <3> QED
      BY <3>3, <3>4
  <2>9. b + n \in Nat
    OBVIOUS
  <2>10. Bounds(k, b + n)
    BY <2>8 DEF Bounds
  <2> QED
    BY <2>9, <2>10 DEF Unbounded
<1>4. \E b \in Nat : Bounds(Len(invoices), b)
  <2> HIDE DEF Bounds
  <2>1. Len(invoices) \in 0 .. Len(invoices)
    BY <1>1
  <2>2. Len(invoices) \notin Unbounded
    BY <1>3
  <2> QED
    BY <2>1, <2>2
<1> QED
  BY <1>1, <1>4

\* Where a number is above all others, Max is that number.
LEMMA GreatestNumber ==
  ASSUME NEW S \in SUBSET Nat, S # {}, NEW b \in Nat, \A n \in S : n <= b
  PROVE  Max(S) \in S /\ \A n \in S : n <= Max(S)
<1> DEFINE Above == {u \in Nat : \A n \in S : n <= u}
<1>1. PICK u \in Above : \A m \in Above : u <= m
  BY LeastNumber
<1>2. u \in S
  <2> SUFFICES ASSUME u \notin S  PROVE FALSE
    OBVIOUS
  <2>1. \A n \in S : n \in Nat /\ n < u
    OBVIOUS
  <2>2. u \in Nat /\ u > 0
    <3>1. PICK n : n \in S
      OBVIOUS
    <3>2. n \in Nat /\ n < u /\ u \in Nat
      BY <2>1, <3>1
    <3> QED
      BY <3>2
  <2>3. u - 1 \in Nat /\ \A n \in S : n <= u - 1
    BY <2>1, <2>2
  <2>4. u - 1 \in Above /\ ~(u <= u - 1)
    BY <2>2, <2>3
  <2> QED
    BY <1>1, <2>4
<1>3. u \in S /\ \A n \in S : u >= n
  BY <1>2
<1>4. Max(S) \in S /\ \A n \in S : Max(S) >= n
  BY <1>3 DEF Max
<1> QED
  BY <1>4

\* The next number of a series is above every number given.
LEMMA SequenceIsNew ==
  ASSUME TypeOK, start # Off
  PROVE  /\ Sequence \in Nat \ {0}
         /\ \A i \in DOMAIN invoices : invoices[i].number < Sequence
<1> DEFINE S == Numbers \cup {start - 1}
<1>1. start - 1 \in Nat /\ \A i \in DOMAIN invoices : invoices[i].number \in Nat
  BY InvoiceTypes DEF TypeOK, Off
<1>2. PICK b \in Nat : \A i \in DOMAIN invoices : invoices[i].number <= b
  BY NumbersAreBounded
<1>3. S \in SUBSET Nat /\ S # {}
  BY <1>1 DEF Numbers
<1>4. b + start \in Nat /\ \A n \in S : n <= b + start
  BY <1>1, <1>2 DEF Numbers, TypeOK
<1>5. Max(S) \in S /\ \A n \in S : n <= Max(S)
  BY <1>3, <1>4, GreatestNumber
<1>6. Max(S) \in Nat /\ \A i \in DOMAIN invoices : invoices[i].number \in S
  BY <1>3, <1>5 DEF Numbers
<1>7. Sequence = Max(S) + 1
  BY DEF Sequence
<1> HIDE DEF S
<1>8. \A i \in DOMAIN invoices : invoices[i].number < Max(S) + 1
  BY <1>1, <1>5, <1>6
<1> QED
  BY <1>6, <1>7, <1>8

-----------------------------------------------------------------------------
(* Types. *)

Typed == pc' \in [Requests -> Labels] /\ job' \in [Requests -> Job]

LEMMA Blanks == NoJob \in Job /\ Draft \in Challan
BY DEF NoJob, Draft, Job, Challan

LEMMA JobTypes ==
  ASSUME TypeOK, NEW r \in Requests
  PROVE  /\ job[r] \in Job
         /\ job[r].number \in Nat /\ job[r].auto \in BOOLEAN /\ job[r].amount \in Nat
         /\ job[r].lines \in Nat /\ job[r].onCredit \in BOOLEAN
         /\ job[r].id \in Nat /\ job[r].of \subseteq Challans /\ job[r].dc \subseteq Challans
         /\ job[r].schedule \subseteq Schedules /\ job[r].date \in Nat
         /\ job[r].batch \subseteq Schedules \X Nat
         /\ job[r].copy \in Challan /\ job[r].dirty \subseteq {"status", "invoice"}
<1>1. job[r] \in Job
  BY DEF TypeOK
<1> QED
  BY <1>1 DEF Job

\* What a step changes of a job.
LEMMA JobEdits ==
  ASSUME NEW j \in Job
  PROVE  /\ \A n \in Nat : [j EXCEPT !.number = n, !.auto = FALSE] \in Job
         /\ \A cs, ds \in SUBSET Challans : [j EXCEPT !.dc = cs, !.of = ds] \in Job
         /\ \A b \in SUBSET (Schedules \X Nat) : [j EXCEPT !.batch = b] \in Job
         /\ \A s \in Schedules, d \in Nat :
              [j EXCEPT !.schedule = {s}, !.date = d, !.amount = 1] \in Job
<1>1. \A n \in Nat : [j EXCEPT !.number = n, !.auto = FALSE] \in Job
  BY DEF Job
<1>2. \A cs, ds \in SUBSET Challans : [j EXCEPT !.dc = cs, !.of = ds] \in Job
  BY DEF Job
<1>3. \A b \in SUBSET (Schedules \X Nat) : [j EXCEPT !.batch = b] \in Job
  BY DEF Job
<1>4. \A s \in Schedules, d \in Nat :
        [j EXCEPT !.schedule = {s}, !.date = d, !.amount = 1] \in Job
  BY DEF Job
<1> QED
  BY <1>1, <1>2, <1>3, <1>4

LEMMA BeginTypes ==
  ASSUME TypeOK, NEW r \in Requests, NEW label \in Labels, NEW j \in Job, Begin(r, label, j)
  PROVE  Typed
BY DEF Begin, Goto, TypeOK, Typed

LEMMA GotoTypes ==
  ASSUME TypeOK, NEW r \in Requests, NEW label \in Labels, Goto(r, label), UNCHANGED job
  PROVE  Typed
BY DEF Goto, TypeOK, Typed

LEMMA EndTypes ==
  ASSUME TypeOK, NEW r \in Requests, End(r) \/ NextDue(r)
  PROVE  Typed
<1>1. [NoJob EXCEPT !.kind = "recurring", !.batch = job[r].batch] \in Job
  BY JobTypes, Blanks DEF Job, AllKinds
<1> QED
  BY <1>1, Blanks, BeginTypes DEF End, NextDue, Labels

LEMMA RowsTyped ==
  ASSUME TypeOK, UNCHANGED rows, lock' \subseteq Requests, Typed
  PROVE  TypeOK'
BY DEF TypeOK, rows, Typed

LEMMA CreateTypes ==
  ASSUME IssuingAssumption, TypeOK, NEW r \in Requests, CreateInvoice(r)
  PROVE  TypeOK'
<1>1. PICK lines \in Amounts, charges \in Charges, onCredit \in BOOLEAN :
        CreateInvoice(r)!(lines, charges, onCredit)
  BY DEF CreateInvoice
<1> DEFINE total == BillTotal(lines, charges)
           held == IF onCredit THEN lines ELSE 0
           j == [NoJob EXCEPT !.kind = "invoice", !.amount = total, !.lines = held,
                              !.onCredit = onCredit]
<1>2. lines \in Nat /\ charges \in Int
  BY DEF IssuingAssumption
<1>3. total \in Nat /\ held \in Nat
  BY <1>2 DEF BillTotal
<1>4. Begin(r, "lock", j) /\ UNCHANGED <<rows, lock>>
  BY <1>1
<1> HIDE DEF total, held
<1>5. j \in Job
  BY <1>3, Blanks DEF Job, AllKinds
<1> HIDE DEF j
<1>6. Typed
  BY <1>4, <1>5, BeginTypes DEF Labels
<1> QED
  BY <1>4, <1>6, RowsTyped DEF TypeOK

LEMMA LockTypes ==
  ASSUME IssuingAssumption, TypeOK, NEW r \in Requests,
         NumberGiven(r) \/ AllocateDocumentNumber(r) \/ ReadNumbers(r)
  PROVE  TypeOK'
<1>1. CASE NumberGiven(r)
  <2>1. PICK n \in GivenNumbers \ Numbers :
          Begin(r, "insert", [job[r] EXCEPT !.number = n, !.auto = FALSE])
    BY <1>1 DEF NumberGiven
  <2>2. n \in Nat
    BY DEF IssuingAssumption
  <2>3. [job[r] EXCEPT !.number = n, !.auto = FALSE] \in Job
    BY <2>2, JobTypes, JobEdits
  <2>4. Typed
    BY <2>1, <2>3, BeginTypes DEF Labels
  <2> QED
    BY <1>1, <2>4, RowsTyped DEF NumberGiven, TypeOK
<1>2. CASE AllocateDocumentNumber(r)
  BY <1>2, GotoTypes, RowsTyped DEF AllocateDocumentNumber, LockTenant, Labels
<1>3. CASE ReadNumbers(r)
  <2> DEFINE n == IF start = Off THEN 0 ELSE Sequence
  <2>1. n \in Nat
    BY SequenceIsNew
  <2>2. Begin(r, "insert", [job[r] EXCEPT !.number = n]) /\ UNCHANGED <<rows, lock>>
    BY <1>3 DEF ReadNumbers
  <2> HIDE DEF n
  <2>3. [job[r] EXCEPT !.number = n] \in Job
    BY <2>1, JobTypes DEF Job
  <2>4. Typed
    BY <2>2, <2>3, BeginTypes DEF Labels
  <2> QED
    BY <2>2, <2>4, RowsTyped DEF TypeOK
<1> QED
  BY <1>1, <1>2, <1>3

LEMMA InsertTypes ==
  ASSUME IssuingAssumption, TypeOK, NEW r \in Requests, InsertInvoice(r)
  PROVE  TypeOK'
<1>1. Inserted(r) \in Invoice
  BY JobTypes DEF Inserted, Invoice
<1>3. [job[r] EXCEPT !.id = Len(invoices) + 1] \in Job
  <2> DEFINE n == Len(invoices) + 1
  <2>1. n \in Nat
    BY InvoiceTypes
  <2> HIDE DEF n
  <2>2. [job[r] EXCEPT !.id = n] \in Job
    BY <2>1, JobTypes DEF Job
  <2> QED
    BY <2>2 DEF n
<1>4. Typed
  BY <1>3, BeginTypes, EndTypes DEF InsertInvoice, Labels
<1>5. invoices' \in Seq(Invoice)
  <2>1. invoices \in Seq(Invoice)
    BY DEF TypeOK
  <2>2. Append(invoices, Inserted(r)) \in Seq(Invoice)
    BY <1>1, <2>1, AppendProperties
  <2>3. invoices' = invoices \/ invoices' = Append(invoices, Inserted(r))
    BY DEF InsertInvoice
  <2> QED
    BY <2>1, <2>2, <2>3
<1>6. lock' \subseteq Requests
  BY DEF InsertInvoice, TypeOK
<1> QED
  BY <1>4, <1>5, <1>6 DEF InsertInvoice, TypeOK, Typed

\* An amount written to an invoice, or nowhere.
LEMMA DueTypes ==
  ASSUME TypeOK, NEW i \in Nat, NEW n \in Nat
  PROVE  [invoices EXCEPT ![i].due = n] \in Seq(Invoice)
<1> DEFINE new == [invoices EXCEPT ![i].due = n]
<1>1. CASE i \in DOMAIN invoices
  <2>1. i \in 1 .. Len(invoices) /\ invoices[i] \in Invoice
    BY <1>1, InvoiceTypes
  <2>2. [invoices[i] EXCEPT !.due = n] \in Invoice
    BY <2>1 DEF Invoice
  <2>3. new = [invoices EXCEPT ![i] = [invoices[i] EXCEPT !.due = n]]
    OBVIOUS
  <2> QED
    BY <2>1, <2>2, <2>3, ExceptSeq DEF TypeOK
<1>2. CASE i \notin DOMAIN invoices
  <2>1. invoices \in [1 .. Len(invoices) -> Invoice] /\ DOMAIN invoices = 1 .. Len(invoices)
    BY LenProperties DEF TypeOK
  <2>2. new = invoices
    BY <1>2, <2>1
  <2> QED
    BY <2>2 DEF TypeOK
<1> QED
  BY <1>1, <1>2

\* An amount added to an invoice, or nowhere.
LEMMA AddTypes ==
  ASSUME TypeOK, NEW i \in Nat, NEW n \in Nat
  PROVE  [invoices EXCEPT ![i].due = @ + n] \in Seq(Invoice)
<1>1. CASE i \in DOMAIN invoices
  <2>1. PICK m \in Nat : m = invoices[i].due + n
    BY <1>1, InvoiceTypes
  <2>2. [invoices EXCEPT ![i].due = @ + n] = [invoices EXCEPT ![i].due = m]
    BY <2>1
  <2> QED
    BY <2>2, DueTypes
<1>2. CASE i \notin DOMAIN invoices
  <2>1. invoices \in [1 .. Len(invoices) -> Invoice] /\ DOMAIN invoices = 1 .. Len(invoices)
    BY LenProperties DEF TypeOK
  <2>2. [invoices EXCEPT ![i].due = @ + n] = invoices
    BY <1>2, <2>1
  <2> QED
    BY <2>2 DEF TypeOK
<1> QED
  BY <1>1, <1>2

LEMMA AddedTypes ==
  ASSUME TypeOK, NEW r \in Requests, NEW n \in Nat
  PROVE  AddedBeside(r, n) \in [Requests -> Nat]
BY JobTypes DEF AddedBeside, TypeOK

LEMMA TotalTypes ==
  ASSUME IssuingAssumption, TypeOK, NEW r \in Requests, WriteTotal(r)
  PROVE  TypeOK'
<1>1. PICK i \in Nat, n \in Nat : i = job[r].id /\ n = job[r].amount
  BY JobTypes
<1>2. invoices' \in Seq(Invoice)
  <2>1. invoices' = [invoices EXCEPT ![i].due = @ + n]
    BY <1>1 DEF WriteTotal
  <2> QED
    BY <2>1, AddTypes
<1>3. Typed
  BY GotoTypes, EndTypes DEF WriteTotal, Labels
<1>4. added' \in [Requests -> Nat]
  BY <1>1, AddedTypes DEF WriteTotal
<1> QED
  BY <1>2, <1>3, <1>4 DEF WriteTotal, TypeOK, Typed

LEMMA PaymentTypes ==
  ASSUME IssuingAssumption, TypeOK, LowerDue \/ RaiseDue
  PROVE  TypeOK'
<1>1. CASE LowerDue
  <2>1. PICK i \in DOMAIN invoices : LowerDue!(i)
    BY <1>1 DEF LowerDue
  <2>2. PICK amount \in PaymentAllowed(invoices[i].due) : LowerDue!(i)!(amount)
    BY <2>1
  <2>3. invoices[i].due \in Nat /\ amount \in 1 .. invoices[i].due
    BY InvoiceTypes DEF PaymentAllowed
  <2>4. PICK n \in Nat : n = invoices[i].due - amount
    BY <2>3
  <2>5. invoices' = [invoices EXCEPT ![i].due = n]
    BY <2>2, <2>4
  <2>6. invoices' \in Seq(Invoice)
    BY <2>5, InvoiceTypes, DueTypes
  <2> QED
    BY <2>2, <2>6 DEF TypeOK
<1>2. CASE RaiseDue
  <2>1. PICK i \in DOMAIN invoices, amount \in Amounts : RaiseDue!(i, amount)
    BY <1>2 DEF RaiseDue
  <2>2. i \in Nat /\ amount \in Nat
    <3>1. invoices \in Seq(Invoice)
      BY DEF TypeOK
    <3>2. i \in DOMAIN invoices /\ DOMAIN invoices = 1 .. Len(invoices) /\ Len(invoices) \in Nat
      BY <3>1, <2>1
    <3>3. i \in Nat
      BY <3>2
    <3>4. amount \in Nat
      BY <2>1 DEF IssuingAssumption
    <3> QED
      BY <3>3, <3>4
  <2>3. invoices' = [invoices EXCEPT ![i].due = @ + amount]
    BY <2>1
  <2>4. invoices' \in Seq(Invoice)
    BY <2>2, <2>3, AddTypes
  <2>5. added' \in [Requests -> Nat]
    BY <2>1, <2>2 DEF TypeOK
  <2>6. upsets' \in Nat
    BY <2>1 DEF TypeOK
  <2> QED
    BY <2>1, <2>4, <2>5, <2>6 DEF TypeOK
<1> QED
  BY <1>1, <1>2

LEMMA ScheduleTypes ==
  ASSUME IssuingAssumption, TypeOK, NEW r \in Requests,
         RunDueRecurringInvoices(r) \/ RunOne(r) \/ EndRun(r) \/ Advance(r)
  PROVE  TypeOK'
<1>1. CASE RunDueRecurringInvoices(r)
  <2> DEFINE j == [NoJob EXCEPT !.kind = "recurring", !.batch = {<<s, next[s]>> : s \in Due}]
  <2>1. {<<s, next[s]>> : s \in Due} \in SUBSET (Schedules \X Nat)
    BY DEF Due, TypeOK
  <2>2. j \in Job
    BY <2>1, Blanks DEF Job, AllKinds
  <2>3. Begin(r, "each", j) /\ UNCHANGED <<rows, lock>>
    BY <1>1 DEF RunDueRecurringInvoices
  <2> HIDE DEF j
  <2>4. Typed
    BY <2>2, <2>3, BeginTypes DEF Labels
  <2> QED
    BY <2>3, <2>4, RowsTyped DEF TypeOK
<1>2. CASE RunOne(r)
  <2>1. PICK row \in job[r].batch : RunOne(r)!(row)
    BY <1>2 DEF RunOne
  <2> DEFINE j == [job[r] EXCEPT !.schedule = {row[1]}, !.date = row[2],
                                 !.amount = 1, !.batch = @ \ {row}]
             k == [job[r] EXCEPT !.batch = @ \ {row}]
  <2>2. row[1] \in Schedules /\ row[2] \in Nat
    BY JobTypes
  <2>3. j \in Job /\ k \in Job
    <3>1. job[r].batch \ {row} \subseteq Schedules \X Nat
      BY JobTypes
    <3>2. k \in Job
      BY <3>1, JobTypes, JobEdits
    <3>3. [k EXCEPT !.schedule = {row[1]}, !.date = row[2], !.amount = 1] \in Job
      BY <2>2, <3>2, JobEdits
    <3>4. j = [k EXCEPT !.schedule = {row[1]}, !.date = row[2], !.amount = 1]
      BY JobTypes DEF Job
    <3> QED
      BY <3>2, <3>3, <3>4
  <2>4. Begin(r, "lock", j) \/ Begin(r, "each", k)
    BY <2>1
  <2> HIDE DEF j, k
  <2>5. Typed
    BY <2>3, <2>4, BeginTypes DEF Labels
  <2> QED
    BY <2>1, <2>5, RowsTyped DEF TypeOK
<1>3. CASE EndRun(r)
  BY <1>3, EndTypes, RowsTyped DEF EndRun, TypeOK
<1>4. CASE Advance(r)
  <2>1. PICK s \in job[r].schedule : Advance(r)!(s)
    BY <1>4 DEF Advance
  <2>2. DayAfter(job[r].date) \in Nat
    BY JobTypes DEF DayAfter
  <2>3. next' \in [Schedules -> Nat]
    BY <2>1, <2>2 DEF TypeOK
  <2> QED
    BY <2>1, <2>3, EndTypes DEF TypeOK, Typed
<1> QED
  BY <1>1, <1>2, <1>3, <1>4

LEMMA BillTypes ==
  ASSUME IssuingAssumption, TypeOK, NEW r \in Requests,
         CreateInvoiceFromChallans(r) \/ LinkChallan(r) \/ MarkChallan(r)
  PROVE  TypeOK'
<1>1. CASE CreateInvoiceFromChallans(r)
  <2>1. PICK cs \in Unbilled : CreateInvoiceFromChallans(r)!(cs)
    BY <1>1 DEF CreateInvoiceFromChallans
  <2> DEFINE j == [NoJob EXCEPT !.kind = "bill", !.of = cs, !.amount = Cardinality(cs)]
  <2>2. cs \subseteq Challans
    BY DEF Unbilled, AnyChallans
  <2>3. Cardinality(cs) \in Nat
    BY <2>2, FS_Subset, FS_CardinalityType DEF IssuingAssumption
  <2>4. j \in Job
    BY <2>2, <2>3, Blanks DEF Job, AllKinds
  <2>5. Begin(r, "lock", j) /\ UNCHANGED <<rows, lock>>
    BY <2>1
  <2> HIDE DEF j
  <2>6. Typed
    BY <2>4, <2>5, BeginTypes DEF Labels
  <2> QED
    BY <2>5, <2>6, RowsTyped DEF TypeOK
<1>2. CASE LinkChallan(r)
  <2>1. PICK c \in job[r].of : LinkChallan(r)!(c)
    BY <1>2 DEF LinkChallan
  <2>2. c \in Challans /\ job[r].id \in Nat
    BY JobTypes
  <2>3. links' \subseteq Nat \X Challans
    BY <2>1, <2>2 DEF InsertLink, TypeOK
  <2>4. [job[r] EXCEPT !.dc = {c}, !.of = @ \ {c}] \in Job
    <3>1. {c} \subseteq Challans /\ job[r].of \ {c} \subseteq Challans
      BY <2>2, JobTypes
    <3> QED
      BY <3>1, JobTypes, JobEdits
  <2>5. Typed
    BY <2>1, <2>4, BeginTypes DEF Labels
  <2> QED
    BY <2>1, <2>3, <2>5 DEF TypeOK, Typed
<1>3. CASE MarkChallan(r)
  <2>1. PICK c \in job[r].dc : MarkChallan(r)!(c)
    BY <1>3 DEF MarkChallan
  <2>2. c \in Challans /\ job[r].id \in Nat
    BY JobTypes
  <2> DEFINE new == [challan[c] EXCEPT !.invoice = job[r].id]
  <2>3. new \in Challan
    BY <2>2 DEF TypeOK, Challan
  <2>4. challan' = [challan EXCEPT ![c] = new]
    BY <2>1, <2>2 DEF TypeOK
  <2> HIDE DEF new
  <2>5. challan' \in [Challans -> Challan]
    BY <2>3, <2>4 DEF TypeOK
  <2>6. Typed
    BY <2>1, GotoTypes, EndTypes DEF Labels
  <2> QED
    BY <2>1, <2>5, <2>6 DEF TypeOK, Typed
<1> QED
  BY <1>1, <1>2, <1>3

LEMMA ChallanTypes ==
  ASSUME IssuingAssumption, TypeOK, NEW r \in Requests,
         UpdateDeliveryChallan(r) \/ LoadForSave(r) \/ WriteChallan(r) \/ DeductChallan(r)
  PROVE  TypeOK'
<1>1. CASE UpdateDeliveryChallan(r)
  <2>1. PICK c \in Challans, to \in {"draft", "delivered"} :
          /\ Begin(r, "load", [NoJob EXCEPT
               !.kind = "challan", !.of = {c}, !.copy = [challan[c] EXCEPT !.status = to],
               !.first = (to = "delivered" /\ challan[c].status # "delivered")])
          /\ UNCHANGED <<rows, lock>>
    BY <1>1 DEF UpdateDeliveryChallan
  <2> DEFINE first == to = "delivered" /\ challan[c].status # "delivered"
             j == [NoJob EXCEPT !.kind = "challan", !.of = {c},
                                !.copy = [challan[c] EXCEPT !.status = to], !.first = first]
  <2>2. [challan[c] EXCEPT !.status = to] \in Challan /\ first \in BOOLEAN
    BY DEF TypeOK, Challan
  <2>3. j \in Job
    BY <2>2, Blanks DEF Job, AllKinds
  <2>4. Begin(r, "load", j)
    BY <2>1
  <2> HIDE DEF j
  <2>5. Typed
    BY <2>3, <2>4, BeginTypes DEF Labels
  <2> QED
    BY <2>1, <2>5, RowsTyped DEF TypeOK
<1>2. CASE LoadForSave(r)
  <2>1. PICK c \in job[r].of : LoadForSave(r)!(c)
    BY <1>2 DEF LoadForSave
  <2> DEFINE cols == {col \in {"status", "invoice"} : job[r].copy[col] # challan[c][col]}
  <2>2. [job[r] EXCEPT !.dirty = cols] \in Job
    BY JobTypes DEF Job
  <2>3. Typed
    BY <2>1, <2>2, BeginTypes DEF Labels
  <2> QED
    BY <2>1, <2>3, RowsTyped DEF TypeOK
<1>3. CASE WriteChallan(r)
  <2>1. PICK c \in job[r].of :
          /\ challan' = [challan EXCEPT ![c] =
               [status |-> IF "status" \in job[r].dirty THEN job[r].copy.status
                           ELSE challan[c].status,
                invoice |-> IF "invoice" \in job[r].dirty THEN job[r].copy.invoice
                            ELSE challan[c].invoice]]
          /\ IF job[r].first THEN Goto(r, "deduct") /\ UNCHANGED job ELSE End(r)
          /\ UNCHANGED <<invoices, start, next, begun, today, links, deducted, added, lock, upsets>>
    BY <1>3 DEF WriteChallan
  <2>2. challan' \in [Challans -> Challan]
    BY <2>1, JobTypes DEF TypeOK, Challan
  <2>3. Typed
    BY <2>1, GotoTypes, EndTypes DEF Labels
  <2> QED
    BY <2>1, <2>2, <2>3 DEF TypeOK, Typed
<1>4. CASE DeductChallan(r)
  <2>1. PICK c \in job[r].of : DeductChallan(r)!(c)
    BY <1>4 DEF DeductChallan
  <2>2. c \in Challans
    BY JobTypes
  <2>3. deducted' \in [Challans -> Nat]
    BY <2>1, <2>2 DEF TypeOK
  <2> QED
    BY <2>1, <2>3, EndTypes DEF TypeOK, Typed
<1> QED
  BY <1>1, <1>2, <1>3, <1>4

LEMMA EnvironmentTypes ==
  ASSUME IssuingAssumption, TypeOK,
         SaveDocumentSeries \/ CreateRecurringInvoice \/ DayPasses \/ Crash
  PROVE  TypeOK'
<1>1. CASE SaveDocumentSeries
  <2>1. start' \in Nat
    BY <1>1 DEF SaveDocumentSeries, IssuingAssumption, Off
  <2> QED
    BY <1>1, <2>1 DEF SaveDocumentSeries, TypeOK
<1>2. CASE CreateRecurringInvoice
  BY <1>2 DEF CreateRecurringInvoice, TypeOK, IssuingAssumption
<1>3. CASE DayPasses
  BY <1>3 DEF DayPasses, TypeOK
<1>4. CASE Crash
  <2>1. Typed
    BY <1>4, Blanks DEF Crash, Typed, TypeOK, Labels
  <2> QED
    BY <1>4, <2>1 DEF Crash, TypeOK, Typed
<1> QED
  BY <1>1, <1>2, <1>3, <1>4

LEMMA TypeStep ==
  ASSUME IssuingAssumption, TypeOK, [Next]_vars
  PROVE  TypeOK'
<1>1. CASE UNCHANGED vars
  BY <1>1 DEF TypeOK, vars, rows
<1> QED
  BY <1>1, CreateTypes, LockTypes, InsertTypes, TotalTypes, PaymentTypes, ScheduleTypes, BillTypes,
     ChallanTypes, EnvironmentTypes DEF Next, Start, Step

LEMMA InitTypes ==
  ASSUME Init
  PROVE  TypeOK
BY Blanks DEF Init, TypeOK, Labels, Off

-----------------------------------------------------------------------------
(* The inductive invariants: one each for the series, the schedules, the       *)
(* challans and the customer's limit.                                          *)

\* Only who holds the tenant's row is between reading the numbers and inserting; and the
\* number it read is above all the series gave.  A number given by hand may lie above it.
AboveSeries(n) == \A i \in DOMAIN invoices : invoices[i].auto => invoices[i].number < n
HoldsSeries(r) ==
  /\ pc[r] = "number" \/ (pc[r] = "insert" /\ job[r].auto) => lock = {r}
  /\ pc[r] = "insert" /\ job[r].auto /\ job[r].number # 0 => AboveSeries(job[r].number)
SeriesInv == SeriesGrows /\ \A r \in Requests : HoldsSeries(r)

\* All dates of a schedule before n have their invoice.
HasInvoice(s, d) == \E i \in DOMAIN invoices : s \in invoices[i].schedule /\ invoices[i].date = d
CoveredBefore(s, n) == next[s] # Off /\ \A d \in begun[s] .. n - 1 : HasInvoice(s, d)

\* The dates a run read were covered up to them and stay so; past the insert, the
\* date it is at has its invoice too.
RunKnows(r) ==
  /\ \A row \in job[r].batch : CoveredBefore(row[1], row[2])
  /\ \A s \in job[r].schedule : CoveredBefore(s, job[r].date)
  /\ pc[r] \in {"total", "advance"} => \A s \in job[r].schedule : HasInvoice(s, job[r].date)
SchedulesInv == NoDateSkipped /\ \A r \in Requests : RunKnows(r)

\* A challan is under an invoice, by the invoice's own lines and by the links.
Under(i, c) == i \in DOMAIN invoices /\ <<i, c>> \in links /\ c \in invoices[i].of

\* What a bill and an update know of their challans: the invoice of the bill is there and
\* was made for those still to be linked, the one in hand has its link, and a copy shows an
\* invoice only if its challan is under it.
BillKnows(r) ==
  /\ pc[r] \in {"total", "link", "mark"} =>
       job[r].id \in DOMAIN invoices /\ job[r].of \subseteq invoices[job[r].id].of
  /\ pc[r] = "mark" => \A c \in job[r].dc : Under(job[r].id, c)
  /\ pc[r] \in {"load", "write"} /\ job[r].copy.invoice # 0 =>
       \A c \in job[r].of : Under(job[r].copy.invoice, c)
ChallansInv == ShownIsLinked /\ \A r \in Requests : BillKnows(r)

Dues == [i \in DOMAIN invoices |-> invoices[i].due]
Owed == Sum(Dues, DOMAIN invoices)

\* There is room for the lines of an invoice held to the limit, but for what has been added
\* beside it.
HasRoom(r) ==
  job[r].onCredit => job[r].kind = "invoice" /\ Owed + job[r].lines <= Limit + added[r]
CreditInv == \A r \in Requests : HasRoom(r)

-----------------------------------------------------------------------------
(* Frames. *)

OthersKept(r) == \A q \in Requests \ {r} : pc'[q] = pc[q] /\ job'[q] = job[q]

\* No invoice is added, and of none anything but the balance changes.
InvoicesKept ==
  /\ DOMAIN invoices' = DOMAIN invoices
  /\ \A i \in DOMAIN invoices :
       /\ invoices'[i].number = invoices[i].number /\ invoices'[i].auto = invoices[i].auto
       /\ invoices'[i].of = invoices[i].of /\ invoices'[i].schedule = invoices[i].schedule
       /\ invoices'[i].date = invoices[i].date

\* An invoice is added behind the others.
InvoiceAdded(r) ==
  LET n == Len(invoices) + 1 IN
  /\ DOMAIN invoices' = DOMAIN invoices \cup {n}
  /\ \A i \in DOMAIN invoices : i < n /\ invoices'[i] = invoices[i]
  /\ invoices'[n] = Inserted(r)

LEMMA BlankFields ==
  /\ NoJob.kind = "none" /\ NoJob.batch = {} /\ NoJob.schedule = {} /\ NoJob.of = {}
  /\ NoJob.number = 0 /\ NoJob.auto = TRUE
BY DEF NoJob

LEMMA BeginSets ==
  ASSUME TypeOK, NEW r \in Requests, NEW label, NEW j, Begin(r, label, j)
  PROVE  pc'[r] = label /\ job'[r] = j /\ OthersKept(r)
BY DEF Begin, Goto, TypeOK, OthersKept

LEMMA GotoSets ==
  ASSUME TypeOK, NEW r \in Requests, NEW label, Goto(r, label), UNCHANGED job
  PROVE  pc'[r] = label /\ job'[r] = job[r] /\ OthersKept(r)
BY DEF Goto, TypeOK, OthersKept

LEMMA EndSets ==
  ASSUME TypeOK, NEW r \in Requests, End(r)
  PROVE  /\ pc'[r] = "done" /\ OthersKept(r) /\ job'[r].kind = "none"
         /\ job'[r].batch = {} /\ job'[r].schedule = {} /\ job'[r].of = {}
BY BeginSets, BlankFields DEF End

LEMMA NextDueSets ==
  ASSUME TypeOK, NEW r \in Requests, NextDue(r)
  PROVE  /\ pc'[r] = "each" /\ OthersKept(r) /\ job'[r].kind = "recurring"
         /\ job'[r].batch = job[r].batch /\ job'[r].schedule = {} /\ job'[r].of = {}
<1>1. /\ pc'[r] = "each" /\ OthersKept(r)
      /\ job'[r] = [NoJob EXCEPT !.kind = "recurring", !.batch = job[r].batch]
  BY BeginSets DEF NextDue
<1> QED
  BY <1>1 DEF NoJob

LEMMA SameInvoices ==
  ASSUME UNCHANGED invoices
  PROVE  InvoicesKept
BY DEF InvoicesKept

LEMMA OnlyDueChanges ==
  ASSUME TypeOK, NEW i, NEW n, invoices' = [invoices EXCEPT ![i].due = n]
  PROVE  InvoicesKept
<1>1. \A k \in DOMAIN invoices : invoices[k] \in Invoice
  BY InvoiceTypes
<1>2. DOMAIN invoices' = DOMAIN invoices
  OBVIOUS
<1>3. \A k \in DOMAIN invoices :
        invoices'[k] = IF k = i THEN [invoices[k] EXCEPT !.due = n] ELSE invoices[k]
  OBVIOUS
<1>4. \A k \in DOMAIN invoices :
       /\ invoices'[k].number = invoices[k].number /\ invoices'[k].auto = invoices[k].auto
       /\ invoices'[k].of = invoices[k].of /\ invoices'[k].schedule = invoices[k].schedule
       /\ invoices'[k].date = invoices[k].date
  BY <1>1, <1>3 DEF Invoice
<1> QED
  BY <1>2, <1>4 DEF InvoicesKept

LEMMA DueMoves ==
  ASSUME TypeOK, NEW i, NEW n,
         \/ invoices' = [invoices EXCEPT ![i].due = @ + n]
         \/ invoices' = [invoices EXCEPT ![i].due = @ - n]
  PROVE  InvoicesKept
<1>1. PICK plus, minus : plus = invoices[i].due + n /\ minus = invoices[i].due - n
  OBVIOUS
<1>2. CASE invoices' = [invoices EXCEPT ![i].due = @ + n]
  <2>1. invoices' = [invoices EXCEPT ![i].due = plus]
    BY <1>1, <1>2
  <2> QED
    BY <2>1, OnlyDueChanges
<1>3. CASE invoices' = [invoices EXCEPT ![i].due = @ - n]
  <2>1. invoices' = [invoices EXCEPT ![i].due = minus]
    BY <1>1, <1>3
  <2> QED
    BY <2>1, OnlyDueChanges
<1> QED
  BY <1>2, <1>3

LEMMA TotalKeepsInvoices ==
  ASSUME TypeOK, NEW r \in Requests, WriteTotal(r)
  PROVE  InvoicesKept
<1>1. PICK i, n : i = job[r].id /\ n = job[r].amount
  OBVIOUS
<1>2. invoices' = [invoices EXCEPT ![i].due = @ + n]
  BY <1>1 DEF WriteTotal
<1> QED
  BY <1>2, DueMoves

LEMMA PaymentKeepsInvoices ==
  ASSUME TypeOK, LowerDue \/ RaiseDue
  PROVE  InvoicesKept
<1>1. PICK i, n : \/ invoices' = [invoices EXCEPT ![i].due = @ + n]
                  \/ invoices' = [invoices EXCEPT ![i].due = @ - n]
  BY DEF LowerDue, RaiseDue
<1> QED
  BY <1>1, DueMoves

LEMMA AppendAdds ==
  ASSUME TypeOK, NEW r \in Requests, invoices' = Append(invoices, Inserted(r))
  PROVE  InvoiceAdded(r)
<1>1. Inserted(r) \in Invoice
  BY JobTypes DEF Inserted, Invoice
<1>2. invoices \in Seq(Invoice) /\ invoices' \in Seq(Invoice)
  BY <1>1, AppendProperties DEF TypeOK
<1>3. /\ Len(invoices) \in Nat /\ Len(invoices') = Len(invoices) + 1
      /\ DOMAIN invoices = 1 .. Len(invoices) /\ DOMAIN invoices' = 1 .. Len(invoices')
  BY <1>1, <1>2, AppendProperties, LenProperties
<1>4. /\ \A i \in DOMAIN invoices : invoices'[i] = invoices[i]
      /\ invoices'[Len(invoices) + 1] = Inserted(r)
  BY <1>1, <1>2, <1>3, AppendProperties
<1> QED
  BY <1>3, <1>4 DEF InvoiceAdded

-----------------------------------------------------------------------------
(* The series. *)

LEMMA SeriesStays ==
  ASSUME TypeOK, SeriesInv, InvoicesKept, UNCHANGED lock, NEW r \in Requests, OthersKept(r),
         HoldsSeries(r)'
  PROVE  SeriesInv'
<1>1. SeriesGrows'
  BY DEF SeriesInv, SeriesGrows, InvoicesKept
<1>2. ASSUME NEW q \in Requests, q # r  PROVE HoldsSeries(q)'
  <2>1. pc'[q] = pc[q] /\ job'[q] = job[q] /\ HoldsSeries(q)
    BY <1>2 DEF OthersKept, SeriesInv
  <2>2. \A n : AboveSeries(n) => AboveSeries(n)'
    BY DEF AboveSeries, InvoicesKept
  <2> QED
    BY <2>1, <2>2 DEF HoldsSeries, AboveSeries
<1> QED
  BY <1>1, <1>2 DEF SeriesInv

LEMMA SeriesStaysOutside ==
  ASSUME TypeOK, SeriesInv, InvoicesKept, UNCHANGED <<lock, pc, job>>
  PROVE  SeriesInv'
<1>1. SeriesGrows'
  BY DEF SeriesInv, SeriesGrows, InvoicesKept
<1>2. ASSUME NEW q \in Requests  PROVE HoldsSeries(q)'
  <2>1. HoldsSeries(q)
    BY DEF SeriesInv
  <2>2. AboveSeries(job[q].number) => AboveSeries(job[q].number)'
    BY DEF AboveSeries, InvoicesKept
  <2> QED
    BY <2>1, <2>2 DEF HoldsSeries
<1> QED
  BY <1>1, <1>2 DEF SeriesInv

LEMMA AllocateKeepsSeries ==
  ASSUME TypeOK, SeriesInv, NEW r \in Requests, AllocateDocumentNumber(r)
  PROVE  SeriesInv'
<1>1. /\ lock = {} /\ lock' = {r} /\ invoices' = invoices /\ pc'[r] = "number"
      /\ job' = job /\ OthersKept(r)
  BY GotoSets DEF AllocateDocumentNumber, LockTenant, rows
<1>2. ASSUME NEW q \in Requests  PROVE HoldsSeries(q)'
  <2>1. CASE q = r
    BY <1>1, <2>1 DEF HoldsSeries
  <2>2. CASE q # r
    <3>1. pc'[q] = pc[q] /\ HoldsSeries(q)
      BY <1>1, <2>2 DEF OthersKept, SeriesInv
    <3>2. lock # {q}
      BY <1>1
    <3> QED
      BY <1>1, <3>1, <3>2 DEF HoldsSeries
  <2> QED
    BY <2>1, <2>2
<1>3. SeriesGrows'
  BY <1>1 DEF SeriesInv, SeriesGrows
<1> QED
  BY <1>2, <1>3 DEF SeriesInv

LEMMA ReadKeepsSeries ==
  ASSUME TypeOK, SeriesInv, NEW r \in Requests, ReadNumbers(r)
  PROVE  SeriesInv'
<1> DEFINE n == IF start = Off THEN 0 ELSE Sequence
<1>1. /\ pc[r] = "number" /\ UNCHANGED <<invoices, lock>>
      /\ Begin(r, "insert", [job[r] EXCEPT !.number = n])
  BY DEF ReadNumbers, rows
<1>2. n = 0 \/ AboveSeries(n)
  BY SequenceIsNew DEF AboveSeries
<1> HIDE DEF n
<1>3. pc'[r] = "insert" /\ job'[r].number = n /\ OthersKept(r)
  <2>1. pc'[r] = "insert" /\ job'[r] = [job[r] EXCEPT !.number = n] /\ OthersKept(r)
    BY <1>1, BeginSets
  <2>2. [job[r] EXCEPT !.number = n].number = n
    BY JobTypes DEF Job
  <2> QED
    BY <2>1, <2>2
<1>4. lock = {r}
  BY <1>1 DEF SeriesInv, HoldsSeries
<1>5. HoldsSeries(r)'
  BY <1>1, <1>2, <1>3, <1>4 DEF HoldsSeries, AboveSeries
<1> QED
  BY <1>1, <1>3, <1>5, SameInvoices, SeriesStays

\* The heart of it: what is inserted lies above the series, and whoever else may insert
\* a number of it would have to hold the tenant's row too.
LEMMA InsertKeepsSeries ==
  ASSUME TypeOK, SeriesInv, NEW r \in Requests, InsertInvoice(r)
  PROVE  SeriesInv'
<1>1. pc[r] = "insert" /\ lock' = lock \ {r} /\ HoldsSeries(r)
  BY DEF InsertInvoice, SeriesInv
<1>2. pc'[r] \in {"each", "done", "total"} /\ OthersKept(r)
  BY EndSets, NextDueSets, BeginSets DEF InsertInvoice
<1>3. ASSUME NEW q \in Requests, pc'[q] \in {"number", "insert"}
      PROVE  /\ q # r /\ pc'[q] = pc[q] /\ job'[q] = job[q] /\ HoldsSeries(q)
             /\ pc[q] = "number" \/ job[q].auto => lock = {q} /\ lock' = {q} /\ ~job[r].auto
  <2>1. q # r /\ pc'[q] = pc[q] /\ job'[q] = job[q] /\ HoldsSeries(q)
    BY <1>2, <1>3 DEF OthersKept, SeriesInv
  <2>2. ASSUME pc[q] = "number" \/ job[q].auto
        PROVE  lock = {q} /\ lock' = {q} /\ ~job[r].auto
    <3>1. lock = {q}
      BY <1>3, <2>1, <2>2 DEF HoldsSeries
    <3>2. lock # {r}
      BY <2>1, <3>1
    <3> QED
      BY <1>1, <2>1, <3>1, <3>2 DEF HoldsSeries
  <2> QED
    BY <2>1, <2>2
<1>4. CASE UNCHANGED invoices
  <2>1. SeriesGrows'
    BY <1>4 DEF SeriesInv, SeriesGrows
  <2>2. \A q \in Requests : HoldsSeries(q)'
    BY <1>3, <1>4 DEF HoldsSeries, AboveSeries
  <2> QED
    BY <2>1, <2>2 DEF SeriesInv
<1>5. CASE invoices' = Append(invoices, Inserted(r))
  <2> DEFINE n == Len(invoices) + 1
  <2>1. InvoiceAdded(r) /\ n \in Nat
    BY <1>5, AppendAdds, InvoiceTypes
  <2>2. invoices'[n].number = job[r].number /\ invoices'[n].auto = job[r].auto
    BY <2>1 DEF InvoiceAdded, Inserted
  <2>3. /\ DOMAIN invoices' = DOMAIN invoices \cup {n}
        /\ \A i \in DOMAIN invoices : i \in Nat /\ i < n /\ invoices'[i] = invoices[i]
    BY <2>1, InvoiceTypes DEF InvoiceAdded
  <2> HIDE DEF n
  <2>4. SeriesGrows'
    <3> SUFFICES ASSUME NEW i \in DOMAIN invoices', NEW j \in DOMAIN invoices', i < j,
                        invoices'[i].auto, invoices'[j].auto,
                        invoices'[i].number # 0, invoices'[j].number # 0
                 PROVE  invoices'[i].number < invoices'[j].number
      BY DEF SeriesGrows
    <3>1. i \in DOMAIN invoices
      BY <2>1, <2>3
    <3>2. CASE j \in DOMAIN invoices
      BY <2>3, <3>1, <3>2 DEF SeriesInv, SeriesGrows
    <3>3. CASE j = n
      BY <1>1, <2>2, <2>3, <3>1, <3>3 DEF HoldsSeries, AboveSeries
    <3> QED
      BY <2>3, <3>2, <3>3
  <2>5. ASSUME NEW q \in Requests  PROVE HoldsSeries(q)'
    <3>1. CASE pc'[q] \in {"number", "insert"}
      <4>1. AboveSeries(job[q].number) /\ ~job[r].auto => AboveSeries(job[q].number)'
        BY <1>3, <2>2, <2>3, <3>1 DEF AboveSeries
      <4> QED
        BY <1>3, <3>1, <4>1 DEF HoldsSeries, AboveSeries
    <3>2. CASE pc'[q] \notin {"number", "insert"}
      BY <3>2 DEF HoldsSeries
    <3> QED
      BY <3>1, <3>2
  <2> QED
    BY <2>4, <2>5 DEF SeriesInv
<1> QED
  BY <1>4, <1>5 DEF InsertInvoice

\* The handlers' other steps neither hold the row nor insert.
LEMMA HandlersKeepSeries ==
  ASSUME TypeOK, SeriesInv, NEW r \in Requests,
         \/ Start(r) \/ NumberGiven(r) \/ WriteTotal(r) \/ RunOne(r) \/ EndRun(r) \/ Advance(r)
         \/ LinkChallan(r) \/ MarkChallan(r) \/ LoadForSave(r) \/ WriteChallan(r)
         \/ DeductChallan(r)
  PROVE  SeriesInv'
<1>1. InvoicesKept /\ UNCHANGED lock
  <2>1. CASE WriteTotal(r)
    BY <2>1, TotalKeepsInvoices DEF WriteTotal
  <2>2. CASE ~WriteTotal(r)
    BY <2>2, SameInvoices
       DEF Start, CreateInvoice, RunDueRecurringInvoices, CreateInvoiceFromChallans,
           UpdateDeliveryChallan, NumberGiven, RunOne, EndRun, Advance, LinkChallan, MarkChallan,
           LoadForSave, WriteChallan, DeductChallan, rows
  <2> QED
    BY <2>1, <2>2
<1>2. OthersKept(r) /\ HoldsSeries(r)'
  <2>1. CASE NumberGiven(r)
    <3>1. PICK n : Begin(r, "insert", [job[r] EXCEPT !.number = n, !.auto = FALSE])
      BY <2>1 DEF NumberGiven
    <3>2. [job[r] EXCEPT !.number = n, !.auto = FALSE].auto = FALSE
      BY JobTypes DEF Job
    <3>3. pc'[r] = "insert" /\ job'[r].auto = FALSE /\ OthersKept(r)
      BY <3>1, <3>2, BeginSets
    <3> QED
      BY <3>3 DEF HoldsSeries
  <2>2. CASE Start(r)
    <3>1. PICK label \in {"lock", "each", "load"} : \E j : Begin(r, label, j)
      BY <2>2 DEF Start, CreateInvoice, RunDueRecurringInvoices, CreateInvoiceFromChallans,
                  UpdateDeliveryChallan
    <3> QED
      BY <3>1, BeginSets DEF HoldsSeries
  <2>3. CASE RunOne(r) \/ LoadForSave(r) \/ LinkChallan(r)
    <3>1. PICK label \in {"lock", "each", "write", "mark"} : \E j : Begin(r, label, j)
      BY <2>3 DEF RunOne, LoadForSave, LinkChallan
    <3> QED
      BY <3>1, BeginSets DEF HoldsSeries
  <2>4. CASE \/ WriteTotal(r) \/ EndRun(r) \/ Advance(r) \/ MarkChallan(r) \/ WriteChallan(r)
             \/ DeductChallan(r)
    <3>1. \/ End(r) \/ NextDue(r)
          \/ \E label \in {"link", "advance", "deduct"} : Goto(r, label) /\ UNCHANGED job
      BY <2>4 DEF WriteTotal, EndRun, Advance, MarkChallan, WriteChallan, DeductChallan
    <3>2. pc'[r] \in {"done", "each", "link", "advance", "deduct"} /\ OthersKept(r)
      BY <3>1, EndSets, NextDueSets, GotoSets
    <3> QED
      BY <3>2 DEF HoldsSeries
  <2> QED
    BY <2>1, <2>2, <2>3, <2>4
<1> QED
  BY <1>1, <1>2, SeriesStays

LEMMA CrashKeepsSeries ==
  ASSUME TypeOK, SeriesInv, Crash
  PROVE  SeriesInv'
<1>1. SeriesGrows'
  BY DEF Crash, SeriesInv, SeriesGrows
<1>2. \A r \in Requests : pc'[r] \in {"idle", "done"}
  BY DEF Crash, Running
<1> QED
  BY <1>1, <1>2 DEF SeriesInv, HoldsSeries

LEMMA SeriesStep ==
  ASSUME TypeOK, SeriesInv, [Next]_vars
  PROVE  SeriesInv'
<1>1. CASE UNCHANGED vars \/ SaveDocumentSeries \/ CreateRecurringInvoice \/ DayPasses
  BY <1>1, SameInvoices, SeriesStaysOutside
     DEF vars, rows, SaveDocumentSeries, CreateRecurringInvoice, DayPasses
<1>2. CASE LowerDue \/ RaiseDue
  BY <1>2, PaymentKeepsInvoices, SeriesStaysOutside DEF LowerDue, RaiseDue
<1> QED
  BY <1>1, <1>2, AllocateKeepsSeries, ReadKeepsSeries, InsertKeepsSeries, HandlersKeepSeries,
     CrashKeepsSeries DEF Next, Step

LEMMA SeriesInit ==
  ASSUME Init
  PROVE  SeriesInv
BY DEF Init, SeriesInv, SeriesGrows, HoldsSeries

\* Every row keeps its range.
THEOREM IssuingTypeCorrect == Spec => []TypeOK
<1>1. TypeOK /\ [Next]_vars => TypeOK'
  BY IssuingAssumption, TypeStep
<1> QED
  BY <1>1, InitTypes, PTL DEF Spec

\* Numbers the series gives only grow, in the order the invoices are inserted: the
\* tenant's row is locked from reading the numbers to inserting the invoice, so two
\* handlers never go by the same numbers, and a number given by hand never breaks the
\* order of the others.
THEOREM SeriesOnlyGrow == Spec => []SeriesGrows
<1>1. TypeOK /\ SeriesInv /\ [Next]_vars => SeriesInv'
  BY SeriesStep
<1>2. SeriesInv => SeriesGrows
  BY DEF SeriesInv
<1> QED
  BY <1>1, <1>2, SeriesInit, IssuingTypeCorrect, PTL DEF Spec

-----------------------------------------------------------------------------
(* The schedules. *)

\* What was issued for a date stays issued, and a schedule that has begun has begun.
IssuedStays == \A s \in Schedules, d \in Nat : HasInvoice(s, d) => HasInvoice(s, d)'
BegunStays == \A s \in Schedules : next[s] # Off => next'[s] # Off /\ begun'[s] = begun[s]

LEMMA KeptStays ==
  ASSUME InvoicesKept
  PROVE  IssuedStays
BY DEF InvoicesKept, IssuedStays, HasInvoice

LEMMA AddedStays ==
  ASSUME NEW r \in Requests, InvoiceAdded(r)
  PROVE  IssuedStays
BY DEF InvoiceAdded, IssuedStays, HasInvoice

LEMMA CoveredStays ==
  ASSUME TypeOK, IssuedStays, BegunStays, NEW s \in Schedules, NEW n \in Nat,
         CoveredBefore(s, n)
  PROVE  CoveredBefore(s, n)'
<1>1. next'[s] # Off /\ begun'[s] = begun[s] /\ begun[s] \in Nat
  BY DEF CoveredBefore, BegunStays, TypeOK
<1>2. ASSUME NEW d \in begun[s] .. n - 1  PROVE HasInvoice(s, d)'
  BY <1>1, <1>2 DEF CoveredBefore, IssuedStays
<1> QED
  BY <1>1, <1>2 DEF CoveredBefore

LEMMA RunStays ==
  ASSUME TypeOK, SchedulesInv, IssuedStays, BegunStays, NEW r \in Requests,
         job'[r].batch \subseteq job[r].batch,
         \/ job'[r].schedule = {}
         \/ /\ job'[r].schedule = job[r].schedule /\ job'[r].date = job[r].date
            /\ pc'[r] \in {"total", "advance"} => pc[r] \in {"total", "advance"}
  PROVE  RunKnows(r)'
<1>1. RunKnows(r) /\ job[r].batch \subseteq Schedules \X Nat /\ job[r].schedule \subseteq Schedules
  BY JobTypes DEF SchedulesInv
<1>2. PICK n \in Nat : n = job[r].date
  BY JobTypes
<1>3. ASSUME NEW row \in job'[r].batch  PROVE CoveredBefore(row[1], row[2])'
  <2>1. row \in job[r].batch
    BY <1>3
  <2>2. row[1] \in Schedules /\ row[2] \in Nat /\ CoveredBefore(row[1], row[2])
    BY <1>1, <2>1 DEF RunKnows
  <2> QED
    BY <2>2, CoveredStays
<1>4. ASSUME NEW s \in job'[r].schedule
      PROVE  /\ job'[r].date = n /\ CoveredBefore(s, n)'
             /\ pc'[r] \in {"total", "advance"} => HasInvoice(s, n)'
  <2>1. /\ s \in job[r].schedule /\ s \in Schedules /\ job'[r].date = n
        /\ pc'[r] \in {"total", "advance"} => pc[r] \in {"total", "advance"}
    BY <1>1, <1>2, <1>4
  <2>2. CoveredBefore(s, n) /\ (pc[r] \in {"total", "advance"} => HasInvoice(s, n))
    BY <1>1, <1>2, <2>1 DEF RunKnows
  <2>3. CoveredBefore(s, n)'
    BY <2>1, <2>2, CoveredStays
  <2> QED
    BY <2>1, <2>2, <2>3 DEF IssuedStays
<1> QED
  BY <1>3, <1>4 DEF RunKnows, CoveredBefore, HasInvoice

LEMMA RunsStay ==
  ASSUME TypeOK, SchedulesInv, IssuedStays, BegunStays, NEW r \in Requests, OthersKept(r),
         RunKnows(r)'
  PROVE  \A q \in Requests : RunKnows(q)'
<1> SUFFICES ASSUME NEW q \in Requests, q # r  PROVE RunKnows(q)'
  OBVIOUS
<1>1. pc'[q] = pc[q] /\ job'[q] = job[q]
  BY DEF OthersKept
<1> QED
  BY <1>1, RunStays

\* Where no schedule is moved on, none is before its invoices.
LEMMA DatesStay ==
  ASSUME TypeOK, NoDateSkipped, IssuedStays, UNCHANGED <<next, begun>>
  PROVE  NoDateSkipped'
<1> SUFFICES ASSUME NEW s \in Schedules, NEW d \in begun[s] .. next[s] - 1
             PROVE  HasInvoice(s, d)'
  BY DEF NoDateSkipped, HasInvoice
<1>1. HasInvoice(s, d)
  BY DEF NoDateSkipped, HasInvoice
<1>2. d \in Nat
  <2>1. begun[s] \in Nat /\ next[s] \in Nat
    BY DEF TypeOK
  <2> QED
    BY <2>1
<1> QED
  BY <1>1, <1>2 DEF IssuedStays

\* A step that issues nothing, starts and ends runs, or goes on in one.
LEMMA SchedulesStay ==
  ASSUME TypeOK, SchedulesInv, InvoicesKept, UNCHANGED <<next, begun>>, NEW r \in Requests,
         OthersKept(r), job'[r].batch \subseteq job[r].batch,
         \/ job'[r].schedule = {}
         \/ /\ job'[r].schedule = job[r].schedule /\ job'[r].date = job[r].date
            /\ pc'[r] \in {"total", "advance"} => pc[r] \in {"total", "advance"}
  PROVE  SchedulesInv'
<1>1. IssuedStays /\ BegunStays
  BY KeptStays DEF BegunStays
<1> QED
  BY <1>1, RunStays, RunsStay, DatesStay DEF SchedulesInv

LEMMA StartKeepsSchedules ==
  ASSUME TypeOK, SchedulesInv, NEW r \in Requests, Start(r)
  PROVE  SchedulesInv'
<1>1. InvoicesKept /\ UNCHANGED <<next, begun>>
  BY SameInvoices DEF Start, CreateInvoice, RunDueRecurringInvoices, CreateInvoiceFromChallans,
                      UpdateDeliveryChallan, rows
<1>2. CASE RunDueRecurringInvoices(r)
  <2> DEFINE batch == {<<s, next[s]>> : s \in Due}
  <2>1. /\ job'[r] = [NoJob EXCEPT !.kind = "recurring", !.batch = batch]
        /\ pc'[r] = "each" /\ OthersKept(r)
    BY <1>2, BeginSets DEF RunDueRecurringInvoices
  <2>2. job'[r].batch = batch /\ job'[r].schedule = {}
    BY <2>1 DEF NoJob
  <2>3. IssuedStays /\ BegunStays
    BY <1>1, KeptStays DEF BegunStays
  <2>4. ASSUME NEW row \in batch  PROVE CoveredBefore(row[1], row[2])'
    <3>1. PICK s \in Due : row = <<s, next[s]>>
      OBVIOUS
    <3>2. s \in Schedules /\ row[1] = s /\ row[2] = next[s] /\ next[s] \in Nat /\ next[s] # Off
      BY <3>1 DEF Due, TypeOK
    <3>3. CoveredBefore(s, next[s])
      BY <3>2 DEF SchedulesInv, NoDateSkipped, CoveredBefore, HasInvoice
    <3>4. row[1] \in Schedules /\ row[2] \in Nat /\ CoveredBefore(row[1], row[2])
      BY <3>2, <3>3
    <3> QED
      BY <2>3, <3>4, CoveredStays
  <2>5. RunKnows(r)'
    BY <2>2, <2>4 DEF RunKnows
  <2> QED
    BY <1>1, <2>1, <2>3, <2>5, RunsStay, DatesStay DEF SchedulesInv
<1>3. CASE CreateInvoice(r)
  <2>1. PICK amount, held, onCredit :
          Begin(r, "lock", [NoJob EXCEPT !.kind = "invoice", !.amount = amount, !.lines = held,
                                         !.onCredit = onCredit])
    BY <1>3 DEF CreateInvoice
  <2>2. /\ job'[r] = [NoJob EXCEPT !.kind = "invoice", !.amount = amount, !.lines = held,
                                   !.onCredit = onCredit]
        /\ OthersKept(r)
    BY <2>1, BeginSets
  <2>3. job'[r].batch = {} /\ job'[r].schedule = {}
    BY <2>2 DEF NoJob
  <2> QED
    BY <1>1, <2>2, <2>3, SchedulesStay
<1>4. CASE CreateInvoiceFromChallans(r)
  <2>1. PICK cs :
          Begin(r, "lock", [NoJob EXCEPT !.kind = "bill", !.of = cs, !.amount = Cardinality(cs)])
    BY <1>4 DEF CreateInvoiceFromChallans
  <2>2. job'[r] = [NoJob EXCEPT !.kind = "bill", !.of = cs, !.amount = Cardinality(cs)] /\ OthersKept(r)
    BY <2>1, BeginSets
  <2>3. job'[r].batch = {} /\ job'[r].schedule = {}
    BY <2>2 DEF NoJob
  <2> QED
    BY <1>1, <2>2, <2>3, SchedulesStay
<1>5. CASE UpdateDeliveryChallan(r)
  <2>1. PICK c \in Challans, to \in {"draft", "delivered"} :
          Begin(r, "load", [NoJob EXCEPT
               !.kind = "challan", !.of = {c}, !.copy = [challan[c] EXCEPT !.status = to],
               !.first = (to = "delivered" /\ challan[c].status # "delivered")])
    BY <1>5 DEF UpdateDeliveryChallan
  <2>2. job'[r] = [NoJob EXCEPT
               !.kind = "challan", !.of = {c}, !.copy = [challan[c] EXCEPT !.status = to],
               !.first = (to = "delivered" /\ challan[c].status # "delivered")] /\ OthersKept(r)
    BY <2>1, BeginSets
  <2>3. job'[r].batch = {} /\ job'[r].schedule = {}
    BY <2>2 DEF NoJob
  <2> QED
    BY <1>1, <2>2, <2>3, SchedulesStay
<1> QED
  BY <1>2, <1>3, <1>4, <1>5 DEF Start

LEMMA IssueKeepsSchedules ==
  ASSUME TypeOK, SchedulesInv, NEW r \in Requests,
         NumberGiven(r) \/ AllocateDocumentNumber(r) \/ ReadNumbers(r)
  PROVE  SchedulesInv'
<1>1. InvoicesKept /\ UNCHANGED <<next, begun>> /\ pc'[r] \in {"number", "insert"} /\ OthersKept(r)
  <2>1. CASE AllocateDocumentNumber(r)
    BY <2>1, SameInvoices, GotoSets DEF AllocateDocumentNumber, rows
  <2>2. CASE NumberGiven(r) \/ ReadNumbers(r)
    <3>1. \E j : Begin(r, "insert", j)
      BY <2>2 DEF NumberGiven, ReadNumbers
    <3> QED
      BY <2>2, <3>1, SameInvoices, BeginSets DEF NumberGiven, ReadNumbers, rows
  <2> QED
    BY <2>1, <2>2
<1>2. /\ job'[r].batch = job[r].batch /\ job'[r].schedule = job[r].schedule
      /\ job'[r].date = job[r].date
  <2>1. CASE AllocateDocumentNumber(r)
    BY <2>1 DEF AllocateDocumentNumber
  <2>2. CASE NumberGiven(r)
    <3>1. PICK n : Begin(r, "insert", [job[r] EXCEPT !.number = n, !.auto = FALSE])
      BY <2>2 DEF NumberGiven
    <3>2. job'[r] = [job[r] EXCEPT !.number = n, !.auto = FALSE]
      BY <3>1, BeginSets
    <3> QED
      BY <3>2, JobTypes DEF Job
  <2>3. CASE ReadNumbers(r)
    <3>1. PICK n : Begin(r, "insert", [job[r] EXCEPT !.number = n])
      BY <2>3 DEF ReadNumbers
    <3>2. job'[r] = [job[r] EXCEPT !.number = n]
      BY <3>1, BeginSets
    <3> QED
      BY <3>2, JobTypes DEF Job
  <2> QED
    BY <2>1, <2>2, <2>3
<1> QED
  BY <1>1, <1>2, SchedulesStay

\* The invoice of the date the run is at.
LEMMA InsertKeepsSchedules ==
  ASSUME TypeOK, SchedulesInv, NEW r \in Requests, InsertInvoice(r)
  PROVE  SchedulesInv'
<1>1. UNCHANGED <<next, begun>>
  BY DEF InsertInvoice
<1>2. CASE NextDue(r) \/ End(r)
  <2>1. /\ OthersKept(r) /\ job'[r].batch \subseteq job[r].batch /\ job'[r].schedule = {}
    BY <1>2, NextDueSets, EndSets
  <2>2. InvoicesKept
    <3>1. UNCHANGED invoices \/ pc'[r] = "total"
      BY BeginSets DEF InsertInvoice
    <3>2. pc'[r] # "total"
      BY <1>2, NextDueSets, EndSets
    <3> QED
      BY <3>1, <3>2, SameInvoices
  <2> QED
    BY <1>1, <2>1, <2>2, SchedulesStay
<1>3. CASE /\ invoices' = Append(invoices, Inserted(r))
           /\ Begin(r, "total", [job[r] EXCEPT !.id = Len(invoices) + 1])
  <2> DEFINE n == Len(invoices) + 1
  <2>1. InvoiceAdded(r)
    BY <1>3, AppendAdds
  <2>2. IssuedStays /\ BegunStays
    BY <1>1, <2>1, AddedStays DEF BegunStays
  <2>3. pc'[r] = "total" /\ job'[r] = [job[r] EXCEPT !.id = n] /\ OthersKept(r)
    BY <1>3, BeginSets
  <2>4. /\ job'[r].batch = job[r].batch /\ job'[r].schedule = job[r].schedule
        /\ job'[r].date = job[r].date
    BY <2>3, JobTypes DEF Job
  <2>5. \A s \in job[r].schedule : HasInvoice(s, job[r].date)'
    <3>1. n \in DOMAIN invoices' /\ invoices'[n] = Inserted(r)
      BY <2>1 DEF InvoiceAdded
    <3>2. invoices'[n].schedule = job[r].schedule /\ invoices'[n].date = job[r].date
      BY <3>1 DEF Inserted
    <3> HIDE DEF n
    <3> QED
      BY <2>4, <3>1, <3>2 DEF HasInvoice
  <2>6. /\ \A row \in job[r].batch : CoveredBefore(row[1], row[2])'
        /\ \A s \in job[r].schedule : CoveredBefore(s, job[r].date)'
    <3>1. RunKnows(r) /\ job[r].batch \subseteq Schedules \X Nat /\ job[r].schedule \subseteq Schedules
      BY JobTypes DEF SchedulesInv
    <3>2. PICK m \in Nat : m = job[r].date /\ m = job'[r].date
      BY <2>4, JobTypes
    <3>3. \A s \in job[r].schedule : CoveredBefore(s, m)'
      BY <2>2, <3>1, <3>2, CoveredStays DEF RunKnows
    <3>4. ASSUME NEW row \in job[r].batch  PROVE CoveredBefore(row[1], row[2])'
      <4>1. row[1] \in Schedules /\ row[2] \in Nat /\ CoveredBefore(row[1], row[2])
        BY <3>1 DEF RunKnows
      <4> QED
        BY <2>2, <4>1, CoveredStays
    <3> QED
      BY <3>2, <3>3, <3>4 DEF CoveredBefore
  <2>7. RunKnows(r)'
    BY <2>3, <2>4, <2>5, <2>6 DEF RunKnows
  <2> QED
    BY <1>1, <2>2, <2>3, <2>7, RunsStay, DatesStay DEF SchedulesInv
<1> QED
  BY <1>2, <1>3 DEF InsertInvoice

LEMMA TotalKeepsSchedules ==
  ASSUME TypeOK, SchedulesInv, NEW r \in Requests, WriteTotal(r)
  PROVE  SchedulesInv'
<1>1. InvoicesKept /\ UNCHANGED <<next, begun>> /\ pc[r] = "total"
  BY TotalKeepsInvoices DEF WriteTotal
<1>2. CASE End(r) \/ NextDue(r)
  BY <1>1, <1>2, EndSets, NextDueSets, SchedulesStay
<1>3. CASE \E label \in {"link", "advance"} : Goto(r, label) /\ UNCHANGED job
  BY <1>1, <1>3, GotoSets, SchedulesStay
<1> QED
  BY <1>2, <1>3 DEF WriteTotal

LEMMA RunKeepsSchedules ==
  ASSUME TypeOK, SchedulesInv, NEW r \in Requests, RunOne(r)
  PROVE  SchedulesInv'
<1>1. PICK row \in job[r].batch : RunOne(r)!(row)
  BY DEF RunOne
<1> DEFINE j == [job[r] EXCEPT !.schedule = {row[1]}, !.date = row[2],
                               !.amount = 1, !.batch = @ \ {row}]
           k == [job[r] EXCEPT !.batch = @ \ {row}]
<1>2. InvoicesKept /\ UNCHANGED <<next, begun>> /\ IssuedStays /\ BegunStays
  BY <1>1, SameInvoices, KeptStays DEF rows, BegunStays
<1>3. CASE Begin(r, "lock", j)
  <2>1. pc'[r] = "lock" /\ job'[r] = j /\ OthersKept(r)
    BY <1>3, BeginSets
  <2>2. /\ job'[r].schedule = {row[1]} /\ job'[r].date = row[2]
        /\ job'[r].batch = job[r].batch \ {row}
    BY <2>1, JobTypes DEF Job
  <2>3. ASSUME NEW b \in job[r].batch  PROVE CoveredBefore(b[1], b[2])'
    <3>1. b[1] \in Schedules /\ b[2] \in Nat /\ CoveredBefore(b[1], b[2])
      BY JobTypes DEF SchedulesInv, RunKnows
    <3> QED
      BY <1>2, <3>1, CoveredStays
  <2>4. RunKnows(r)'
    BY <2>1, <2>2, <2>3 DEF RunKnows, CoveredBefore, HasInvoice
  <2> QED
    BY <1>2, <2>1, <2>4, RunsStay, DatesStay DEF SchedulesInv
<1>4. CASE Begin(r, "each", k)
  <2>1. pc'[r] = "each" /\ job'[r] = k /\ OthersKept(r)
    BY <1>4, BeginSets
  <2>2. /\ job'[r].schedule = job[r].schedule /\ job'[r].date = job[r].date
        /\ job'[r].batch = job[r].batch \ {row}
    BY <2>1, JobTypes DEF Job
  <2> QED
    BY <1>2, <2>1, <2>2, SchedulesStay
<1> QED
  BY <1>1, <1>3, <1>4

\* A schedule is moved on from the date it was read with to the day after it, whatever
\* its row says by then: all dates before that one have their invoice, and so has it.
LEMMA AdvanceKeepsSchedules ==
  ASSUME TypeOK, SchedulesInv, NEW r \in Requests, Advance(r)
  PROVE  SchedulesInv'
<1>1. PICK s \in job[r].schedule : Advance(r)!(s)
  BY DEF Advance
<1>2. PICK n \in Nat : n = job[r].date
  BY JobTypes
<1>3. /\ s \in Schedules /\ CoveredBefore(s, n) /\ HasInvoice(s, n)
  BY <1>1, <1>2, JobTypes DEF SchedulesInv, RunKnows
<1>4. next' = [next EXCEPT ![s] = n + 1] /\ UNCHANGED <<begun, invoices>>
  BY <1>1, <1>2 DEF DayAfter
<1>5. IssuedStays
  BY <1>4, SameInvoices, KeptStays
<1>6. BegunStays
  BY <1>4 DEF BegunStays, TypeOK, Off
<1>7. /\ OthersKept(r) /\ job'[r].batch = job[r].batch /\ job'[r].schedule = {}
  BY <1>1, NextDueSets
<1>8. NoDateSkipped'
  <2> SUFFICES ASSUME NEW x \in Schedules, NEW d \in begun[x] .. next'[x] - 1
               PROVE  HasInvoice(x, d)
    BY <1>4 DEF NoDateSkipped, HasInvoice
  <2>1. CASE x # s
    BY <1>4, <2>1 DEF SchedulesInv, NoDateSkipped, HasInvoice, TypeOK
  <2>2. CASE x = s
    <3>1. next'[x] = n + 1 /\ begun[x] \in Nat
      BY <1>3, <1>4, <2>2 DEF TypeOK
    <3>2. d = n \/ d \in begun[x] .. n - 1
      BY <3>1
    <3> QED
      BY <1>3, <2>2, <3>2 DEF CoveredBefore
  <2> QED
    BY <2>1, <2>2
<1> QED
  BY <1>5, <1>6, <1>7, <1>8, RunStays, RunsStay DEF SchedulesInv

LEMMA ChallansKeepSchedules ==
  ASSUME TypeOK, SchedulesInv, NEW r \in Requests,
         \/ EndRun(r) \/ LinkChallan(r) \/ MarkChallan(r) \/ LoadForSave(r) \/ WriteChallan(r)
         \/ DeductChallan(r)
  PROVE  SchedulesInv'
<1>1. InvoicesKept /\ UNCHANGED <<next, begun>>
  BY SameInvoices DEF EndRun, LinkChallan, MarkChallan, LoadForSave, WriteChallan, DeductChallan,
                      rows
<1>2. CASE End(r)
  BY <1>1, <1>2, EndSets, SchedulesStay
<1>3. CASE LinkChallan(r) \/ LoadForSave(r)
  <2>1. PICK c, cols :
          \/ Begin(r, "mark", [job[r] EXCEPT !.dc = {c}, !.of = @ \ {c}])
          \/ Begin(r, "write", [job[r] EXCEPT !.dirty = cols])
    BY <1>3 DEF LinkChallan, LoadForSave
  <2>2. /\ pc'[r] \in {"mark", "write"} /\ OthersKept(r)
        /\ \/ job'[r] = [job[r] EXCEPT !.dc = {c}, !.of = @ \ {c}]
           \/ job'[r] = [job[r] EXCEPT !.dirty = cols]
    BY <2>1, BeginSets
  <2>3. /\ job'[r].batch = job[r].batch /\ job'[r].schedule = job[r].schedule
        /\ job'[r].date = job[r].date
    BY <2>2, JobTypes DEF Job
  <2> QED
    BY <1>1, <2>2, <2>3, SchedulesStay
<1>4. CASE \E label \in {"link", "deduct"} : Goto(r, label) /\ UNCHANGED job
  BY <1>1, <1>4, GotoSets, SchedulesStay
<1> QED
  BY <1>2, <1>3, <1>4 DEF EndRun, MarkChallan, WriteChallan, DeductChallan

\* What runs outside the requests leaves the runs as they are.
LEMMA OutsideKeepsRuns ==
  ASSUME TypeOK, SchedulesInv, IssuedStays, BegunStays, UNCHANGED <<pc, job>>
  PROVE  \A r \in Requests : RunKnows(r)'
BY RunStays

LEMMA OutsideKeepsSchedules ==
  ASSUME IssuingAssumption, TypeOK, SchedulesInv,
         \/ UNCHANGED vars \/ SaveDocumentSeries \/ CreateRecurringInvoice \/ DayPasses
         \/ LowerDue \/ RaiseDue
  PROVE  SchedulesInv'
<1>1. InvoicesKept /\ UNCHANGED <<pc, job>>
  BY SameInvoices, PaymentKeepsInvoices
     DEF vars, rows, SaveDocumentSeries, CreateRecurringInvoice, DayPasses, LowerDue, RaiseDue
<1>2. IssuedStays
  BY <1>1, KeptStays
<1>3. CASE CreateRecurringInvoice
  <2>1. PICK s \in Schedules, date \in 1 .. MaxDate :
          /\ next[s] = Off /\ next' = [next EXCEPT ![s] = date]
          /\ begun' = [begun EXCEPT ![s] = date] /\ UNCHANGED invoices
    BY <1>3 DEF CreateRecurringInvoice
  <2>2. date \in Nat
    BY DEF IssuingAssumption
  <2>3. BegunStays
    BY <2>1 DEF BegunStays, TypeOK
  <2>4. NoDateSkipped'
    <3> SUFFICES ASSUME NEW x \in Schedules, NEW d \in begun'[x] .. next'[x] - 1
                 PROVE  HasInvoice(x, d)
      BY <2>1 DEF NoDateSkipped, HasInvoice
    <3>1. CASE x = s
      <4>1. begun'[x] = date /\ next'[x] = date
        BY <2>1, <3>1 DEF TypeOK
      <4> QED
        BY <2>2, <4>1
    <3>2. CASE x # s
      BY <2>1, <3>2 DEF SchedulesInv, NoDateSkipped, HasInvoice, TypeOK
    <3> QED
      BY <3>1, <3>2
  <2> QED
    BY <1>1, <1>2, <2>3, <2>4, OutsideKeepsRuns DEF SchedulesInv
<1>4. CASE ~CreateRecurringInvoice
  <2>1. UNCHANGED <<next, begun>>
    BY <1>4 DEF vars, rows, SaveDocumentSeries, DayPasses, LowerDue, RaiseDue
  <2> QED
    BY <1>1, <1>2, <2>1, OutsideKeepsRuns, DatesStay DEF SchedulesInv, BegunStays
<1> QED
  BY <1>3, <1>4

LEMMA CrashKeepsSchedules ==
  ASSUME TypeOK, SchedulesInv, Crash
  PROVE  SchedulesInv'
<1>1. IssuedStays /\ UNCHANGED <<next, begun>>
  BY SameInvoices, KeptStays DEF Crash
<1>2. \A r \in Requests : job'[r].batch = {} /\ job'[r].schedule = {}
  BY BlankFields DEF Crash
<1> QED
  BY <1>1, <1>2, DatesStay DEF SchedulesInv, RunKnows

LEMMA SchedulesStep ==
  ASSUME IssuingAssumption, TypeOK, SchedulesInv, [Next]_vars
  PROVE  SchedulesInv'
BY StartKeepsSchedules, IssueKeepsSchedules, InsertKeepsSchedules, TotalKeepsSchedules,
   RunKeepsSchedules, AdvanceKeepsSchedules, ChallansKeepSchedules, OutsideKeepsSchedules,
   CrashKeepsSchedules DEF Next, Step

LEMMA SchedulesInit ==
  ASSUME Init
  PROVE  SchedulesInv
<1>1. NoDateSkipped
  BY DEF Init, NoDateSkipped, Off
<1>2. \A r \in Requests : RunKnows(r)
  BY BlankFields DEF Init, RunKnows
<1> QED
  BY <1>1, <1>2 DEF SchedulesInv

\* No date of a schedule is left without its invoice: a run moves a schedule on only from
\* the date it issued, and to the one after it, so a run that fails, is cut short or goes by
\* dates that another run has moved on may issue twice, but never too little.
THEOREM NoDateIsSkipped == Spec => []NoDateSkipped
<1>1. TypeOK /\ SchedulesInv /\ [Next]_vars => SchedulesInv'
  BY IssuingAssumption, SchedulesStep
<1>2. SchedulesInv => NoDateSkipped
  BY DEF SchedulesInv
<1> QED
  BY <1>1, <1>2, SchedulesInit, IssuingTypeCorrect, PTL DEF Spec

-----------------------------------------------------------------------------
(* The challans. *)

\* No invoice loses a challan, and no link goes.
UnderStays ==
  /\ DOMAIN invoices \subseteq DOMAIN invoices' /\ links \subseteq links'
  /\ \A i \in DOMAIN invoices : invoices'[i].of = invoices[i].of

LEMMA ChallansStay ==
  ASSUME ChallansInv, UnderStays, NEW r \in Requests, OthersKept(r), ShownIsLinked',
         BillKnows(r)'
  PROVE  ChallansInv'
<1> SUFFICES ASSUME NEW q \in Requests, q # r  PROVE BillKnows(q)'
  BY DEF ChallansInv
<1>1. pc'[q] = pc[q] /\ job'[q] = job[q] /\ BillKnows(q)
  BY DEF OthersKept, ChallansInv
<1> QED
  BY <1>1 DEF BillKnows, Under, UnderStays

LEMMA ShownStays ==
  ASSUME ChallansInv, UnderStays, UNCHANGED challan
  PROVE  ShownIsLinked'
BY DEF ChallansInv, ShownIsLinked, UnderStays

LEMMA OnlyKept ==
  ASSUME InvoicesKept, links \subseteq links'
  PROVE  UnderStays
BY DEF InvoicesKept, UnderStays

LEMMA StartKeepsChallans ==
  ASSUME TypeOK, ChallansInv, NEW r \in Requests, Start(r)
  PROVE  ChallansInv'
<1>1. UNCHANGED <<invoices, links, challan>>
  BY DEF Start, CreateInvoice, RunDueRecurringInvoices, CreateInvoiceFromChallans,
         UpdateDeliveryChallan, rows
<1>2. UnderStays /\ ShownIsLinked'
  BY <1>1, SameInvoices, OnlyKept, ShownStays
<1>3. OthersKept(r) /\ BillKnows(r)'
  <2>1. CASE ~UpdateDeliveryChallan(r)
    <3>1. PICK label \in {"lock", "each"} : \E j : Begin(r, label, j)
      BY <2>1 DEF Start, CreateInvoice, RunDueRecurringInvoices, CreateInvoiceFromChallans
    <3>2. pc'[r] \in {"lock", "each"} /\ OthersKept(r)
      BY <3>1, BeginSets
    <3> QED
      BY <3>2 DEF BillKnows
  <2>2. CASE UpdateDeliveryChallan(r)
    <3>1. PICK c \in Challans, to \in {"draft", "delivered"} :
            Begin(r, "load", [NoJob EXCEPT
                 !.kind = "challan", !.of = {c}, !.copy = [challan[c] EXCEPT !.status = to],
                 !.first = (to = "delivered" /\ challan[c].status # "delivered")])
      BY <2>2 DEF UpdateDeliveryChallan
    <3>2. /\ pc'[r] = "load" /\ OthersKept(r)
          /\ job'[r] = [NoJob EXCEPT
                 !.kind = "challan", !.of = {c}, !.copy = [challan[c] EXCEPT !.status = to],
                 !.first = (to = "delivered" /\ challan[c].status # "delivered")]
      BY <3>1, BeginSets
    <3>3. job'[r].of = {c} /\ job'[r].copy = [challan[c] EXCEPT !.status = to]
      BY <3>2 DEF NoJob
    <3>4. job'[r].copy.invoice = challan[c].invoice
      BY <3>3 DEF TypeOK, Challan
    <3>5. challan[c].invoice # 0 => Under(challan[c].invoice, c)
      BY DEF ChallansInv, ShownIsLinked, Under
    <3> QED
      BY <1>1, <3>2, <3>3, <3>4, <3>5 DEF BillKnows, Under
  <2> QED
    BY <2>1, <2>2
<1> QED
  BY <1>2, <1>3, ChallansStay

\* The invoice of a bill is made for its challans.
LEMMA InsertKeepsChallans ==
  ASSUME TypeOK, ChallansInv, NEW r \in Requests, InsertInvoice(r)
  PROVE  ChallansInv'
<1>1. UNCHANGED <<links, challan>>
  BY DEF InsertInvoice
<1>2. CASE UNCHANGED invoices /\ (NextDue(r) \/ End(r))
  <2>1. OthersKept(r) /\ pc'[r] \in {"each", "done"}
    BY <1>2, NextDueSets, EndSets
  <2> QED
    BY <1>1, <1>2, <2>1, SameInvoices, OnlyKept, ShownStays, ChallansStay DEF BillKnows
<1>3. CASE /\ invoices' = Append(invoices, Inserted(r))
           /\ Begin(r, "total", [job[r] EXCEPT !.id = Len(invoices) + 1])
  <2> DEFINE n == Len(invoices) + 1
  <2>1. InvoiceAdded(r)
    BY <1>3, AppendAdds
  <2>2. UnderStays
    BY <1>1, <2>1 DEF InvoiceAdded, UnderStays
  <2>3. pc'[r] = "total" /\ job'[r] = [job[r] EXCEPT !.id = n] /\ OthersKept(r)
    BY <1>3, BeginSets
  <2>4. n \in DOMAIN invoices' /\ invoices'[n].of = job[r].of
    BY <2>1 DEF InvoiceAdded, Inserted
  <2> HIDE DEF n
  <2>5. job'[r].of = job[r].of /\ job'[r].id = n
    BY <2>3, JobTypes DEF Job
  <2>6. BillKnows(r)'
    BY <2>3, <2>4, <2>5 DEF BillKnows
  <2> QED
    BY <1>1, <2>2, <2>3, <2>6, ShownStays, ChallansStay
<1> QED
  BY <1>2, <1>3 DEF InsertInvoice

LEMMA LinkKeepsChallans ==
  ASSUME TypeOK, ChallansInv, NEW r \in Requests, LinkChallan(r)
  PROVE  ChallansInv'
<1>1. PICK c \in job[r].of : LinkChallan(r)!(c)
  BY DEF LinkChallan
<1>2. UNCHANGED <<invoices, challan>> /\ links' = links \cup {<<job[r].id, c>>} /\ pc[r] = "link"
  BY <1>1 DEF InsertLink
<1>3. UnderStays /\ ShownIsLinked'
  BY <1>2, SameInvoices, OnlyKept, ShownStays
<1>4. /\ pc'[r] = "mark" /\ OthersKept(r)
      /\ job'[r] = [job[r] EXCEPT !.dc = {c}, !.of = @ \ {c}]
  BY <1>1, BeginSets
<1>5. job'[r].dc = {c} /\ job'[r].of = job[r].of \ {c} /\ job'[r].id = job[r].id
  BY <1>4, JobTypes DEF Job
<1>6. job[r].id \in DOMAIN invoices /\ job[r].of \subseteq invoices[job[r].id].of
  BY <1>2 DEF ChallansInv, BillKnows
<1>7. BillKnows(r)'
  BY <1>2, <1>4, <1>5, <1>6 DEF BillKnows, Under
<1> QED
  BY <1>3, <1>4, <1>7, ChallansStay

LEMMA MarkKeepsChallans ==
  ASSUME TypeOK, ChallansInv, NEW r \in Requests, MarkChallan(r)
  PROVE  ChallansInv'
<1>1. PICK c \in job[r].dc : MarkChallan(r)!(c)
  BY DEF MarkChallan
<1>2. /\ UNCHANGED <<invoices, links>> /\ pc[r] = "mark" /\ BillKnows(r) /\ c \in Challans
      /\ challan' = [challan EXCEPT ![c].invoice = job[r].id]
  BY <1>1, JobTypes DEF ChallansInv
<1>3. UnderStays
  BY <1>2, SameInvoices, OnlyKept
<1>4. Under(job[r].id, c)
  BY <1>2 DEF BillKnows
<1>5. /\ challan'[c].invoice = job[r].id
      /\ \A d \in Challans \ {c} : challan'[d] = challan[d]
  BY <1>2 DEF TypeOK, Challan
<1>6. ShownIsLinked'
  BY <1>2, <1>4, <1>5 DEF ChallansInv, ShownIsLinked, Under
<1>7. OthersKept(r) /\ (pc'[r] = "done" \/ (pc'[r] = "link" /\ job'[r] = job[r]))
  BY <1>1, EndSets, GotoSets
<1>8. BillKnows(r)'
  BY <1>2, <1>7 DEF BillKnows
<1> QED
  BY <1>3, <1>6, <1>7, <1>8, ChallansStay

\* A save writes the invoice its copy shows, or leaves the one the row shows.
LEMMA WriteKeepsChallans ==
  ASSUME TypeOK, ChallansInv, NEW r \in Requests, WriteChallan(r)
  PROVE  ChallansInv'
<1>1. PICK c \in job[r].of : WriteChallan(r)!(c)
  BY DEF WriteChallan
<1>2. PICK status, invoice :
        /\ challan' = [challan EXCEPT ![c] = [status |-> status, invoice |-> invoice]]
        /\ invoice \in {job[r].copy.invoice, challan[c].invoice}
  BY <1>1
<1>3. /\ UNCHANGED <<invoices, links>> /\ pc[r] = "write" /\ BillKnows(r) /\ c \in Challans
  BY <1>1, JobTypes DEF ChallansInv
<1>4. invoice # 0 => Under(invoice, c)
  BY <1>2, <1>3 DEF ChallansInv, ShownIsLinked, BillKnows, Under
<1>5. /\ challan'[c].invoice = invoice
      /\ \A d \in Challans \ {c} : challan'[d] = challan[d]
  BY <1>2, <1>3 DEF TypeOK
<1>6. ShownIsLinked'
  BY <1>3, <1>4, <1>5 DEF ChallansInv, ShownIsLinked, Under
<1>7. OthersKept(r) /\ pc'[r] \in {"done", "deduct"}
  BY <1>1, EndSets, GotoSets
<1> QED
  BY <1>3, <1>6, <1>7, SameInvoices, OnlyKept, ChallansStay DEF BillKnows

\* The other steps change no challan.
LEMMA HandlersKeepChallans ==
  ASSUME TypeOK, ChallansInv, NEW r \in Requests,
         \/ NumberGiven(r) \/ AllocateDocumentNumber(r) \/ ReadNumbers(r) \/ WriteTotal(r)
         \/ RunOne(r) \/ EndRun(r) \/ Advance(r) \/ LoadForSave(r) \/ DeductChallan(r)
  PROVE  ChallansInv'
<1>1. UNCHANGED <<links, challan>>
  BY DEF NumberGiven, AllocateDocumentNumber, ReadNumbers, WriteTotal, RunOne, EndRun, Advance,
         LoadForSave, DeductChallan, rows
<1>2. InvoicesKept
  <2>1. CASE WriteTotal(r)
    BY <2>1, TotalKeepsInvoices
  <2>2. CASE ~WriteTotal(r)
    BY <2>2, SameInvoices
       DEF NumberGiven, AllocateDocumentNumber, ReadNumbers, RunOne, EndRun, Advance, LoadForSave,
           DeductChallan, rows
  <2> QED
    BY <2>1, <2>2
<1>3. UnderStays /\ ShownIsLinked'
  BY <1>1, <1>2, OnlyKept, ShownStays
<1>4. OthersKept(r) /\ BillKnows(r)'
  <2>1. CASE NumberGiven(r) \/ ReadNumbers(r) \/ RunOne(r)
    <3>1. PICK label \in {"insert", "lock", "each"} : \E j : Begin(r, label, j)
      BY <2>1 DEF NumberGiven, ReadNumbers, RunOne
    <3>2. pc'[r] \in {"insert", "lock", "each"} /\ OthersKept(r)
      BY <3>1, BeginSets
    <3> QED
      BY <3>2 DEF BillKnows
  <2>2. CASE \/ AllocateDocumentNumber(r) \/ EndRun(r) \/ Advance(r) \/ DeductChallan(r)
    <3>1. pc'[r] \in {"number", "done", "each"} /\ OthersKept(r)
      BY <2>2, GotoSets, EndSets, NextDueSets
         DEF AllocateDocumentNumber, EndRun, Advance, DeductChallan
    <3> QED
      BY <3>1 DEF BillKnows
  <2>3. CASE WriteTotal(r)
    <3>1. pc[r] = "total" /\ BillKnows(r)
      BY <2>3 DEF WriteTotal, ChallansInv
    <3>2. /\ OthersKept(r)
          /\ pc'[r] \in {"done", "each", "advance"} \/ (pc'[r] = "link" /\ job'[r] = job[r])
      BY <2>3, EndSets, NextDueSets, GotoSets DEF WriteTotal
    <3> QED
      BY <1>2, <3>1, <3>2 DEF BillKnows, InvoicesKept
  <2>4. CASE LoadForSave(r)
    <3>1. PICK cols : Begin(r, "write", [job[r] EXCEPT !.dirty = cols])
      BY <2>4 DEF LoadForSave
    <3>2. pc'[r] = "write" /\ job'[r] = [job[r] EXCEPT !.dirty = cols] /\ OthersKept(r)
      BY <3>1, BeginSets
    <3>3. job'[r].of = job[r].of /\ job'[r].copy = job[r].copy
      BY <3>2, JobTypes DEF Job
    <3>4. pc[r] = "load" /\ BillKnows(r)
      BY <2>4 DEF LoadForSave, ChallansInv
    <3> QED
      BY <1>3, <3>2, <3>3, <3>4 DEF BillKnows, Under, UnderStays
  <2> QED
    BY <2>1, <2>2, <2>3, <2>4
<1> QED
  BY <1>3, <1>4, ChallansStay

LEMMA OutsideKeepsChallans ==
  ASSUME TypeOK, ChallansInv,
         \/ UNCHANGED vars \/ SaveDocumentSeries \/ CreateRecurringInvoice \/ DayPasses
         \/ LowerDue \/ RaiseDue \/ Crash
  PROVE  ChallansInv'
<1>1. UNCHANGED <<challan, links>> /\ InvoicesKept
  BY SameInvoices, PaymentKeepsInvoices
     DEF vars, rows, SaveDocumentSeries, CreateRecurringInvoice, DayPasses, LowerDue, RaiseDue,
         Crash
<1>2. UnderStays /\ ShownIsLinked'
  BY <1>1, OnlyKept, ShownStays
<1>3. CASE UNCHANGED <<pc, job>>
  BY <1>2, <1>3 DEF ChallansInv, BillKnows, Under, UnderStays
<1>4. CASE Crash
  <2>1. \A r \in Requests : pc'[r] \in {"idle", "done"}
    BY <1>4 DEF Crash, Running
  <2> QED
    BY <1>2, <2>1 DEF ChallansInv, BillKnows
<1> QED
  BY <1>3, <1>4
     DEF vars, SaveDocumentSeries, CreateRecurringInvoice, DayPasses, LowerDue, RaiseDue

LEMMA ChallansStep ==
  ASSUME TypeOK, ChallansInv, [Next]_vars
  PROVE  ChallansInv'
BY StartKeepsChallans, InsertKeepsChallans, LinkKeepsChallans, MarkKeepsChallans,
   WriteKeepsChallans, HandlersKeepChallans, OutsideKeepsChallans DEF Next, Step

LEMMA ChallansInit ==
  ASSUME Init
  PROVE  ChallansInv
BY DEF Init, ChallansInv, ShownIsLinked, BillKnows, Draft

\* A challan shows only an invoice it is under, whatever bills, updates and restarts
\* overlap: a bill writes the link before it marks the challan, and a save of an old copy
\* puts back an invoice the challan was under before and so still is.
THEOREM ShownChallansAreLinked == Spec => []ShownIsLinked
<1>1. TypeOK /\ ChallansInv /\ [Next]_vars => ChallansInv'
  BY ChallansStep
<1>2. ChallansInv => ShownIsLinked
  BY DEF ChallansInv
<1> QED
  BY <1>1, <1>2, ChallansInit, IssuingTypeCorrect, PTL DEF Spec

-----------------------------------------------------------------------------
(* The customer's limit. *)

LEMMA DuesTypes ==
  ASSUME TypeOK
  PROVE  /\ IsFiniteSet(DOMAIN invoices) /\ \A i \in DOMAIN invoices : Dues[i] \in Nat
         /\ Owed \in Nat
<1>1. IsFiniteSet(DOMAIN invoices)
  BY InvoiceTypes, FS_Interval
<1>2. \A i \in DOMAIN invoices : Dues[i] \in Nat
  BY InvoiceTypes DEF Dues
<1> QED
  BY <1>1, <1>2, SumNat DEF Owed

\* The sum of the model is the sum of the lemmas.
LEMMA ExposureIsOwed ==
  ASSUME TypeOK
  PROVE  Exposure = Owed
<1> DEFINE All == DOMAIN invoices
           IsFold(g) == g = [s \in SUBSET All |->
             IF s = {} THEN 0
             ELSE invoices[CHOOSE x \in s : TRUE].due + g[s \ {CHOOSE x \in s : TRUE}]]
           fold == CHOOSE g : IsFold(g)
<1>1. Exposure = fold[All]
  BY DEF Exposure, MapThenSumSet, MapThenFoldSet
<1>2. ASSUME NEW g PROVE IsFold(g) <=> AddsUp(Dues, All, g)
  <2>1. ASSUME NEW s \in SUBSET All, s # {}
        PROVE  Dues[CHOOSE x \in s : TRUE] = invoices[CHOOSE x \in s : TRUE].due
    <3>1. (CHOOSE x \in s : TRUE) \in All
      BY <2>1
    <3> QED
      BY <3>1 DEF Dues
  <2> QED
    BY <2>1 DEF AddsUp, Pick
<1>3. IsFiniteSet(All)
  BY DuesTypes
<1> HIDE DEF All
<1>4. AddsUp(Dues, All, Partial(Dues, All))
  BY <1>3, PartialAddsUp
<1> HIDE DEF IsFold
<1>5. IsFold(fold)
  BY <1>2, <1>4
<1>6. AddsUp(Dues, All, fold)
  BY <1>2, <1>5
<1> HIDE DEF fold
<1>7. fold[All] = Partial(Dues, All)[All]
  BY <1>3, <1>4, <1>6, AddsUpOnce
<1> QED
  BY <1>1, <1>7 DEF Sum, Owed, All

\* An invoice is inserted before its total is known.
LEMMA InsertOwesNothing ==
  ASSUME TypeOK, NEW r \in Requests, InvoiceAdded(r)
  PROVE  Owed' = Owed
<1> DEFINE n == Len(invoices) + 1
<1>1. /\ DOMAIN invoices' = DOMAIN invoices \cup {n} /\ n \notin DOMAIN invoices
      /\ \A i \in DOMAIN invoices : invoices'[i] = invoices[i]
      /\ invoices'[n].due = 0
  BY InvoiceTypes DEF InvoiceAdded, Inserted
<1> HIDE DEF n
<1>2. \A i \in DOMAIN invoices : Dues'[i] = Dues[i]
  BY <1>1 DEF Dues
<1>3. Dues'[n] = 0
  BY <1>1 DEF Dues
<1>4. IsFiniteSet(DOMAIN invoices) /\ \A i \in DOMAIN invoices : Dues'[i] \in Nat
  BY <1>2, DuesTypes
<1>5. Sum(Dues', DOMAIN invoices \cup {n}) = Sum(Dues', DOMAIN invoices) + Dues'[n]
  BY <1>1, <1>3, <1>4, SumAdd
<1>6. Sum(Dues', DOMAIN invoices) = Owed
  BY <1>2, <1>4, SumSame DEF Owed
<1>7. Owed' = Owed + 0
  BY <1>1, <1>3, <1>5, <1>6 DEF Owed
<1> QED
  BY <1>7, DuesTypes

\* The balance of one invoice changes, and what is owed with it.
LEMMA OwedChanges ==
  ASSUME TypeOK, NEW i \in DOMAIN invoices, NEW n \in Nat,
         invoices' = [invoices EXCEPT ![i].due = n]
  PROVE  Owed' \in Nat /\ Owed' = Owed + n - Dues[i]
<1>1. /\ DOMAIN invoices' = DOMAIN invoices
      /\ \A k \in DOMAIN invoices :
           invoices'[k] = IF k = i THEN [invoices[k] EXCEPT !.due = n] ELSE invoices[k]
  OBVIOUS
<1>2. \A k \in DOMAIN invoices : Dues'[k] = IF k = i THEN n ELSE Dues[k]
  BY <1>1, InvoiceTypes DEF Dues, Invoice
<1>3. /\ IsFiniteSet(DOMAIN invoices)
      /\ \A k \in DOMAIN invoices : Dues[k] \in Int /\ Dues'[k] \in Nat
  BY <1>2, DuesTypes
<1>4. Sum(Dues', DOMAIN invoices) \in Nat
  BY <1>3, SumNat
<1>5. Sum(Dues', DOMAIN invoices) = Sum(Dues, DOMAIN invoices) + Dues'[i] - Dues[i]
  BY <1>2, <1>3, SumChange
<1> QED
  BY <1>1, <1>2, <1>4, <1>5 DEF Owed

LEMMA OwedRises ==
  ASSUME TypeOK, NEW i, NEW n \in Nat, invoices' = [invoices EXCEPT ![i].due = @ + n]
  PROVE  Owed' \in Nat /\ Owed' <= Owed + n
<1>1. CASE i \in DOMAIN invoices
  <2>1. PICK m : m = invoices[i].due + n
    OBVIOUS
  <2>2. invoices[i].due \in Nat /\ Dues[i] = invoices[i].due /\ m \in Nat
    BY <1>1, <2>1, InvoiceTypes DEF Dues
  <2>3. invoices' = [invoices EXCEPT ![i].due = m]
    BY <2>1
  <2>4. Owed' \in Nat /\ Owed' = Owed + m - Dues[i]
    BY <1>1, <2>2, <2>3, OwedChanges
  <2> QED
    BY <2>1, <2>2, <2>4, DuesTypes
<1>2. CASE i \notin DOMAIN invoices
  <2>1. /\ DOMAIN invoices' = DOMAIN invoices
        /\ \A k \in DOMAIN invoices : invoices'[k] = invoices[k]
    BY <1>2
  <2>2. \A k \in DOMAIN invoices : Dues'[k] = Dues[k]
    <3>1. \A k \in DOMAIN invoices' : Dues'[k] = invoices'[k].due
      BY DEF Dues
    <3>2. \A k \in DOMAIN invoices : Dues[k] = invoices[k].due
      BY DEF Dues
    <3> QED
      BY <2>1, <3>1, <3>2
  <2>3. Sum(Dues', DOMAIN invoices) = Sum(Dues, DOMAIN invoices)
    BY <2>2, DuesTypes, SumSame
  <2>4. Owed' = Owed
    BY <2>1, <2>3 DEF Owed
  <2> QED
    BY <2>4, DuesTypes
<1> QED
  BY <1>1, <1>2

LEMMA OwedFalls ==
  ASSUME TypeOK, LowerDue
  PROVE  Owed' \in Nat /\ Owed' <= Owed
<1>1. PICK i \in DOMAIN invoices : \E amount \in PaymentAllowed(invoices[i].due) :
        invoices' = [invoices EXCEPT ![i].due = @ - amount]
  BY DEF LowerDue
<1>2. PICK amount \in PaymentAllowed(invoices[i].due) :
        invoices' = [invoices EXCEPT ![i].due = @ - amount]
  BY <1>1
<1>3. invoices[i].due \in Nat /\ amount \in 1 .. invoices[i].due /\ Dues[i] = invoices[i].due
  BY InvoiceTypes DEF PaymentAllowed, Dues
<1>4. PICK n \in Nat : n = invoices[i].due - amount
  BY <1>3
<1>5. invoices' = [invoices EXCEPT ![i].due = n] /\ n <= invoices[i].due
  BY <1>2, <1>3, <1>4
<1>6. Owed' \in Nat /\ Owed' = Owed + n - Dues[i]
  BY <1>5, OwedChanges
<1> QED
  BY <1>3, <1>5, <1>6, DuesTypes

\* A step of a call leaves what is held to the limit as it was, or ends it.
HeldKept(r) ==
  /\ OthersKept(r)
  /\ job'[r].onCredit =>
       job[r].onCredit /\ job'[r].kind = job[r].kind /\ job'[r].lines = job[r].lines

LEMMA CreditStays ==
  ASSUME TypeOK, CreditInv, NEW r \in Requests, HeldKept(r), Owed' = Owed, UNCHANGED added
  PROVE  CreditInv'
<1> SUFFICES ASSUME NEW q \in Requests, job'[q].onCredit
             PROVE  job'[q].kind = "invoice" /\ Owed' + job'[q].lines <= Limit + added'[q]
  BY DEF CreditInv, HasRoom
<1>1. /\ HasRoom(q) /\ job[q].onCredit
      /\ job'[q].kind = job[q].kind /\ job'[q].lines = job[q].lines
  BY DEF CreditInv, HeldKept, OthersKept
<1> QED
  BY <1>1 DEF HasRoom

LEMMA SameOwed ==
  ASSUME UNCHANGED invoices
  PROVE  Owed' = Owed
BY DEF Owed, Dues

LEMMA EndHolds ==
  ASSUME TypeOK, NEW r \in Requests, End(r) \/ NextDue(r)
  PROVE  OthersKept(r) /\ ~job'[r].onCredit
<1>1. CASE End(r)
  BY <1>1, BeginSets DEF End, NoJob
<1>2. CASE NextDue(r)
  <2>1. /\ OthersKept(r)
        /\ job'[r] = [NoJob EXCEPT !.kind = "recurring", !.batch = job[r].batch]
    BY <1>2, BeginSets DEF NextDue
  <2> QED
    BY <2>1 DEF NoJob
<1> QED
  BY <1>1, <1>2

\* A call that is held to the limit has looked at what the customer owes.
LEMMA StartKeepsCredit ==
  ASSUME TypeOK, CreditInv, NEW r \in Requests, Start(r)
  PROVE  CreditInv'
<1>1. UNCHANGED <<invoices, added>> /\ Owed' = Owed
  BY SameOwed DEF Start, CreateInvoice, RunDueRecurringInvoices, CreateInvoiceFromChallans,
                  UpdateDeliveryChallan, rows
<1>2. CASE ~CreateInvoice(r)
  <2>1. PICK label, kind, of, batch, amount, copy, first :
          \/ Begin(r, label, [NoJob EXCEPT !.kind = kind, !.batch = batch])
          \/ Begin(r, label, [NoJob EXCEPT !.kind = kind, !.of = of, !.amount = amount])
          \/ Begin(r, label, [NoJob EXCEPT !.kind = kind, !.of = of, !.copy = copy,
                                           !.first = first])
    BY <1>2 DEF Start, RunDueRecurringInvoices, CreateInvoiceFromChallans, UpdateDeliveryChallan
  <2>2. /\ OthersKept(r)
        /\ \/ job'[r] = [NoJob EXCEPT !.kind = kind, !.batch = batch]
           \/ job'[r] = [NoJob EXCEPT !.kind = kind, !.of = of, !.amount = amount]
           \/ job'[r] = [NoJob EXCEPT !.kind = kind, !.of = of, !.copy = copy, !.first = first]
    BY <2>1, BeginSets
  <2>3. ~job'[r].onCredit
    BY <2>2 DEF NoJob
  <2> QED
    BY <1>1, <2>2, <2>3, CreditStays DEF HeldKept
<1>3. CASE CreateInvoice(r)
  <2>1. PICK lines \in Amounts, onCredit \in BOOLEAN : \E amount :
          /\ onCredit => WithinCredit(lines)
          /\ Begin(r, "lock", [NoJob EXCEPT !.kind = "invoice", !.amount = amount,
                                            !.lines = IF onCredit THEN lines ELSE 0,
                                            !.onCredit = onCredit])
    BY <1>3 DEF CreateInvoice
  <2>2. PICK amount :
          Begin(r, "lock", [NoJob EXCEPT !.kind = "invoice", !.amount = amount,
                                         !.lines = IF onCredit THEN lines ELSE 0,
                                         !.onCredit = onCredit])
    BY <2>1
  <2>3. PICK held : held = IF onCredit THEN lines ELSE 0
    OBVIOUS
  <2>4. /\ OthersKept(r)
        /\ job'[r] = [NoJob EXCEPT !.kind = "invoice", !.amount = amount, !.lines = held,
                                   !.onCredit = onCredit]
    BY <2>2, <2>3, BeginSets
  <2>5. job'[r].kind = "invoice" /\ job'[r].lines = held /\ job'[r].onCredit = onCredit
    BY <2>4 DEF NoJob
  <2>6. onCredit => Owed + lines <= Limit
    BY <2>1, ExposureIsOwed DEF WithinCredit
  <2>7. /\ added[r] \in Nat /\ Owed \in Nat /\ Limit \in Nat /\ lines \in Nat
    BY DuesTypes, IssuingAssumption DEF TypeOK, IssuingAssumption
  <2>8. HasRoom(r)'
    <3>1. onCredit => Owed + held <= Limit + added[r]
      BY <2>3, <2>6, <2>7
    <3> QED
      BY <1>1, <2>5, <3>1 DEF HasRoom
  <2>9. ASSUME NEW q \in Requests, q # r  PROVE HasRoom(q)'
    BY <1>1, <2>4, <2>9 DEF OthersKept, CreditInv, HasRoom
  <2> QED
    BY <2>8, <2>9 DEF CreditInv
<1> QED
  BY <1>2, <1>3

\* Handlers that write no total.
LEMMA HandlersKeepCredit ==
  ASSUME TypeOK, CreditInv, NEW r \in Requests,
         \/ NumberGiven(r) \/ AllocateDocumentNumber(r) \/ ReadNumbers(r) \/ RunOne(r)
         \/ EndRun(r) \/ Advance(r) \/ LinkChallan(r) \/ MarkChallan(r) \/ LoadForSave(r)
         \/ WriteChallan(r) \/ DeductChallan(r)
  PROVE  CreditInv'
<1>1. UNCHANGED <<invoices, added>>
  BY DEF NumberGiven, AllocateDocumentNumber, ReadNumbers, RunOne, EndRun, Advance, LinkChallan,
         MarkChallan, LoadForSave, WriteChallan, DeductChallan, rows
<1>2. CASE NumberGiven(r) \/ ReadNumbers(r) \/ RunOne(r) \/ LinkChallan(r) \/ LoadForSave(r)
  <2>1. PICK label, n, row, c, cols :
          \/ Begin(r, label, [job[r] EXCEPT !.number = n, !.auto = FALSE])
          \/ Begin(r, label, [job[r] EXCEPT !.number = n])
          \/ Begin(r, label, [job[r] EXCEPT !.schedule = {row[1]}, !.date = row[2],
                                            !.amount = 1, !.batch = @ \ {row}])
          \/ Begin(r, label, [job[r] EXCEPT !.batch = @ \ {row}])
          \/ Begin(r, label, [job[r] EXCEPT !.dc = {c}, !.of = @ \ {c}])
          \/ Begin(r, label, [job[r] EXCEPT !.dirty = cols])
    BY <1>2 DEF NumberGiven, ReadNumbers, RunOne, LinkChallan, LoadForSave
  <2>2. /\ OthersKept(r)
        /\ \/ job'[r] = [job[r] EXCEPT !.number = n, !.auto = FALSE]
           \/ job'[r] = [job[r] EXCEPT !.number = n]
           \/ job'[r] = [job[r] EXCEPT !.schedule = {row[1]}, !.date = row[2], !.amount = 1,
                                       !.batch = @ \ {row}]
           \/ job'[r] = [job[r] EXCEPT !.batch = @ \ {row}]
           \/ job'[r] = [job[r] EXCEPT !.dc = {c}, !.of = @ \ {c}]
           \/ job'[r] = [job[r] EXCEPT !.dirty = cols]
    BY <2>1, BeginSets
  <2>3. /\ job'[r].onCredit = job[r].onCredit /\ job'[r].kind = job[r].kind
        /\ job'[r].lines = job[r].lines
    BY <2>2, JobTypes DEF Job
  <2> QED
    BY <1>1, <2>2, <2>3, SameOwed, CreditStays DEF HeldKept
<1>3. CASE \/ AllocateDocumentNumber(r) \/ EndRun(r) \/ Advance(r) \/ MarkChallan(r)
           \/ WriteChallan(r) \/ DeductChallan(r)
  <2>1. \/ End(r) \/ NextDue(r)
        \/ \E label \in {"number", "link", "deduct"} : Goto(r, label) /\ UNCHANGED job
    BY <1>3 DEF AllocateDocumentNumber, EndRun, Advance, MarkChallan, WriteChallan, DeductChallan
  <2>2. HeldKept(r)
    BY <2>1, EndHolds, GotoSets DEF HeldKept
  <2> QED
    BY <1>1, <2>2, SameOwed, CreditStays
<1> QED
  BY <1>2, <1>3

LEMMA InsertKeepsCredit ==
  ASSUME TypeOK, CreditInv, NEW r \in Requests, InsertInvoice(r)
  PROVE  CreditInv'
<1>1. UNCHANGED added
  BY DEF InsertInvoice
<1>2. CASE UNCHANGED invoices /\ (NextDue(r) \/ End(r))
  <2>1. HeldKept(r)
    BY <1>2, EndHolds DEF HeldKept
  <2> QED
    BY <1>1, <1>2, <2>1, SameOwed, CreditStays
<1>3. CASE /\ invoices' = Append(invoices, Inserted(r))
           /\ Begin(r, "total", [job[r] EXCEPT !.id = Len(invoices) + 1])
  <2>1. Owed' = Owed
    BY <1>3, AppendAdds, InsertOwesNothing
  <2>2. PICK n : n = Len(invoices) + 1
    OBVIOUS
  <2>3. OthersKept(r) /\ job'[r] = [job[r] EXCEPT !.id = n]
    BY <1>3, <2>2, BeginSets
  <2>4. HeldKept(r)
    BY <2>3, JobTypes DEF Job, HeldKept
  <2> QED
    BY <1>1, <2>1, <2>4, CreditStays
<1> QED
  BY <1>2, <1>3 DEF InsertInvoice

\* Where more comes to be owed, as much is noted beside every invoice held to the limit.
LEMMA AddingKeepsCredit ==
  ASSUME TypeOK, CreditInv, NEW i, NEW n \in Nat, NEW bystanders \in SUBSET Requests,
         invoices' = [invoices EXCEPT ![i].due = @ + n],
         \A q \in bystanders : job'[q] = job[q] /\ (job[q].onCredit => added'[q] = added[q] + n),
         \A q \in Requests \ bystanders : ~job'[q].onCredit
  PROVE  CreditInv'
<1> SUFFICES ASSUME NEW q \in bystanders, job[q].onCredit
             PROVE  job[q].kind = "invoice" /\ Owed' + job[q].lines <= Limit + added'[q]
  BY DEF CreditInv, HasRoom
<1>1. Owed' \in Nat /\ Owed' <= Owed + n
  BY OwedRises
<1>2. /\ job[q].kind = "invoice" /\ Owed + job[q].lines <= Limit + added[q]
      /\ added'[q] = added[q] + n
  BY DEF CreditInv, HasRoom
<1>3. Owed \in Nat /\ job[q].lines \in Nat /\ Limit \in Nat /\ added[q] \in Nat
  BY DuesTypes, JobTypes, IssuingAssumption DEF TypeOK, IssuingAssumption
<1> QED
  BY <1>1, <1>2, <1>3

LEMMA TotalKeepsCredit ==
  ASSUME TypeOK, CreditInv, NEW r \in Requests, WriteTotal(r)
  PROVE  CreditInv'
<1>1. PICK i, n : i = job[r].id /\ n = job[r].amount
  OBVIOUS
<1>2. /\ invoices' = [invoices EXCEPT ![i].due = @ + n] /\ n \in Nat
      /\ added' = AddedBeside(r, n)
  BY <1>1, JobTypes DEF WriteTotal
<1>3. OthersKept(r) /\ ~job'[r].onCredit
  <2>1. CASE End(r) \/ NextDue(r)
    BY <2>1, EndHolds
  <2>2. CASE job[r].kind # "invoice" /\ \E label \in {"link", "advance"} :
               Goto(r, label) /\ UNCHANGED job
    <3>1. OthersKept(r) /\ job'[r] = job[r]
      BY <2>2, GotoSets
    <3> QED
      BY <2>2, <3>1 DEF CreditInv, HasRoom
  <2> QED
    BY <2>1, <2>2 DEF WriteTotal
<1>4. \A q \in Requests \ {r} :
        job'[q] = job[q] /\ (job[q].onCredit => added'[q] = added[q] + n)
  BY <1>2, <1>3 DEF OthersKept, AddedBeside
<1> QED
  BY <1>2, <1>3, <1>4, AddingKeepsCredit

LEMMA OutsideKeepsCredit ==
  ASSUME TypeOK, CreditInv,
         \/ UNCHANGED vars \/ SaveDocumentSeries \/ CreateRecurringInvoice \/ DayPasses
         \/ LowerDue \/ RaiseDue \/ Crash
  PROVE  CreditInv'
<1>1. CASE RaiseDue
  <2>1. PICK i \in DOMAIN invoices, n \in Amounts :
          /\ invoices' = [invoices EXCEPT ![i].due = @ + n] /\ UNCHANGED job
          /\ added' = [q \in Requests |-> IF job[q].onCredit THEN added[q] + n ELSE added[q]]
    BY <1>1 DEF RaiseDue
  <2>2. n \in Nat
    BY IssuingAssumption DEF IssuingAssumption
  <2>3. \A q \in Requests :
          job'[q] = job[q] /\ (job[q].onCredit => added'[q] = added[q] + n)
    BY <2>1
  <2> QED
    BY <2>1, <2>2, <2>3, AddingKeepsCredit
<1>2. CASE LowerDue
  <2>1. UNCHANGED <<job, added>> /\ Owed' \in Nat /\ Owed' <= Owed
    BY <1>2, OwedFalls DEF LowerDue
  <2> SUFFICES ASSUME NEW q \in Requests, job[q].onCredit
               PROVE  job[q].kind = "invoice" /\ Owed' + job[q].lines <= Limit + added[q]
    BY <2>1 DEF CreditInv, HasRoom
  <2>2. job[q].kind = "invoice" /\ Owed + job[q].lines <= Limit + added[q]
    BY DEF CreditInv, HasRoom
  <2>3. Owed \in Nat /\ job[q].lines \in Nat /\ Limit \in Nat /\ added[q] \in Nat
    BY DuesTypes, JobTypes, IssuingAssumption DEF TypeOK, IssuingAssumption
  <2> QED
    BY <2>1, <2>2, <2>3
<1>3. CASE Crash
  BY <1>3 DEF Crash, CreditInv, HasRoom, NoJob
<1>4. CASE UNCHANGED vars \/ SaveDocumentSeries \/ CreateRecurringInvoice \/ DayPasses
  <2>1. UNCHANGED <<job, added, invoices>>
    BY <1>4 DEF vars, rows, SaveDocumentSeries, CreateRecurringInvoice, DayPasses
  <2> QED
    BY <2>1, SameOwed DEF CreditInv, HasRoom
<1> QED
  BY <1>1, <1>2, <1>3, <1>4

LEMMA CreditStep ==
  ASSUME TypeOK, CreditInv, [Next]_vars
  PROVE  CreditInv'
BY StartKeepsCredit, HandlersKeepCredit, InsertKeepsCredit, TotalKeepsCredit, OutsideKeepsCredit
   DEF Next, Step

LEMMA CreditInit ==
  ASSUME Init
  PROVE  CreditInv
BY DEF Init, CreditInv, HasRoom, NoJob

LEMMA TotalWithinLimit ==
  ASSUME TypeOK, CreditInv, NEW r \in Requests, WriteTotal(r), Exposure' = Owed', job[r].onCredit
  PROVE  Exposure' <= Limit + (job[r].amount - job[r].lines) + added[r]
<1>1. Owed + job[r].lines <= Limit + added[r]
  BY DEF CreditInv, HasRoom
<1>2. PICK i, n \in Nat : i = job[r].id /\ n = job[r].amount
  BY JobTypes
<1>3. invoices' = [invoices EXCEPT ![i].due = @ + n]
  BY <1>2 DEF WriteTotal
<1>4. Owed' \in Nat /\ Owed' <= Owed + n
  BY <1>3, OwedRises
<1>5. Owed \in Nat /\ job[r].lines \in Nat /\ Limit \in Nat /\ added[r] \in Nat
  BY DuesTypes, JobTypes, IssuingAssumption DEF TypeOK, IssuingAssumption
<1> QED
  BY <1>1, <1>2, <1>4, <1>5

\* Where an invoice on credit takes what the customer owes above the limit, it is by no
\* more than its charges and what others added after createInvoice looked at the balances,
\* whatever issues, bills, runs, payments and restarts overlap: the lines had their room
\* then, and nothing else is taken from it.
THEOREM CreditOverrunIsBounded == Spec => LimitExceededOnlyBy
<1>1. TypeOK /\ CreditInv /\ [Next]_vars => CreditInv'
  BY CreditStep
<1>2. TypeOK => Exposure = Owed
  BY ExposureIsOwed
<1> DEFINE Within == \A r \in Requests :
             WriteTotal(r) /\ job[r].onCredit =>
               Exposure' <= Limit + (job[r].amount - job[r].lines) + added[r]
<1>3. TypeOK /\ CreditInv /\ (Exposure = Owed)' => Within
  BY TotalWithinLimit
<1>4. Spec => []TypeOK
  BY IssuingTypeCorrect
<1> QED
  BY <1>1, <1>2, <1>3, <1>4, CreditInit, PTL DEF Spec, LimitExceededOnlyBy
=============================================================================
