-------------------------- MODULE Receivables_proofs --------------------------
(***************************************************************************)
(* Proofs about Receivables, for any number of invoices, requests,         *)
(* connections and crashes and any mix of handlers.                        *)
(***************************************************************************)
EXTENDS Receivables, SumTheorems, TLAPS

-----------------------------------------------------------------------------
(* The parts of the inductive invariant beside TypeOK. *)

\* A transaction keeps its connection; it holds the rows it has locked so far,
\* and every row of its receipt once it works on the lines.
TransactionsHold ==
  \A r \in Requests :
    /\ pc[r] \in {"rowBooks", "lock", "line"} => r \in conns
    /\ pc[r] = "rowBooks" => todo[r] = job[r].on
    /\ pc[r] = "lock" => \A i \in job[r].on : i \notin todo[r] => lock[i] = r
    /\ pc[r] = "line" => \A i \in job[r].on : lock[i] = r

\* A club receipt has no part in an invoice it does not name.
ClubJobs ==
  \A r \in Requests : In(r) = "club" => \A i \in Invoices : i \notin job[r].on => amt[r][i] = 0

\* A reversal works on the invoices of the rows it read.
ReversalJobs ==
  \A r \in Requests : In(r) = "deleteReceipt" => job[r].on = {p.inv : p \in hits[r]}

IInv == TypeOK /\ LockedRowIsCurrent /\ TransactionsHold /\ ClubJobs /\ ReversalJobs

-----------------------------------------------------------------------------
(* Values. *)

LEMMA BlankType == Zero \in [Invoices -> Nat] /\ Blank \in [Invoices -> Row] /\ NoJob \in Job
BY DEF Zero, Blank, Row, NoJob, JobOf, Job, AllDays, Statuses

LEMMA OnlyType ==
  ASSUME NEW i \in Invoices, NEW a \in Nat PROVE Only(i, a) \in [Invoices -> Nat]
BY DEF Only, Zero

LEMMA JobOfType ==
  ASSUME NEW k \in AllKinds, NEW on \in SUBSET Invoices, NEW d \in AllDays
  PROVE  JobOf(k, on, d) \in Job /\ JobOf(k, on, d).kind = k /\ JobOf(k, on, d).on = on
BY DEF JobOf, Job

LEMMA PaidRowType ==
  ASSUME NEW row \in Row, NEW p \in Nat, NEW s \in Statuses
  PROVE  PaidRow(row, p, s) \in Row /\ PaidRow(row, p, s).paid = p
BY DEF PaidRow, Row

LEMMA OtherRowTypes ==
  ASSUME NEW row \in Row
  PROVE  /\ \A s \in Statuses : StatusRow(row, s) \in Row
         /\ \A t \in Nat : TotalRow(row, t) \in Row
         /\ \A d \in AllDays : RedatedRow(row, d) \in Row
         /\ DeletedRow(row) \in Row
BY DEF StatusRow, TotalRow, RedatedRow, DeletedRow, Row, Statuses

LEMMA NoteSumTypes ==
  ASSUME NEW sums \in [credit: Nat, debit: Nat], NEW a \in Nat
  PROVE  /\ WithCredit(sums, a) \in [credit: Nat, debit: Nat]
         /\ WithDebit(sums, a) \in [credit: Nat, debit: Nat]
<1>1. sums.credit + a \in Nat /\ sums.debit + a \in Nat
  OBVIOUS
<1> QED
  BY <1>1 DEF WithCredit, WithDebit

LEMMA OverwriteType ==
  ASSUME NEW row \in Row, NEW copy \in Row, NEW cols
  PROVE  Overwrite(row, copy, cols) \in Row
BY DEF Overwrite, Row

LEMMA FinishType ==
  ASSUME TypeOK, NEW r \in Requests, NEW how \in Labels, Finish(r, how)
  PROVE  /\ pc' \in [Requests -> Labels]
         /\ job' \in [Requests -> Job]
         /\ amt' \in [Requests -> [Invoices -> Nat]]
         /\ seen' \in [Requests -> [Invoices -> Row]]
         /\ owed' \in [Requests -> [Invoices -> Int]]
         /\ todo' \in [Requests -> SUBSET Invoices]
         /\ hits' \in [Requests -> SUBSET Payment]
         /\ dirty' \in [Requests -> SUBSET Columns]
<1>1. Zero \in [Invoices -> Int]
  BY DEF Zero
<1> QED
  BY <1>1, BlankType DEF TypeOK, Finish, Goto

LEMMA NetType ==
  ASSUME TypeOK, NEW i \in Invoices, NEW t \in Nat
  PROVE  Net(i, t) \in Int
BY DEF TypeOK, Net

LEMMA StandingType == \A p, n : Standing(p, n) \in Statuses
BY DEF Standing, Statuses

-----------------------------------------------------------------------------
(* TypeOK, action by action. *)

LEMMA InitType == Init => TypeOK
<1> SUFFICES ASSUME Init PROVE TypeOK
  OBVIOUS
<1>1. PICK d \in [Invoices -> Days] :
        invoice = [i \in Invoices |-> [total |-> Total[i], paid |-> 0, status |-> "issued",
                                       deducted |-> i \in Deducted, day |-> d[i]]]
  BY DEF Init
<1>2. invoice \in [Invoices -> Row]
  BY <1>1, ReceivablesAssumption DEF Row, Statuses
<1>3. Zero \in [Invoices -> Int]
  BY DEF Zero
<1> QED
  BY <1>2, <1>3, BlankType DEF Init, TypeOK, Labels, Ended

LEMMA UpdatePaidType ==
  ASSUME TypeOK, NEW r \in Requests, UpdatePaid(r) PROVE TypeOK'
<1>1. PICK i \in job[r].on :
        invoice' = [invoice EXCEPT ![i] =
                   PaidRow(@, NewPaid(r, i), Standing(NewPaid(r, i), owed[r][i]))]
  BY DEF UpdatePaid
<1>2. i \in Invoices /\ NewPaid(r, i) \in Nat
  BY DEF TypeOK, Job, Row, NewPaid
<1>3. invoice' \in [Invoices -> Row]
  BY <1>1, <1>2, StandingType, PaidRowType DEF TypeOK
<1> QED
  BY <1>3, FinishType DEF UpdatePaid, TypeOK, Labels, Ended, env

LEMMA LockRowType ==
  ASSUME TypeOK, NEW r \in Requests, LockRow(r) PROVE TypeOK'
BY DEF LockRow, TypeOK, db, env

LEMMA ReadNotesType ==
  ASSUME TypeOK, NEW r \in Requests, ReadNotes(r) PROVE TypeOK'
<1>1. PICK i \in job[r].on : ReadNotes(r)!(i)
  BY DEF ReadNotes
<1>2. /\ i \in Invoices
      /\ seen[r][i].total \in Nat /\ seen[r][i].paid \in Nat /\ amt[r][i] \in Nat
  BY DEF TypeOK, Job, Row
<1>3. Net(i, seen[r][i].total) \in Int
  BY <1>2, NetType
<1>4. Applied(r, i) \in Int /\ (DueLeft(r, i) > 0 => Applied(r, i) \in Nat)
  BY <1>2, <1>3 DEF Applied, AboveDue, DueLeft
<1>5. UNCHANGED <<db, lock, conns, env>>
  BY <1>1
<1>6. CASE Finish(r, "done") \/ Finish(r, "rejected")
  BY <1>5, <1>6, FinishType DEF TypeOK, Labels, Ended, db, env
<1>7. CASE /\ Goto(r, "insert")
           /\ owed' = [owed EXCEPT ![r][i] = Net(i, seen[r][i].total)]
           /\ UNCHANGED <<job, amt, seen, todo, hits, dirty>>
  BY <1>2, <1>3, <1>5, <1>7 DEF TypeOK, Goto, Labels, db, env
<1>8. CASE /\ DueLeft(r, i) > 0
           /\ Goto(r, "insert")
           /\ owed' = [owed EXCEPT ![r][i] = Net(i, seen[r][i].total)]
           /\ amt' = [amt EXCEPT ![r][i] = Applied(r, i)]
           /\ UNCHANGED <<job, seen, todo, hits, dirty>>
  BY <1>2, <1>3, <1>4, <1>5, <1>8 DEF TypeOK, Goto, Labels, db, env
<1>9. CASE /\ Goto(r, IF job[r].stock THEN "restore" ELSE "save")
           /\ UNCHANGED locals
  BY <1>5, <1>9 DEF TypeOK, Goto, Labels, db, env, locals
<1> QED
  BY <1>1, <1>6, <1>7, <1>8, <1>9

LEMMA InsertPaymentType ==
  ASSUME TypeOK, NEW r \in Requests, InsertPayment(r) PROVE TypeOK'
<1>1. PICK i \in job[r].on : InsertPayment(r)!(i)
  BY DEF InsertPayment
<1>2. rows' \subseteq Payment
  BY <1>1 DEF TypeOK, Job, Payment
<1> QED
  BY <1>1, <1>2, FinishType DEF TypeOK, Goto, Labels, Ended, env, locals

LEMMA ReceiveClubPaymentType ==
  ASSUME TypeOK, NEW r \in Requests, ReceiveClubPayment(r) PROVE TypeOK'
<1>1. PICK on \in (SUBSET Invoices) \ {{}}, d \in Days :
        \E a \in [on -> Amounts] : StartReceipt(r, on, a, d)
  BY DEF ReceiveClubPayment
<1>2. PICK a \in [on -> Amounts] : StartReceipt(r, on, a, d)
  BY <1>1
<1>3. CASE BooksClosed(d)
  BY <1>2, <1>3, FinishType DEF StartReceipt, TypeOK, Labels, Ended, db, env
<1>4. CASE ~BooksClosed(d)
  <2>1. JobOf("club", on, d) \in Job
    BY JobOfType, ReceivablesAssumption DEF AllKinds
  <2> DEFINE parts == [i \in Invoices |-> IF i \in on THEN a[i] ELSE 0]
  <2>2. parts \in [Invoices -> Nat]
    BY ReceivablesAssumption
  <2>3. /\ Goto(r, "lock")
        /\ job' = [job EXCEPT ![r] = JobOf("club", on, d)]
        /\ amt' = [amt EXCEPT ![r] = parts]
        /\ todo' = [todo EXCEPT ![r] = on]
        /\ conns' = conns \cup {r}
        /\ UNCHANGED <<seen, owed, hits, dirty, db, lock, env>>
    BY <1>2, <1>4 DEF StartReceipt
  <2> HIDE DEF parts
  <2> QED
    BY <2>1, <2>2, <2>3 DEF TypeOK, Goto, Labels, db, env
<1> QED
  BY <1>3, <1>4

LEMMA DeleteReceiptType ==
  ASSUME TypeOK, NEW r \in Requests, DeleteReceipt(r) PROVE TypeOK'
<1>1. PICK q \in Requests : DeleteReceipt(r)!(q)
  BY DEF DeleteReceipt
<1>2. CASE ReceiptRows(q) = {}
  BY <1>1, <1>2, FinishType DEF TypeOK, Labels, Ended, db, env
<1>3. CASE ReceiptRows(q) # {}
  <2> DEFINE on == {p.inv : p \in ReceiptRows(q)}
  <2>1. on \in SUBSET Invoices /\ ReceiptRows(q) \in SUBSET Payment
    BY DEF TypeOK, ReceiptRows, Payment
  <2>2. JobOf("deleteReceipt", on, "new") \in Job
    BY <2>1, JobOfType DEF AllKinds, AllDays
  <2>3. /\ Goto(r, "rowBooks")
        /\ job' = [job EXCEPT ![r] = JobOf("deleteReceipt", on, "new")]
        /\ todo' = [todo EXCEPT ![r] = on]
        /\ hits' = [hits EXCEPT ![r] = ReceiptRows(q)]
        /\ conns' = conns \cup {r}
        /\ UNCHANGED <<amt, seen, owed, dirty, db, lock, env>>
    BY <1>1, <1>3
  <2> HIDE DEF on
  <2> QED
    BY <2>1, <2>2, <2>3 DEF TypeOK, Goto, Labels, db, env
<1> QED
  BY <1>2, <1>3

LEMMA AbortType ==
  ASSUME TypeOK, NEW r \in Requests, Abort(r), UNCHANGED <<db, env>> PROVE TypeOK'
BY FinishType DEF Abort, Release, TypeOK, Labels, Ended, db, env

LEMMA AllLockedType ==
  ASSUME TypeOK, NEW r \in Requests, AllLocked(r) PROVE TypeOK'
<1>1. CASE Abort(r) /\ UNCHANGED <<db, env>>
  BY <1>1, AbortType
<1>2. CASE /\ Goto(r, "line")
           /\ todo' = [todo EXCEPT ![r] = job[r].on]
           /\ UNCHANGED <<lock, conns, job, amt, seen, owed, hits, dirty, db, env>>
  <2>1. job[r].on \in SUBSET Invoices
    BY DEF TypeOK, Job
  <2> QED
    BY <1>2, <2>1 DEF TypeOK, Goto, Labels, db, env
<1> QED
  BY <1>1, <1>2 DEF AllLocked

LEMMA CheckLineType ==
  ASSUME TypeOK, NEW r \in Requests, CheckLine(r) PROVE TypeOK'
<1>1. PICK i \in todo[r] : CheckLine(r)!(i)
  BY DEF CheckLine
<1>2. i \in Invoices /\ Net(i, seen[r][i].total) \in Int
  BY NetType DEF TypeOK, Row
<1>3. CASE Abort(r) /\ UNCHANGED <<db, env>>
  BY <1>3, AbortType
<1>4. CASE /\ owed' = [owed EXCEPT ![r][i] = Net(i, seen[r][i].total)]
           /\ todo' = [todo EXCEPT ![r] = @ \ {i}]
           /\ UNCHANGED <<lock, conns, pc, job, amt, seen, hits, dirty, db, env>>
  BY <1>2, <1>4 DEF TypeOK, db, env
<1> QED
  BY <1>1, <1>3, <1>4

LEMMA CommitReceiptType ==
  ASSUME TypeOK, NEW r \in Requests, CommitReceipt(r) PROVE TypeOK'
<1>1. rows' \subseteq Payment
  BY DEF CommitReceipt, TypeOK, Job, Payment
<1>2. ASSUME NEW i \in Invoices
      PROVE  PaidRow(invoice[i], NewPaid(r, i), Standing(NewPaid(r, i), owed[r][i])) \in Row
  <2>1. NewPaid(r, i) \in Nat
    BY DEF TypeOK, Row, NewPaid
  <2> QED
    BY <2>1, StandingType, PaidRowType DEF TypeOK
<1>3. invoice' \in [Invoices -> Row]
  BY <1>2 DEF CommitReceipt, TypeOK
<1> QED
  BY <1>1, <1>3, FinishType DEF CommitReceipt, Release, TypeOK, Labels, Ended, env

LEMMA PaidAfterType ==
  ASSUME TypeOK, ReversalJobs, NEW r \in Requests, In(r) = "deleteReceipt",
         NEW i \in job[r].on
  PROVE  PaidAfter(r, i) \in Nat
<1>1. {p.amount : p \in {q \in hits[r] : q.inv = i}} # {}
  BY DEF ReversalJobs
<1>2. hits[r] \subseteq Payment
  BY DEF TypeOK
<1>3. Taken(r, i) \in Nat
  BY <1>1, <1>2 DEF Taken, Payment
<1>4. seen[r][i].paid \in Nat
  BY DEF TypeOK, Job, Row
<1> QED
  BY <1>3, <1>4 DEF PaidAfter, TakeOff

LEMMA CommitReversalType ==
  ASSUME TypeOK, ReversalJobs, NEW r \in Requests, CommitReversal(r) PROVE TypeOK'
<1>1. rows' \subseteq Payment
  BY DEF CommitReversal, TypeOK
<1>2. ASSUME NEW i \in job[r].on
      PROVE  PaidRow(invoice[i], PaidAfter(r, i), StatusAfter(r, i)) \in Row
  <2>1. PaidAfter(r, i) \in Nat
    BY PaidAfterType DEF CommitReversal
  <2>2. StatusAfter(r, i) \in Statuses
    BY StandingType DEF StatusAfter, Statuses
  <2>3. invoice[i] \in Row
    BY DEF TypeOK, Job
  <2> QED
    BY <2>1, <2>2, <2>3, PaidRowType
<1>3. invoice' \in [Invoices -> Row]
  BY <1>2 DEF CommitReversal, TypeOK
<1> QED
  BY <1>1, <1>3, FinishType DEF CommitReversal, Release, TypeOK, Labels, Ended, env

LEMMA CallOnType ==
  ASSUME TypeOK, NEW r \in Requests, NEW i \in Invoices, NEW j \in Job, NEW a \in Nat,
         NEW label \in Labels, CallOn(r, i, j, a, label)
  PROVE  TypeOK'
<1>1. CASE Finish(r, "rejected") /\ UNCHANGED <<db, lock, conns, env>>
  BY <1>1, FinishType DEF TypeOK, Labels, Ended, db, env
<1>2. CASE /\ Goto(r, label)
           /\ job' = [job EXCEPT ![r] = j]
           /\ amt' = [amt EXCEPT ![r] = Only(i, a)]
           /\ seen' = [seen EXCEPT ![r][i] = invoice[i]]
           /\ UNCHANGED <<owed, todo, hits, dirty, db, lock, conns, env>>
  BY <1>2, OnlyType DEF TypeOK, Goto, db, env
<1> QED
  BY <1>1, <1>2 DEF CallOn

LEMMA StockJobType ==
  ASSUME TypeOK, NEW k \in AllKinds, NEW i \in Invoices
  PROVE  StockJob(k, i) \in Job
BY DEF TypeOK, StockJob, Job, Row, AllDays

LEMMA CallsType ==
  ASSUME TypeOK, NEW r \in Requests,
         \/ RecordPayment(r) \/ CounterReturn(r) \/ DeleteInvoice(r) \/ UpdateInvoice(r)
  PROVE  TypeOK'
<1>1. CASE RecordPayment(r)
  <2>1. PICK i \in Invoices, a \in Amounts, d \in Days :
          CallOn(r, i, JobOf("record", {i}, d), a, "books")
    BY <1>1 DEF RecordPayment
  <2>2. JobOf("record", {i}, d) \in Job /\ a \in Nat
    BY JobOfType, ReceivablesAssumption DEF AllKinds
  <2> QED
    BY <2>1, <2>2, CallOnType DEF Labels
<1>2. CASE CounterReturn(r)
  <2>1. PICK i \in Invoices :
          CallOn(r, i, StockJob("counterReturn", i), invoice[i].total, "returnNotes")
    BY <1>2 DEF CounterReturn
  <2>2. StockJob("counterReturn", i) \in Job /\ invoice[i].total \in Nat
    BY StockJobType DEF AllKinds, TypeOK, Row
  <2> QED
    BY <2>1, <2>2, CallOnType DEF Labels
<1>3. CASE DeleteInvoice(r)
  <2>1. PICK i \in Invoices : CallOn(r, i, StockJob("deleteInvoice", i), 0, "books")
    BY <1>3 DEF DeleteInvoice
  <2>2. StockJob("deleteInvoice", i) \in Job
    BY StockJobType DEF AllKinds
  <2> QED
    BY <2>1, <2>2, CallOnType DEF Labels
<1>4. CASE UpdateInvoice(r)
  <2>1. PICK i \in Invoices, a \in Amounts, d \in Days :
          CallOn(r, i, JobOf("updateInvoice", {i}, d), a, "books")
    BY <1>4 DEF UpdateInvoice
  <2>2. JobOf("updateInvoice", {i}, d) \in Job /\ a \in Nat
    BY JobOfType, ReceivablesAssumption DEF AllKinds
  <2> QED
    BY <2>1, <2>2, CallOnType DEF Labels
<1> QED
  BY <1>1, <1>2, <1>3, <1>4

LEMMA CreateCheckoutType ==
  ASSUME TypeOK, NEW r \in Requests, CreateCheckout(r) PROVE TypeOK'
<1>1. PICK i \in Invoices, a \in Amounts : CreateCheckout(r)!(i, a)
  BY DEF CreateCheckout
<1>2. CASE Finish(r, "rejected") /\ UNCHANGED <<db, lock, conns, env>>
  BY <1>2, FinishType DEF TypeOK, Labels, Ended, db, env
<1>3. CASE /\ Goto(r, "insert")
           /\ job' = [job EXCEPT ![r] = PayuJob("checkout", i, r, "txnid")]
           /\ amt' = [amt EXCEPT ![r] = Only(i, a)]
           /\ UNCHANGED <<seen, owed, todo, hits, dirty, db, lock, conns, env>>
  <2>1. PayuJob("checkout", i, r, "txnid") \in Job
    BY DEF PayuJob, Job, AllKinds, AllDays
  <2>2. Only(i, a) \in [Invoices -> Nat]
    BY OnlyType, ReceivablesAssumption
  <2> QED
    BY <1>3, <2>1, <2>2 DEF TypeOK, Goto, Labels, db, env
<1> QED
  BY <1>1, <1>2, <1>3

LEMMA PayuReturnType ==
  ASSUME TypeOK, NEW r \in Requests, PayuReturn(r) PROVE TypeOK'
<1>1. PICK p \in rows : PayuReturn(r)!(p)
  BY DEF PayuReturn
<1> DEFINE j == PayuJob("payuReturn", p.inv, p.by,
                        IF p.by \in GatewayIds THEN "mihpayid" ELSE "txnid")
<1>2. j \in Job /\ Only(p.inv, p.amount) \in [Invoices -> Nat]
  BY OnlyType DEF TypeOK, Payment, PayuJob, Job, AllKinds, AllDays
<1>3. /\ Goto(r, "gatewayDup")
      /\ job' = [job EXCEPT ![r] = j]
      /\ amt' = [amt EXCEPT ![r] = Only(p.inv, p.amount)]
      /\ UNCHANGED <<db, lock, conns, env, seen, owed, todo, hits, dirty>>
  BY <1>1
<1> HIDE DEF j
<1> QED
  BY <1>2, <1>3 DEF TypeOK, Goto, Labels, db, env

LEMMA CreateNoteType ==
  ASSUME TypeOK, NEW r \in Requests, CreateNote(r) PROVE TypeOK'
<1>1. PICK k \in Kinds \cap {"credit", "debit"}, i \in Invoices, a \in Amounts, d \in Days :
        CreateNote(r)!(k, i, a, d)
  BY DEF CreateNote
<1>2. JobOf(k, {i}, d) \in Job /\ Only(i, a) \in [Invoices -> Nat]
  BY JobOfType, OnlyType, ReceivablesAssumption
<1> QED
  BY <1>1, <1>2 DEF TypeOK, Goto, Labels, db, env

\* Steps that only move on, end the handler, or abort its transaction.
LEMMA PlainStepsType ==
  ASSUME TypeOK, NEW r \in Requests,
         \/ CheckBooks(r) \/ CheckRowBooks(r) \/ DeadlockVictim(r) \/ GatewayDup(r)
         \/ Redup(r) \/ CheckReturn(r) \/ CheckNoteBooks(r)
  PROVE  TypeOK'
<1>1. CASE CheckBooks(r)
  BY <1>1, FinishType DEF CheckBooks, TypeOK, Goto, Labels, Ended, db, env, locals
<1>2. CASE CheckRowBooks(r)
  BY <1>2, AbortType DEF CheckRowBooks, TypeOK, Goto, Labels, db, env, locals
<1>3. CASE DeadlockVictim(r)
  BY <1>3, AbortType DEF DeadlockVictim
<1>4. CASE GatewayDup(r)
  BY <1>4, FinishType DEF GatewayDup, TypeOK, Goto, Labels, Ended, db, env, locals
<1>5. CASE Redup(r)
  BY <1>5, FinishType DEF Redup, TypeOK, Goto, Labels, Ended, db, env, locals
<1>6. CASE CheckReturn(r)
  BY <1>6, FinishType DEF CheckReturn, TypeOK, Goto, Labels, Ended, db, env, locals
<1>7. CASE CheckNoteBooks(r)
  BY <1>7, FinishType DEF CheckNoteBooks, TypeOK, Goto, Labels, Ended, db, env, locals
<1> QED
  BY <1>1, <1>2, <1>3, <1>4, <1>5, <1>6, <1>7

LEMMA GatewayStepsType ==
  ASSUME TypeOK, NEW r \in Requests, DropPending(r) \/ Reread(r)
  PROVE  TypeOK'
<1>1. CASE DropPending(r)
  BY <1>1 DEF DropPending, TypeOK, Goto, Labels, env, locals
<1>2. CASE Reread(r)
  BY <1>2 DEF Reread, TypeOK, Job, Goto, Labels, db, env
<1> QED
  BY <1>1, <1>2

LEMMA NoteStepsType ==
  ASSUME TypeOK, NEW r \in Requests,
         \/ ReadForNote(r) \/ ReadNotesForCredit(r) \/ InsertNote(r)
         \/ ReadNotesAfterDebit(r) \/ UpdateNoteStatus(r)
  PROVE  TypeOK'
<1>0. \A i \in job[r].on : /\ i \in Invoices
                           /\ amt[r][i] \in Nat
                           /\ seen[r][i] \in Row
                           /\ seen[r][i].total \in Nat
                           /\ Net(i, seen[r][i].total) \in Int
  BY NetType DEF TypeOK, Job, Row
<1>1. CASE ReadForNote(r)
  <2>1. PICK i \in job[r].on : ReadForNote(r)!(i)
    BY <1>1 DEF ReadForNote
  <2>2. CASE Finish(r, "rejected") /\ UNCHANGED <<db, lock, conns, env>>
    BY <2>2, FinishType DEF TypeOK, Labels, Ended, db, env
  <2>3. CASE /\ Goto(r, IF In(r) = "debit" THEN "noteInsert" ELSE "noteNotes")
             /\ seen' = [seen EXCEPT ![r][i] = invoice[i]]
             /\ UNCHANGED <<job, amt, owed, todo, hits, dirty, db, lock, conns, env>>
    BY <1>0, <2>3 DEF TypeOK, Goto, Labels, db, env
  <2> QED
    BY <2>1, <2>2, <2>3
<1>2. CASE ReadNotesForCredit(r)
  <2>1. PICK i \in job[r].on : ReadNotesForCredit(r)!(i)
    BY <1>2 DEF ReadNotesForCredit
  <2>2. CASE Finish(r, "rejected") /\ UNCHANGED <<db, lock, conns, env>>
    BY <2>2, FinishType DEF TypeOK, Labels, Ended, db, env
  <2>3. CASE /\ Goto(r, "noteInsert")
             /\ owed' = [owed EXCEPT ![r][i] = Net(i, seen[r][i].total) - amt[r][i]]
             /\ UNCHANGED <<job, amt, seen, todo, hits, dirty, db, lock, conns, env>>
    BY <1>0, <2>3 DEF TypeOK, Goto, Labels, db, env
  <2> QED
    BY <2>1, <2>2, <2>3
<1>3. CASE InsertNote(r)
  <2>1. PICK i \in job[r].on : InsertNote(r)!(i)
    BY <1>3 DEF InsertNote
  <2>2. notes' \in [Invoices -> [credit: Nat, debit: Nat]]
    <3>0. /\ WithCredit(notes[i], amt[r][i]) \in [credit: Nat, debit: Nat]
          /\ WithDebit(notes[i], amt[r][i]) \in [credit: Nat, debit: Nat]
      BY <1>0, <2>1, NoteSumTypes DEF TypeOK
    <3>1. CASE notes' = [notes EXCEPT ![i] = WithDebit(@, amt[r][i])]
      BY <1>0, <3>0, <3>1 DEF TypeOK
    <3>2. CASE notes' = [notes EXCEPT ![i] = WithCredit(@, amt[r][i])]
      BY <1>0, <3>0, <3>2 DEF TypeOK
    <3> QED
      BY <2>1, <3>1, <3>2
  <2> QED
    BY <2>1, <2>2 DEF TypeOK, Goto, Labels, env, locals
<1>4. CASE ReadNotesAfterDebit(r)
  BY <1>0, <1>4 DEF ReadNotesAfterDebit, TypeOK, Goto, Labels, db, env
<1>5. CASE UpdateNoteStatus(r)
  <2>1. PICK i \in job[r].on : UpdateNoteStatus(r)!(i)
    BY <1>5 DEF UpdateNoteStatus
  <2>2. StatusAfterNote(r, i) \in Statuses
    BY <1>0 DEF StatusAfterNote, Statuses, Row
  <2>3. invoice' \in [Invoices -> Row]
    BY <1>0, <2>1, <2>2, OtherRowTypes DEF TypeOK
  <2> QED
    BY <2>1, <2>3, FinishType DEF TypeOK, Goto, Labels, Ended, env, locals
<1> QED
  BY <1>1, <1>2, <1>3, <1>4, <1>5

LEMMA SaveStepsType ==
  ASSUME TypeOK, NEW r \in Requests,
         RestoreStock(r) \/ RecordMovement(r) \/ LoadForSave(r) \/ SaveInvoice(r) \/ Retotal(r)
  PROVE  TypeOK'
<1>0. \A i \in job[r].on : i \in Invoices /\ amt[r][i] \in Nat /\ seen[r][i] \in Row
  BY DEF TypeOK, Job
<1>1. CASE RestoreStock(r)
  BY <1>0, <1>1 DEF RestoreStock, TypeOK, Goto, Labels, env, locals
<1>2. CASE RecordMovement(r)
  <2>1. PICK i \in job[r].on : RecordMovement(r)!(i)
    BY <1>2 DEF RecordMovement
  <2>2. CASE Finish(r, "done") /\ UNCHANGED movements
    BY <2>1, <2>2, FinishType DEF TypeOK, Labels, Ended, env
  <2>3. CASE Finish(r, "rejected") /\ UNCHANGED movements
    BY <2>1, <2>3, FinishType DEF TypeOK, Labels, Ended, env
  <2>4. CASE Goto(r, "save") /\ movements' = movements \cup {i} /\ UNCHANGED locals
    BY <1>0, <2>1, <2>4 DEF TypeOK, Goto, Labels, env, locals
  <2> QED
    BY <2>1, <2>2, <2>3, <2>4
<1>3. CASE LoadForSave(r)
  BY <1>0, <1>3 DEF LoadForSave, Differing, TypeOK, Goto, Labels, db, env
<1>5. CASE SaveInvoice(r)
  <2>1. PICK i \in job[r].on : SaveInvoice(r)!(i)
    BY <1>5 DEF SaveInvoice
  <2>2. Copy(r, i) \in Row
    BY <1>0, OtherRowTypes DEF Copy, TypeOK, Job
  <2>3. Overwrite(invoice[i], Copy(r, i), dirty[r]) \in Row
    BY <1>0, <2>2, OverwriteType DEF TypeOK
  <2>4. invoice' = [invoice EXCEPT ![i] = Overwrite(@, Copy(r, i), dirty[r])]
    BY <2>1
  <2>5. invoice' \in [Invoices -> Row]
    BY <2>3, <2>4 DEF TypeOK
  <2>6. CASE Goto(r, "retotal") /\ UNCHANGED locals
    BY <2>1, <2>5, <2>6 DEF TypeOK, Goto, Labels, env, locals
  <2>7. CASE Finish(r, "done")
    BY <2>1, <2>5, <2>7, FinishType DEF TypeOK, Labels, Ended, env
  <2> QED
    BY <2>1, <2>6, <2>7
<1>4. CASE Retotal(r)
  <2>1. PICK i \in job[r].on : Retotal(r)!(i)
    BY <1>4 DEF Retotal
  <2>2. TotalRow(invoice[i], amt[r][i]) \in Row
    BY <1>0, OtherRowTypes DEF TypeOK
  <2>3. invoice' = [invoice EXCEPT ![i] = TotalRow(@, amt[r][i])]
    BY <2>1
  <2>4. invoice' \in [Invoices -> Row]
    BY <2>2, <2>3 DEF TypeOK
  <2> QED
    BY <2>1, <2>4, FinishType DEF TypeOK, Labels, Ended, env
<1> QED
  BY <1>1, <1>2, <1>3, <1>4, <1>5

LEMMA CrashType ==
  ASSUME TypeOK, NEW r \in Requests, Crash(r) PROVE TypeOK'
BY FinishType DEF Crash, Release, TypeOK, Labels, Ended, db

LEMMA NextType ==
  ASSUME TypeOK, ReversalJobs, [Next]_vars PROVE TypeOK'
<1>1. CASE \E r \in Requests : Start(r)
  BY <1>1, CallsType, ReceiveClubPaymentType, DeleteReceiptType, CreateCheckoutType,
     PayuReturnType, CreateNoteType DEF Start
<1>2. CASE \E r \in Requests : Step(r)
  BY <1>2, PlainStepsType, ReadNotesType, InsertPaymentType, UpdatePaidType, LockRowType,
     AllLockedType, CheckLineType, CommitReceiptType, CommitReversalType, GatewayStepsType,
     NoteStepsType, SaveStepsType DEF Step
<1>3. CASE \E r \in Requests : Crash(r)
  BY <1>3, CrashType
<1>4. CASE CloseBooks
  BY <1>4 DEF CloseBooks, TypeOK, db, locals
<1>5. CASE UNCHANGED vars
  BY <1>5 DEF TypeOK, vars
<1> QED
  BY <1>1, <1>2, <1>3, <1>4, <1>5 DEF Next, Over

-----------------------------------------------------------------------------
(* What a step of r does to the other handlers, and to r itself.             *)

Transaction == {"rowBooks", "lock", "line"}

\* The others keep their variables and their locks, and no row one of them holds
\* changes.
OthersKeep(r) ==
  \A q \in Requests \ {r} :
    /\ pc'[q] = pc[q] /\ job'[q] = job[q] /\ amt'[q] = amt[q] /\ seen'[q] = seen[q]
    /\ todo'[q] = todo[q] /\ hits'[q] = hits[q]
    /\ q \in conns => q \in conns'
    /\ \A i \in Invoices : lock'[i] = q <=> lock[i] = q
    /\ \A i \in Invoices : lock[i] = q => invoice'[i] = invoice[i]

\* r stays outside a transaction.
StaysOut(r) == pc[r] \notin Transaction /\ pc'[r] \notin Transaction /\ lock' = lock

\* r ends its transaction.
Leaves(r) == pc'[r] \notin Transaction /\ \A i \in Invoices : lock'[i] # r

\* r has the receipt it had, or works on no receipt.
JobKept(r) ==
  \/ /\ job'[r] = job[r] /\ hits'[r] = hits[r]
     /\ amt'[r] = amt[r] \/ job[r].kind = "payuReturn"
  \/ job'[r].kind \notin {"club", "deleteReceipt"}

Aside(r) == OthersKeep(r) /\ StaysOut(r) /\ JobKept(r)

LEMMA FinishAside ==
  ASSUME TypeOK, NEW r \in Requests, NEW how \in Ended, Finish(r, how),
         pc[r] \notin Transaction, UNCHANGED <<lock, conns>>,
         \A i \in Invoices : invoice'[i] # invoice[i] => lock[i] = None
  PROVE  Aside(r)
BY ReceivablesAssumption
   DEF TypeOK, Finish, Goto, Ended, Transaction, NoJob, JobOf, Aside, OthersKeep, StaysOut, JobKept

LEMMA GotoAside ==
  ASSUME TypeOK, NEW r \in Requests, NEW label \in Labels \ Transaction, Goto(r, label),
         pc[r] \notin Transaction, UNCHANGED <<lock, conns, locals>>,
         \A i \in Invoices : invoice'[i] # invoice[i] => lock[i] = None
  PROVE  Aside(r)
BY ReceivablesAssumption
   DEF TypeOK, Goto, Transaction, Aside, OthersKeep, StaysOut, JobKept, locals

LEMMA CallOnAside ==
  ASSUME TypeOK, NEW r \in Requests, NEW i \in Invoices, NEW j \in Job, NEW a \in Nat,
         NEW label \in Labels \ Transaction, CallOn(r, i, j, a, label),
         j.kind \notin {"club", "deleteReceipt"}
  PROVE  Aside(r)
<1>0. pc[r] \notin Transaction /\ UNCHANGED <<invoice, lock, conns>>
  BY DEF CallOn, Call, At, Transaction, db
<1>1. CASE Finish(r, "rejected")
  BY <1>0, <1>1, FinishAside DEF Ended
<1>2. CASE /\ Goto(r, label)
           /\ job' = [job EXCEPT ![r] = j]
           /\ amt' = [amt EXCEPT ![r] = Only(i, a)]
           /\ seen' = [seen EXCEPT ![r][i] = invoice[i]]
           /\ UNCHANGED <<owed, todo, hits, dirty>>
  BY <1>0, <1>2 DEF TypeOK, Goto, Transaction, Aside, OthersKeep, StaysOut, JobKept
<1> QED
  BY <1>1, <1>2 DEF CallOn

LEMMA CallsAside ==
  ASSUME TypeOK, NEW r \in Requests,
         \/ RecordPayment(r) \/ CounterReturn(r) \/ DeleteInvoice(r) \/ UpdateInvoice(r)
         \/ CreateCheckout(r) \/ PayuReturn(r) \/ CreateNote(r)
  PROVE  Aside(r)
<1>1. CASE RecordPayment(r)
  <2>1. PICK i \in Invoices, a \in Amounts, d \in Days :
          CallOn(r, i, JobOf("record", {i}, d), a, "books")
    BY <1>1 DEF RecordPayment
  <2>2. JobOf("record", {i}, d) \in Job /\ JobOf("record", {i}, d).kind = "record" /\ a \in Nat
    BY JobOfType, ReceivablesAssumption DEF AllKinds
  <2> QED
    BY <2>1, <2>2, CallOnAside DEF Labels, Transaction
<1>2. CASE CounterReturn(r)
  <2>1. PICK i \in Invoices :
          CallOn(r, i, StockJob("counterReturn", i), invoice[i].total, "returnNotes")
    BY <1>2 DEF CounterReturn
  <2>2. /\ StockJob("counterReturn", i) \in Job /\ invoice[i].total \in Nat
        /\ StockJob("counterReturn", i).kind = "counterReturn"
    BY StockJobType DEF StockJob, AllKinds, TypeOK, Row
  <2> QED
    BY <2>1, <2>2, CallOnAside DEF Labels, Transaction
<1>3. CASE DeleteInvoice(r)
  <2>1. PICK i \in Invoices : CallOn(r, i, StockJob("deleteInvoice", i), 0, "books")
    BY <1>3 DEF DeleteInvoice
  <2>2. /\ StockJob("deleteInvoice", i) \in Job
        /\ StockJob("deleteInvoice", i).kind = "deleteInvoice"
    BY StockJobType DEF StockJob, AllKinds
  <2> QED
    BY <2>1, <2>2, CallOnAside DEF Labels, Transaction
<1>4. CASE UpdateInvoice(r)
  <2>1. PICK i \in Invoices, a \in Amounts, d \in Days :
          CallOn(r, i, JobOf("updateInvoice", {i}, d), a, "books")
    BY <1>4 DEF UpdateInvoice
  <2>2. /\ JobOf("updateInvoice", {i}, d) \in Job /\ a \in Nat
        /\ JobOf("updateInvoice", {i}, d).kind = "updateInvoice"
    BY JobOfType, ReceivablesAssumption DEF AllKinds, AllDays
  <2> QED
    BY <2>1, <2>2, CallOnAside DEF Labels, Transaction
<1>5. CASE CreateCheckout(r)
  <2>1. PICK i \in Invoices, a \in Amounts : CreateCheckout(r)!(i, a)
    BY <1>5 DEF CreateCheckout
  <2>2. pc[r] \notin Transaction /\ UNCHANGED <<invoice, lock, conns>>
    BY <2>1 DEF Call, At, Transaction, db
  <2>3. CASE Finish(r, "rejected")
    BY <2>2, <2>3, FinishAside DEF Ended
  <2>4. CASE /\ Goto(r, "insert")
             /\ job' = [job EXCEPT ![r] = PayuJob("checkout", i, r, "txnid")]
             /\ amt' = [amt EXCEPT ![r] = Only(i, a)]
             /\ UNCHANGED <<seen, owed, todo, hits, dirty>>
    BY <2>2, <2>4 DEF TypeOK, Goto, Transaction, PayuJob, Aside, OthersKeep, StaysOut, JobKept
  <2> QED
    BY <2>1, <2>3, <2>4
<1>6. CASE PayuReturn(r)
  BY <1>6 DEF PayuReturn, Call, At, db, PayuJob, TypeOK, Goto, Transaction, Aside, OthersKeep,
              StaysOut, JobKept
<1>7. CASE CreateNote(r)
  BY <1>7 DEF CreateNote, Call, At, db, JobOf, TypeOK, Goto, Transaction, Aside, OthersKeep,
              StaysOut, JobKept
<1> QED
  BY <1>1, <1>2, <1>3, <1>4, <1>5, <1>6, <1>7

LEMMA DeskStepsAside ==
  ASSUME TypeOK, NEW r \in Requests,
         CheckBooks(r) \/ ReadNotes(r) \/ InsertPayment(r) \/ UpdatePaid(r)
  PROVE  Aside(r)
<1>1. CASE CheckBooks(r)
  <2>0. pc[r] \notin Transaction /\ UNCHANGED <<invoice, lock, conns>>
    BY <1>1 DEF CheckBooks, At, Transaction, db
  <2>1. \/ Finish(r, "rejected")
        \/ UNCHANGED locals /\ \E label \in {"save", "notes"} : Goto(r, label)
    BY <1>1 DEF CheckBooks
  <2> QED
    BY <2>0, <2>1, FinishAside, GotoAside DEF Ended, Labels, Transaction
<1>2. CASE ReadNotes(r)
  <2>1. PICK i \in job[r].on : ReadNotes(r)!(i)
    BY <1>2 DEF ReadNotes
  <2>2. pc[r] \notin Transaction /\ UNCHANGED <<invoice, lock, conns>>
    BY <2>1 DEF At, Transaction, db
  <2>3. CASE Finish(r, "done") \/ Finish(r, "rejected")
    BY <2>2, <2>3, FinishAside DEF Ended
  <2>4. CASE /\ Goto(r, "insert")
             /\ UNCHANGED <<job, amt, seen, todo, hits, dirty>>
    BY <2>2, <2>4 DEF TypeOK, Goto, Transaction, Aside, OthersKeep, StaysOut, JobKept
  <2>5. CASE /\ job[r].kind = "payuReturn"
             /\ Goto(r, "insert")
             /\ amt' = [amt EXCEPT ![r][i] = Applied(r, i)]
             /\ UNCHANGED <<job, seen, todo, hits, dirty>>
    BY <2>2, <2>5 DEF TypeOK, Goto, Transaction, Aside, OthersKeep, StaysOut, JobKept
  <2>6. CASE /\ Goto(r, IF job[r].stock THEN "restore" ELSE "save")
             /\ UNCHANGED locals
    BY <2>2, <2>6, GotoAside DEF Labels, Transaction
  <2> QED
    BY <2>1, <2>3, <2>4, <2>5, <2>6 DEF In
<1>3. CASE InsertPayment(r)
  <2>0. pc[r] \notin Transaction /\ UNCHANGED <<invoice, lock, conns>>
    BY <1>3 DEF InsertPayment, At, Transaction
  <2>1. Finish(r, "done") \/ (Goto(r, "update") /\ UNCHANGED locals)
    BY <1>3 DEF InsertPayment
  <2> QED
    BY <2>0, <2>1, FinishAside, GotoAside DEF Ended, Labels, Transaction
<1>4. CASE UpdatePaid(r)
  BY <1>4, FinishAside DEF UpdatePaid, At, Ended, Transaction, Writable, TypeOK
<1> QED
  BY <1>1, <1>2, <1>3, <1>4

LEMMA GatewayStepsAside ==
  ASSUME TypeOK, NEW r \in Requests,
         GatewayDup(r) \/ DropPending(r) \/ Reread(r) \/ Redup(r)
  PROVE  Aside(r)
<1>1. CASE GatewayDup(r)
  BY <1>1, FinishAside, GotoAside DEF GatewayDup, At, db, Ended, Labels, Transaction
<1>2. CASE DropPending(r)
  BY <1>2, GotoAside DEF DropPending, At, Labels, Transaction
<1>3. CASE Reread(r)
  BY <1>3 DEF Reread, At, db, TypeOK, Goto, Transaction, Aside, OthersKeep, StaysOut, JobKept
<1>4. CASE Redup(r)
  BY <1>4, FinishAside, GotoAside DEF Redup, At, db, Ended, Labels, Transaction
<1> QED
  BY <1>1, <1>2, <1>3, <1>4

LEMMA NoteStepsAside ==
  ASSUME TypeOK, NEW r \in Requests,
         \/ CheckReturn(r) \/ CheckNoteBooks(r) \/ ReadForNote(r) \/ ReadNotesForCredit(r)
         \/ InsertNote(r) \/ ReadNotesAfterDebit(r) \/ UpdateNoteStatus(r)
  PROVE  Aside(r)
<1>1. CASE CheckReturn(r)
  BY <1>1, FinishAside, GotoAside DEF CheckReturn, At, db, Ended, Labels, Transaction
<1>2. CASE CheckNoteBooks(r)
  BY <1>2, FinishAside, GotoAside DEF CheckNoteBooks, At, db, Ended, Labels, Transaction
<1>3. CASE ReadForNote(r)
  <2>0. pc[r] \notin Transaction /\ UNCHANGED <<invoice, lock, conns>>
    BY <1>3 DEF ReadForNote, At, Transaction, db
  <2>1. PICK i \in job[r].on : ReadForNote(r)!(i)
    BY <1>3 DEF ReadForNote
  <2>2. CASE Finish(r, "rejected")
    BY <2>0, <2>2, FinishAside DEF Ended
  <2>3. CASE /\ Goto(r, IF In(r) = "debit" THEN "noteInsert" ELSE "noteNotes")
             /\ seen' = [seen EXCEPT ![r][i] = invoice[i]]
             /\ UNCHANGED <<job, amt, owed, todo, hits, dirty>>
    BY <2>0, <2>3 DEF TypeOK, Goto, Transaction, Aside, OthersKeep, StaysOut, JobKept
  <2> QED
    BY <2>1, <2>2, <2>3
<1>4. CASE ReadNotesForCredit(r)
  <2>0. pc[r] \notin Transaction /\ UNCHANGED <<invoice, lock, conns>>
    BY <1>4 DEF ReadNotesForCredit, At, Transaction, db
  <2>1. \/ Finish(r, "rejected")
        \/ Goto(r, "noteInsert") /\ UNCHANGED <<job, amt, seen, todo, hits, dirty>>
    BY <1>4 DEF ReadNotesForCredit
  <2>2. CASE Finish(r, "rejected")
    BY <2>0, <2>2, FinishAside DEF Ended
  <2>3. CASE Goto(r, "noteInsert") /\ UNCHANGED <<job, amt, seen, todo, hits, dirty>>
    BY <2>0, <2>3 DEF TypeOK, Goto, Transaction, Aside, OthersKeep, StaysOut, JobKept
  <2> QED
    BY <2>1, <2>2, <2>3
<1>5. CASE InsertNote(r)
  BY <1>5, GotoAside DEF InsertNote, At, Labels, Transaction
<1>6. CASE ReadNotesAfterDebit(r)
  BY <1>6 DEF ReadNotesAfterDebit, At, db, TypeOK, Goto, Transaction, Aside, OthersKeep,
              StaysOut, JobKept
<1>7. CASE UpdateNoteStatus(r)
  <2>0. /\ pc[r] \notin Transaction /\ UNCHANGED <<lock, conns>>
        /\ \A i \in Invoices : invoice'[i] # invoice[i] => lock[i] = None
    BY <1>7 DEF UpdateNoteStatus, At, Transaction, Writable, TypeOK
  <2>1. Finish(r, "done") \/ (Goto(r, "restore") /\ UNCHANGED locals)
    BY <1>7 DEF UpdateNoteStatus
  <2> QED
    BY <2>0, <2>1, FinishAside, GotoAside DEF Ended, Labels, Transaction
<1> QED
  BY <1>1, <1>2, <1>3, <1>4, <1>5, <1>6, <1>7

LEMMA SaveStepsAside ==
  ASSUME TypeOK, NEW r \in Requests,
         RestoreStock(r) \/ RecordMovement(r) \/ LoadForSave(r) \/ SaveInvoice(r) \/ Retotal(r)
  PROVE  Aside(r)
<1>1. CASE RestoreStock(r)
  BY <1>1, GotoAside DEF RestoreStock, At, Labels, Transaction
<1>2. CASE RecordMovement(r)
  <2>0. pc[r] \notin Transaction /\ UNCHANGED <<invoice, lock, conns>>
    BY <1>2 DEF RecordMovement, At, Transaction
  <2>1. Finish(r, "done") \/ Finish(r, "rejected") \/ (Goto(r, "save") /\ UNCHANGED locals)
    BY <1>2 DEF RecordMovement
  <2> QED
    BY <2>0, <2>1, FinishAside, GotoAside DEF Ended, Labels, Transaction
<1>3. CASE SaveInvoice(r)
  <2>0. /\ pc[r] \notin Transaction /\ UNCHANGED <<lock, conns>>
        /\ \A i \in Invoices : invoice'[i] # invoice[i] => lock[i] = None
    BY <1>3 DEF SaveInvoice, At, Transaction, Writable, TypeOK
  <2>1. Finish(r, "done") \/ (Goto(r, "retotal") /\ UNCHANGED locals)
    BY <1>3 DEF SaveInvoice
  <2> QED
    BY <2>0, <2>1, FinishAside, GotoAside DEF Ended, Labels, Transaction
<1>4. CASE Retotal(r)
  BY <1>4, FinishAside DEF Retotal, At, Ended, Transaction, Writable, TypeOK
<1>5. CASE LoadForSave(r)
  BY <1>5 DEF LoadForSave, At, db, TypeOK, Goto, Transaction, Aside, OthersKeep, StaysOut, JobKept
<1> QED
  BY <1>1, <1>2, <1>3, <1>4, <1>5

-----------------------------------------------------------------------------
(* The locks, and the receipts the handlers work on.                         *)

LocksOK == LockedRowIsCurrent /\ TransactionsHold
JobsOK == ClubJobs /\ ReversalJobs

LEMMA AsideLocks ==
  ASSUME LocksOK, NEW r \in Requests, OthersKeep(r), StaysOut(r)
  PROVE  LocksOK'
BY DEF LocksOK, LockedRowIsCurrent, TransactionsHold, OthersKeep, StaysOut, Transaction

LEMMA LeavesLocks ==
  ASSUME TypeOK, LocksOK, NEW r \in Requests, OthersKeep(r), Leaves(r)
  PROVE  LocksOK'
<1>1. \A q \in Requests : job[q].on \subseteq Invoices
  BY DEF TypeOK, Job
<1> QED
  BY <1>1 DEF LocksOK, LockedRowIsCurrent, TransactionsHold, OthersKeep, Leaves, Transaction

LEMMA KeptJobs ==
  ASSUME JobsOK, NEW r \in Requests, OthersKeep(r), JobKept(r)
  PROVE  JobsOK'
BY DEF JobsOK, ClubJobs, ReversalJobs, OthersKeep, JobKept, In

\* A transaction ends: nothing r held stays locked.
LEMMA EndLeaves ==
  ASSUME TypeOK, LocksOK, NEW r \in Requests, NEW how \in Ended, Finish(r, how), Release(r),
         \A i \in Invoices : invoice'[i] # invoice[i] => lock[i] = r
  PROVE  OthersKeep(r) /\ Leaves(r) /\ JobKept(r)
BY ReceivablesAssumption
   DEF TypeOK, Finish, Release, Goto, Ended, Transaction, NoJob, JobOf, OthersKeep, Leaves, JobKept

LEMMA EndHolds ==
  ASSUME TypeOK, LocksOK, JobsOK, NEW r \in Requests, NEW how \in Ended, Finish(r, how),
         Release(r), \A i \in Invoices : invoice'[i] # invoice[i] => lock[i] = r
  PROVE  LocksOK' /\ JobsOK'
BY EndLeaves, LeavesLocks, KeptJobs

LEMMA ReceiveClubPaymentHolds ==
  ASSUME TypeOK, LocksOK, JobsOK, NEW r \in Requests, ReceiveClubPayment(r)
  PROVE  LocksOK' /\ JobsOK'
<1>1. PICK on \in (SUBSET Invoices) \ {{}}, d \in Days :
        \E a \in [on -> Amounts] : StartReceipt(r, on, a, d)
  BY DEF ReceiveClubPayment
<1>2. PICK a \in [on -> Amounts] : StartReceipt(r, on, a, d)
  BY <1>1
<1>3. pc[r] \notin Transaction /\ UNCHANGED <<invoice, lock>>
  BY <1>2 DEF StartReceipt, Call, At, Transaction, db
<1>4. CASE Finish(r, "rejected") /\ UNCHANGED conns
  <2>1. Aside(r)
    BY <1>3, <1>4, FinishAside DEF Ended
  <2> QED
    BY <2>1, AsideLocks, KeptJobs DEF Aside
<1>5. CASE ~BooksClosed(d)
  <2> DEFINE parts == [i \in Invoices |-> IF i \in on THEN a[i] ELSE 0]
             j == JobOf("club", on, d)
  <2>1. j.on = on /\ j.kind = "club" /\ \A i \in Invoices : i \notin on => parts[i] = 0
    BY DEF JobOf
  <2>2. /\ Goto(r, "lock")
        /\ job' = [job EXCEPT ![r] = j]
        /\ amt' = [amt EXCEPT ![r] = parts]
        /\ todo' = [todo EXCEPT ![r] = on]
        /\ conns' = conns \cup {r}
        /\ UNCHANGED <<seen, owed, hits, dirty>>
    BY <1>2, <1>5 DEF StartReceipt
  <2> HIDE DEF parts, j
  <2>3. OthersKeep(r)
    BY <1>3, <2>2 DEF TypeOK, Goto, OthersKeep
  <2>4. /\ pc'[r] = "lock" /\ job'[r] = j /\ amt'[r] = parts /\ todo'[r] = on /\ r \in conns'
    BY <2>2 DEF TypeOK, Goto
  <2>5. \A i \in Invoices : lock[i] # r
    BY <1>3 DEF LocksOK, LockedRowIsCurrent, Transaction
  <2>6. LocksOK'
    BY <1>3, <2>1, <2>3, <2>4, <2>5
       DEF LocksOK, LockedRowIsCurrent, TransactionsHold, OthersKeep
  <2>7. JobsOK'
    BY <2>1, <2>3, <2>4 DEF JobsOK, ClubJobs, ReversalJobs, OthersKeep, In
  <2> QED
    BY <2>6, <2>7
<1> QED
  BY <1>2, <1>4, <1>5 DEF StartReceipt

LEMMA DeleteReceiptHolds ==
  ASSUME TypeOK, LocksOK, JobsOK, NEW r \in Requests, DeleteReceipt(r)
  PROVE  LocksOK' /\ JobsOK'
<1>1. PICK q \in Requests : DeleteReceipt(r)!(q)
  BY DEF DeleteReceipt
<1>3. pc[r] \notin Transaction /\ UNCHANGED <<invoice, lock>>
  BY <1>1 DEF Call, At, Transaction, db
<1>4. CASE ReceiptRows(q) = {}
  <2>0. Finish(r, "rejected") /\ UNCHANGED conns
    BY <1>1, <1>4
  <2>1. Aside(r)
    BY <1>3, <2>0, FinishAside DEF Ended
  <2> QED
    BY <2>1, AsideLocks, KeptJobs DEF Aside
<1>5. CASE ReceiptRows(q) # {}
  <2> DEFINE on == {p.inv : p \in ReceiptRows(q)}
             j == JobOf("deleteReceipt", on, "new")
  <2>1. j.on = on /\ j.kind = "deleteReceipt"
    BY DEF JobOf
  <2>2. /\ Goto(r, "rowBooks")
        /\ job' = [job EXCEPT ![r] = j]
        /\ todo' = [todo EXCEPT ![r] = on]
        /\ hits' = [hits EXCEPT ![r] = ReceiptRows(q)]
        /\ conns' = conns \cup {r}
        /\ UNCHANGED <<amt, seen, owed>>
    BY <1>1, <1>5
  <2>8. on = {p.inv : p \in ReceiptRows(q)}
    OBVIOUS
  <2> HIDE DEF on, j
  <2>3. OthersKeep(r)
    BY <1>3, <2>2 DEF TypeOK, Goto, OthersKeep
  <2>4. /\ pc'[r] = "rowBooks" /\ job'[r] = j /\ todo'[r] = on /\ r \in conns'
        /\ hits'[r] = ReceiptRows(q)
    BY <2>2 DEF TypeOK, Goto
  <2>5. \A i \in Invoices : lock[i] # r
    BY <1>3 DEF LocksOK, LockedRowIsCurrent, Transaction
  <2>6. LocksOK'
    BY <1>3, <2>1, <2>3, <2>4, <2>5
       DEF LocksOK, LockedRowIsCurrent, TransactionsHold, OthersKeep
  <2>7. JobsOK'
    BY <2>1, <2>3, <2>4, <2>8 DEF JobsOK, ClubJobs, ReversalJobs, OthersKeep, In
  <2> QED
    BY <2>6, <2>7
<1> QED
  BY <1>4, <1>5

LEMMA TransactionStepsHold ==
  ASSUME TypeOK, LocksOK, JobsOK, NEW r \in Requests,
         \/ CheckRowBooks(r) \/ LockRow(r) \/ AllLocked(r) \/ DeadlockVictim(r)
         \/ CheckLine(r) \/ Crash(r)
  PROVE  LocksOK' /\ JobsOK'
<1>1. CASE CheckRowBooks(r)
  <2>1. CASE Abort(r)
    BY <1>1, <2>1, EndHolds DEF CheckRowBooks, Abort, Ended, db
  <2>2. CASE Goto(r, "lock") /\ UNCHANGED <<locals, lock, conns>>
    <3>1. OthersKeep(r) /\ UNCHANGED <<invoice, lock, conns, job, amt, seen, todo, hits, dirty>>
          /\ pc[r] = "rowBooks" /\ pc'[r] = "lock"
      BY <1>1, <2>2 DEF CheckRowBooks, At, db, locals, TypeOK, Goto, OthersKeep
    <3>2. LocksOK'
      BY <3>1 DEF LocksOK, LockedRowIsCurrent, TransactionsHold, OthersKeep
    <3> QED
      BY <3>1, <3>2, KeptJobs DEF JobKept
  <2> QED
    BY <1>1, <2>1, <2>2 DEF CheckRowBooks
<1>2. CASE LockRow(r)
  <2>1. PICK i \in todo[r] : LockRow(r)!(i)
    BY <1>2 DEF LockRow
  <2>2. /\ i \in Invoices /\ lock[i] = None /\ pc[r] = "lock"
        /\ UNCHANGED <<invoice, conns, pc, job, amt, hits>>
    BY <2>1 DEF At, Writable, db, TypeOK
  <2>3. /\ lock' = [lock EXCEPT ![i] = r]
        /\ seen' = [seen EXCEPT ![r][i] = invoice[i]]
        /\ todo' = [todo EXCEPT ![r] = @ \ {i}]
    BY <2>1
  <2>4. OthersKeep(r)
    BY <2>2, <2>3, ReceivablesAssumption DEF TypeOK, OthersKeep
  <2>5. /\ lock'[i] = r /\ \A k \in Invoices \ {i} : lock'[k] = lock[k]
        /\ seen'[r][i] = invoice[i] /\ \A k \in Invoices \ {i} : seen'[r][k] = seen[r][k]
        /\ todo'[r] = todo[r] \ {i}
    BY <2>2, <2>3 DEF TypeOK
  <2>6. LockedRowIsCurrent'
    BY <2>2, <2>4, <2>5 DEF LocksOK, LockedRowIsCurrent, TransactionsHold, OthersKeep
  <2>7. \A q \in Requests : job[q].on \subseteq Invoices
    BY DEF TypeOK, Job
  <2>8. TransactionsHold'
    BY <2>2, <2>4, <2>5, <2>7 DEF LocksOK, TransactionsHold, OthersKeep
  <2> QED
    BY <2>2, <2>4, <2>6, <2>8, KeptJobs DEF LocksOK, JobKept
<1>3. CASE AllLocked(r)
  <2>1. CASE Abort(r)
    BY <1>3, <2>1, EndHolds DEF AllLocked, Abort, Ended, db
  <2>2. CASE /\ Goto(r, "line")
             /\ todo' = [todo EXCEPT ![r] = job[r].on]
             /\ UNCHANGED <<lock, conns, job, amt, seen, owed, hits, dirty>>
    <3>1. OthersKeep(r) /\ UNCHANGED <<invoice, lock, conns, job, amt, seen, hits, dirty>>
          /\ pc[r] = "lock" /\ todo[r] = {} /\ pc'[r] = "line"
      BY <1>3, <2>2 DEF AllLocked, At, db, TypeOK, Goto, OthersKeep
    <3>2. LocksOK'
      BY <3>1 DEF LocksOK, LockedRowIsCurrent, TransactionsHold, OthersKeep
    <3> QED
      BY <3>1, <3>2, KeptJobs DEF JobKept
  <2> QED
    BY <1>3, <2>1, <2>2 DEF AllLocked
<1>4. CASE DeadlockVictim(r)
  BY <1>4, EndHolds DEF DeadlockVictim, Abort, Ended, db
<1>5. CASE CheckLine(r)
  <2>1. PICK i \in todo[r] : CheckLine(r)!(i)
    BY <1>5 DEF CheckLine
  <2>2. CASE Abort(r)
    BY <2>1, <2>2, EndHolds DEF Abort, Ended, db
  <2>3. CASE /\ todo' = [todo EXCEPT ![r] = @ \ {i}]
             /\ UNCHANGED <<lock, conns, pc, job, amt, seen, hits, dirty>>
    <3>1. OthersKeep(r) /\ UNCHANGED <<invoice, lock, conns, pc, job, amt, seen, hits, dirty>>
          /\ pc[r] = "line"
      BY <2>1, <2>3 DEF At, db, TypeOK, OthersKeep
    <3>2. LocksOK'
      BY <3>1 DEF LocksOK, LockedRowIsCurrent, TransactionsHold, OthersKeep
    <3> QED
      BY <3>1, <3>2, KeptJobs DEF JobKept
  <2> QED
    BY <2>1, <2>2, <2>3
<1>6. CASE Crash(r)
  BY <1>6, EndHolds DEF Crash, Ended, db
<1> QED
  BY <1>1, <1>2, <1>3, <1>4, <1>5, <1>6

LEMMA CommitsHold ==
  ASSUME TypeOK, LocksOK, JobsOK, NEW r \in Requests, CommitReceipt(r) \/ CommitReversal(r)
  PROVE  LocksOK' /\ JobsOK'
<1>1. \A i \in job[r].on : lock[i] = r
  BY DEF LocksOK, TransactionsHold, CommitReceipt, CommitReversal, At
<1>2. \A i \in Invoices : i \notin job[r].on => invoice'[i] = invoice[i]
  BY DEF CommitReceipt, CommitReversal
<1> QED
  BY <1>1, <1>2, EndHolds DEF CommitReceipt, CommitReversal, Ended

\* IInv is inductive.
LEMMA Inductive ==
  ASSUME IInv, [Next]_vars PROVE IInv'
<1>0. TypeOK /\ LocksOK /\ JobsOK
  BY DEF IInv, LocksOK, JobsOK
<1>1. TypeOK'
  BY NextType DEF IInv
<1>2. ASSUME NEW r \in Requests, Start(r) PROVE LocksOK' /\ JobsOK'
  <2>1. CASE ReceiveClubPayment(r) \/ DeleteReceipt(r)
    BY <1>0, <2>1, ReceiveClubPaymentHolds, DeleteReceiptHolds
  <2>2. CASE Aside(r)
    BY <1>0, <2>2, AsideLocks, KeptJobs DEF Aside
  <2> QED
    BY <1>0, <1>2, <2>1, <2>2, CallsAside DEF Start
<1>3. ASSUME NEW r \in Requests, Step(r) PROVE LocksOK' /\ JobsOK'
  <2>1. CASE \/ CheckRowBooks(r) \/ LockRow(r) \/ AllLocked(r) \/ DeadlockVictim(r)
             \/ CheckLine(r)
    BY <1>0, <2>1, TransactionStepsHold
  <2>2. CASE CommitReceipt(r) \/ CommitReversal(r)
    BY <1>0, <2>2, CommitsHold
  <2>3. CASE Aside(r)
    BY <1>0, <2>3, AsideLocks, KeptJobs DEF Aside
  <2> QED
    BY <1>0, <1>3, <2>1, <2>2, <2>3, DeskStepsAside, GatewayStepsAside, NoteStepsAside,
       SaveStepsAside DEF Step
<1>4. ASSUME NEW r \in Requests, Crash(r) PROVE LocksOK' /\ JobsOK'
  BY <1>0, <1>4, TransactionStepsHold
<1>5. ASSUME CloseBooks \/ UNCHANGED vars PROVE LocksOK' /\ JobsOK'
  <2>1. UNCHANGED <<invoice, lock, conns, pc, job, amt, seen, todo, hits, dirty>>
    BY <1>5 DEF CloseBooks, db, locals, vars
  <2> QED
    <3>1. LocksOK'
      BY <1>0, <2>1 DEF LocksOK, LockedRowIsCurrent, TransactionsHold
    <3>2. JobsOK'
      BY <1>0, <2>1 DEF JobsOK, ClubJobs, ReversalJobs, In
    <3> QED
      BY <3>1, <3>2
<1>6. LocksOK' /\ JobsOK'
  <2>1. \/ \E r \in Requests : Start(r) \/ Step(r) \/ Crash(r)
        \/ CloseBooks \/ UNCHANGED vars
    BY DEF Next, Over
  <2> QED
    BY <2>1, <1>2, <1>3, <1>4, <1>5
<1> QED
  BY <1>1, <1>6 DEF IInv, LocksOK, JobsOK

LEMMA InitHolds == Init => IInv
<1> SUFFICES ASSUME Init PROVE IInv
  OBVIOUS
<1>1. \A r \in Requests : pc[r] = "idle" /\ job[r].kind = "none"
  BY DEF Init, NoJob, JobOf
<1>2. \A i \in Invoices : lock[i] \notin Requests
  BY ReceivablesAssumption DEF Init
<1> QED
  BY <1>1, <1>2, InitType
     DEF IInv, LockedRowIsCurrent, TransactionsHold, ClubJobs, ReversalJobs, In

-----------------------------------------------------------------------------
(* Theorems. *)

LEMMA Invariance == Spec => []IInv
BY InitHolds, Inductive, PTL DEF Spec

\* Every variable keeps its type: no paid amount, note total or stock count of the
\* model goes below zero, whatever handlers run.
THEOREM TypeCorrect == Spec => []TypeOK
<1>1. IInv => TypeOK
  BY DEF IInv
<1> QED
  BY <1>1, Invariance, PTL

\* The row a transaction of receiveClubPayment or deleteReceipt read under its lock
\* is the row that stands until its commit, for any number of handlers beside it.
THEOREM LockedRowsStay == Spec => []LockedRowIsCurrent
<1>1. IInv => LockedRowIsCurrent
  BY DEF IInv
<1> QED
  BY <1>1, Invariance, PTL

-----------------------------------------------------------------------------
(* A club receipt posts exactly its parts.                                   *)

LEMMA OthersStayPut ==
  ASSUME TypeOK, NEW q \in Requests, NEW r \in Requests, q # r, Start(q) \/ Step(q) \/ Crash(q)
  PROVE  pc'[r] = pc[r]
<1>1. CASE Aside(q)
  BY <1>1 DEF Aside, OthersKeep
<1>2. CASE \/ ReceiveClubPayment(q) \/ DeleteReceipt(q) \/ CheckRowBooks(q) \/ LockRow(q)
           \/ AllLocked(q) \/ DeadlockVictim(q) \/ CheckLine(q) \/ CommitReceipt(q)
           \/ CommitReversal(q) \/ Crash(q)
  <2>1. UNCHANGED pc \/ \E label \in Labels : Goto(q, label)
    BY <1>2 DEF ReceiveClubPayment, StartReceipt, DeleteReceipt, CheckRowBooks, LockRow, AllLocked,
                DeadlockVictim, CheckLine, CommitReceipt, CommitReversal, Crash, Abort, Finish,
                Labels, Ended
  <2> QED
    BY <2>1 DEF TypeOK, Goto
<1> QED
  BY <1>1, <1>2, CallsAside, DeskStepsAside, GatewayStepsAside, NoteStepsAside, SaveStepsAside
     DEF Start, Step

\* Only a commit takes a transaction from its lines to done.
LEMMA OnlyCommitsEnd ==
  ASSUME TypeOK, NEW r \in Requests, [Next]_vars, pc[r] = "line", pc'[r] = "done"
  PROVE  CommitReceipt(r) \/ CommitReversal(r)
<1>1. ASSUME NEW q \in Requests, Start(q) \/ Step(q) \/ Crash(q) PROVE q = r
  BY <1>1, OthersStayPut
<1>2. ~ (CloseBooks \/ UNCHANGED vars)
  BY DEF CloseBooks, vars
<1>3. Start(r) \/ Step(r) \/ Crash(r)
  BY <1>1, <1>2 DEF Next, Over
<1>4. ~ Aside(r)
  BY DEF Aside, StaysOut, Transaction
<1>5. ~ (ReceiveClubPayment(r) \/ DeleteReceipt(r))
  BY DEF ReceiveClubPayment, StartReceipt, DeleteReceipt, Call, At
<1>6. ~ (CheckRowBooks(r) \/ LockRow(r) \/ AllLocked(r) \/ DeadlockVictim(r))
  BY DEF CheckRowBooks, LockRow, AllLocked, DeadlockVictim, At
<1>7. ~ (CheckLine(r) \/ Crash(r))
  BY DEF CheckLine, Crash, Abort, Finish, Goto, TypeOK
<1> QED
  BY <1>3, <1>4, <1>5, <1>6, <1>7, CallsAside, DeskStepsAside, GatewayStepsAside,
     NoteStepsAside, SaveStepsAside DEF Start, Step

LEMMA CommitPosts ==
  ASSUME IInv, NEW r \in Requests, CommitReceipt(r), NEW i \in Invoices
  PROVE  invoice'[i].paid = invoice[i].paid + amt[r][i]
<1>1. /\ invoice[i] \in Row /\ invoice[i].paid \in Nat /\ seen[r][i].paid \in Nat
      /\ amt[r][i] \in Nat
  BY DEF IInv, TypeOK, Row
<1>2. CASE i \in job[r].on
  <2>1. seen[r][i] = invoice[i]
    BY <1>2 DEF IInv, LockedRowIsCurrent, TransactionsHold, CommitReceipt, At
  <2>2. invoice'[i] = PaidRow(invoice[i], NewPaid(r, i), Standing(NewPaid(r, i), owed[r][i]))
    BY <1>2 DEF CommitReceipt
  <2>3. NewPaid(r, i) = invoice[i].paid + amt[r][i]
    BY <2>1 DEF NewPaid
  <2> QED
    BY <1>1, <2>2, <2>3, PaidRowType, StandingType
<1>3. CASE i \notin job[r].on
  <2>1. invoice'[i] = invoice[i]
    BY <1>3 DEF CommitReceipt
  <2>2. amt[r][i] = 0
    BY <1>3 DEF IInv, ClubJobs, CommitReceipt
  <2> QED
    BY <1>1, <2>1, <2>2
<1> QED
  BY <1>2, <1>3

\* A club receipt raises the paid amount of each of its invoices by exactly its part
\* and touches no other, whatever desk payments, notes, saves, other receipts and
\* reversals run beside it.
THEOREM ReceiptsPostExactly == Spec => ReceiptPostsExactly
<1>1. ASSUME IInv, [Next]_vars
      PROVE  [\A r \in Requests : In(r) = "club" /\ pc[r] = "line" /\ pc'[r] = "done" =>
                \A i \in Invoices : invoice'[i].paid = invoice[i].paid + amt[r][i]]_vars
  <2>1. ASSUME NEW r \in Requests, In(r) = "club", pc[r] = "line", pc'[r] = "done"
        PROVE  \A i \in Invoices : invoice'[i].paid = invoice[i].paid + amt[r][i]
    <3>1. CommitReceipt(r)
      BY <1>1, <2>1, OnlyCommitsEnd DEF IInv, CommitReversal
    <3> QED
      BY <1>1, <3>1, CommitPosts
  <2> QED
    BY <2>1
<1> QED
  BY <1>1, Invariance, PTL DEF Spec, ReceiptPostsExactly

-----------------------------------------------------------------------------
(* The rows of a receipt come together and go together.                      *)

\* A handler that has inserted its rows inserts no more.
Past == {"update"} \cup Ended
RowsAreDone == \A p \in rows : pc[p.by] \in Past

\* A checkout leaves one row.
PendingAlone == \A p, x \in rows : Pending(p) /\ x.by = p.by => x = p

\* A reversal has read every row its receipt has.
WholeHits ==
  \A r \in Requests : In(r) = "deleteReceipt" =>
    \E q \in Requests : /\ pc[q] \in Past
                        /\ \A p \in hits[r] : p.by = q
                        /\ \A p \in rows : p.by = q => p \in hits[r]

RowsInv == RowsAreDone /\ PendingAlone /\ WholeHits

LEMMA DeskStepsRun ==
  ASSUME NEW r \in Requests,
         CheckBooks(r) \/ ReadNotes(r) \/ InsertPayment(r) \/ UpdatePaid(r)
  PROVE  pc[r] \in {"books", "notes", "insert", "update"} /\ (pc[r] = "update" => UpdatePaid(r))
BY DEF CheckBooks, ReadNotes, InsertPayment, UpdatePaid, At

LEMMA TransactionStepsRun ==
  ASSUME NEW r \in Requests,
         \/ CheckRowBooks(r) \/ LockRow(r) \/ AllLocked(r) \/ DeadlockVictim(r)
         \/ CheckLine(r) \/ CommitReceipt(r) \/ CommitReversal(r)
  PROVE  pc[r] \in Transaction
BY DEF CheckRowBooks, LockRow, AllLocked, DeadlockVictim, CheckLine, CommitReceipt, CommitReversal,
       At, Transaction

LEMMA GatewayStepsRun ==
  ASSUME NEW r \in Requests, GatewayDup(r) \/ DropPending(r) \/ Reread(r) \/ Redup(r)
  PROVE  pc[r] \in {"gatewayDup", "dropPending", "reread", "redup"}
BY DEF GatewayDup, DropPending, Reread, Redup, At

LEMMA NoteStepsRun ==
  ASSUME NEW r \in Requests,
         \/ CheckReturn(r) \/ CheckNoteBooks(r) \/ ReadForNote(r) \/ ReadNotesForCredit(r)
         \/ InsertNote(r) \/ ReadNotesAfterDebit(r) \/ UpdateNoteStatus(r)
  PROVE  pc[r] \in {"returnNotes", "noteBooks", "noteRead", "noteNotes", "noteInsert", "noteStatus"}
BY DEF CheckReturn, CheckNoteBooks, ReadForNote, ReadNotesForCredit, InsertNote,
       ReadNotesAfterDebit, UpdateNoteStatus, At

LEMMA SaveStepsRun ==
  ASSUME NEW r \in Requests,
         \/ RestoreStock(r) \/ RecordMovement(r) \/ LoadForSave(r) \/ SaveInvoice(r) \/ Retotal(r)
  PROVE  pc[r] \in {"restore", "movement", "save", "write", "retotal"}
BY DEF RestoreStock, RecordMovement, LoadForSave, SaveInvoice, Retotal, At

\* Only a running handler steps; one that has inserted its payment updates.
LEMMA StepsRun ==
  ASSUME NEW r \in Requests, Step(r)
  PROVE  Running(r) /\ (pc[r] = "update" => UpdatePaid(r))
BY DeskStepsRun, TransactionStepsRun, GatewayStepsRun, NoteStepsRun, SaveStepsRun
   DEF Step, Running, Ended, Transaction

LEMMA CallsStart ==
  ASSUME NEW r \in Requests, Start(r) PROVE Call(r)
BY DEF Start, RecordPayment, ReceiveClubPayment, StartReceipt, DeleteReceipt, CreateCheckout,
       PayuReturn, CreateNote, CounterReturn, DeleteInvoice, UpdateInvoice, CallOn

LEMMA PastStays ==
  ASSUME TypeOK, [Next]_vars, NEW q \in Requests, pc[q] \in Past
  PROVE  pc'[q] \in Past
<1>1. ASSUME NEW r \in Requests, Start(r) \/ Step(r) \/ Crash(r) PROVE pc'[q] \in Past
  <2>1. CASE r # q
    BY <1>1, <2>1, OthersStayPut
  <2>2. CASE r = q
    <3>1. ~ Start(q)
      BY CallsStart DEF Call, At, Past, Ended
    <3>2. CASE Step(q)
      <4>1. UpdatePaid(q)
        BY <3>2, StepsRun DEF Past, Running
      <4> QED
        BY <4>1 DEF UpdatePaid, Finish, Goto, TypeOK, Past, Ended
    <3>3. CASE Crash(q)
      BY <3>3 DEF Crash, Finish, Goto, TypeOK, Past, Ended
    <3> QED
      BY <1>1, <2>2, <3>1, <3>2, <3>3
  <2> QED
    BY <2>1, <2>2
<1>2. CASE CloseBooks \/ UNCHANGED vars
  BY <1>2 DEF CloseBooks, vars
<1> QED
  BY <1>1, <1>2 DEF Next, Over

\* The four statements that write payment rows.
WritesRows(r) == InsertPayment(r) \/ DropPending(r) \/ CommitReceipt(r) \/ CommitReversal(r)

LEMMA OthersKeepRows ==
  ASSUME [Next]_vars
  PROVE  rows' = rows \/ \E r \in Requests : WritesRows(r)
<1>1. ASSUME NEW r \in Requests, Start(r) PROVE rows' = rows
  BY <1>1 DEF Start, RecordPayment, ReceiveClubPayment, StartReceipt, DeleteReceipt,
     CreateCheckout, PayuReturn, CreateNote, CounterReturn, DeleteInvoice, UpdateInvoice, CallOn, db
<1>2. ASSUME NEW r \in Requests, Step(r), ~ WritesRows(r) PROVE rows' = rows
  <2>1. CASE \/ CheckBooks(r) \/ ReadNotes(r) \/ UpdatePaid(r) \/ CheckRowBooks(r) \/ LockRow(r)
             \/ AllLocked(r) \/ DeadlockVictim(r) \/ CheckLine(r)
    BY <2>1 DEF CheckBooks, ReadNotes, UpdatePaid, CheckRowBooks, LockRow, AllLocked,
                DeadlockVictim, CheckLine, db
  <2>2. CASE \/ GatewayDup(r) \/ Reread(r) \/ Redup(r) \/ CheckReturn(r) \/ CheckNoteBooks(r)
             \/ ReadForNote(r) \/ ReadNotesForCredit(r) \/ InsertNote(r)
    BY <2>2 DEF GatewayDup, Reread, Redup, CheckReturn, CheckNoteBooks, ReadForNote,
                ReadNotesForCredit, InsertNote, db
  <2>3. CASE \/ ReadNotesAfterDebit(r) \/ UpdateNoteStatus(r) \/ RestoreStock(r)
             \/ RecordMovement(r) \/ LoadForSave(r) \/ SaveInvoice(r) \/ Retotal(r)
    BY <2>3 DEF ReadNotesAfterDebit, UpdateNoteStatus, RestoreStock, RecordMovement, LoadForSave,
                SaveInvoice, Retotal, db
  <2> QED
    BY <1>2, <2>1, <2>2, <2>3 DEF Step, WritesRows
<1>3. ASSUME NEW r \in Requests, Crash(r) PROVE rows' = rows
  BY <1>3 DEF Crash, db
<1>4. CASE CloseBooks \/ UNCHANGED vars
  BY <1>4 DEF CloseBooks, db, vars
<1> QED
  BY <1>1, <1>2, <1>3, <1>4 DEF Next, Over

\* Which handler is at which step, and on how many invoices.
Stages(r) ==
  /\ pc[r] = "books" => In(r) \in {"record", "deleteInvoice", "updateInvoice"}
  /\ pc[r] = "notes" => In(r) \in {"record", "payuReturn", "deleteInvoice"}
  /\ pc[r] = "insert" => In(r) \in {"record", "checkout", "payuReturn"}
  /\ pc[r] = "update" => In(r) \in {"record", "payuReturn"}
  /\ pc[r] = "rowBooks" => In(r) = "deleteReceipt"
  /\ pc[r] \in {"lock", "line"} => In(r) \in {"club", "deleteReceipt"}
  /\ pc[r] \in {"gatewayDup", "dropPending", "reread", "redup"} => In(r) = "payuReturn"
  /\ pc[r] \in {"noteBooks", "noteRead", "noteNotes", "noteInsert", "noteStatus"} =>
       In(r) \in {"credit", "debit", "counterReturn"}
  /\ pc[r] = "returnNotes" => In(r) = "counterReturn"
  /\ pc[r] \in {"restore", "movement"} => In(r) \in {"counterReturn", "deleteInvoice"}
  /\ pc[r] \in {"save", "write"} => In(r) \in {"deleteInvoice", "updateInvoice"}
  /\ pc[r] = "retotal" => In(r) = "updateInvoice"
OneEach(r) ==
  Running(r) =>
    /\ In(r) \in Kinds
    /\ In(r) \notin {"club", "deleteReceipt"} => \E i \in Invoices : job[r].on = {i}
    /\ job[r].stock => In(r) \in {"counterReturn", "deleteInvoice"}
Shape(r) == Stages(r) /\ OneEach(r)

LEMMA FinishShape ==
  ASSUME TypeOK, NEW r \in Requests, NEW how \in Ended, Finish(r, how) PROVE Shape(r)'
<1>1. pc'[r] \in Ended
  BY DEF Finish, Goto, TypeOK
<1> QED
  BY <1>1 DEF Shape, Stages, OneEach, Running, Ended

LEMMA DeskStepsShape ==
  ASSUME TypeOK, NEW r \in Requests, Shape(r),
         CheckBooks(r) \/ ReadNotes(r) \/ InsertPayment(r) \/ UpdatePaid(r)
  PROVE  Shape(r)'
<1>1. ASSUME ~ (Finish(r, "done") \/ Finish(r, "rejected")) PROVE Shape(r)'
  <2>1. /\ job'[r] = job[r] /\ Running(r) /\ Running(r)'
        /\ \/ pc[r] = "books" /\ pc'[r] \in {"save", "notes"} /\ (pc'[r] = "save" <=> In(r) = "updateInvoice")
           \/ pc[r] = "notes" /\ pc'[r] = "insert" /\ In(r) \in {"record", "payuReturn"}
           \/ pc[r] = "notes" /\ pc'[r] \in {"restore", "save"} /\ In(r) = "deleteInvoice"
           \/ pc[r] = "insert" /\ pc'[r] = "update" /\ In(r) # "checkout"
    BY <1>1 DEF CheckBooks, ReadNotes, InsertPayment, UpdatePaid, At, Goto, TypeOK, locals, Running, Ended
  <2> QED
    BY <2>1 DEF Shape, Stages, OneEach, In
<1> QED
  BY <1>1, FinishShape DEF Ended

LEMMA TransactionStepsShape ==
  ASSUME TypeOK, NEW r \in Requests, Shape(r),
         \/ CheckRowBooks(r) \/ LockRow(r) \/ AllLocked(r) \/ DeadlockVictim(r)
         \/ CheckLine(r) \/ CommitReceipt(r) \/ CommitReversal(r)
  PROVE  Shape(r)'
<1>1. ASSUME ~ (Finish(r, "done") \/ Finish(r, "rejected")) PROVE Shape(r)'
  <2>1. /\ job'[r] = job[r] /\ Running(r) /\ Running(r)'
        /\ pc[r] \in Transaction /\ pc'[r] \in {"lock", "line"}
    BY <1>1 DEF CheckRowBooks, LockRow, AllLocked, DeadlockVictim, CheckLine, CommitReceipt,
                CommitReversal, Abort, At, Goto, TypeOK, locals, Running, Ended, Transaction
  <2> QED
    BY <2>1 DEF Shape, Stages, OneEach, In, Transaction
<1> QED
  BY <1>1, FinishShape DEF Ended

LEMMA GatewayStepsShape ==
  ASSUME TypeOK, NEW r \in Requests, Shape(r),
         GatewayDup(r) \/ DropPending(r) \/ Reread(r) \/ Redup(r)
  PROVE  Shape(r)'
<1>1. ASSUME ~ Finish(r, "done") PROVE Shape(r)'
  <2>1. /\ job'[r] = job[r] /\ Running(r) /\ Running(r)'
        /\ pc[r] \in {"gatewayDup", "dropPending", "reread", "redup"}
        /\ pc'[r] \in {"dropPending", "reread", "redup", "notes"}
    BY <1>1 DEF GatewayDup, DropPending, Reread, Redup, At, Goto, TypeOK, locals, Running, Ended
  <2> QED
    BY <2>1 DEF Shape, Stages, OneEach, In
<1> QED
  BY <1>1, FinishShape DEF Ended

LEMMA NoteStepsShape ==
  ASSUME TypeOK, NEW r \in Requests, Shape(r),
         \/ CheckReturn(r) \/ CheckNoteBooks(r) \/ ReadForNote(r) \/ ReadNotesForCredit(r)
         \/ InsertNote(r) \/ ReadNotesAfterDebit(r) \/ UpdateNoteStatus(r)
  PROVE  Shape(r)'
<1>1. ASSUME ~ (Finish(r, "done") \/ Finish(r, "rejected")) PROVE Shape(r)'
  <2>1. /\ job'[r] = job[r] /\ Running(r) /\ Running(r)'
        /\ \/ /\ pc[r] \in {"returnNotes", "noteBooks", "noteRead", "noteNotes", "noteInsert"}
              /\ pc'[r] \in {"noteBooks", "noteRead", "noteNotes", "noteInsert", "noteStatus"}
           \/ pc[r] = "noteStatus" /\ pc'[r] = "restore" /\ job[r].stock
    <3>1. CASE CheckReturn(r) \/ CheckNoteBooks(r) \/ ReadForNote(r) \/ ReadNotesForCredit(r)
      BY <1>1, <3>1 DEF CheckReturn, CheckNoteBooks, ReadForNote, ReadNotesForCredit,
                At, Goto, TypeOK, locals, Running, Ended
    <3>2. CASE InsertNote(r) \/ ReadNotesAfterDebit(r) \/ UpdateNoteStatus(r)
      BY <1>1, <3>2 DEF InsertNote, ReadNotesAfterDebit, UpdateNoteStatus,
                At, Goto, TypeOK, locals, Running, Ended
    <3> QED
      BY <3>1, <3>2
  <2> QED
    BY <2>1 DEF Shape, Stages, OneEach, In
<1> QED
  BY <1>1, FinishShape DEF Ended

LEMMA SaveStepsShape ==
  ASSUME TypeOK, NEW r \in Requests, Shape(r),
         \/ RestoreStock(r) \/ RecordMovement(r) \/ LoadForSave(r) \/ SaveInvoice(r) \/ Retotal(r)
  PROVE  Shape(r)'
<1>1. ASSUME ~ (Finish(r, "done") \/ Finish(r, "rejected")) PROVE Shape(r)'
  <2>1. /\ job'[r] = job[r] /\ Running(r) /\ Running(r)'
        /\ \/ pc[r] = "restore" /\ pc'[r] = "movement"
           \/ pc[r] = "movement" /\ pc'[r] = "save" /\ In(r) = "deleteInvoice"
           \/ pc[r] = "save" /\ pc'[r] = "write"
           \/ pc[r] = "write" /\ pc'[r] = "retotal" /\ In(r) = "updateInvoice"
    BY <1>1 DEF RestoreStock, RecordMovement, LoadForSave, SaveInvoice, Retotal,
                At, Goto, TypeOK, locals, Running, Ended
  <2> QED
    BY <2>1 DEF Shape, Stages, OneEach, In
<1> QED
  BY <1>1, FinishShape DEF Ended

LEMMA CallOnShape ==
  ASSUME TypeOK, NEW r \in Requests, NEW i \in Invoices, NEW j \in Job, NEW a, NEW label \in Labels,
         CallOn(r, i, j, a, label), j.kind \in Kinds, j.on = {i},
         j.stock => j.kind \in {"counterReturn", "deleteInvoice"},
         \/ label = "books" /\ j.kind \in {"record", "deleteInvoice", "updateInvoice"}
         \/ label = "returnNotes" /\ j.kind = "counterReturn"
  PROVE  Shape(r)'
<1>1. CASE Deleted(i)
  BY <1>1, FinishShape DEF CallOn, Ended
<1>2. CASE ~ Deleted(i)
  <2>1. pc'[r] = label /\ job'[r] = j
    BY <1>2 DEF CallOn, Goto, TypeOK
  <2> QED
    BY <2>1 DEF Shape, Stages, OneEach, In
<1> QED
  BY <1>1, <1>2

LEMMA StartShape ==
  ASSUME TypeOK, NEW r \in Requests, Start(r) PROVE Shape(r)'
<1>1. CASE "record" \in Kinds /\ RecordPayment(r)
  <2>1. PICK i \in Invoices, a \in Amounts, d \in Days :
          CallOn(r, i, JobOf("record", {i}, d), a, "books")
    BY <1>1 DEF RecordPayment
  <2>2. JobOf("record", {i}, d) \in Job
    BY JobOfType, ReceivablesAssumption DEF AllKinds
  <2> QED
    BY <1>1, <2>1, <2>2, CallOnShape DEF JobOf, Labels
<1>2. CASE "updateInvoice" \in Kinds /\ UpdateInvoice(r)
  <2>1. PICK i \in Invoices, a \in Amounts, d \in Days :
          CallOn(r, i, JobOf("updateInvoice", {i}, d), a, "books")
    BY <1>2 DEF UpdateInvoice
  <2>2. JobOf("updateInvoice", {i}, d) \in Job
    BY JobOfType, ReceivablesAssumption DEF AllKinds
  <2> QED
    BY <1>2, <2>1, <2>2, CallOnShape DEF JobOf, Labels
<1>3. CASE "counterReturn" \in Kinds /\ CounterReturn(r)
  <2>1. PICK i \in Invoices :
          CallOn(r, i, StockJob("counterReturn", i), invoice[i].total, "returnNotes")
    BY <1>3 DEF CounterReturn
  <2>2. StockJob("counterReturn", i) \in Job
    BY StockJobType DEF AllKinds
  <2> QED
    BY <1>3, <2>1, <2>2, CallOnShape DEF StockJob, Labels
<1>4. CASE "deleteInvoice" \in Kinds /\ DeleteInvoice(r)
  <2>1. PICK i \in Invoices : CallOn(r, i, StockJob("deleteInvoice", i), 0, "books")
    BY <1>4 DEF DeleteInvoice
  <2>2. StockJob("deleteInvoice", i) \in Job
    BY StockJobType DEF AllKinds
  <2> QED
    BY <1>4, <2>1, <2>2, CallOnShape DEF StockJob, Labels
<1>5. CASE "checkout" \in Kinds /\ CreateCheckout(r)
  <2>1. PICK i \in Invoices, a \in Amounts : CreateCheckout(r)!(i, a)
    BY <1>5 DEF CreateCheckout
  <2>2. \/ Finish(r, "rejected")
        \/ pc'[r] = "insert" /\ job'[r] = PayuJob("checkout", i, r, "txnid")
    BY <2>1 DEF Goto, TypeOK
  <2>3. CASE pc'[r] = "insert" /\ job'[r] = PayuJob("checkout", i, r, "txnid")
    <3>1. job'[r].kind = "checkout" /\ job'[r].on = {i} /\ ~ job'[r].stock
      BY <2>3 DEF PayuJob
    <3> QED
      BY <1>5, <2>3, <3>1 DEF Shape, Stages, OneEach, In
  <2> QED
    BY <2>2, <2>3, FinishShape DEF Ended
<1>6. CASE "payuReturn" \in Kinds /\ PayuReturn(r)
  <2>1. PICK p \in rows : PayuReturn(r)!(p)
    BY <1>6 DEF PayuReturn
  <2>2. p.inv \in Invoices
    BY DEF TypeOK, Payment
  <2>3. /\ pc'[r] = "gatewayDup" /\ job'[r].kind = "payuReturn"
        /\ job'[r].on = {p.inv} /\ ~ job'[r].stock
    BY <2>1 DEF PayuJob, Goto, TypeOK
  <2> QED
    BY <1>6, <2>2, <2>3 DEF Shape, Stages, OneEach, In
<1>7. CASE CreateNote(r)
  <2>1. PICK k \in Kinds \cap {"credit", "debit"}, i \in Invoices, a \in Amounts, d \in Days :
          CreateNote(r)!(k, i, a, d)
    BY <1>7 DEF CreateNote
  <2>2. pc'[r] = "noteBooks" /\ job'[r].kind = k /\ job'[r].on = {i} /\ ~ job'[r].stock
    BY <2>1 DEF JobOf, Goto, TypeOK
  <2> QED
    BY <2>2 DEF Shape, Stages, OneEach, In
<1>8. CASE "club" \in Kinds /\ ReceiveClubPayment(r)
  <2>1. PICK on \in (SUBSET Invoices) \ {{}}, d \in Days :
          \E a \in [on -> Amounts] : StartReceipt(r, on, a, d)
    BY <1>8 DEF ReceiveClubPayment
  <2>2. PICK a \in [on -> Amounts] : StartReceipt(r, on, a, d)
    BY <2>1
  <2>3. \/ Finish(r, "rejected")
        \/ pc'[r] = "lock" /\ job'[r].kind = "club" /\ ~ job'[r].stock
    BY <2>2 DEF StartReceipt, Goto, JobOf, TypeOK
  <2> QED
    BY <1>8, <2>3, FinishShape DEF Shape, Stages, OneEach, In, Ended
<1>9. CASE "deleteReceipt" \in Kinds /\ DeleteReceipt(r)
  <2>1. PICK q \in Requests : DeleteReceipt(r)!(q)
    BY <1>9 DEF DeleteReceipt
  <2>2. \/ Finish(r, "rejected")
        \/ pc'[r] = "rowBooks" /\ job'[r].kind = "deleteReceipt" /\ ~ job'[r].stock
    BY <2>1 DEF Goto, JobOf, TypeOK
  <2> QED
    BY <1>9, <2>2, FinishShape DEF Shape, Stages, OneEach, In, Ended
<1> QED
  BY <1>1, <1>2, <1>3, <1>4, <1>5, <1>6, <1>7, <1>8, <1>9 DEF Start

\* A step of one handler leaves the others where they are.
LEMMA TransactionsOfOthers ==
  ASSUME TypeOK, NEW r \in Requests, NEW q \in Requests, q # r,
         \/ ReceiveClubPayment(r) \/ DeleteReceipt(r) \/ CheckRowBooks(r) \/ LockRow(r)
         \/ AllLocked(r) \/ DeadlockVictim(r) \/ CheckLine(r) \/ CommitReceipt(r)
         \/ CommitReversal(r) \/ Crash(r)
  PROVE  job'[q] = job[q] /\ amt'[q] = amt[q] /\ hits'[q] = hits[q]
<1>1. CASE ReceiveClubPayment(r) \/ DeleteReceipt(r)
  <2>1. /\ \E j : job' = [job EXCEPT ![r] = j]
        /\ amt' = amt \/ \E a : amt' = [amt EXCEPT ![r] = a]
        /\ hits' = hits \/ \E h : hits' = [hits EXCEPT ![r] = h]
    BY <1>1 DEF ReceiveClubPayment, StartReceipt, DeleteReceipt, Finish
  <2> QED
    BY <2>1 DEF TypeOK
<1>2. CASE CheckRowBooks(r) \/ LockRow(r) \/ AllLocked(r) \/ DeadlockVictim(r) \/ CheckLine(r)
  <2>1. (job' = job /\ amt' = amt /\ hits' = hits) \/ \E how \in Ended : Finish(r, how)
    BY <1>2 DEF CheckRowBooks, LockRow, AllLocked, DeadlockVictim, CheckLine, Abort, locals, Ended
  <2> QED
    BY <2>1 DEF Finish, TypeOK
<1>3. CASE CommitReceipt(r) \/ CommitReversal(r) \/ Crash(r)
  BY <1>3 DEF CommitReceipt, CommitReversal, Crash, Finish, TypeOK
<1> QED
  BY <1>1, <1>2, <1>3

LEMMA OthersKeepTheirs ==
  ASSUME TypeOK, NEW r \in Requests, NEW q \in Requests, q # r, Start(r) \/ Step(r) \/ Crash(r)
  PROVE  pc'[q] = pc[q] /\ job'[q] = job[q] /\ amt'[q] = amt[q] /\ hits'[q] = hits[q]
<1>1. pc'[q] = pc[q]
  BY OthersStayPut
<1>2. CASE Aside(r)
  BY <1>1, <1>2 DEF Aside, OthersKeep
<1>3. CASE \/ ReceiveClubPayment(r) \/ DeleteReceipt(r) \/ CheckRowBooks(r) \/ LockRow(r)
           \/ AllLocked(r) \/ DeadlockVictim(r) \/ CheckLine(r) \/ CommitReceipt(r)
           \/ CommitReversal(r) \/ Crash(r)
  BY <1>1, <1>3, TransactionsOfOthers
<1> QED
  BY <1>2, <1>3, CallsAside, DeskStepsAside, GatewayStepsAside, NoteStepsAside, SaveStepsAside
     DEF Start, Step

ShapeInv == \A r \in Requests : Shape(r)

LEMMA ShapeInductive ==
  ASSUME TypeOK, ShapeInv, [Next]_vars PROVE ShapeInv'
<1>1. ASSUME NEW r \in Requests, Start(r) \/ Step(r) \/ Crash(r) PROVE ShapeInv'
  <2>1. Shape(r)'
    <3>1. CASE Start(r)
      BY <3>1, StartShape
    <3>2. CASE Step(r)
      BY <3>2, DeskStepsShape, TransactionStepsShape, GatewayStepsShape, NoteStepsShape,
         SaveStepsShape DEF ShapeInv, Step
    <3>3. CASE Crash(r)
      BY <3>3, FinishShape DEF Crash, Ended
    <3> QED
      BY <1>1, <3>1, <3>2, <3>3
  <2>2. ASSUME NEW q \in Requests, q # r PROVE Shape(q)'
    <3>1. pc'[q] = pc[q] /\ job'[q] = job[q]
      BY <1>1, <2>2, OthersKeepTheirs
    <3> QED
      BY <3>1 DEF ShapeInv, Shape, Stages, OneEach, In, Running
  <2> QED
    BY <2>1, <2>2 DEF ShapeInv
<1>2. CASE CloseBooks \/ UNCHANGED vars
  <2>1. pc' = pc /\ job' = job
    BY <1>2 DEF CloseBooks, vars, locals
  <2> QED
    BY <2>1 DEF ShapeInv, Shape, Stages, OneEach, In, Running
<1> QED
  BY <1>1, <1>2 DEF Next, Over

LEMMA ShapeInvariance == Spec => []ShapeInv
<1>1. Init => ShapeInv
  BY DEF Init, ShapeInv, Shape, Stages, OneEach, Running, Ended
<1>2. TypeOK /\ ShapeInv /\ [Next]_vars => ShapeInv'
  BY ShapeInductive
<1> QED
  BY <1>1, <1>2, TypeCorrect, PTL DEF Spec

\* What becomes of the payment rows.
LEMMA InsertEffect ==
  ASSUME TypeOK, ShapeInv, NEW r \in Requests, InsertPayment(r)
  PROVE  \E i \in Invoices, x \in Payment :
           /\ job[r].on = {i} /\ x.by = r /\ x.inv = i /\ x.amount = amt[r][i]
           /\ x.settles = job[r].of /\ x.ref = job[r].ref
           /\ Pending(x) <=> In(r) = "checkout"
           /\ rows' = rows \cup {x}
           /\ pc[r] = "insert" /\ pc'[r] \in Past
           /\ UNCHANGED invoice
<1>1. PICK i \in job[r].on : InsertPayment(r)!(i)
  BY DEF InsertPayment
<1>2. i \in Invoices /\ job[r].on = {i}
  BY <1>1 DEF TypeOK, Job, ShapeInv, Shape, Stages, OneEach, Running, Ended, At
<1> DEFINE x == [by |-> r, inv |-> i, amount |-> amt[r][i],
                 mode |-> IF In(r) = "checkout" THEN "payu_pending" ELSE "taken",
                 settles |-> job[r].of, ref |-> job[r].ref, day |-> job[r].day]
<1>3. x \in Payment
  BY <1>2 DEF TypeOK, Job, Payment
<1>4. Pending(x) <=> In(r) = "checkout"
  BY DEF Pending
<1>5. rows' = rows \cup {x}
  BY <1>1
<1>6. pc[r] = "insert" /\ pc'[r] \in Past
  BY <1>1 DEF At, Goto, Finish, TypeOK, Past, Ended
<1>7. x.by = r /\ x.inv = i /\ x.amount = amt[r][i] /\ x.settles = job[r].of /\ x.ref = job[r].ref
  OBVIOUS
<1>8. UNCHANGED invoice
  BY <1>1
<1> HIDE DEF x
<1> QED
  BY <1>2, <1>3, <1>4, <1>5, <1>6, <1>7, <1>8

LEMMA CommitRowsEffect ==
  ASSUME TypeOK, NEW r \in Requests, CommitReceipt(r)
  PROVE  \E new \in SUBSET Payment :
           /\ rows' = rows \cup new
           /\ \A x \in new : x.by = r /\ ~ Pending(x) /\ x.settles = None /\ x.amount = amt[r][x.inv]
           /\ {x.inv : x \in new} = job[r].on
           /\ \A x, y \in new : x.inv = y.inv => x = y
           /\ pc[r] = "line" /\ pc'[r] \in Past
<1> DEFINE row(i) == [by |-> r, inv |-> i, amount |-> amt[r][i], mode |-> "taken",
                      settles |-> None, ref |-> "none", day |-> job[r].day]
           new == {row(i) : i \in job[r].on}
<1>1. job[r].on \subseteq Invoices
  BY DEF TypeOK, Job
<1>2. \A i \in job[r].on : row(i) \in Payment /\ row(i).by = r /\ row(i).inv = i /\ ~ Pending(row(i))
                           /\ row(i).settles = None /\ row(i).amount = amt[r][i]
  BY <1>1 DEF TypeOK, Job, Payment, Pending
<1>3. rows' = rows \cup new
  BY DEF CommitReceipt
<1>4. pc[r] = "line" /\ pc'[r] \in Past
  BY DEF CommitReceipt, At, Finish, Goto, TypeOK, Past, Ended
<1> HIDE DEF row
<1>5. \A x \in new : /\ x \in Payment /\ x.by = r /\ ~ Pending(x) /\ x.settles = None
                     /\ x.amount = amt[r][x.inv]
  BY <1>2
<1>6. {x.inv : x \in new} = job[r].on
  BY <1>2
<1>7. \A x, y \in new : x.inv = y.inv => x = y
  BY <1>2
<1> HIDE DEF new
<1> QED
  BY <1>3, <1>4, <1>5, <1>6, <1>7

\* A new row is the first of its handler, which then inserts no more.
LEMMA NewRows ==
  ASSUME TypeOK, ShapeInv, [Next]_vars
  PROVE  \A p \in rows' : p \in rows \/ (pc[p.by] \notin Past /\ pc'[p.by] \in Past)
<1>1. ASSUME NEW r \in Requests, WritesRows(r)
      PROVE  \A p \in rows' : p \in rows \/ (pc[p.by] \notin Past /\ pc'[p.by] \in Past)
  <2>1. CASE InsertPayment(r)
    BY <2>1, InsertEffect DEF Past, Ended
  <2>2. CASE CommitReceipt(r)
    BY <2>2, CommitRowsEffect DEF Past, Ended
  <2>3. CASE DropPending(r) \/ CommitReversal(r)
    BY <2>3 DEF DropPending, CommitReversal
  <2> QED
    BY <1>1, <2>1, <2>2, <2>3 DEF WritesRows
<1> QED
  BY <1>1, OthersKeepRows

LEMMA NewPending ==
  ASSUME TypeOK, ShapeInv, [Next]_vars,
         NEW p \in rows', NEW x \in rows', p \notin rows, x \notin rows, Pending(p)
  PROVE  x = p
<1>1. ASSUME NEW r \in Requests, WritesRows(r) PROVE x = p
  <2>1. CASE InsertPayment(r)
    BY <2>1, InsertEffect
  <2>2. CASE CommitReceipt(r)
    BY <2>2, CommitRowsEffect
  <2>3. CASE DropPending(r) \/ CommitReversal(r)
    BY <2>3 DEF DropPending, CommitReversal
  <2> QED
    BY <1>1, <2>1, <2>2, <2>3 DEF WritesRows
<1> QED
  BY <1>1, OthersKeepRows

\* A reversal keeps the rows it read.
LEMMA KeepsHits ==
  ASSUME TypeOK, NEW r \in Requests, Start(r) \/ Step(r) \/ Crash(r), ~ DeleteReceipt(r)
  PROVE  (job'[r] = job[r] /\ hits'[r] = hits[r]) \/ job'[r].kind # "deleteReceipt"
<1>1. CASE Aside(r)
  BY <1>1 DEF Aside, JobKept
<1>2. CASE ReceiveClubPayment(r)
  BY <1>2 DEF ReceiveClubPayment, StartReceipt, Finish, NoJob, JobOf, TypeOK
<1>3. CASE \/ CheckRowBooks(r) \/ LockRow(r) \/ AllLocked(r) \/ DeadlockVictim(r) \/ CheckLine(r)
           \/ CommitReceipt(r) \/ CommitReversal(r) \/ Crash(r)
  <2>1. (job' = job /\ hits' = hits) \/ \E how \in Ended : Finish(r, how)
    BY <1>3 DEF CheckRowBooks, LockRow, AllLocked, DeadlockVictim, CheckLine, CommitReceipt,
                CommitReversal, Crash, Abort, locals, Ended
  <2> QED
    BY <2>1 DEF Finish, NoJob, JobOf, TypeOK
<1> QED
  BY <1>1, <1>2, <1>3, CallsAside, DeskStepsAside, GatewayStepsAside, NoteStepsAside, SaveStepsAside
     DEF Start, Step

LEMMA RowsInductive ==
  ASSUME TypeOK, ShapeInv, RowsInv, [Next]_vars PROVE RowsInv'
<1>1. \A q \in Requests : pc[q] \in Past => pc'[q] \in Past
  BY PastStays
<1>2. \A p \in rows : p.by \in Requests
  BY DEF TypeOK, Payment
<1>3. RowsAreDone'
  BY <1>1, <1>2, NewRows DEF RowsInv, RowsAreDone
<1>4. PendingAlone'
  <2>1. ASSUME NEW p \in rows', NEW x \in rows', Pending(p), x.by = p.by PROVE x = p
    <3>1. p \in rows <=> x \in rows
      BY <2>1, NewRows DEF RowsInv, RowsAreDone
    <3> QED
      BY <2>1, <3>1, NewPending DEF RowsInv, PendingAlone
  <2> QED
    BY <2>1 DEF PendingAlone, Pending
<1>5. ASSUME NEW r \in Requests, In(r)' = "deleteReceipt",
             job'[r] = job[r], hits'[r] = hits[r]
      PROVE  \E q \in Requests : /\ pc'[q] \in Past
                                 /\ \A p \in hits'[r] : p.by = q
                                 /\ \A p \in rows' : p.by = q => p \in hits'[r]
  <2>1. PICK q \in Requests : /\ pc[q] \in Past
                              /\ \A p \in hits[r] : p.by = q
                              /\ \A p \in rows : p.by = q => p \in hits[r]
    BY <1>5 DEF RowsInv, WholeHits, In
  <2>2. \A p \in rows' : p.by = q => p \in rows
    BY <2>1, NewRows
  <2> QED
    BY <1>1, <1>5, <2>1, <2>2
<1>6. ASSUME NEW r \in Requests, In(r)' = "deleteReceipt", DeleteReceipt(r)
      PROVE  \E q \in Requests : /\ pc'[q] \in Past
                                 /\ \A p \in hits'[r] : p.by = q
                                 /\ \A p \in rows' : p.by = q => p \in hits'[r]
  <2>1. PICK q \in Requests : DeleteReceipt(r)!(q)
    BY <1>6 DEF DeleteReceipt
  <2>2. ~ Finish(r, "rejected")
    BY <1>6 DEF Finish, NoJob, JobOf, In, TypeOK
  <2>3. ReceiptRows(q) # {} /\ hits'[r] = ReceiptRows(q) /\ rows' = rows
    BY <2>1, <2>2 DEF TypeOK, db
  <2>4. pc[q] \in Past
    BY <2>3 DEF ReceiptRows, RowsInv, RowsAreDone
  <2> QED
    BY <1>1, <2>3, <2>4 DEF ReceiptRows
<1>7. WholeHits'
  <2>1. ASSUME NEW r \in Requests, In(r)' = "deleteReceipt", ~ DeleteReceipt(r)
        PROVE  job'[r] = job[r] /\ hits'[r] = hits[r]
    <3>1. ASSUME NEW w \in Requests, Start(w) \/ Step(w) \/ Crash(w)
          PROVE  job'[r] = job[r] /\ hits'[r] = hits[r]
      BY <2>1, <3>1, KeepsHits, OthersKeepTheirs DEF In
    <3>2. CASE CloseBooks \/ UNCHANGED vars
      BY <3>2 DEF CloseBooks, vars, locals
    <3> QED
      BY <3>1, <3>2 DEF Next, Over
  <2> QED
    BY <2>1, <1>5, <1>6 DEF WholeHits
<1> QED
  BY <1>3, <1>4, <1>7 DEF RowsInv

LEMMA RowsInvariance == Spec => []RowsInv
<1>1. Init => RowsInv
  BY DEF Init, RowsInv, RowsAreDone, PendingAlone, WholeHits, In, NoJob, JobOf
<1>2. TypeOK /\ ShapeInv /\ RowsInv /\ [Next]_vars => RowsInv'
  BY RowsInductive
<1> QED
  BY <1>1, <1>2, TypeCorrect, ShapeInvariance, PTL DEF Spec

RowsBy(q) == {p \in rows : p.by = q}

LEMMA WritesWhole ==
  ASSUME TypeOK, ShapeInv, RowsInv, NEW w \in Requests, WritesRows(w), NEW r \in Requests,
         RowsBy(r)' # RowsBy(r)
  PROVE  \/ RowsBy(r)' = {}
         \/ RowsBy(r) = {} /\ {p.inv : p \in RowsBy(r)'} = job[r].on
<1>1. CASE InsertPayment(w)
  <2>1. PICK i \in Invoices, x \in Payment :
          job[w].on = {i} /\ x.by = w /\ x.inv = i /\ rows' = rows \cup {x} /\ pc[w] = "insert"
    BY <1>1, InsertEffect
  <2>2. r = w
    BY <2>1 DEF RowsBy
  <2>3. RowsBy(r) = {}
    BY <2>1, <2>2 DEF RowsBy, RowsInv, RowsAreDone, Past, Ended
  <2>4. RowsBy(r)' = {x}
    BY <2>1, <2>2, <2>3 DEF RowsBy
  <2> QED
    BY <2>1, <2>2, <2>3, <2>4
<1>2. CASE CommitReceipt(w)
  <2>1. PICK new \in SUBSET Payment :
          /\ rows' = rows \cup new /\ (\A x \in new : x.by = w)
          /\ {x.inv : x \in new} = job[w].on /\ pc[w] = "line"
    BY <1>2, CommitRowsEffect
  <2>2. r = w
    BY <2>1 DEF RowsBy
  <2>3. RowsBy(r) = {}
    BY <2>1, <2>2 DEF RowsBy, RowsInv, RowsAreDone, Past, Ended
  <2>4. RowsBy(r)' = new
    BY <2>1, <2>2, <2>3 DEF RowsBy
  <2> QED
    BY <2>1, <2>2, <2>3, <2>4
<1>3. CASE CommitReversal(w)
  <2>1. rows' = rows \ hits[w] /\ In(w) = "deleteReceipt"
    BY <1>3 DEF CommitReversal
  <2>2. PICK q \in Requests : /\ \A p \in hits[w] : p.by = q
                              /\ \A p \in rows : p.by = q => p \in hits[w]
    BY <2>1 DEF RowsInv, WholeHits
  <2>3. r = q
    BY <2>1, <2>2 DEF RowsBy
  <2> QED
    BY <2>1, <2>2, <2>3 DEF RowsBy
<1>4. CASE DropPending(w)
  <2>1. rows' = rows \ {p \in SameReference(w) : Pending(p)}
    BY <1>4 DEF DropPending
  <2>2. PICK p \in rows : p.by = r /\ p \notin rows'
    BY <2>1 DEF RowsBy
  <2>3. Pending(p)
    BY <2>1, <2>2
  <2> QED
    BY <2>1, <2>2, <2>3 DEF RowsBy, RowsInv, PendingAlone
<1> QED
  BY <1>1, <1>2, <1>3, <1>4 DEF WritesRows

\* The payment rows of one receipt appear together, on exactly the invoices it names,
\* and disappear together, whatever handlers abort, deadlock, crash or run beside it.
THEOREM ReceiptsAreWhole == Spec => ReceiptAllOrNothing
<1>1. ASSUME TypeOK, ShapeInv, RowsInv, [Next]_vars
      PROVE  [\A r \in Requests :
                LET was == {p \in rows : p.by = r}
                    is  == {p \in rows' : p.by = r}
                IN was # is =>
                     \/ is = {}
                     \/ was = {} /\ {p.inv : p \in is} = job[r].on]_vars
  <2>1. ASSUME NEW r \in Requests, RowsBy(r)' # RowsBy(r)
        PROVE  \/ RowsBy(r)' = {}
               \/ RowsBy(r) = {} /\ {p.inv : p \in RowsBy(r)'} = job[r].on
    <3>1. rows' # rows
      BY <2>1 DEF RowsBy
    <3>2. PICK w \in Requests : WritesRows(w)
      BY <1>1, <3>1, OthersKeepRows
    <3> QED
      BY <1>1, <2>1, <3>2, WritesWhole
  <2> QED
    BY <2>1 DEF RowsBy
<1> QED
  BY <1>1, TypeCorrect, ShapeInvariance, RowsInvariance, PTL DEF Spec, ReceiptAllOrNothing

-----------------------------------------------------------------------------
(* When requests are served one at a time, what a handler has read stays so. *)

Serial == MaxInFlight <= 1

OneAtATime == \A q, r \in Requests : Running(q) /\ Running(r) => q = r

LEMMA FirstCall ==
  ASSUME Serial, OneAtATime, NEW r \in Requests, Call(r), NEW q \in Requests
  PROVE  ~ Running(q)
<1> SUFFICES ASSUME Running(q) PROVE FALSE
  OBVIOUS
<1> DEFINE running == {x \in Requests : Running(x)}
<1>1. running = {q}
  BY DEF OneAtATime
<1>2. Cardinality({q}) = 1
  BY FS_Singleton
<1>3. Cardinality(running) < MaxInFlight
  BY DEF Call
<1> HIDE DEF running
<1>4. 1 < MaxInFlight
  BY <1>1, <1>2, <1>3
<1> QED
  BY <1>4, ReceivablesAssumption DEF Serial, ReceivablesAssumption

\* A step of r finds and leaves the others at rest.
LEMMA OthersRest ==
  ASSUME Serial, TypeOK, OneAtATime, NEW r \in Requests, Start(r) \/ Step(r) \/ Crash(r),
         NEW q \in Requests, q # r
  PROVE  ~ Running(q) /\ ~ Running(q)'
<1>1. ~ Running(q)
  <2>1. CASE Start(r)
    BY <2>1, CallsStart, FirstCall
  <2>2. CASE Step(r) \/ Crash(r)
    BY <2>2, StepsRun DEF Crash, OneAtATime
  <2> QED
    BY <2>1, <2>2
<1> QED
  BY <1>1, OthersStayPut DEF Running

LEMMA OneAtATimeInvariance == ASSUME Serial PROVE Spec => []OneAtATime
<1>1. Init => OneAtATime
  BY DEF Init, OneAtATime, Running
<1>2. ASSUME TypeOK, OneAtATime, [Next]_vars PROVE OneAtATime'
  <2>1. ASSUME NEW r \in Requests, Start(r) \/ Step(r) \/ Crash(r) PROVE OneAtATime'
    BY <1>2, <2>1, OthersRest DEF OneAtATime
  <2>2. CASE CloseBooks \/ UNCHANGED vars
    BY <1>2, <2>2 DEF CloseBooks, vars, OneAtATime, Running
  <2> QED
    BY <1>2, <2>1, <2>2 DEF Next, Over
<1> QED
  BY <1>1, <1>2, TypeCorrect, PTL DEF Spec

-----------------------------------------------------------------------------
(* A checkout is booked once.                                                *)

BookedRef(c) == IF c \in GatewayIds THEN "mihpayid" ELSE "txnid"
Booked(c) == {p \in rows : ~ Pending(p) /\ p.settles = c}

BookedOnce ==
  \A p, x \in rows : ~ Pending(p) /\ ~ Pending(x) /\ p.settles = x.settles /\ p.settles # None => p = x
BookedRefs ==
  \A p \in rows : ~ Pending(p) /\ p.settles # None => p.ref = BookedRef(p.settles)
References ==
  \A r \in Requests :
    /\ In(r) = "payuReturn" => job[r].of \in Requests /\ job[r].ref = BookedRef(job[r].of)
    /\ In(r) = "record" => job[r].of = None
NotYetBooked ==
  \A r \in Requests : In(r) = "payuReturn" /\ pc[r] \in {"notes", "insert"} => Booked(job[r].of) = {}
GatewayInv == BookedOnce /\ BookedRefs /\ References /\ NotYetBooked

LEMMA KeepsJob ==
  ASSUME TypeOK, NEW r \in Requests, Step(r) \/ Crash(r)
  PROVE  job'[r] = job[r] \/ job'[r] = NoJob
<1>1. CASE \/ CheckBooks(r) \/ ReadNotes(r) \/ InsertPayment(r) \/ UpdatePaid(r)
           \/ CheckRowBooks(r) \/ LockRow(r) \/ AllLocked(r) \/ DeadlockVictim(r)
           \/ CheckLine(r) \/ CommitReceipt(r) \/ CommitReversal(r) \/ Crash(r)
  BY <1>1 DEF CheckBooks, ReadNotes, InsertPayment, UpdatePaid, CheckRowBooks, LockRow, AllLocked,
     DeadlockVictim, CheckLine, CommitReceipt, CommitReversal, Crash, Abort, Finish, locals, TypeOK
<1>2. CASE \/ GatewayDup(r) \/ DropPending(r) \/ Reread(r) \/ Redup(r)
           \/ CheckReturn(r) \/ CheckNoteBooks(r) \/ ReadForNote(r) \/ ReadNotesForCredit(r)
           \/ InsertNote(r) \/ ReadNotesAfterDebit(r) \/ UpdateNoteStatus(r)
  BY <1>2 DEF GatewayDup, DropPending, Reread, Redup, CheckReturn, CheckNoteBooks, ReadForNote,
     ReadNotesForCredit, InsertNote, ReadNotesAfterDebit, UpdateNoteStatus, Finish, locals, TypeOK
<1>3. CASE RestoreStock(r) \/ RecordMovement(r) \/ LoadForSave(r) \/ SaveInvoice(r) \/ Retotal(r)
  BY <1>3 DEF RestoreStock, RecordMovement, LoadForSave, SaveInvoice, Retotal, Finish, locals, TypeOK
<1> QED
  BY <1>1, <1>2, <1>3 DEF Step

LEMMA StartReferences ==
  ASSUME TypeOK, NEW r \in Requests, Start(r)
  PROVE  /\ In(r)' = "payuReturn" => job'[r].of \in Requests /\ job'[r].ref = BookedRef(job'[r].of)
         /\ In(r)' = "record" => job'[r].of = None
<1>1. CASE PayuReturn(r)
  <2>1. PICK p \in rows : PayuReturn(r)!(p)
    BY <1>1 DEF PayuReturn
  <2>2. p.by \in Requests
    BY DEF TypeOK, Payment
  <2>3. job'[r] = PayuJob("payuReturn", p.inv, p.by, BookedRef(p.by))
    BY <2>1 DEF TypeOK, BookedRef
  <2> QED
    BY <2>2, <2>3 DEF PayuJob, In
<1>2. CASE RecordPayment(r)
  BY <1>2 DEF RecordPayment, CallOn, JobOf, Finish, NoJob, In, TypeOK
<1>3. CASE ~ (PayuReturn(r) \/ RecordPayment(r))
  <2>1. job'[r].kind \notin {"payuReturn", "record"}
    <3>1. CASE ReceiveClubPayment(r) \/ DeleteReceipt(r) \/ CreateCheckout(r) \/ CreateNote(r)
      BY <3>1 DEF ReceiveClubPayment, StartReceipt, DeleteReceipt, CreateCheckout, CreateNote,
                  PayuJob, JobOf, Finish, NoJob, TypeOK
    <3>2. CASE CounterReturn(r) \/ DeleteInvoice(r) \/ UpdateInvoice(r)
      BY <3>2 DEF CounterReturn, DeleteInvoice, UpdateInvoice, CallOn, StockJob, JobOf, Finish,
                  NoJob, TypeOK
    <3> QED
      BY <1>3, <3>1, <3>2 DEF Start
  <2> QED
    BY <2>1 DEF In
<1> QED
  BY <1>1, <1>2, <1>3

\* A gateway payment comes to its notes only past the second look for its reference.
LEMMA OnlyRedupLeadsOn ==
  ASSUME TypeOK, ShapeInv, NEW r \in Requests, Start(r) \/ Step(r) \/ Crash(r),
         In(r)' = "payuReturn", pc'[r] \in {"notes", "insert"}
  PROVE  /\ job'[r] = job[r] /\ rows' = rows
         /\ (Redup(r) /\ SameReference(r) = {}) \/ pc[r] = "notes"
<1>1. ~ Start(r)
  <2>1. ~ PayuReturn(r)
    BY DEF PayuReturn, Goto, TypeOK
  <2>2. ~ (ReceiveClubPayment(r) \/ DeleteReceipt(r) \/ CreateCheckout(r) \/ CreateNote(r))
    BY DEF ReceiveClubPayment, StartReceipt, DeleteReceipt, CreateCheckout, CreateNote,
           PayuJob, JobOf, Finish, NoJob, TypeOK, In
  <2>3. ~ (RecordPayment(r) \/ CounterReturn(r) \/ DeleteInvoice(r) \/ UpdateInvoice(r))
    BY DEF RecordPayment, CounterReturn, DeleteInvoice, UpdateInvoice, CallOn, StockJob, JobOf,
           Finish, NoJob, TypeOK, In
  <2> QED
    BY <2>1, <2>2, <2>3 DEF Start
<1>2. job'[r] = job[r] /\ In(r) = "payuReturn"
  BY <1>1, KeepsJob DEF NoJob, JobOf, In
<1>3. ~ Crash(r)
  BY DEF Crash, Finish, Goto, TypeOK
<1>4. pc[r] \in {"notes", "insert", "update", "gatewayDup", "dropPending", "reread", "redup"}
  BY <1>1, <1>2, <1>3, StepsRun
     DEF ShapeInv, Shape, Stages, Running, TypeOK, Labels, Ended
<1>5. \/ ReadNotes(r) \/ InsertPayment(r) \/ UpdatePaid(r)
      \/ GatewayDup(r) \/ DropPending(r) \/ Reread(r) \/ Redup(r)
  BY <1>1, <1>3, <1>4, TransactionStepsRun, NoteStepsRun, SaveStepsRun
     DEF Step, CheckBooks, At, Transaction
<1>6. CASE ReadNotes(r)
  BY <1>2, <1>6 DEF ReadNotes, At, db
<1>7. CASE InsertPayment(r) \/ UpdatePaid(r) \/ GatewayDup(r) \/ DropPending(r) \/ Reread(r)
  BY <1>2, <1>7 DEF InsertPayment, UpdatePaid, GatewayDup, DropPending, Reread, Finish, Goto, TypeOK
<1>8. CASE Redup(r)
  BY <1>2, <1>8 DEF Redup, db, Finish, Goto, TypeOK
<1> QED
  BY <1>5, <1>6, <1>7, <1>8

LEMMA NewBooking ==
  ASSUME TypeOK, ShapeInv, GatewayInv, [Next]_vars,
         NEW p \in rows', p \notin rows, ~ Pending(p), p.settles # None
  PROVE  /\ rows' = rows \cup {p}
         /\ Booked(p.settles) = {}
         /\ p.ref = BookedRef(p.settles)
<1>1. PICK w \in Requests : WritesRows(w)
  BY OthersKeepRows
<1>2. ~ (DropPending(w) \/ CommitReversal(w))
  BY DEF DropPending, CommitReversal
<1>3. ~ CommitReceipt(w)
  BY CommitRowsEffect
<1>4. InsertPayment(w)
  BY <1>1, <1>2, <1>3 DEF WritesRows
<1>5. PICK x \in Payment :
        /\ x.settles = job[w].of /\ x.ref = job[w].ref /\ (Pending(x) <=> In(w) = "checkout")
        /\ rows' = rows \cup {x} /\ pc[w] = "insert"
  BY <1>4, InsertEffect
<1>6. x = p
  BY <1>5
<1>7. In(w) = "payuReturn"
  BY <1>5, <1>6 DEF ShapeInv, Shape, Stages, GatewayInv, References
<1> QED
  BY <1>5, <1>6, <1>7 DEF GatewayInv, References, NotYetBooked

LEMMA GatewayInductive ==
  ASSUME Serial, TypeOK, ShapeInv, OneAtATime, GatewayInv, [Next]_vars
  PROVE  GatewayInv'
<1>1. BookedOnce'
  <2>1. ASSUME NEW p \in rows', NEW x \in rows', ~ Pending(p), ~ Pending(x),
               p.settles = x.settles, p.settles # None
        PROVE  p = x
    <3>1. CASE p \in rows /\ x \in rows
      BY <2>1, <3>1 DEF GatewayInv, BookedOnce
    <3>2. CASE p \notin rows
      BY <2>1, <3>2, NewBooking DEF Booked
    <3>3. CASE x \notin rows
      BY <2>1, <3>3, NewBooking DEF Booked
    <3> QED
      BY <3>1, <3>2, <3>3
  <2> QED
    BY <2>1 DEF BookedOnce, Pending
<1>2. BookedRefs'
  <2>1. ASSUME NEW p \in rows', ~ Pending(p), p.settles # None PROVE p.ref = BookedRef(p.settles)
    BY <2>1, NewBooking DEF GatewayInv, BookedRefs
  <2> QED
    BY <2>1 DEF BookedRefs, Pending, BookedRef
<1>3. ASSUME NEW r \in Requests
      PROVE  \/ job'[r] = job[r] \/ job'[r] = NoJob
             \/ /\ In(r)' = "payuReturn" =>
                     job'[r].of \in Requests /\ job'[r].ref = BookedRef(job'[r].of)
                /\ In(r)' = "record" => job'[r].of = None
  <2>1. ASSUME NEW w \in Requests, Start(w) \/ Step(w) \/ Crash(w), w # r PROVE job'[r] = job[r]
    BY <2>1, OthersKeepTheirs
  <2>2. CASE CloseBooks \/ UNCHANGED vars
    BY <2>2 DEF CloseBooks, vars, locals
  <2> QED
    BY <2>1, <2>2, KeepsJob, StartReferences DEF Next, Over
<1>4. References'
  BY <1>3 DEF GatewayInv, References, In, NoJob, JobOf, BookedRef
<1>5. NotYetBooked'
  <2>1. ASSUME NEW r \in Requests, In(r)' = "payuReturn", pc'[r] \in {"notes", "insert"}
        PROVE  Booked(job[r].of) = {} /\ job'[r] = job[r] /\ rows' = rows
    <3>1. ASSUME NEW w \in Requests, Start(w) \/ Step(w) \/ Crash(w)
          PROVE  Booked(job[r].of) = {} /\ job'[r] = job[r] /\ rows' = rows
      <4>1. w = r
        BY <2>1, <3>1, OthersRest DEF Running, Ended
      <4>2. job'[r] = job[r] /\ rows' = rows
            /\ ((Redup(r) /\ SameReference(r) = {}) \/ pc[r] = "notes")
        BY <2>1, <3>1, <4>1, OnlyRedupLeadsOn
      <4>3. In(r) = "payuReturn"
        BY <2>1, <4>2 DEF In
      <4>4. CASE SameReference(r) = {}
        BY <4>2, <4>3, <4>4, ReceivablesAssumption
           DEF SameReference, Booked, GatewayInv, BookedRefs, References, ReceivablesAssumption
      <4> QED
        BY <4>2, <4>3, <4>4 DEF GatewayInv, NotYetBooked
    <3>2. CASE CloseBooks \/ UNCHANGED vars
      <4>1. UNCHANGED <<rows, pc, job>>
        BY <3>2 DEF CloseBooks, vars, db, locals
      <4>2. In(r) = "payuReturn" /\ pc[r] \in {"notes", "insert"}
        BY <2>1, <4>1 DEF In
      <4> QED
        BY <4>1, <4>2 DEF GatewayInv, NotYetBooked
    <3> QED
      BY <3>1, <3>2 DEF Next, Over
  <2> QED
    BY <2>1 DEF NotYetBooked, Booked, Pending
<1> QED
  BY <1>1, <1>2, <1>4, <1>5 DEF GatewayInv

\* Served one at a time, and however often the gateway delivers its return and handlers
\* crash between two statements, the returns of one checkout book its money once.
THEOREM CheckoutsBookOnce == ASSUME Serial PROVE Spec => []GatewayPaidOnce
<1>1. Init => GatewayInv
  BY DEF Init, GatewayInv, BookedOnce, BookedRefs, References, NotYetBooked, In, NoJob, JobOf
<1>2. TypeOK /\ ShapeInv /\ OneAtATime /\ GatewayInv /\ [Next]_vars => GatewayInv'
  BY GatewayInductive
<1>3. ASSUME GatewayInv PROVE GatewayPaidOnce
  <2>1. ASSUME NEW c \in Requests
        PROVE  Cardinality({p \in rows : ~ Pending(p) /\ p.settles = c}) <= 1
    <3>1. Booked(c) = {} \/ \E p \in rows : Booked(c) = {p}
      BY <1>3, ReceivablesAssumption DEF GatewayInv, BookedOnce, Booked, ReceivablesAssumption
    <3>2. Cardinality(Booked(c)) \in {0, 1}
      BY <3>1, FS_EmptySet, FS_Singleton
    <3> QED
      BY <3>2 DEF Booked
  <2> QED
    BY <2>1 DEF GatewayPaidOnce
<1> QED
  BY <1>1, <1>2, <1>3, TypeCorrect, ShapeInvariance, OneAtATimeInvariance, PTL DEF Spec

-----------------------------------------------------------------------------
(* Which steps write invoices, notes and stock.                              *)

WritesInvoice(r) ==
  \/ UpdatePaid(r) \/ CommitReceipt(r) \/ CommitReversal(r)
  \/ UpdateNoteStatus(r) \/ SaveInvoice(r) \/ Retotal(r)

LEMMA OthersKeepInvoices ==
  ASSUME [Next]_vars
  PROVE  /\ invoice' = invoice \/ \E r \in Requests : WritesInvoice(r)
         /\ notes' = notes \/ \E r \in Requests : InsertNote(r)
         /\ restored' = restored \/ \E r \in Requests : RestoreStock(r)
         /\ movements' = movements \/ \E r \in Requests : RecordMovement(r)
<1> DEFINE Keeps(r) == /\ invoice' = invoice \/ WritesInvoice(r)
                       /\ notes' = notes \/ InsertNote(r)
                       /\ restored' = restored \/ RestoreStock(r)
                       /\ movements' = movements \/ RecordMovement(r)
<1>1. ASSUME NEW r \in Requests, Start(r) PROVE Keeps(r)
  BY <1>1 DEF Start, RecordPayment, ReceiveClubPayment, StartReceipt, DeleteReceipt,
     CreateCheckout, PayuReturn, CreateNote, CounterReturn, DeleteInvoice, UpdateInvoice, CallOn, db
<1>2. ASSUME NEW r \in Requests, Step(r) PROVE Keeps(r)
  <2>1. CASE \/ CheckBooks(r) \/ ReadNotes(r) \/ InsertPayment(r) \/ UpdatePaid(r)
             \/ CheckRowBooks(r) \/ LockRow(r) \/ AllLocked(r) \/ DeadlockVictim(r) \/ CheckLine(r)
             \/ CommitReceipt(r) \/ CommitReversal(r)
    BY <2>1 DEF CheckBooks, ReadNotes, InsertPayment, UpdatePaid, CheckRowBooks, LockRow, AllLocked,
                DeadlockVictim, CheckLine, CommitReceipt, CommitReversal, WritesInvoice, db
  <2>2. CASE \/ GatewayDup(r) \/ DropPending(r) \/ Reread(r) \/ Redup(r) \/ CheckReturn(r)
             \/ CheckNoteBooks(r) \/ ReadForNote(r) \/ ReadNotesForCredit(r) \/ InsertNote(r)
    BY <2>2 DEF GatewayDup, DropPending, Reread, Redup, CheckReturn, CheckNoteBooks, ReadForNote,
                ReadNotesForCredit, InsertNote, db
  <2>3. CASE \/ ReadNotesAfterDebit(r) \/ UpdateNoteStatus(r) \/ RestoreStock(r)
             \/ RecordMovement(r) \/ LoadForSave(r) \/ SaveInvoice(r) \/ Retotal(r)
    BY <2>3 DEF ReadNotesAfterDebit, UpdateNoteStatus, RestoreStock, RecordMovement, LoadForSave,
                SaveInvoice, Retotal, WritesInvoice, db
  <2> QED
    BY <1>2, <2>1, <2>2, <2>3 DEF Step
<1>3. ASSUME NEW r \in Requests, Crash(r) PROVE Keeps(r)
  BY <1>3 DEF Crash, db
<1> HIDE DEF Keeps
<1>4. CASE CloseBooks \/ UNCHANGED vars
  BY <1>4 DEF CloseBooks, db, vars
<1>5. CASE \E r \in Requests : Keeps(r)
  BY <1>5 DEF Keeps
<1> QED
  BY <1>1, <1>2, <1>3, <1>4, <1>5 DEF Next, Over

-----------------------------------------------------------------------------
(* A receipt, or its reversal, settles its invoices by what still holds.     *)

\* What a receipt has checked and worked out for a line, as long as it holds the row.
LineStands(r, i) ==
  pc[r] = "line" /\ i \notin todo[r] =>
    /\ owed[r][i] = Net(i, seen[r][i].total)
    /\ In(r) = "club" => seen[r][i].status # "deleted" /\ ~ AboveDue(r, i)

LinesStand == \A r \in Requests : \A i \in job[r].on : LineStands(r, i)

LEMMA OwedStays ==
  ASSUME TypeOK, NEW r \in Requests, Start(r) \/ Step(r) \/ Crash(r), NEW q \in Requests, q # r
  PROVE  owed'[q] = owed[q]
<1>1. CASE Start(r)
  BY <1>1 DEF Start, RecordPayment, ReceiveClubPayment, StartReceipt, DeleteReceipt,
     CreateCheckout, PayuReturn, CreateNote, CounterReturn, DeleteInvoice, UpdateInvoice, CallOn,
     Finish, TypeOK
<1>2. CASE \/ CheckBooks(r) \/ ReadNotes(r) \/ InsertPayment(r) \/ UpdatePaid(r)
           \/ CheckRowBooks(r) \/ LockRow(r) \/ AllLocked(r) \/ DeadlockVictim(r)
  BY <1>2 DEF CheckBooks, ReadNotes, InsertPayment, UpdatePaid, CheckRowBooks, LockRow, AllLocked,
              DeadlockVictim, Abort, Finish, locals, TypeOK
<1>3. CASE \/ CheckLine(r) \/ CommitReceipt(r) \/ CommitReversal(r) \/ GatewayDup(r)
           \/ DropPending(r) \/ Reread(r) \/ Redup(r)
  BY <1>3 DEF CheckLine, CommitReceipt, CommitReversal, GatewayDup, DropPending, Reread, Redup,
              Abort, Finish, locals, TypeOK
<1>4. CASE \/ CheckReturn(r) \/ CheckNoteBooks(r) \/ ReadForNote(r) \/ ReadNotesForCredit(r)
           \/ InsertNote(r) \/ ReadNotesAfterDebit(r) \/ UpdateNoteStatus(r)
  BY <1>4 DEF CheckReturn, CheckNoteBooks, ReadForNote, ReadNotesForCredit, InsertNote,
              ReadNotesAfterDebit, UpdateNoteStatus, Finish, locals, TypeOK
<1>5. CASE \/ RestoreStock(r) \/ RecordMovement(r) \/ LoadForSave(r) \/ SaveInvoice(r)
           \/ Retotal(r) \/ Crash(r)
  BY <1>5 DEF RestoreStock, RecordMovement, LoadForSave, SaveInvoice, Retotal, Crash, Finish,
              locals, TypeOK
<1> QED
  BY <1>1, <1>2, <1>3, <1>4, <1>5 DEF Step

\* A note waits for the row of its invoice.
LEMMA LockedNotesStay ==
  ASSUME TypeOK, [Next]_vars, NEW i \in Invoices, lock[i] \in Requests
  PROVE  notes'[i] = notes[i]
<1>1. ASSUME NEW r \in Requests, InsertNote(r) PROVE notes'[i] = notes[i]
  BY <1>1, ReceivablesAssumption DEF InsertNote, Writable, TypeOK, ReceivablesAssumption
<1> QED
  BY <1>1, OthersKeepInvoices

\* What the others do leaves a transaction's row, its notes and what it worked out.
LEMMA OthersLeaveLines ==
  ASSUME IInv, LinesStand, [Next]_vars, NEW r \in Requests, Start(r) \/ Step(r) \/ Crash(r),
         NEW q \in Requests, q # r, NEW i \in job'[q].on
  PROVE  LineStands(q, i)'
<1> SUFFICES ASSUME pc'[q] = "line", i \notin todo'[q] PROVE LineStands(q, i)'
  BY DEF LineStands
<1>1. TypeOK
  BY DEF IInv
<1>2. pc'[q] = pc[q] /\ job'[q] = job[q] /\ amt'[q] = amt[q] /\ owed'[q] = owed[q]
  BY <1>1, OthersKeepTheirs, OwedStays
<1>3. seen'[q] = seen[q] /\ todo'[q] = todo[q]
  <2>1. CASE Aside(r)
    BY <2>1 DEF Aside, OthersKeep
  <2>2. CASE ReceiveClubPayment(r) \/ DeleteReceipt(r)
    BY <1>1, <2>2 DEF ReceiveClubPayment, StartReceipt, DeleteReceipt, Finish, TypeOK
  <2>3. CASE CheckRowBooks(r) \/ LockRow(r) \/ AllLocked(r) \/ DeadlockVictim(r)
    BY <1>1, <2>3 DEF CheckRowBooks, LockRow, AllLocked, DeadlockVictim, Abort, Finish, locals,
                      TypeOK
  <2>4. CASE CheckLine(r) \/ CommitReceipt(r) \/ CommitReversal(r) \/ Crash(r)
    BY <1>1, <2>4 DEF CheckLine, CommitReceipt, CommitReversal, Crash, Abort, Finish, TypeOK
  <2> QED
    BY <1>1, <2>1, <2>2, <2>3, <2>4, CallsAside, DeskStepsAside, GatewayStepsAside,
       NoteStepsAside, SaveStepsAside DEF Start, Step
<1>4. i \in Invoices /\ lock[i] = q
  BY <1>1, <1>2 DEF IInv, TransactionsHold, TypeOK, Job
<1>5. notes'[i] = notes[i]
  BY <1>1, <1>4, LockedNotesStay
<1>6. LineStands(q, i)
  BY <1>2 DEF LinesStand
<1> QED
  BY <1>2, <1>3, <1>5, <1>6 DEF LineStands, AboveDue, DueLeft, Net, In

\* r's own steps: it comes to its lines with every one of them to check.
LEMMA OwnLinesStand ==
  ASSUME IInv, LinesStand, NEW r \in Requests, Start(r) \/ Step(r) \/ Crash(r),
         NEW i \in job'[r].on
  PROVE  LineStands(r, i)'
<1> SUFFICES ASSUME pc'[r] = "line" PROVE LineStands(r, i)'
  BY DEF LineStands
<1>1. TypeOK
  BY DEF IInv
<1>2. AllLocked(r) \/ CheckLine(r)
  <2>1. ~ Aside(r)
    BY DEF Aside, StaysOut, Transaction
  <2>2. ~ (ReceiveClubPayment(r) \/ DeleteReceipt(r))
    BY <1>1 DEF ReceiveClubPayment, StartReceipt, DeleteReceipt, Finish, Goto, TypeOK
  <2>3. ~ (CheckRowBooks(r) \/ LockRow(r) \/ DeadlockVictim(r))
    BY <1>1 DEF CheckRowBooks, LockRow, DeadlockVictim, Abort, Finish, Goto, At, TypeOK
  <2>4. ~ (CommitReceipt(r) \/ CommitReversal(r) \/ Crash(r))
    BY <1>1 DEF CommitReceipt, CommitReversal, Crash, Finish, Goto, TypeOK
  <2> QED
    BY <1>1, <2>1, <2>2, <2>3, <2>4, CallsAside, DeskStepsAside, GatewayStepsAside,
       NoteStepsAside, SaveStepsAside DEF Start, Step
<1>3. CASE AllLocked(r)
  <2>1. todo'[r] = job[r].on /\ job'[r] = job[r]
    BY <1>1, <1>3 DEF AllLocked, Abort, Finish, Goto, TypeOK
  <2> QED
    BY <2>1 DEF LineStands
<1>4. CASE CheckLine(r)
  <2>1. PICK k \in todo[r] : CheckLine(r)!(k)
    BY <1>4 DEF CheckLine
  <2>2. ~ Abort(r)
    BY <1>1 DEF Abort, Finish, Goto, TypeOK
  <2>3. /\ ~ (In(r) = "club" /\ (seen[r][k].status = "deleted" \/ AboveDue(r, k)))
        /\ owed' = [owed EXCEPT ![r][k] = Net(k, seen[r][k].total)]
        /\ todo' = [todo EXCEPT ![r] = @ \ {k}]
        /\ UNCHANGED <<notes, pc, job, amt, seen>>
    BY <2>1, <2>2 DEF db
  <2>4. k \in Invoices /\ i \in Invoices
    BY <1>1, <2>3 DEF TypeOK, Job
  <2>5. CASE i = k
    <3>1. owed'[r][i] = Net(i, seen[r][i].total)
      BY <1>1, <2>3, <2>4, <2>5 DEF TypeOK
    <3> QED
      BY <2>3, <2>5, <3>1 DEF LineStands, AboveDue, DueLeft, Net, In
  <2>6. CASE i # k
    <3>1. owed'[r][i] = owed[r][i] /\ (i \notin todo'[r] => i \notin todo[r])
      BY <1>1, <2>3, <2>4, <2>6 DEF TypeOK
    <3>2. LineStands(r, i)
      BY <2>3 DEF LinesStand
    <3> QED
      BY <2>1, <2>3, <3>1, <3>2 DEF LineStands, AboveDue, DueLeft, Net, In, At
  <2> QED
    BY <2>5, <2>6
<1> QED
  BY <1>2, <1>3, <1>4

LEMMA LinesInductive ==
  ASSUME IInv, LinesStand, [Next]_vars PROVE LinesStand'
<1>1. ASSUME NEW r \in Requests, Start(r) \/ Step(r) \/ Crash(r) PROVE LinesStand'
  BY <1>1, OthersLeaveLines, OwnLinesStand DEF LinesStand
<1>2. CASE CloseBooks \/ UNCHANGED vars
  <2>1. UNCHANGED <<notes, pc, job, amt, seen, owed, todo>>
    BY <1>2 DEF CloseBooks, db, locals, vars
  <2> QED
    BY <2>1 DEF LinesStand, LineStands, AboveDue, DueLeft, Net, In
<1> QED
  BY <1>1, <1>2 DEF Next, Over

LEMMA LinesInvariance == Spec => []LinesStand
<1>1. Init => LinesStand
  BY DEF Init, LinesStand, LineStands
<1> QED
  BY <1>1, LinesInductive, Invariance, PTL DEF Spec

\* What a commit writes on an invoice, of a row that still is the row read.
SettlesRight(r, i) ==
  LET paid   == invoice'[i].paid
      status == invoice'[i].status
      due    == Net(i, invoice[i].total)
  IN /\ In(r) = "club" => status # "deleted" /\ paid <= due
     /\ status = "paid" => paid >= due - Slack
     /\ status = "partial" => paid < due - Slack

LEMMA CommitsSettle ==
  ASSUME IInv, LinesStand, NEW r \in Requests, CommitReceipt(r) \/ CommitReversal(r),
         NEW i \in job[r].on
  PROVE  SettlesRight(r, i)
<1>1. /\ i \in Invoices /\ i \notin todo[r] /\ pc[r] = "line"
      /\ invoice[i] \in Row /\ invoice[i].total \in Nat /\ invoice[i].paid \in Nat
      /\ amt[r][i] \in Nat
  BY DEF CommitReceipt, CommitReversal, At, IInv, TypeOK, Job, Row
<1>2. seen[r][i] = invoice[i]
  BY <1>1 DEF IInv, LockedRowIsCurrent, TransactionsHold
<1>3. owed[r][i] = Net(i, invoice[i].total) /\ Net(i, invoice[i].total) \in Int
  BY <1>1, <1>2, NetType DEF LinesStand, LineStands, IInv
<1>4. CASE CommitReceipt(r)
  <2>1. In(r) = "club" /\ ~ AboveDue(r, i) /\ NewPaid(r, i) = invoice[i].paid + amt[r][i]
    BY <1>1, <1>2, <1>4 DEF CommitReceipt, LinesStand, LineStands, NewPaid
  <2>2. NewPaid(r, i) \in Nat /\ NewPaid(r, i) <= Net(i, invoice[i].total)
    BY <1>1, <1>2, <1>3, <2>1 DEF AboveDue, DueLeft
  <2>3. invoice'[i] = PaidRow(invoice[i], NewPaid(r, i),
                              Standing(NewPaid(r, i), Net(i, invoice[i].total)))
    BY <1>1, <1>3, <1>4 DEF CommitReceipt
  <2>4. /\ invoice'[i].paid = NewPaid(r, i)
        /\ invoice'[i].status = Standing(NewPaid(r, i), Net(i, invoice[i].total))
    BY <1>1, <2>3 DEF PaidRow, Row
  <2> QED
    BY <1>3, <2>2, <2>4 DEF SettlesRight, Standing, Slack
<1>5. CASE CommitReversal(r)
  <2>1. In(r) = "deleteReceipt" /\ PaidAfter(r, i) \in Nat
    BY <1>5, PaidAfterType DEF CommitReversal, IInv
  <2>2. /\ invoice'[i].paid = PaidAfter(r, i)
        /\ invoice'[i].status = StatusAfter(r, i)
    BY <1>1, <1>5 DEF CommitReversal, PaidRow, Row
  <2> QED
    BY <1>3, <2>1, <2>2 DEF SettlesRight, StatusAfter, Standing, Slack
<1> QED
  BY <1>4, <1>5

\* Whatever notes, edits, deletes, saves, payments and receipts run beside a club receipt
\* or a reversal, and wherever handlers are lost, its commit is right for the notes and
\* the rows that stand by then: no deleted invoice is paid, none beyond what is due, and
\* the status written fits the paid amount.
THEOREM ReceiptsSettleRight == Spec => ReceiptSettlesRight
<1>1. ASSUME IInv, LinesStand, [Next]_vars
      PROVE  [\A r \in Requests : pc[r] = "line" /\ pc'[r] = "done" =>
                \A i \in job[r].on :
                  LET paid   == invoice'[i].paid
                      status == invoice'[i].status
                      due    == Net(i, invoice[i].total)
                  IN /\ In(r) = "club" => status # "deleted" /\ paid <= due
                     /\ status = "paid" => paid >= due - Slack
                     /\ status = "partial" => paid < due - Slack]_vars
  <2>1. ASSUME NEW r \in Requests, pc[r] = "line", pc'[r] = "done", NEW i \in job[r].on
        PROVE  SettlesRight(r, i)
    BY <1>1, <2>1, OnlyCommitsEnd, CommitsSettle DEF IInv
  <2> QED
    BY <2>1 DEF SettlesRight
<1> QED
  BY <1>1, Invariance, LinesInvariance, PTL DEF Spec, ReceiptSettlesRight

-----------------------------------------------------------------------------
(* The rows of a receipt, one on an invoice.                                 *)

Amount == [p \in Payment |-> p.amount]
RowsOn(i) == {p \in rows : p.inv = i}

\* A receipt has one row on an invoice.
OneRowEach == \A p, x \in rows : p.by = x.by /\ p.inv = x.inv => p = x
FiniteRows == \A i \in Invoices : IsFiniteSet(RowsOn(i))

LEMMA NewRowsFit ==
  ASSUME TypeOK, ShapeInv, [Next]_vars
  PROVE  /\ \A p, x \in rows' :
                 p \notin rows /\ x \notin rows /\ p.by = x.by /\ p.inv = x.inv => p = x
         /\ \A i \in Invoices : \E e : RowsOn(i)' \subseteq RowsOn(i) \cup {e}
         /\ \A p \in rows' : p \notin rows /\ Pending(p) => "checkout" \in Kinds
<1>1. ASSUME NEW r \in Requests, InsertPayment(r)
      PROVE  \E x : rows' = rows \cup {x} /\ (Pending(x) => "checkout" \in Kinds)
  <2>1. PICK x \in Payment : rows' = rows \cup {x} /\ (Pending(x) <=> In(r) = "checkout")
                             /\ pc[r] = "insert"
    BY <1>1, InsertEffect
  <2>2. In(r) \in Kinds
    BY <2>1 DEF ShapeInv, Shape, OneEach, Running, Ended
  <2> QED
    BY <2>1, <2>2
<1>2. ASSUME NEW r \in Requests, CommitReceipt(r)
      PROVE  \E new \in SUBSET Payment : /\ rows' = rows \cup new
                                         /\ \A x \in new : ~ Pending(x)
                                         /\ \A x, y \in new : x.inv = y.inv => x = y
  BY <1>2, CommitRowsEffect
<1>3. ASSUME NEW r \in Requests, DropPending(r) \/ CommitReversal(r) PROVE rows' \subseteq rows
  BY <1>3 DEF DropPending, CommitReversal
<1>4. \/ \E x : rows' = rows \cup {x} /\ (Pending(x) => "checkout" \in Kinds)
      \/ \E new \in SUBSET Payment : /\ rows' = rows \cup new
                                     /\ \A x \in new : ~ Pending(x)
                                     /\ \A x, y \in new : x.inv = y.inv => x = y
      \/ rows' \subseteq rows
  BY <1>1, <1>2, <1>3, OthersKeepRows DEF WritesRows
<1>5. CASE \E x : rows' = rows \cup {x} /\ (Pending(x) => "checkout" \in Kinds)
  BY <1>5 DEF RowsOn
<1>6. CASE rows' \subseteq rows
  BY <1>6 DEF RowsOn
<1>7. ASSUME NEW new \in SUBSET Payment, rows' = rows \cup new, \A x \in new : ~ Pending(x),
             \A x, y \in new : x.inv = y.inv => x = y
      PROVE  /\ \A p, x \in rows' :
                 p \notin rows /\ x \notin rows /\ p.by = x.by /\ p.inv = x.inv => p = x
             /\ \A i \in Invoices : \E e : RowsOn(i)' \subseteq RowsOn(i) \cup {e}
             /\ \A p \in rows' : p \notin rows /\ Pending(p) => "checkout" \in Kinds
  <2>1. ASSUME NEW i \in Invoices PROVE \E e : RowsOn(i)' \subseteq RowsOn(i) \cup {e}
    <3>1. CASE \E e \in new : e.inv = i
      BY <1>7, <3>1 DEF RowsOn
    <3>2. CASE ~ \E e \in new : e.inv = i
      BY <1>7, <3>2 DEF RowsOn
    <3> QED
      BY <3>1, <3>2
  <2> QED
    BY <1>7, <2>1
<1> QED
  BY <1>4, <1>5, <1>6, <1>7

LEMMA FitStays ==
  ASSUME TypeOK, ShapeInv, RowsInv, OneRowEach, FiniteRows, [Next]_vars
  PROVE  OneRowEach' /\ FiniteRows'
<1>1. ASSUME NEW p \in rows', NEW x \in rows', p.by = x.by, p.inv = x.inv PROVE p = x
  <2>1. p \in rows <=> x \in rows
    BY <1>1, NewRows DEF RowsInv, RowsAreDone
  <2> QED
    BY <1>1, <2>1, NewRowsFit DEF OneRowEach
<1>2. ASSUME NEW i \in Invoices PROVE IsFiniteSet(RowsOn(i)')
  <2>1. PICK e : RowsOn(i)' \subseteq RowsOn(i) \cup {e}
    BY NewRowsFit
  <2>2. IsFiniteSet(RowsOn(i) \cup {e})
    BY FS_AddElement DEF FiniteRows
  <2> QED
    BY <2>1, <2>2, FS_Subset
<1> QED
  BY <1>1, <1>2 DEF OneRowEach, FiniteRows

-----------------------------------------------------------------------------
(* What a receipt asks for is never nothing.                                 *)

\* Nobody asks for nothing, and a gateway payment is cut down to what is due.
AskingKinds == {"record", "club", "checkout", "payuReturn"}
AmountsAsked ==
  /\ \A p \in rows : p.amount > 0
  /\ \A r \in Requests : In(r) \in AskingKinds => \A i \in job[r].on : amt[r][i] > 0

\* The calls that ask for an amount, with the amount they were called for.
LEMMA StartAsks ==
  ASSUME TypeOK, AmountsAsked, NEW r \in Requests, Start(r), In(r)' \in AskingKinds
  PROVE  \A i \in job'[r].on : amt'[r][i] > 0
<1>0. \A a \in Amounts : a > 0
  BY ReceivablesAssumption DEF ReceivablesAssumption
<1>1. ~ Finish(r, "rejected")
  BY DEF Finish, NoJob, JobOf, TypeOK, In, AskingKinds
<1>2. CASE RecordPayment(r)
  <2>1. PICK i \in Invoices, a \in Amounts, d \in Days :
          job' = [job EXCEPT ![r] = JobOf("record", {i}, d)] /\ amt' = [amt EXCEPT ![r] = Only(i, a)]
    BY <1>1, <1>2 DEF RecordPayment, CallOn
  <2>2. job'[r].on = {i} /\ amt'[r][i] = a
    BY <2>1 DEF TypeOK, JobOf, Only, Zero
  <2> QED
    BY <1>0, <2>2
<1>3. CASE ReceiveClubPayment(r)
  <2>1. PICK on \in (SUBSET Invoices) \ {{}}, d \in Days :
          \E a \in [on -> Amounts] : StartReceipt(r, on, a, d)
    BY <1>3 DEF ReceiveClubPayment
  <2>2. PICK a \in [on -> Amounts] : StartReceipt(r, on, a, d)
    BY <2>1
  <2>3. /\ job' = [job EXCEPT ![r] = JobOf("club", on, d)]
        /\ amt' = [amt EXCEPT ![r] = [i \in Invoices |-> IF i \in on THEN a[i] ELSE 0]]
    BY <1>1, <2>2 DEF StartReceipt
  <2>4. job'[r].on = on /\ \A i \in on : amt'[r][i] = a[i]
    BY <2>1, <2>3 DEF TypeOK, JobOf
  <2> QED
    BY <1>0, <2>4
<1>4. CASE CreateCheckout(r)
  <2>1. PICK i \in Invoices, a \in Amounts :
          /\ job' = [job EXCEPT ![r] = PayuJob("checkout", i, r, "txnid")]
          /\ amt' = [amt EXCEPT ![r] = Only(i, a)]
    BY <1>1, <1>4 DEF CreateCheckout
  <2>2. job'[r].on = {i} /\ amt'[r][i] = a
    BY <2>1 DEF TypeOK, PayuJob, Only, Zero
  <2> QED
    BY <1>0, <2>2
<1>5. CASE PayuReturn(r)
  <2>1. PICK p \in rows : PayuReturn(r)!(p)
    BY <1>5 DEF PayuReturn
  <2>2. p.inv \in Invoices /\ p.amount > 0
    BY DEF TypeOK, Payment, AmountsAsked
  <2>3. job'[r].on = {p.inv} /\ amt'[r][p.inv] = p.amount
    BY <2>1, <2>2 DEF TypeOK, PayuJob, Only, Zero
  <2> QED
    BY <2>2, <2>3
<1>6. ~ (DeleteReceipt(r) \/ CreateNote(r))
  BY <1>1 DEF DeleteReceipt, CreateNote, JobOf, TypeOK, In, AskingKinds
<1>7. ~ (CounterReturn(r) \/ DeleteInvoice(r) \/ UpdateInvoice(r))
  BY <1>1 DEF CounterReturn, DeleteInvoice, UpdateInvoice, CallOn, StockJob, JobOf, TypeOK, In,
              AskingKinds
<1> QED
  BY <1>2, <1>3, <1>4, <1>5, <1>6, <1>7 DEF Start

\* Only a gateway payment's amount is changed on the way.
LEMMA KeepsAmount ==
  ASSUME TypeOK, NEW r \in Requests, Step(r) \/ Crash(r), ~ ReadNotes(r)
  PROVE  amt'[r] = amt[r] \/ job'[r] = NoJob
<1>1. \/ amt' = amt
      \/ Finish(r, "rejected") \/ Finish(r, "done") \/ Finish(r, "crashed")
  <2>1. CASE \/ CheckBooks(r) \/ InsertPayment(r) \/ UpdatePaid(r) \/ CheckRowBooks(r)
             \/ LockRow(r) \/ AllLocked(r) \/ DeadlockVictim(r) \/ CheckLine(r)
             \/ CommitReceipt(r) \/ CommitReversal(r) \/ Crash(r)
    BY <2>1 DEF CheckBooks, InsertPayment, UpdatePaid, CheckRowBooks, LockRow, AllLocked,
       DeadlockVictim, CheckLine, CommitReceipt, CommitReversal, Crash, Abort, locals
  <2>2. CASE \/ GatewayDup(r) \/ DropPending(r) \/ Reread(r) \/ Redup(r) \/ CheckReturn(r)
             \/ CheckNoteBooks(r) \/ ReadForNote(r) \/ ReadNotesForCredit(r) \/ InsertNote(r)
             \/ ReadNotesAfterDebit(r) \/ UpdateNoteStatus(r)
    BY <2>2 DEF GatewayDup, DropPending, Reread, Redup, CheckReturn, CheckNoteBooks,
       ReadForNote, ReadNotesForCredit, InsertNote, ReadNotesAfterDebit, UpdateNoteStatus, locals
  <2>3. CASE RestoreStock(r) \/ RecordMovement(r) \/ LoadForSave(r) \/ SaveInvoice(r) \/ Retotal(r)
    BY <2>3 DEF RestoreStock, RecordMovement, LoadForSave, SaveInvoice, Retotal, locals
  <2> QED
    BY <2>1, <2>2, <2>3 DEF Step
<1> QED
  BY <1>1 DEF Finish, TypeOK

LEMMA StepAsks ==
  ASSUME TypeOK, AmountsAsked, NEW r \in Requests, Step(r) \/ Crash(r), In(r)' \in AskingKinds
  PROVE  \A i \in job'[r].on : amt'[r][i] > 0
<1>1. job'[r] = job[r] /\ In(r) \in AskingKinds
  BY KeepsJob DEF NoJob, JobOf, In, AskingKinds
<1>2. CASE ReadNotes(r)
  <2>1. PICK k \in job[r].on : ReadNotes(r)!(k)
    BY <1>2 DEF ReadNotes
  <2>2. k \in Invoices /\ amt[r][k] > 0 /\ \A i \in job[r].on : amt[r][i] > 0
    BY <1>1 DEF TypeOK, Job, AmountsAsked
  <2>3. ~ Finish(r, "rejected") /\ ~ Finish(r, "done")
    BY <1>1 DEF Finish, NoJob, JobOf, TypeOK, In, AskingKinds
  <2>4. CASE amt' = amt
    BY <1>1, <2>2, <2>4
  <2>5. CASE DueLeft(r, k) > 0 /\ amt' = [amt EXCEPT ![r][k] = Applied(r, k)]
    <3>1. Applied(r, k) > 0
      BY <2>2, <2>5 DEF Applied
    <3>2. \A i \in job[r].on : amt'[r][i] = IF i = k THEN Applied(r, k) ELSE amt[r][i]
      BY <2>2, <2>5 DEF TypeOK, Job
    <3> QED
      BY <1>1, <2>2, <3>1, <3>2
  <2> QED
    BY <2>1, <2>3, <2>4, <2>5 DEF locals
<1>3. CASE ~ ReadNotes(r)
  <2>1. amt'[r] = amt[r]
    BY <1>1, <1>3, KeepsAmount DEF NoJob, JobOf, In, AskingKinds
  <2> QED
    BY <1>1, <2>1 DEF AmountsAsked
<1> QED
  BY <1>2, <1>3

LEMMA AmountsAskedInvariance == Spec => []AmountsAsked
<1>1. Init => AmountsAsked
  BY DEF Init, AmountsAsked, NoJob, JobOf, In, AskingKinds
<1>2. ASSUME TypeOK, ShapeInv, AmountsAsked, [Next]_vars PROVE AmountsAsked'
  <2>1. \A p \in rows' : p.amount > 0
    <3>1. ASSUME NEW r \in Requests, InsertPayment(r) PROVE \A p \in rows' : p.amount > 0
      <4>1. PICK i \in Invoices, x \in Payment :
              /\ job[r].on = {i} /\ x.amount = amt[r][i] /\ rows' = rows \cup {x} /\ pc[r] = "insert"
        BY <1>2, <3>1, InsertEffect
      <4>2. In(r) \in AskingKinds
        BY <1>2, <4>1 DEF ShapeInv, Shape, Stages, AskingKinds
      <4> QED
        BY <1>2, <4>1, <4>2 DEF AmountsAsked
    <3>2. ASSUME NEW r \in Requests, CommitReceipt(r) PROVE \A p \in rows' : p.amount > 0
      <4>1. PICK new \in SUBSET Payment :
              /\ rows' = rows \cup new
              /\ \A x \in new : x.amount = amt[r][x.inv]
              /\ {x.inv : x \in new} = job[r].on
        BY <1>2, <3>2, CommitRowsEffect
      <4>2. In(r) \in AskingKinds
        BY <3>2 DEF CommitReceipt, AskingKinds
      <4>3. \A x \in new : x.amount > 0
        BY <1>2, <4>1, <4>2 DEF AmountsAsked
      <4> QED
        BY <1>2, <4>1, <4>3 DEF AmountsAsked
    <3>3. ASSUME NEW r \in Requests, DropPending(r) \/ CommitReversal(r) PROVE rows' \subseteq rows
      BY <3>3 DEF DropPending, CommitReversal
    <3> QED
      BY <1>2, <3>1, <3>2, <3>3, OthersKeepRows DEF WritesRows, AmountsAsked
  <2>2. ASSUME NEW r \in Requests, In(r)' \in AskingKinds PROVE \A i \in job'[r].on : amt'[r][i] > 0
    <3>1. ASSUME NEW q \in Requests, Start(q) \/ Step(q) \/ Crash(q)
          PROVE  \A i \in job'[r].on : amt'[r][i] > 0
      <4>1. CASE q = r
        BY <1>2, <2>2, <3>1, <4>1, StartAsks, StepAsks
      <4>2. CASE q # r
        <5>1. job'[r] = job[r] /\ amt'[r] = amt[r]
          BY <1>2, <3>1, <4>2, OthersKeepTheirs
        <5> QED
          BY <1>2, <2>2, <5>1 DEF AmountsAsked, In
      <4> QED
        BY <4>1, <4>2
    <3>2. CASE CloseBooks \/ UNCHANGED vars
      <4>1. UNCHANGED <<job, amt>>
        BY <3>2 DEF CloseBooks, vars, locals
      <4> QED
        BY <1>2, <2>2, <4>1 DEF AmountsAsked, In
    <3> QED
      BY <1>2, <3>1, <3>2 DEF Next, Over
  <2> QED
    BY <2>1, <2>2 DEF AmountsAsked
<1> QED
  BY <1>1, <1>2, TypeCorrect, ShapeInvariance, PTL DEF Spec

-----------------------------------------------------------------------------
(* Receipts, their reversals and notes implement ReceiptLedger, in any overlap and with    *)
(* any crashes, where no two reversals of one receipt overlap.                             *)

OnlyLockersAndNotes == Kinds \subseteq {"club", "deleteReceipt", "credit", "debit", "counterReturn"}

NonePending == \A p \in rows : ~ Pending(p)
ReversalsStand == \A r \in Requests : In(r) = "deleteReceipt" => hits[r] \subseteq rows
ReversalsDiffer ==
  \A q, r \in Requests : q # r /\ In(q) = "deleteReceipt" /\ In(r) = "deleteReceipt" =>
    hits[q] \cap hits[r] = {}
PaidIsBooked == \A i \in Invoices : invoice[i].paid = Sum(Amount, RowsOn(i))

BookedInv ==
  /\ OneRowEach /\ FiniteRows /\ NonePending /\ ReversalsStand /\ ReversalsDiffer /\ PaidIsBooked
KeptInv == IInv /\ ShapeInv /\ RowsInv /\ AmountsAsked

\* The ledger's receipts, by who posted them and invoice by invoice.
RowsOf(q, i) == {p \in rows : p.by = q /\ p.inv = i}
Parts(q) == [i \in Invoices |-> Sum(Amount, RowsOf(q, i))]
Posters == {p.by : p \in rows}
Receipts == {[by |-> q, parts |-> Parts(q)] : q \in Posters}
Balance == [i \in Invoices |-> invoice[i].paid]

LEMMA RowAmounts ==
  ASSUME TypeOK, NEW p \in rows
  PROVE  /\ p \in Payment /\ p.by \in Requests /\ p.inv \in Invoices
         /\ Amount[p] = p.amount /\ Amount[p] \in Nat
BY DEF TypeOK, Amount, Payment

LEMMA NobodyUpdates ==
  ASSUME OnlyLockersAndNotes, ShapeInv, NEW r \in Requests
  PROVE  pc[r] \notin {"update", "insert", "dropPending", "write", "retotal"}
BY DEF OnlyLockersAndNotes, ShapeInv, Shape, Stages, OneEach, Running, Ended

\* The sum of the model is the sum of the lemmas.
LEMMA SumOfRows ==
  ASSUME TypeOK, NEW S, S \subseteq rows, IsFiniteSet(S)
  PROVE  MapThenSumSet(LAMBDA p : p.amount, S) = Sum(Amount, S)
<1> DEFINE IsFold(g) == g = [s \in SUBSET S |->
             IF s = {} THEN 0
             ELSE (CHOOSE x \in s : TRUE).amount + g[s \ {CHOOSE x \in s : TRUE}]]
           fold == CHOOSE g : IsFold(g)
<1>1. MapThenSumSet(LAMBDA p : p.amount, S) = fold[S]
  BY DEF MapThenSumSet, MapThenFoldSet
<1>2. ASSUME NEW g PROVE IsFold(g) <=> AddsUp(Amount, S, g)
  <2>1. ASSUME NEW s \in SUBSET S, s # {}
        PROVE  Amount[CHOOSE x \in s : TRUE] = (CHOOSE x \in s : TRUE).amount
    <3>1. (CHOOSE x \in s : TRUE) \in rows
      BY <2>1
    <3> QED
      BY <3>1, RowAmounts
  <2> QED
    BY <2>1 DEF AddsUp, Pick
<1>4. AddsUp(Amount, S, Partial(Amount, S))
  BY PartialAddsUp
<1> HIDE DEF IsFold
<1>5. IsFold(fold)
  BY <1>2, <1>4
<1>6. AddsUp(Amount, S, fold)
  BY <1>2, <1>5
<1> HIDE DEF fold
<1>7. fold[S] = Partial(Amount, S)[S]
  BY <1>4, <1>6, AddsUpOnce
<1> QED
  BY <1>1, <1>7 DEF Sum

LEMMA StandingAreReceipts ==
  ASSUME OnlyLockersAndNotes, TypeOK, ShapeInv, NonePending, FiniteRows
  PROVE  StandingReceipts = Receipts
<1>1. \A i \in Invoices : Posted(i) = RowsOn(i)
  <2>1. \A p \in rows : p.by \in Requests /\ pc[p.by] # "update"
    BY RowAmounts, NobodyUpdates
  <2> QED
    BY <2>1 DEF Posted, RowsOn, NonePending
<1>2. UNION {Posted(i) : i \in Invoices} = rows
  BY <1>1, RowAmounts DEF RowsOn
<1>3. ASSUME NEW q \in Requests, NEW i \in Invoices
      PROVE  MapThenSumSet(LAMBDA p : p.amount, {p \in Posted(i) : p.by = q}) = Parts(q)[i]
  <2>1. {p \in Posted(i) : p.by = q} = RowsOf(q, i)
    BY <1>1 DEF RowsOn, RowsOf
  <2>2. RowsOf(q, i) \subseteq rows /\ IsFiniteSet(RowsOf(q, i))
    <3>1. RowsOf(q, i) \subseteq RowsOn(i)
      BY DEF RowsOf, RowsOn
    <3> QED
      BY <3>1, FS_Subset DEF RowsOf, FiniteRows
  <2>3. MapThenSumSet(LAMBDA p : p.amount, RowsOf(q, i)) = Sum(Amount, RowsOf(q, i))
    BY <2>2, SumOfRows
  <2> QED
    BY <2>1, <2>3 DEF Parts
<1>4. \A q \in Posters : q \in Requests
  BY RowAmounts DEF Posters
<1> DEFINE F(q) == [i \in Invoices |->
                      MapThenSumSet(LAMBDA p : p.amount, {p \in Posted(i) : p.by = q})]
<1>5. ASSUME NEW q \in Requests PROVE F(q) = Parts(q)
  BY <1>3, <1>5 DEF Parts
<1>6. StandingReceipts = {[by |-> q, parts |-> F(q)] : q \in Posters}
  BY <1>2 DEF StandingReceipts, Posters
<1> HIDE DEF F
<1>7. \A q \in Posters : [by |-> q, parts |-> F(q)] = [by |-> q, parts |-> Parts(q)]
  BY <1>4, <1>5
<1>8. {[by |-> q, parts |-> F(q)] : q \in Posters} = {[by |-> q, parts |-> Parts(q)] : q \in Posters}
  BY <1>7
<1> QED
  BY <1>6, <1>8 DEF Receipts

LEMMA PaidStays ==
  ASSUME OnlyLockersAndNotes, TypeOK, ShapeInv, [Next]_vars,
         ~ \E r \in Requests : CommitReceipt(r) \/ CommitReversal(r)
  PROVE  rows' = rows /\ \A i \in Invoices : invoice'[i].paid = invoice[i].paid
<1>1. \A r \in Requests :
        ~ (InsertPayment(r) \/ DropPending(r) \/ UpdatePaid(r) \/ SaveInvoice(r) \/ Retotal(r))
  BY NobodyUpdates DEF InsertPayment, DropPending, UpdatePaid, SaveInvoice, Retotal, At
<1>2. rows' = rows
  BY <1>1, OthersKeepRows DEF WritesRows
<1>3. invoice' = invoice \/ \E r \in Requests : UpdateNoteStatus(r)
  BY <1>1, OthersKeepInvoices DEF WritesInvoice
<1>4. ASSUME NEW r \in Requests, UpdateNoteStatus(r), NEW i \in Invoices
      PROVE  invoice'[i].paid = invoice[i].paid
  <2>1. PICK k \in job[r].on : invoice' = [invoice EXCEPT ![k] = StatusRow(@, StatusAfterNote(r, k))]
    BY <1>4 DEF UpdateNoteStatus
  <2>2. invoice \in [Invoices -> Row] /\ invoice[i] \in Row
    BY DEF TypeOK
  <2>3. invoice'[i] = invoice[i] \/ invoice'[i] = StatusRow(invoice[i], StatusAfterNote(r, k))
    BY <2>1, <2>2
  <2> QED
    BY <2>2, <2>3 DEF StatusRow, Row
<1> QED
  BY <1>2, <1>3, <1>4

\* The rows of one receipt on one invoice: one or none.
LEMMA SumOfOne ==
  ASSUME NEW x \in Payment PROVE Sum(Amount, {x}) = x.amount
<1>0. Amount[x] = x.amount /\ x.amount \in Nat
  BY DEF Amount, Payment
<1>1. IsFiniteSet({x}) /\ x \in {x}
  BY FS_Singleton
<1>2. \A y \in {x} : Amount[y] \in Int
  BY <1>0
<1>3. Sum(Amount, {x}) = Amount[x] + Sum(Amount, {x} \ {x})
  BY <1>1, <1>2, SumTake
<1>4. {x} \ {x} = {}
  OBVIOUS
<1>5. Sum(Amount, {}) = 0
  BY SumEmpty
<1> QED
  BY <1>0, <1>3, <1>4, <1>5

\* A club receipt adds its rows, none of which was there.
LEMMA ReceiptEffect ==
  ASSUME TypeOK, RowsInv, ClubJobs, NEW r \in Requests, CommitReceipt(r)
  PROVE  /\ \A p \in rows : p.by # r
         /\ rows \subseteq rows'
         /\ \A p \in rows' : p \in rows \/ p.by = r
         /\ {p.inv : p \in {x \in rows' : x.by = r}} = job[r].on
         /\ \A i \in Invoices : \/ RowsOf(r, i)' = {} /\ amt[r][i] = 0
                                \/ \E x \in Payment : RowsOf(r, i)' = {x} /\ x.amount = amt[r][i]
<1>1. PICK new \in SUBSET Payment :
        /\ rows' = rows \cup new
        /\ \A x \in new : x.by = r /\ x.amount = amt[r][x.inv]
        /\ {x.inv : x \in new} = job[r].on
        /\ \A x, y \in new : x.inv = y.inv => x = y
        /\ pc[r] = "line"
  BY CommitRowsEffect
<1>2. \A p \in rows : p.by # r
  BY <1>1 DEF RowsInv, RowsAreDone, Past, Ended
<1>3. {x \in rows' : x.by = r} = new
  BY <1>1, <1>2
<1>4. ASSUME NEW i \in Invoices
      PROVE  \/ RowsOf(r, i)' = {} /\ amt[r][i] = 0
             \/ \E x \in Payment : RowsOf(r, i)' = {x} /\ x.amount = amt[r][i]
  <2>1. RowsOf(r, i)' = {x \in new : x.inv = i}
    BY <1>1, <1>2 DEF RowsOf
  <2>2. CASE i \in job[r].on
    <3>1. PICK x \in new : x.inv = i
      BY <1>1, <2>2
    <3>2. {y \in new : y.inv = i} = {x}
      BY <1>1, <3>1
    <3> QED
      BY <1>1, <2>1, <3>1, <3>2
  <2>3. CASE i \notin job[r].on
    <3>1. {x \in new : x.inv = i} = {}
      BY <1>1, <2>3
    <3>2. amt[r][i] = 0
      BY <2>3 DEF ClubJobs, CommitReceipt
    <3> QED
      BY <2>1, <3>1, <3>2
  <2> QED
    BY <2>2, <2>3
<1> QED
  BY <1>1, <1>2, <1>3, <1>4

\* A reversal removes the rows of one receipt, and takes its parts off the invoices.
LEMMA ReversalEffect ==
  ASSUME IInv, RowsInv, BookedInv, NEW r \in Requests, CommitReversal(r)
  PROVE  \E q \in Requests :
           /\ hits[r] = RowsBy(q)
           /\ rows' = rows \ RowsBy(q)
           /\ \A i \in Invoices : /\ invoice'[i].paid = invoice[i].paid - Parts(q)[i]
                                  /\ RowsOf(q, i) = {} \/ \E x \in rows : RowsOf(q, i) = {x}
<1>0. TypeOK /\ LockedRowIsCurrent /\ TransactionsHold /\ ReversalJobs /\ WholeHits
      /\ OneRowEach /\ FiniteRows /\ ReversalsStand /\ PaidIsBooked
  BY DEF IInv, RowsInv, BookedInv
<1>1. pc[r] = "line" /\ In(r) = "deleteReceipt" /\ rows' = rows \ hits[r]
  BY DEF CommitReversal, At
<1>2. hits[r] \subseteq rows /\ job[r].on = {p.inv : p \in hits[r]}
  BY <1>0, <1>1 DEF ReversalsStand, ReversalJobs
<1>3. PICK q \in Requests : /\ \A p \in hits[r] : p.by = q
                            /\ \A p \in rows : p.by = q => p \in hits[r]
  BY <1>0, <1>1 DEF WholeHits
<1>4. hits[r] = RowsBy(q)
  BY <1>2, <1>3 DEF RowsBy
<1>5. ASSUME NEW i \in Invoices
      PROVE  /\ invoice'[i].paid = invoice[i].paid - Parts(q)[i]
             /\ RowsOf(q, i) = {} \/ \E x \in rows : RowsOf(q, i) = {x}
  <2>1. invoice[i] \in Row /\ invoice[i].paid \in Nat
    BY <1>0 DEF TypeOK, Row
  <2>2. CASE i \in job[r].on
    <3>1. PICK x \in hits[r] : x.inv = i
      BY <1>2, <2>2
    <3>2. x \in rows /\ x.by = q /\ x \in Payment /\ Amount[x] = x.amount /\ x.amount \in Nat
      BY <1>0, <1>2, <1>3, <3>1, RowAmounts
    <3>3. RowsOf(q, i) = {x}
      BY <1>0, <3>1, <3>2 DEF RowsOf, OneRowEach
    <3>4. {p \in hits[r] : p.inv = i} = {x}
      BY <1>4, <3>3 DEF RowsOf, RowsBy
    <3>5. {p.amount : p \in {p \in hits[r] : p.inv = i}} = {x.amount}
      BY <3>4
    <3>6. Taken(r, i) = x.amount
      BY <3>5 DEF Taken
    <3>7. Parts(q)[i] = x.amount
      BY <3>2, <3>3, SumOfOne DEF Parts
    <3>8. x.amount <= invoice[i].paid
      <4>1. x \in RowsOn(i) /\ IsFiniteSet(RowsOn(i))
        BY <1>0, <3>1, <3>2 DEF RowsOn, FiniteRows
      <4>2. \A p \in RowsOn(i) : Amount[p] \in Nat
        BY <1>0, RowAmounts DEF RowsOn
      <4>3. Amount[x] <= Sum(Amount, RowsOn(i))
        BY <4>1, <4>2, PartOfSum
      <4> QED
        BY <1>0, <3>2, <4>3 DEF PaidIsBooked
    <3>9. seen[r][i] = invoice[i]
      BY <1>0, <1>1, <2>2 DEF LockedRowIsCurrent, TransactionsHold
    <3>10. PaidAfter(r, i) = invoice[i].paid - x.amount
      BY <2>1, <3>2, <3>6, <3>8, <3>9 DEF PaidAfter, TakeOff
    <3>11. invoice'[i] = PaidRow(invoice[i], PaidAfter(r, i), StatusAfter(r, i))
      BY <2>2 DEF CommitReversal
    <3>12. invoice'[i].paid = PaidAfter(r, i)
      BY <2>1, <3>11 DEF PaidRow, Row
    <3> QED
      BY <3>2, <3>3, <3>7, <3>10, <3>12
  <2>3. CASE i \notin job[r].on
    <3>1. RowsOf(q, i) = {}
      BY <1>2, <1>4, <2>3 DEF RowsOf, RowsBy
    <3>2. Parts(q)[i] = 0
      BY <3>1, SumEmpty DEF Parts
    <3>3. invoice'[i] = invoice[i]
      BY <2>3 DEF CommitReversal
    <3> QED
      BY <2>1, <3>1, <3>2, <3>3
  <2> QED
    BY <2>2, <2>3
<1> QED
  BY <1>1, <1>4, <1>5

\* What a reversal is to delete, it read when it was called.
LEMMA ReversalReads ==
  ASSUME TypeOK, NEW w \in Requests, Start(w) \/ Step(w) \/ Crash(w),
         NEW r \in Requests, job'[r].kind = "deleteReceipt"
  PROVE  \/ job'[r] = job[r] /\ hits'[r] = hits[r]
         \/ /\ r = w /\ rows' = rows /\ hits'[r] \subseteq rows
            /\ ReversalsApart => \A q \in Requests : hits[q] \cap hits'[r] = {}
<1>1. CASE r # w
  BY <1>1, OthersKeepTheirs
<1>2. CASE r = w /\ ~ DeleteReceipt(w)
  BY <1>2, KeepsHits
<1>3. CASE r = w /\ DeleteReceipt(w)
  <2>1. ~ Finish(r, "rejected")
    BY DEF Finish, NoJob, JobOf, TypeOK
  <2>2. PICK q \in Requests : DeleteReceipt(r)!(q)
    BY <1>3 DEF DeleteReceipt
  <2>3. hits'[r] = ReceiptRows(q) /\ rows' = rows
        /\ (ReversalsApart => \A p \in Requests : hits[p] \cap ReceiptRows(q) = {})
    BY <2>1, <2>2 DEF TypeOK, db
  <2> QED
    BY <1>3, <2>3 DEF ReceiptRows
<1> QED
  BY <1>1, <1>2, <1>3

LEMMA ReversalsStay ==
  ASSUME ReversalsApart, OnlyLockersAndNotes, TypeOK, ShapeInv, ReversalsStand, ReversalsDiffer,
         [Next]_vars
  PROVE  ReversalsStand' /\ ReversalsDiffer'
<1>1. CASE CloseBooks \/ UNCHANGED vars
  <2>1. UNCHANGED <<rows, hits, job>>
    BY <1>1 DEF CloseBooks, vars, db, locals
  <2> QED
    BY <2>1 DEF ReversalsStand, ReversalsDiffer, In
<1>2. ASSUME NEW w \in Requests, Start(w) \/ Step(w) \/ Crash(w)
      PROVE  ReversalsStand' /\ ReversalsDiffer'
  <2>1. ASSUME NEW r \in Requests, job'[r].kind = "deleteReceipt", job'[r] = job[r], hits'[r] = hits[r]
        PROVE  hits'[r] \subseteq rows'
    <3>1. In(r) = "deleteReceipt" /\ hits[r] \subseteq rows
      BY <2>1 DEF In, ReversalsStand
    <3>2. ASSUME NEW v \in Requests, CommitReversal(v) PROVE hits'[r] \subseteq rows'
      <4>1. v # r
        BY <2>1, <3>2 DEF CommitReversal, Finish, NoJob, JobOf, TypeOK
      <4>2. hits[v] \cap hits[r] = {} /\ rows' = rows \ hits[v]
        BY <3>1, <3>2, <4>1 DEF CommitReversal, ReversalsDiffer
      <4> QED
        BY <2>1, <3>1, <4>2
    <3>3. CASE ~ \E v \in Requests : CommitReversal(v)
      <4>1. rows' = rows \/ \E v \in Requests : CommitReceipt(v)
        BY <3>3, PaidStays
      <4>2. rows \subseteq rows'
        BY <4>1 DEF CommitReceipt
      <4> QED
        BY <2>1, <3>1, <4>2
    <3> QED
      BY <3>2, <3>3
  <2>2. ASSUME NEW r \in Requests, job'[r].kind = "deleteReceipt" PROVE hits'[r] \subseteq rows'
    BY <1>2, <2>1, <2>2, ReversalReads
  <2>3. ASSUME NEW q \in Requests, NEW r \in Requests, q # r,
               job'[q].kind = "deleteReceipt", job'[r].kind = "deleteReceipt"
        PROVE  hits'[q] \cap hits'[r] = {}
    <3>1. CASE job'[q] = job[q] /\ hits'[q] = hits[q] /\ job'[r] = job[r] /\ hits'[r] = hits[r]
      BY <2>3, <3>1 DEF ReversalsDiffer, In
    <3>2. CASE w = q /\ \A p \in Requests : hits[p] \cap hits'[q] = {}
      <4>1. hits'[r] = hits[r]
        BY <1>2, <2>3, <3>2, OthersKeepTheirs
      <4> QED
        BY <3>2, <4>1
    <3>3. CASE w = r /\ \A p \in Requests : hits[p] \cap hits'[r] = {}
      <4>1. hits'[q] = hits[q]
        BY <1>2, <2>3, <3>3, OthersKeepTheirs
      <4> QED
        BY <3>3, <4>1
    <3> QED
      BY <1>2, <2>3, <3>1, <3>2, <3>3, ReversalReads
  <2> QED
    BY <2>2, <2>3 DEF ReversalsStand, ReversalsDiffer, In
<1> QED
  BY <1>1, <1>2 DEF Next, Over

LEMMA PaidStaysBooked ==
  ASSUME OnlyLockersAndNotes, KeptInv, BookedInv, [Next]_vars PROVE PaidIsBooked'
<1>0. TypeOK /\ IInv /\ RowsInv /\ ShapeInv /\ ClubJobs /\ FiniteRows /\ PaidIsBooked
  BY DEF KeptInv, IInv, BookedInv
<1>1. SUFFICES ASSUME NEW i \in Invoices
               PROVE  invoice'[i].paid = Sum(Amount, RowsOn(i)')
  BY DEF PaidIsBooked
<1>2. /\ invoice[i].paid = Sum(Amount, RowsOn(i)) /\ IsFiniteSet(RowsOn(i))
      /\ \A p \in RowsOn(i) : Amount[p] \in Int
      /\ invoice[i].paid \in Nat
  <2>1. \A p \in RowsOn(i) : Amount[p] \in Int
    BY <1>0, RowAmounts DEF RowsOn
  <2>2. invoice[i].paid \in Nat
    BY <1>0 DEF TypeOK, Row
  <2> QED
    BY <1>0, <2>1, <2>2 DEF PaidIsBooked, FiniteRows
<1>3. ASSUME NEW r \in Requests, CommitReceipt(r) PROVE invoice'[i].paid = Sum(Amount, RowsOn(i)')
  <2>1. /\ \A p \in rows : p.by # r
        /\ rows \subseteq rows'
        /\ \A p \in rows' : p \in rows \/ p.by = r
        /\ \/ RowsOf(r, i)' = {} /\ amt[r][i] = 0
           \/ \E x \in Payment : RowsOf(r, i)' = {x} /\ x.amount = amt[r][i]
    BY <1>0, <1>3, ReceiptEffect
  <2>2. RowsOn(i)' = RowsOn(i) \cup RowsOf(r, i)'
    BY <2>1 DEF RowsOn, RowsOf
  <2>3. invoice'[i].paid = invoice[i].paid + amt[r][i]
    BY <1>0, <1>3, CommitPosts
  <2>4. CASE RowsOf(r, i)' = {} /\ amt[r][i] = 0
    BY <1>2, <2>2, <2>3, <2>4
  <2>5. ASSUME NEW x \in Payment, RowsOf(r, i)' = {x}, x.amount = amt[r][i]
        PROVE  invoice'[i].paid = Sum(Amount, RowsOn(i)')
    <3>1. x \in RowsOf(r, i)'
      BY <2>5
    <3>2. x \notin RowsOn(i)
      BY <2>1, <3>1 DEF RowsOf, RowsOn
    <3>3. x.amount \in Nat /\ Amount[x] = x.amount
      BY DEF Payment, Amount
    <3>4. Sum(Amount, RowsOn(i) \cup {x}) = Sum(Amount, RowsOn(i)) + Amount[x]
      BY <1>2, <3>2, <3>3, SumAdd
    <3> QED
      BY <1>2, <2>2, <2>3, <2>5, <3>3, <3>4
  <2> QED
    BY <2>1, <2>4, <2>5
<1>4. ASSUME NEW r \in Requests, CommitReversal(r) PROVE invoice'[i].paid = Sum(Amount, RowsOn(i)')
  <2>1. PICK q \in Requests :
          /\ rows' = rows \ RowsBy(q)
          /\ invoice'[i].paid = invoice[i].paid - Parts(q)[i]
          /\ RowsOf(q, i) = {} \/ \E x \in rows : RowsOf(q, i) = {x}
    BY <1>0, <1>4, ReversalEffect
  <2>2. RowsOn(i)' = RowsOn(i) \ RowsOf(q, i)
    BY <2>1 DEF RowsOn, RowsOf, RowsBy
  <2>3. Parts(q)[i] = Sum(Amount, RowsOf(q, i))
    BY DEF Parts
  <2>4. CASE RowsOf(q, i) = {}
    BY <1>2, <2>1, <2>2, <2>3, <2>4, SumEmpty
  <2>5. ASSUME NEW x \in rows, RowsOf(q, i) = {x}
        PROVE  invoice'[i].paid = Sum(Amount, RowsOn(i)')
    <3>1. x \in RowsOf(q, i)
      BY <2>5
    <3>2. x \in RowsOn(i)
      BY <3>1 DEF RowsOf, RowsOn
    <3>3. x \in Payment /\ Amount[x] = x.amount /\ Amount[x] \in Nat
      BY <1>0, RowAmounts
    <3>4. Sum(Amount, RowsOf(q, i)) = Amount[x]
      BY <2>5, <3>3, SumOfOne
    <3>5. Sum(Amount, RowsOn(i)) = Amount[x] + Sum(Amount, RowsOn(i) \ {x})
      BY <1>2, <3>2, SumTake
    <3>6. IsFiniteSet(RowsOn(i) \ {x})
      BY <1>2, FS_Subset
    <3>7. Sum(Amount, RowsOn(i) \ {x}) \in Int
      BY <1>2, <3>6, SumInt
    <3> QED
      BY <1>2, <2>1, <2>2, <2>3, <2>5, <3>3, <3>4, <3>5, <3>7
  <2> QED
    BY <2>1, <2>4, <2>5
<1>5. CASE ~ \E r \in Requests : CommitReceipt(r) \/ CommitReversal(r)
  <2>1. rows' = rows /\ invoice'[i].paid = invoice[i].paid
    BY <1>0, <1>5, PaidStays
  <2> QED
    BY <1>2, <2>1 DEF RowsOn
<1> QED
  BY <1>3, <1>4, <1>5

LEMMA BookedInductive ==
  ASSUME ReversalsApart, OnlyLockersAndNotes, KeptInv, BookedInv, [Next]_vars PROVE BookedInv'
<1>0. TypeOK /\ RowsInv /\ ShapeInv
  BY DEF KeptInv, IInv
<1>1. OneRowEach' /\ FiniteRows'
  BY <1>0, FitStays DEF BookedInv
<1>2. NonePending'
  BY <1>0, NewRowsFit DEF BookedInv, NonePending, OnlyLockersAndNotes, Pending
<1>3. ReversalsStand' /\ ReversalsDiffer'
  BY <1>0, ReversalsStay DEF BookedInv
<1>4. PaidIsBooked'
  BY PaidStaysBooked
<1> QED
  BY <1>1, <1>2, <1>3, <1>4 DEF BookedInv

LEMMA CommitReceiptIsPost ==
  ASSUME KeptInv, KeptInv', BookedInv, BookedInv', NEW r \in Requests, CommitReceipt(r)
  PROVE  \/ Receipts' = Receipts /\ Balance' = Balance
         \/ \E t \in Receipts' \ Receipts :
              /\ t \in Ledger!Receipt
              /\ \A s \in Receipts : s.by # t.by
              /\ \E i \in Invoices : t.parts[i] > 0
              /\ Receipts' = Receipts \cup {t}
              /\ Balance' = [i \in Invoices |-> Balance[i] + t.parts[i]]
<1>0. TypeOK /\ TypeOK' /\ RowsInv /\ ClubJobs /\ FiniteRows' /\ AmountsAsked /\ IInv
  BY DEF KeptInv, IInv, BookedInv
<1>1. /\ \A p \in rows : p.by # r
      /\ rows \subseteq rows'
      /\ \A p \in rows' : p \in rows \/ p.by = r
      /\ {p.inv : p \in {x \in rows' : x.by = r}} = job[r].on
      /\ \A i \in Invoices : \/ RowsOf(r, i)' = {} /\ amt[r][i] = 0
                             \/ \E x \in Payment : RowsOf(r, i)' = {x} /\ x.amount = amt[r][i]
  BY <1>0, ReceiptEffect
<1>2. \A i \in Invoices : invoice'[i].paid = invoice[i].paid + amt[r][i]
  BY <1>0, CommitPosts
<1>3. amt[r] \in [Invoices -> Nat] /\ \A i \in Invoices : invoice[i].paid \in Nat
  BY <1>0 DEF TypeOK, Row
<1>4. \A q : q # r => Parts(q)' = Parts(q)
  <2>1. ASSUME NEW q, q # r, NEW i PROVE RowsOf(q, i)' = RowsOf(q, i)
    BY <1>1, <2>1 DEF RowsOf
  <2> QED
    BY <2>1 DEF Parts
<1>5. Parts(r)' = amt[r]
  <2>1. ASSUME NEW i \in Invoices PROVE Sum(Amount, RowsOf(r, i)') = amt[r][i]
    <3>1. CASE RowsOf(r, i)' = {} /\ amt[r][i] = 0
      BY <3>1, SumEmpty
    <3>2. ASSUME NEW x \in Payment, RowsOf(r, i)' = {x}, x.amount = amt[r][i]
          PROVE  Sum(Amount, RowsOf(r, i)') = amt[r][i]
      BY <3>2, SumOfOne
    <3> QED
      BY <1>1, <3>1, <3>2
  <2> QED
    BY <1>3, <2>1 DEF Parts
<1>6. \A p \in rows : p.by \in Requests
  BY <1>0, RowAmounts
<1>7. r \notin Posters
  BY <1>1 DEF Posters
<1>8. CASE {x \in rows' : x.by = r} = {}
  <2>1. rows' = rows
    BY <1>1, <1>8
  <2>2. job[r].on = {}
    BY <1>1, <1>8
  <2>3. \A i \in Invoices : amt[r][i] = 0
    BY <1>0, <2>2 DEF ClubJobs, CommitReceipt
  <2>4. Balance' = Balance
    BY <1>2, <1>3, <2>3 DEF Balance
  <2>5. Receipts' = Receipts
    BY <2>1 DEF Receipts, Posters, Parts, RowsOf
  <2> QED
    BY <2>4, <2>5
<1>9. ASSUME NEW x \in rows', x.by = r
      PROVE  \E t \in Receipts' \ Receipts :
              /\ t \in Ledger!Receipt
              /\ \A s \in Receipts : s.by # t.by
              /\ \E i \in Invoices : t.parts[i] > 0
              /\ Receipts' = Receipts \cup {t}
              /\ Balance' = [i \in Invoices |-> Balance[i] + t.parts[i]]
  <2> DEFINE t == [by |-> r, parts |-> amt[r]]
  <2>1. Posters' = Posters \cup {r}
    BY <1>1, <1>9 DEF Posters
  <2>2. \A q \in Posters : Parts(q)' = Parts(q)
    BY <1>4, <1>7
  <2>3. Receipts' = Receipts \cup {t}
    <3>1. {[by |-> q, parts |-> Parts(q)'] : q \in Posters \cup {r}}
            = {[by |-> q, parts |-> Parts(q)'] : q \in Posters} \cup {[by |-> r, parts |-> Parts(r)']}
      OBVIOUS
    <3>2. {[by |-> q, parts |-> Parts(q)'] : q \in Posters} = Receipts
      BY <2>2 DEF Receipts
    <3>3. Receipts' = {[by |-> q, parts |-> Parts(q)'] : q \in Posters'}
      BY DEF Receipts
    <3> QED
      BY <1>5, <2>1, <3>1, <3>2, <3>3
  <2>4. \A s \in Receipts : s.by # r
    BY <1>7 DEF Receipts
  <2>5. t \in Receipts' \ Receipts
    BY <2>3, <2>4
  <2>6. t \in Ledger!Receipt
    BY <1>3 DEF Ledger!Receipt
  <2>7. \E i \in Invoices : t.parts[i] > 0
    <3>1. x.inv \in job[r].on
      BY <1>1, <1>9
    <3>2. x.inv \in Invoices
      BY <1>0, <1>9 DEF TypeOK, Payment
    <3>3. amt[r][x.inv] > 0
      BY <1>0, <3>1 DEF AmountsAsked, AskingKinds, CommitReceipt
    <3> QED
      BY <3>2, <3>3
  <2>8. Balance' = [i \in Invoices |-> Balance[i] + t.parts[i]]
    BY <1>2 DEF Balance
  <2> QED
    BY <2>3, <2>4, <2>5, <2>6, <2>7, <2>8
<1> QED
  BY <1>8, <1>9

LEMMA CommitReversalIsReverse ==
  ASSUME KeptInv, BookedInv, NEW r \in Requests, CommitReversal(r)
  PROVE  \/ Receipts' = Receipts /\ Balance' = Balance
         \/ \E t \in Receipts :
              /\ Receipts' = Receipts \ {t}
              /\ Balance' = [i \in Invoices |-> Balance[i] - t.parts[i]]
<1>0. TypeOK /\ RowsInv /\ IInv /\ FiniteRows
  BY DEF KeptInv, IInv, BookedInv
<1>1. PICK q \in Requests :
        /\ rows' = rows \ RowsBy(q)
        /\ \A i \in Invoices : invoice'[i].paid = invoice[i].paid - Parts(q)[i]
  BY <1>0, ReversalEffect
<1>2. \A s : s # q => Parts(s)' = Parts(s)
  <2>1. ASSUME NEW s, s # q, NEW i PROVE RowsOf(s, i)' = RowsOf(s, i)
    BY <1>1, <2>1 DEF RowsOf, RowsBy
  <2> QED
    BY <2>1 DEF Parts
<1>3. Posters' = Posters \ {q}
  BY <1>1 DEF Posters, RowsBy
<1>4. Receipts' = {[by |-> s, parts |-> Parts(s)] : s \in Posters \ {q}}
  <2>1. Receipts' = {[by |-> s, parts |-> Parts(s)'] : s \in Posters'}
    BY DEF Receipts
  <2>2. \A s \in Posters \ {q} : [by |-> s, parts |-> Parts(s)'] = [by |-> s, parts |-> Parts(s)]
    BY <1>2
  <2> QED
    BY <1>3, <2>1, <2>2
<1>5. CASE q \in Posters
  <2> DEFINE t == [by |-> q, parts |-> Parts(q)]
  <2>1. t \in Receipts
    BY <1>5 DEF Receipts
  <2>2. Receipts' = Receipts \ {t}
    <3>1. ASSUME NEW s \in Receipts' PROVE s \in Receipts \ {t}
      BY <1>4, <3>1 DEF Receipts
    <3>2. ASSUME NEW s \in Receipts \ {t} PROVE s \in Receipts'
      <4>1. PICK u \in Posters : s = [by |-> u, parts |-> Parts(u)]
        BY <3>2 DEF Receipts
      <4>2. u # q
        BY <3>2, <4>1
      <4> QED
        BY <1>4, <4>1, <4>2
    <3> QED
      BY <3>1, <3>2
  <2>3. Balance' = [i \in Invoices |-> Balance[i] - t.parts[i]]
    BY <1>1 DEF Balance
  <2> QED
    BY <2>1, <2>2, <2>3
<1>6. CASE q \notin Posters
  <2>1. Receipts' = Receipts
    BY <1>4, <1>6 DEF Receipts
  <2>2. ASSUME NEW i \in Invoices PROVE invoice'[i].paid = invoice[i].paid
    <3>1. RowsOf(q, i) = {}
      BY <1>6 DEF RowsOf, Posters
    <3>2. Parts(q)[i] = 0
      BY <3>1, SumEmpty DEF Parts
    <3>3. invoice[i].paid \in Nat
      BY <1>0 DEF TypeOK, Row
    <3> QED
      BY <1>1, <3>2, <3>3
  <2>3. Balance' = Balance
    BY <2>2 DEF Balance
  <2> QED
    BY <2>1, <2>3
<1> QED
  BY <1>5, <1>6

LEMMA StepsAreLedgerSteps ==
  ASSUME ReversalsApart, OnlyLockersAndNotes, KeptInv, KeptInv', BookedInv, BookedInv',
         [Next]_vars
  PROVE  \/ Receipts' = Receipts /\ Balance' = Balance
         \/ \E t \in Receipts' \ Receipts :
              /\ t \in Ledger!Receipt
              /\ \A s \in Receipts : s.by # t.by
              /\ \E i \in Invoices : t.parts[i] > 0
              /\ Receipts' = Receipts \cup {t}
              /\ Balance' = [i \in Invoices |-> Balance[i] + t.parts[i]]
         \/ \E t \in Receipts :
              /\ Receipts' = Receipts \ {t}
              /\ Balance' = [i \in Invoices |-> Balance[i] - t.parts[i]]
<1>1. CASE ~ \E r \in Requests : CommitReceipt(r) \/ CommitReversal(r)
  <2>1. rows' = rows /\ \A i \in Invoices : invoice'[i].paid = invoice[i].paid
    BY <1>1, PaidStays DEF KeptInv, IInv
  <2>2. Receipts' = Receipts
    BY <2>1 DEF Receipts, Posters, Parts, RowsOf
  <2>3. Balance' = Balance
    BY <2>1 DEF Balance
  <2> QED
    BY <2>2, <2>3
<1> QED
  BY <1>1, CommitReceiptIsPost, CommitReversalIsReverse

LEMMA KeptInvariance == Spec => []KeptInv
<1>1. IInv /\ ShapeInv /\ RowsInv /\ AmountsAsked => KeptInv
  BY DEF KeptInv
<1> QED
  BY <1>1, Invariance, ShapeInvariance, RowsInvariance, AmountsAskedInvariance, PTL

LEMMA BookedInvariance ==
  ASSUME ReversalsApart, OnlyLockersAndNotes PROVE Spec => []BookedInv
<1>1. ASSUME Init PROVE BookedInv
  <2>1. rows = {} /\ \A i \in Invoices : RowsOn(i) = {} /\ invoice[i].paid = 0
    BY <1>1 DEF Init, RowsOn
  <2>2. PaidIsBooked /\ FiniteRows
    BY <2>1, SumEmpty, FS_EmptySet DEF PaidIsBooked, FiniteRows
  <2>3. OneRowEach /\ NonePending
    BY <2>1 DEF OneRowEach, NonePending
  <2>4. ReversalsStand /\ ReversalsDiffer
    BY <1>1 DEF Init, ReversalsStand, ReversalsDiffer, In, NoJob, JobOf
  <2> QED
    BY <2>2, <2>3, <2>4 DEF BookedInv
<1>2. KeptInv /\ BookedInv /\ [Next]_vars => BookedInv'
  BY BookedInductive
<1> QED
  BY <1>1, <1>2, KeptInvariance, PTL DEF Spec

\* Receipts, reversals and notes implement the ledger of whole receipts: however many of
\* them overlap and wherever they crash, a receipt is posted in one step to each invoice it
\* names, is taken back whole, and nothing else moves what an invoice shows as paid.  Desk
\* and gateway payments, edits and deletes of an invoice are not offered, since each writes
\* what it worked out from a row it read unlocked; and no reversal reads rows another is to
\* delete, since the second takes them off once more.
THEOREM LedgerIsImplemented ==
  ASSUME ReversalsApart, OnlyLockersAndNotes PROVE Spec => ImplementsLedger
<1> DEFINE Agree == StandingReceipts = Receipts
<1>1. KeptInv /\ BookedInv => Agree
  BY StandingAreReceipts DEF KeptInv, IInv, BookedInv
<1>2. ASSUME Init PROVE Ledger!LedgerInit
  <2>1. rows = {} /\ \A i \in Invoices : invoice[i].paid = 0
    BY <1>2 DEF Init
  <2>2. StandingReceipts = {}
    BY <2>1 DEF StandingReceipts, Posted
  <2> QED
    BY <2>1, <2>2 DEF Ledger!LedgerInit
<1>3. ASSUME KeptInv, KeptInv', BookedInv, BookedInv', StandingReceipts = Receipts,
             StandingReceipts' = Receipts', [Next]_vars
      PROVE  [Ledger!LedgerNext]_(Ledger!ledgerVars)
  <2>1. CASE Receipts' = Receipts /\ Balance' = Balance
    BY <1>3, <2>1 DEF Ledger!ledgerVars, Balance
  <2>2. ASSUME NEW t \in Receipts' \ Receipts,
               t \in Ledger!Receipt, \A s \in Receipts : s.by # t.by,
               \E i \in Invoices : t.parts[i] > 0,
               Receipts' = Receipts \cup {t},
               Balance' = [i \in Invoices |-> Balance[i] + t.parts[i]]
        PROVE  Ledger!LedgerNext
    <3>1. Ledger!Post(t)
      BY <1>3, <2>2 DEF Ledger!Post, Balance
    <3> QED
      BY <1>3, <2>2, <3>1 DEF Ledger!LedgerNext
  <2>3. ASSUME NEW t \in Receipts, Receipts' = Receipts \ {t},
               Balance' = [i \in Invoices |-> Balance[i] - t.parts[i]]
        PROVE  Ledger!LedgerNext
    <3>1. Ledger!Reverse(t)
      BY <1>3, <2>3 DEF Ledger!Reverse, Balance
    <3> QED
      BY <1>3, <2>3, <3>1 DEF Ledger!LedgerNext
  <2> QED
    BY <1>3, <2>1, <2>2, <2>3, StepsAreLedgerSteps
<1>4. /\ KeptInv /\ KeptInv' /\ BookedInv /\ BookedInv' /\ [Next]_vars
      /\ Agree /\ Agree'
      => [Ledger!LedgerNext]_(Ledger!ledgerVars)
  BY <1>3
<1> HIDE DEF Agree
<1> QED
  BY <1>1, <1>2, <1>4, KeptInvariance, BookedInvariance, PTL
     DEF Spec, ImplementsLedger, Ledger!LedgerSpec
=============================================================================
